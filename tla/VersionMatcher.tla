--------------------------- MODULE VersionMatcher ---------------------------
(***************************************************************************)
(* app/resolution/version_matcher.py: whether a CVE affects an installed   *)
(* version.  Pure functions; the case variable holds one set of arguments. *)
(*                                                                         *)
(* A version string is given by what the parser tells apart: a text that   *)
(* means "unknown", or parts.  A part is a number, the shape of what       *)
(* follows it ("-" and a letter, a letter, nothing, or anything else, in   *)
(* which case the number means nothing), and the rank of that text in the  *)
(* order of strings.  A part that is a number alone may be negative: int() *)
(* reads "-5".  Vendor and product slugs are model values with the         *)
(* relation Within (is a substring of).                                    *)
(***************************************************************************)
EXTENDS Integers, Sequences, FiniteSets

CONSTANTS
    Part,       \* parts of a version
    Depth,      \* how many parts a version has at most
    Slug,       \* normalised names
    NoSlug,     \* the empty one
    Within,     \* which slug is a substring of which
    Entry, Product, Installed,  \* the CPE entries, products and installed
                                \* versions the verdicts are asked for
    Boundary                    \* the versions that bound a range there

ASSUME MatcherAssumption ==
    /\ Part \subseteq [num : Int, rest : {"", "-letter", "letter", "other"}, rank : Nat]
    /\ \A p \in Part : p.rest \in {"-letter", "letter"} => p.num >= 0
    /\ Depth \in Nat \ {0}
    /\ NoSlug \in Slug /\ Within \subseteq Slug \X Slug
    /\ \A s \in Slug : {<<s, s>>, <<NoSlug, s>>} \subseteq Within

-----------------------------------------------------------------------------
Unknown == {"*", "-", "n/a"}
Absent == [text |-> "", parts |-> <<>>]
Wild(text) == [text |-> text, parts |-> <<>>]
Version(parts) == [text |-> "version", parts |-> parts]
Versions == UNION {{Version(p) : p \in [1..n -> Part]} : n \in 1..Depth}

ASSUME VersionAssumption ==
    /\ Boundary \subseteq Versions
    /\ Installed \subseteq Versions \cup {Absent} \cup {Wild(text) : text \in Unknown}

\* _parse_component: "3-rc1" sorts below 3 and "2k" above 2; what has neither
\* form nor is a number is a pre-release of 0.
ParseComponent(p) ==
    CASE p.rest = "-letter" -> [n |-> p.num, type |-> 0, text |-> p.rank]
      [] p.rest = "letter" -> [n |-> p.num, type |-> 2, text |-> p.rank]
      [] p.rest = "" -> [n |-> p.num, type |-> 1, text |-> 0]
      [] p.rest = "other" -> [n |-> 0, type |-> 0, text |-> p.rank]

Zero == [n |-> 0, type |-> 1, text |-> 0]

\* _parse_version: None for the texts that mean "unknown".
IsUnknown(v) == v.text # "version"

Sign(x, y) == IF x = y THEN 0 ELSE IF x > y THEN 1 ELSE -1

CompareComponents(ca, cb) ==
    IF ca.n # cb.n THEN Sign(ca.n, cb.n) ELSE
    IF ca.type # cb.type THEN Sign(ca.type, cb.type)
    ELSE Sign(ca.text, cb.text)

\* Component i, zero beyond the end.
Component(v, i) == IF i <= Len(v.parts) THEN ParseComponent(v.parts[i]) ELSE Zero

\* Mutant: only the parts both have are compared.
CompareShorter(a, b) ==
    IF IsUnknown(a) \/ IsUnknown(b) THEN 0 ELSE
    LET len == IF Len(a.parts) < Len(b.parts) THEN Len(a.parts) ELSE Len(b.parts)
        cmp == [i \in 1..len |-> CompareComponents(Component(a, i), Component(b, i))]
        diff == {i \in 1..len : cmp[i] # 0}
    IN  IF diff = {} THEN 0 ELSE cmp[CHOOSE i \in diff : \A j \in diff : i <= j]

compare_versions(a, b) ==
    IF IsUnknown(a) \/ IsUnknown(b) THEN 0 ELSE
    LET len == IF Len(a.parts) > Len(b.parts) THEN Len(a.parts) ELSE Len(b.parts)
        cmp == [i \in 1..len |-> CompareComponents(Component(a, i), Component(b, i))]
        diff == {i \in 1..len : cmp[i] # 0}
    IN  IF diff = {} THEN 0 ELSE cmp[CHOOSE i \in diff : \A j \in diff : i <= j]

-----------------------------------------------------------------------------
\* A CPE entry: its vendor and product (or none, when the name is malformed),
\* the version field of its name and the four bounds, each of which may be
\* absent.
Given(v) == v # Absent

\* Mutant: an excluded start only keeps out the version it names.
InBoundsNotStart(v, e) ==
    /\ Given(e.startInc) => compare_versions(v, e.startInc) >= 0
    /\ Given(e.startExc) => compare_versions(v, e.startExc) # 0
    /\ Given(e.endInc) => compare_versions(v, e.endInc) <= 0
    /\ Given(e.endExc) => compare_versions(v, e.endExc) < 0

InBounds(v, e) ==
    /\ Given(e.startInc) => compare_versions(v, e.startInc) >= 0
    /\ Given(e.startExc) => compare_versions(v, e.startExc) > 0
    /\ Given(e.endInc) => compare_versions(v, e.endInc) <= 0
    /\ Given(e.endExc) => compare_versions(v, e.endExc) < 0

is_version_in_range(v, e) ==
    \/ ~Given(v) \/ v.text = "*"
    \/ /\ \E b \in {e.startInc, e.startExc, e.endInc, e.endExc} : Given(b)
       /\ InBounds(v, e)
    \/ /\ \A b \in {e.startInc, e.startExc, e.endInc, e.endExc} : ~Given(b)
       /\ \/ ~Given(e.exact) \/ e.exact.text \in {"*", "-"}
          \/ compare_versions(v, e.exact) = 0

Overlap(a, b) == <<a, b>> \in Within \/ <<b, a>> \in Within

\* A product with a full CPE is compared by it, any other by its slugs.
MatchesCpe(product, e) ==
    /\ e.named
    /\ IF product.cpe
       THEN product.vendor = e.vendor /\ product.name = e.product
       ELSE /\ Overlap(product.name, e.product)
            /\ product.vendor # NoSlug => Overlap(product.vendor, e.vendor)

\* Mutant: the loop ends at the first entry that names the product.
AffectingFirst(product, v, entries) ==
    LET named == {i \in DOMAIN entries : MatchesCpe(product, entries[i])} IN
    IF named = {} THEN [affected |-> TRUE, certain |-> FALSE]
    ELSE LET first == CHOOSE i \in named : \A j \in named : i <= j IN
         [affected |-> is_version_in_range(v, entries[first]), certain |-> TRUE]

is_cve_affecting_product(product, v, entries) ==
    LET named == {i \in DOMAIN entries : MatchesCpe(product, entries[i])} IN
    IF named = {} THEN [affected |-> TRUE, certain |-> FALSE]
    ELSE [affected |-> \E i \in named : is_version_in_range(v, entries[i]), certain |-> TRUE]

-----------------------------------------------------------------------------
VARIABLE case

\* The arguments the runs go through.
Bound == {Absent, Wild("*")} \cup {Version(p) : p \in [1..1 -> Part]}
Ranges == [startInc : Bound, startExc : {Absent}, endInc : {Absent}, endExc : Bound, exact : {Absent}]
    \cup [startInc : {Absent}, startExc : Bound, endInc : Bound, endExc : {Absent}, exact : {Absent}]
    \cup [startInc : {Absent}, startExc : {Absent}, endInc : {Absent}, endExc : {Absent}, exact : Bound]

NoCase == [kind |-> "none"]
MatcherInit == case = NoCase

CompareCase ==
    /\ case = NoCase
    /\ \E a, b, c \in Versions : case' = [kind |-> "compare", a |-> a, b |-> b, c |-> c]

VerdictCase ==
    /\ case = NoCase
    /\ \E p \in Product, v \in Installed, e, f \in Entry, from, split, again, to \in Boundary :
        case' = [kind |-> "verdict", product |-> p, version |-> v, e |-> e, f |-> f,
                 from |-> from, split |-> split, again |-> again, to |-> to]

MatcherSpec == MatcherInit /\ [][CompareCase \/ VerdictCase]_case

-----------------------------------------------------------------------------
\* compare_versions orders the known versions: it is antisymmetric and
\* transitive, with missing parts, pre-releases and patch letters mixed.
CompareIsAnOrder ==
    case.kind = "compare" =>
        /\ compare_versions(case.a, case.b) = -compare_versions(case.b, case.a)
        /\ compare_versions(case.a, case.b) <= 0 /\ compare_versions(case.b, case.c) <= 0
           => compare_versions(case.a, case.c) <= 0

\* What a range covers is an interval: a version between two affected ones is
\* affected, whichever bounds the entry gives and whether or not they are known.
RangeIsAnInterval ==
    case.kind = "compare" /\ compare_versions(case.a, case.b) <= 0
                          /\ compare_versions(case.b, case.c) <= 0 =>
        \A r \in Ranges :
            is_version_in_range(case.a, r) /\ is_version_in_range(case.c, r)
            => is_version_in_range(case.b, r)

\* An entry with the name of f for the versions from one up to another, which
\* is fixed.
Ranged(f, from, to) ==
    [startInc |-> from, startExc |-> Absent, endInc |-> Absent, endExc |-> to,
     exact |-> Absent, named |-> f.named, vendor |-> f.vendor, product |-> f.product]

\* How NVD cuts a range does not matter: two entries that meet at a version, as
\* for releases that were fixed one after the other, give the verdict the whole
\* range gives, though they spell the version they meet at differently ("2" and
\* "2.0"), another entry stands between them, and the installed version is not
\* known.  No version falls between the two, and nothing outside gets in.
SplitRangeIsWhole ==
    case.kind = "verdict" /\ compare_versions(case.from, case.split) <= 0
                          /\ compare_versions(case.split, case.again) = 0
                          /\ compare_versions(case.again, case.to) <= 0 =>
        is_cve_affecting_product(case.product, case.version,
            <<Ranged(case.f, case.from, case.split), case.e, Ranged(case.f, case.again, case.to)>>)
        = is_cve_affecting_product(case.product, case.version,
            <<case.e, Ranged(case.f, case.from, case.to)>>)
=============================================================================
