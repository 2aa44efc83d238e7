-------------------------------- MODULE Filters --------------------------------
(* What a query for profiles means: the words of a search and the          *)
(* parameters of a list become filters (internal/service/nlp_parser.go),   *)
(* the filters a canonical form and a cache key (normalizer.go), and those *)
(* a condition of SQL (utils.go).                                          *)
(*                                                                         *)
(* Words are lower case and trimmed here: the code compares them after     *)
(* ToLower and TrimSpace, and the database with ILIKE.  Probabilities are  *)
(* in thousandths.  NaN, which ParseFloat accepts, is greater than every   *)
(* number to PostgreSQL and compares false to Go.                          *)
EXTENDS Integers, Sequences, FiniteSets

Empty == "empty"  \* a text that is not given
Other == "other"  \* one that the code has no word for

CONSTANTS
    Countries,  \* ISO codes
    Beginning,  \* per code, the countries whose names begin with its letters
    None        \* no bound given

ASSUME FiltersAssumption ==
    /\ Beginning \in [Countries -> SUBSET Countries]
    /\ None \notin Int
    /\ Empty \notin Countries

One == 1000
NaN == One + 1
Probability == (0..One) \cup {NaN}

(* Names, like times, are as good as numbers here.  An import may leave    *)
(* gender and country out, and takes any age group.                        *)
Genders == {"male", "female"}
AgeGroups == {"child", "teenager", "adult", "senior"}
Row == [name : Nat, created : Nat, gender : Genders \cup {Empty}, age : Nat,
        group : AgeGroups \cup {Empty, Other}, country : Countries \cup {Empty},
        gp : Probability, cp : Probability]

(* The words that normalizer.go knows, by their canonical form.            *)
MaleWords == {"male", "man", "men", "males"}
FemaleWords == {"female", "woman", "women", "females"}
ChildWords == {"child", "children", "kid", "kids"}
TeenagerWords == {"teen", "teenager", "teenagers", "youth", "young", "adolescent"}
AdultWords == {"adult", "adults", "grown", "grownup"}
SeniorWords == {"senior", "seniors", "elderly", "old", "older"}
SortColumns == {"age", "created_at", "gender_probability", "name"}

(* domain.ProfileFilters: gp and cp are MinGenderProb and MinCountryProb.  *)
Filter == [gender : MaleWords \cup FemaleWords \cup {Empty, Other},
           group : ChildWords \cup TeenagerWords \cup AdultWords \cup SeniorWords
                       \cup {Empty, Other},
           country : Countries \cup {Empty},
           minAge : Int \cup {None}, maxAge : Int \cup {None},
           gp : Int \cup {None}, cp : Int \cup {None},
           sort : SortColumns \cup {Empty, Other},
           order : {"asc", "ascending", "desc", Empty, Other}]
NoFilter == [gender |-> Empty, group |-> Empty, country |-> Empty,
             minAge |-> None, maxAge |-> None, gp |-> None, cp |-> None,
             sort |-> Empty, order |-> Empty]

-----------------------------------------------------------------------------
(* utils.go                                                                *)

ageGroup(age) == CASE age <= 12 -> "child" [] age \in 13..19 -> "teenager"
                   [] age \in 20..59 -> "adult" [] OTHER -> "senior"

(* validateRow compares v < 0 || v > 1, and so does Validate: NaN passes.  *)
ValidProbability(p) == p = NaN \/ p \in 0..One

(* buildFilterQuery.  The parameter country_id is compared with the code,  *)
(* and as a prefix with the name of the country.                           *)
Where(f, row) ==
    /\ f.gender # Empty => row.gender = f.gender
    /\ f.group # Empty => row.group = f.group
    /\ f.country # Empty => row.country \in {f.country} \cup Beginning[f.country]
    /\ f.minAge # None => row.age >= f.minAge
    /\ f.maxAge # None => row.age <= f.maxAge
    /\ f.gp # None => row.gp >= f.gp
    /\ f.cp # None => row.cp >= f.cp

Validate(f) ==
    /\ f.minAge # None /\ f.maxAge # None => f.minAge <= f.maxAge
    /\ f.gp # None => ValidProbability(f.gp)
    /\ f.cp # None => ValidProbability(f.cp)
    /\ f.gender \in Genders \cup {Empty}

-----------------------------------------------------------------------------
(* normalizer.go                                                           *)

normalizeGender(raw) == CASE raw \in MaleWords -> "male"
                          [] raw \in FemaleWords -> "female"
                          [] OTHER -> Empty

normalizeAgeGroup(raw) == CASE raw \in ChildWords -> "child"
                            [] raw \in TeenagerWords -> "teenager"
                            [] raw \in AdultWords -> "adult"
                            [] raw \in SeniorWords -> "senior"
                            [] OTHER -> Empty

(* The ages of each group, zero where NormalizeFilters sets no bound.      *)
ageRangeFromGroup ==
    [child |-> [min |-> 0, max |-> 12], teenager |-> [min |-> 13, max |-> 19],
     adult |-> [min |-> 20, max |-> 59], senior |-> [min |-> 60, max |-> 0]]

sortColumn(raw) == IF raw \in SortColumns THEN raw ELSE "created_at"

Bound(n) == IF n > 0 THEN n ELSE None

NormalizeFilters(f) ==
    LET group == normalizeAgeGroup(f.group)
        derive == group # Empty /\ f.minAge = None /\ f.maxAge = None
    IN  [f EXCEPT !.gender = normalizeGender(f.gender),
                  !.group = group,
                  !.minAge = IF derive THEN Bound(ageRangeFromGroup[group].min) ELSE @,
                  !.maxAge = IF derive THEN Bound(ageRangeFromGroup[group].max) ELSE @,
                  !.sort = sortColumn(f.sort),
                  !.order = IF f.order \in {"asc", "ascending"} THEN "asc" ELSE "desc"]

(* %.2f                                                                    *)
Rounded(p) == IF p = None \/ p = NaN THEN p ELSE (p + 5) \div 10

KeyWithoutMaxAge(f, page, limit) ==
    LET n == NormalizeFilters(f)
    IN  [gender |-> n.gender, country |-> n.country, group |-> n.group,
         sort |-> n.sort, order |-> n.order, minAge |-> n.minAge, maxAge |-> None,
         gp |-> Rounded(n.gp), page |-> page, limit |-> limit]
(* Parts that are absent are left out of the string, which no other part   *)
(* can be mistaken for: the free text among them is in upper case.         *)
NormalizedCacheKey(f, page, limit) ==
    LET n == NormalizeFilters(f)
    IN  [gender |-> n.gender, country |-> n.country, group |-> n.group,
         sort |-> n.sort, order |-> n.order, minAge |-> n.minAge, maxAge |-> n.maxAge,
         gp |-> Rounded(n.gp), page |-> page, limit |-> limit]

(* What a key tells apart: two questions with one key differ at most in    *)
(* min_country_probability, and by less than a hundredth in                *)
(* min_gender_probability.                                                 *)
AlmostSame(f, g) ==
    /\ [f EXCEPT !.gp = None, !.cp = None] = [g EXCEPT !.gp = None, !.cp = None]
    /\ Rounded(f.gp) = Rounded(g.gp)

-----------------------------------------------------------------------------
(* nlp_parser.go                                                           *)

(* A search, by what the regular expressions find in it: key words (in     *)
(* singular or plural), the numbers after above/over, under/below and      *)
(* before a plus, the two ranges, and the names of countries.              *)
Search == [words : SUBSET {"male", "female", "teenager", "adult", "senior", "young"},
           above : Nat \cup {None}, under : Nat \cup {None}, plus : Nat \cup {None},
           between : (Nat \X Nat) \cup {None}, to : (Nat \X Nat) \cup {None},
           countries : SUBSET Countries]

(* The rules run in the order of the sequence, each overwriting the last.  *)
LastGiven(rules) ==
    LET given == {i \in DOMAIN rules : rules[i] # None}
    IN  IF given = {} THEN None
        ELSE rules[CHOOSE i \in given : \A j \in given : j <= i]

Word(q, word, value) == IF word \in q.words THEN value ELSE None
Positive(n) == IF n # None THEN Bound(n) ELSE None
(* Bounds in the wrong order are ignored.                                  *)
End(range, i) == IF range # None THEN IF range[1] <= range[2] THEN range[i] ELSE None ELSE None

ParsedMin(q) == LastGiven(<<Word(q, "teenager", 13), Word(q, "adult", 18),
                            Word(q, "senior", 60), Word(q, "young", 16),
                            Positive(q.above), q.plus, End(q.between, 1), End(q.to, 1)>>)
ParsedMax(q) == LastGiven(<<Word(q, "teenager", 19), Word(q, "young", 24),
                            Positive(q.under), End(q.between, 2), End(q.to, 2)>>)
ParsedGroup(q) == CASE "senior" \in q.words -> "senior" [] "adult" \in q.words -> "adult"
                    [] "teenager" \in q.words -> "teenager" [] OTHER -> Empty
ParsedGender(q) == CASE q.words \cap Genders = {"male"} -> "male"
                     [] q.words \cap Genders = {"female"} -> "female" [] OTHER -> Empty

(* The filters that a search may become.  There may be several, since the  *)
(* loop over the map of countries stops at the first that is named, in the *)
(* order of the map, which Go chooses anew each time; "from X" sets one    *)
(* that the loop finds as well.  None at all: "Unable to interpret query". *)
ParseNaturalLanguage(q) ==
    {[gender |-> ParsedGender(q), group |-> ParsedGroup(q), country |-> c,
      minAge |-> ParsedMin(q), maxAge |-> ParsedMax(q),
      gp |-> None, cp |-> None, sort |-> Empty, order |-> Empty] :
        c \in IF q.countries = {} THEN {Empty} ELSE q.countries} \ {NoFilter}
=============================================================================
