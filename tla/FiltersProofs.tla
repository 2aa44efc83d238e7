----------------------------- MODULE FiltersProofs -----------------------------
(* What the canonical form, the cache key and the parser of searches keep  *)
(* of a question, for every filter, row, country and search.               *)
EXTENDS Filters, TLAPS

-----------------------------------------------------------------------------
(* The canonical form                                                      *)

LEMMA CanonicalWords ==
    ASSUME NEW raw
    PROVE  /\ normalizeGender(raw) \in Genders \cup {Empty}
           /\ normalizeAgeGroup(raw) \in AgeGroups \cup {Empty}
           /\ normalizeGender(normalizeGender(raw)) = normalizeGender(raw)
           /\ normalizeAgeGroup(normalizeAgeGroup(raw)) = normalizeAgeGroup(raw)
           /\ sortColumn(raw) \in SortColumns
           /\ sortColumn(sortColumn(raw)) = sortColumn(raw)
<1>1. normalizeGender(raw) \in Genders \cup {Empty}
  BY DEF normalizeGender, Genders, MaleWords, FemaleWords, Empty
<1>2. normalizeAgeGroup(raw) \in AgeGroups \cup {Empty}
  BY DEF normalizeAgeGroup, AgeGroups, ChildWords, TeenagerWords, AdultWords, SeniorWords,
     Empty
<1>3. sortColumn(raw) \in SortColumns
  BY DEF sortColumn, SortColumns
<1>4. \A g \in Genders \cup {Empty} : normalizeGender(g) = g
  BY DEF normalizeGender, Genders, MaleWords, FemaleWords, Empty
<1>5. \A g \in AgeGroups \cup {Empty} : normalizeAgeGroup(g) = g
  BY DEF normalizeAgeGroup, AgeGroups, ChildWords, TeenagerWords, AdultWords, SeniorWords,
     Empty
<1>6. \A c \in SortColumns : sortColumn(c) = c
  BY DEF sortColumn
<1> QED
  BY <1>1, <1>2, <1>3, <1>4, <1>5, <1>6

(* A group has bounds; at least one of them is set.                        *)
LEMMA GroupBounds ==
    ASSUME NEW group \in AgeGroups
    PROVE  /\ Bound(ageRangeFromGroup[group].min) \in Nat \cup {None}
           /\ Bound(ageRangeFromGroup[group].max) \in Nat \cup {None}
           /\ \/ Bound(ageRangeFromGroup[group].min) # None
              \/ Bound(ageRangeFromGroup[group].max) # None
<1>1. ageRangeFromGroup["child"].min = 0 /\ ageRangeFromGroup["child"].max = 12
  BY DEF ageRangeFromGroup
<1>2. ageRangeFromGroup["teenager"].min = 13 /\ ageRangeFromGroup["teenager"].max = 19
  BY DEF ageRangeFromGroup
<1>3. ageRangeFromGroup["adult"].min = 20 /\ ageRangeFromGroup["adult"].max = 59
  BY DEF ageRangeFromGroup
<1>4. ageRangeFromGroup["senior"].min = 60 /\ ageRangeFromGroup["senior"].max = 0
  BY DEF ageRangeFromGroup
<1>5. group \in {"child", "teenager", "adult", "senior"}
  BY DEF AgeGroups
<1>6. \A n \in Nat \ {0} : n # None
  BY FiltersAssumption
<1> QED
  BY <1>1, <1>2, <1>3, <1>4, <1>5, <1>6 DEF Bound

(* The fields of the canonical form.                                       *)
LEMMA NormalFields ==
    ASSUME NEW f \in Filter
    PROVE  LET n == NormalizeFilters(f)
               group == normalizeAgeGroup(f.group)
               derive == group # Empty /\ f.minAge = None /\ f.maxAge = None
           IN  /\ n \in Filter
               /\ n.gender = normalizeGender(f.gender) /\ n.group = group
               /\ n.country = f.country /\ n.gp = f.gp /\ n.cp = f.cp
               /\ n.minAge = IF derive THEN Bound(ageRangeFromGroup[group].min) ELSE f.minAge
               /\ n.maxAge = IF derive THEN Bound(ageRangeFromGroup[group].max) ELSE f.maxAge
               /\ n.sort = sortColumn(f.sort)
               /\ n.order = IF f.order \in {"asc", "ascending"} THEN "asc" ELSE "desc"
<1> DEFINE n == NormalizeFilters(f)
           group == normalizeAgeGroup(f.group)
           derive == group # Empty /\ f.minAge = None /\ f.maxAge = None
           lo == IF derive THEN Bound(ageRangeFromGroup[group].min) ELSE f.minAge
           hi == IF derive THEN Bound(ageRangeFromGroup[group].max) ELSE f.maxAge
           order == IF f.order \in {"asc", "ascending"} THEN "asc" ELSE "desc"
<1>1. order \in {"asc", "desc"}
  OBVIOUS
<1>2. group # Empty => group \in AgeGroups
  BY CanonicalWords
<1>3. lo \in Int \cup {None} /\ hi \in Int \cup {None}
  BY <1>2, GroupBounds DEF Filter
<1>4. n = [f EXCEPT !.gender = normalizeGender(f.gender), !.group = group,
                    !.minAge = lo, !.maxAge = hi, !.sort = sortColumn(f.sort), !.order = order]
  BY DEF NormalizeFilters, Filter
<1> HIDE DEF n, group, lo, hi, order
<1>5. /\ n \in Filter
      /\ n.gender = normalizeGender(f.gender) /\ n.group = group
      /\ n.country = f.country /\ n.gp = f.gp /\ n.cp = f.cp
      /\ n.minAge = lo /\ n.maxAge = hi /\ n.sort = sortColumn(f.sort) /\ n.order = order
  BY <1>1, <1>3, <1>4, CanonicalWords DEF Filter, Genders, AgeGroups, group, MaleWords,
     FemaleWords, ChildWords, TeenagerWords, AdultWords, SeniorWords
<1> QED
  BY <1>5 DEF n, group, lo, hi, order

(* Two filters in Filter with the same fields are the same.                *)
LEMMA SameFilter ==
    ASSUME NEW f \in Filter, NEW g \in Filter,
           f.gender = g.gender, f.group = g.group, f.country = g.country,
           f.minAge = g.minAge, f.maxAge = g.maxAge, f.gp = g.gp, f.cp = g.cp,
           f.sort = g.sort, f.order = g.order
    PROVE  f = g
<1>1. \A h \in Filter :
        h = [gender |-> h.gender, group |-> h.group, country |-> h.country,
             minAge |-> h.minAge, maxAge |-> h.maxAge, gp |-> h.gp, cp |-> h.cp,
             sort |-> h.sort, order |-> h.order]
  BY DEF Filter
<1> QED
  BY <1>1, Zenon

(* normalizer.go: the handler normalises a filter and NormalizedCacheKey   *)
(* does so again; the canonical form of a canonical form is itself.        *)
THEOREM Idempotent ==
    ASSUME NEW f \in Filter
    PROVE  NormalizeFilters(NormalizeFilters(f)) = NormalizeFilters(f)
<1> DEFINE n == NormalizeFilters(f)
           m == NormalizeFilters(n)
           group == normalizeAgeGroup(f.group)
<1>1. /\ n \in Filter
      /\ n.gender = normalizeGender(f.gender) /\ n.group = group
      /\ n.minAge = IF group # Empty /\ f.minAge = None /\ f.maxAge = None
                    THEN Bound(ageRangeFromGroup[group].min) ELSE f.minAge
      /\ n.maxAge = IF group # Empty /\ f.minAge = None /\ f.maxAge = None
                    THEN Bound(ageRangeFromGroup[group].max) ELSE f.maxAge
      /\ n.sort = sortColumn(f.sort)
      /\ n.order \in {"asc", "desc"}
  BY NormalFields
<1>2. ~(normalizeAgeGroup(n.group) # Empty /\ n.minAge = None /\ n.maxAge = None)
  <2>1. group # Empty => group \in AgeGroups
    BY CanonicalWords
  <2>2. normalizeAgeGroup(n.group) = group
    BY <1>1, CanonicalWords
  <2> HIDE DEF group, n
  <2> QED
    BY <1>1, <2>1, <2>2, GroupBounds
<1>3. /\ m \in Filter
      /\ m.gender = normalizeGender(n.gender) /\ m.group = normalizeAgeGroup(n.group)
      /\ m.country = n.country /\ m.gp = n.gp /\ m.cp = n.cp
      /\ m.minAge = n.minAge /\ m.maxAge = n.maxAge
      /\ m.sort = sortColumn(n.sort)
      /\ m.order = IF n.order \in {"asc", "ascending"} THEN "asc" ELSE "desc"
  BY <1>1, <1>2, NormalFields
<1>4. m.gender = n.gender /\ m.group = n.group /\ m.sort = n.sort
  BY <1>1, <1>3, CanonicalWords
<1>5. m.order = n.order
  BY <1>1, <1>3
<1> HIDE DEF m, n
<1> QED
  BY <1>1, <1>3, <1>4, <1>5, SameFilter DEF m, n

(* The ages that a group stands for are those that ageGroup puts into it.  *)
LEMMA GroupAges ==
    ASSUME NEW group \in AgeGroups, NEW age \in Nat, group = ageGroup(age)
    PROVE  LET lo == Bound(ageRangeFromGroup[group].min)
               hi == Bound(ageRangeFromGroup[group].max)
           IN  (lo # None => age >= lo) /\ (hi # None => age <= hi)
<1>1. ageRangeFromGroup["child"].min = 0 /\ ageRangeFromGroup["child"].max = 12
  BY DEF ageRangeFromGroup
<1>2. ageRangeFromGroup["teenager"].min = 13 /\ ageRangeFromGroup["teenager"].max = 19
  BY DEF ageRangeFromGroup
<1>3. ageRangeFromGroup["adult"].min = 20 /\ ageRangeFromGroup["adult"].max = 59
  BY DEF ageRangeFromGroup
<1>4. ageRangeFromGroup["senior"].min = 60 /\ ageRangeFromGroup["senior"].max = 0
  BY DEF ageRangeFromGroup
<1>5. CASE age <= 12
  BY <1>1, <1>5 DEF ageGroup, Bound
<1>6. CASE age \in 13..19
  BY <1>2, <1>6 DEF ageGroup, Bound
<1>7. CASE age \in 20..59
  BY <1>3, <1>7 DEF ageGroup, Bound
<1>8. CASE age >= 60
  BY <1>4, <1>8 DEF ageGroup, Bound
<1> QED
  BY <1>5, <1>6, <1>7, <1>8

(* normalizer.go: the bounds that NormalizeFilters adds to a group select  *)
(* the same rows as the group alone, among rows whose group is that of     *)
(* their age: the canonical form of a question is the same question, its   *)
(* words apart.                                                            *)
THEOREM CanonicalFormSelectsTheSame ==
    ASSUME NEW f \in Filter, NEW row \in Row, row.group = ageGroup(row.age),
           f.gender \in Genders \cup {Empty}, f.group \in AgeGroups \cup {Empty}
    PROVE  Where(NormalizeFilters(f), row) <=> Where(f, row)
<1> DEFINE n == NormalizeFilters(f)
           derive == f.group # Empty /\ f.minAge = None /\ f.maxAge = None
           lo == Bound(ageRangeFromGroup[f.group].min)
           hi == Bound(ageRangeFromGroup[f.group].max)
<1>1. normalizeGender(f.gender) = f.gender /\ normalizeAgeGroup(f.group) = f.group
  BY DEF normalizeGender, normalizeAgeGroup, Genders, AgeGroups, MaleWords, FemaleWords,
         ChildWords, TeenagerWords, AdultWords, SeniorWords, Empty
<1>2. /\ n.gender = f.gender /\ n.group = f.group /\ n.country = f.country
      /\ n.gp = f.gp /\ n.cp = f.cp
      /\ n.minAge = IF derive THEN lo ELSE f.minAge
      /\ n.maxAge = IF derive THEN hi ELSE f.maxAge
  BY <1>1, NormalFields
<1>3. CASE ~derive
  BY <1>2, <1>3 DEF Where
<1>4. CASE derive /\ row.group # f.group
  BY <1>2, <1>4 DEF Where
<1>5. CASE derive /\ row.group = f.group
  <2>1. f.group \in AgeGroups /\ row.age \in Nat
    BY <1>5 DEF Row
  <2>2. (lo # None => row.age >= lo) /\ (hi # None => row.age <= hi)
    BY <1>5, <2>1, GroupAges
  <2> HIDE DEF lo, hi, n
  <2>3. Where(n, row) <=> Where(f, row)
    BY <1>2, <1>5, <2>2 DEF Where
  <2> QED
    BY <2>3 DEF n
<1> QED
  BY <1>3, <1>4, <1>5

LEMMA WithoutThresholds ==
    ASSUME NEW f \in Filter
    PROVE  LET f0 == [f EXCEPT !.gp = None, !.cp = None]
           IN  /\ f0 \in Filter
               /\ f0.gender = f.gender /\ f0.country = f.country /\ f0.group = f.group
               /\ f0.sort = f.sort /\ f0.order = f.order /\ f0.minAge = f.minAge
               /\ f0.maxAge = f.maxAge /\ f0.gp = None /\ f0.cp = None
BY DEF Filter

(* normalizer.go: two questions in canonical form that share a key are for *)
(* the same page, and differ at most in the two thresholds.                *)
THEOREM KeysTellApart ==
    ASSUME NEW f \in Filter, NEW g \in Filter,
           NormalizeFilters(f) = f, NormalizeFilters(g) = g,
           NEW p, NEW l, NEW p2, NEW l2,
           NormalizedCacheKey(f, p, l) = NormalizedCacheKey(g, p2, l2)
    PROVE  p = p2 /\ l = l2 /\ AlmostSame(f, g)
<1> DEFINE k(h, x, y) ==
        [gender |-> h.gender, country |-> h.country, group |-> h.group,
         sort |-> h.sort, order |-> h.order, minAge |-> h.minAge, maxAge |-> h.maxAge,
         gp |-> Rounded(h.gp), page |-> x, limit |-> y]
<1>1. k(f, p, l) = k(g, p2, l2)
  BY DEF NormalizedCacheKey
<1>2. /\ p = p2 /\ l = l2 /\ Rounded(f.gp) = Rounded(g.gp)
      /\ f.gender = g.gender /\ f.country = g.country /\ f.group = g.group
      /\ f.sort = g.sort /\ f.order = g.order /\ f.minAge = g.minAge /\ f.maxAge = g.maxAge
  BY <1>1
<1> DEFINE f0 == [f EXCEPT !.gp = None, !.cp = None]
           g0 == [g EXCEPT !.gp = None, !.cp = None]
<1>3. /\ f0 \in Filter /\ g0 \in Filter
      /\ f0.gender = f.gender /\ f0.country = f.country /\ f0.group = f.group
      /\ f0.sort = f.sort /\ f0.order = f.order /\ f0.minAge = f.minAge
      /\ f0.maxAge = f.maxAge /\ f0.gp = None /\ f0.cp = None
      /\ g0.gender = g.gender /\ g0.country = g.country /\ g0.group = g.group
      /\ g0.sort = g.sort /\ g0.order = g.order /\ g0.minAge = g.minAge
      /\ g0.maxAge = g.maxAge /\ g0.gp = None /\ g0.cp = None
  BY WithoutThresholds
<1> HIDE DEF f0, g0
<1>4. f0 = g0
  BY <1>2, <1>3, SameFilter
<1>5. AlmostSame(f, g)
  BY <1>2, <1>4, Zenon DEF f0, g0, AlmostSame
<1> QED
  BY <1>2, <1>5

-----------------------------------------------------------------------------
(* The parser                                                              *)

LEMMA LastGivenIsGiven ==
    ASSUME NEW S, NEW n \in {5, 8}, NEW rules, DOMAIN rules = 1..n,
           \A i \in 1..n : rules[i] \in S \cup {None}
    PROVE  LastGiven(rules) \in S \cup {None}
<1> DEFINE given == {i \in DOMAIN rules : rules[i] # None}
           last(i) == i \in given /\ \A j \in given : j <= i
<1>1. CASE given = {}
  BY <1>1 DEF LastGiven
<1>2. CASE given # {}
  <2>1. given \subseteq 1..8
    OBVIOUS
  <2>2. \E i \in given : \A j \in given : j <= i
    <3>1. CASE 8 \in given
      BY <2>1, <3>1
    <3>2. CASE 8 \notin given /\ 7 \in given
      BY <2>1, <3>2
    <3>3. CASE given \subseteq 1..6 /\ 6 \in given
      BY <3>3
    <3>4. CASE given \subseteq 1..5 /\ 5 \in given
      BY <3>4
    <3>5. CASE given \subseteq 1..4 /\ 4 \in given
      BY <3>5
    <3>6. CASE given \subseteq 1..3 /\ 3 \in given
      BY <3>6
    <3>7. CASE given \subseteq 1..2
      BY <1>2, <3>7
    <3> HIDE DEF given
    <3> QED
      BY <2>1, <3>1, <3>2, <3>3, <3>4, <3>5, <3>6, <3>7
  <2>3. PICK k \in given : k = CHOOSE i \in given : \A j \in given : j <= i
    BY <2>2
  <2> QED
    BY <1>2, <2>3 DEF LastGiven
<1> QED
  BY <1>1, <1>2

LEMMA RulesTyped ==
    ASSUME NEW q \in Search
    PROVE  /\ \A word, value : Word(q, word, value) \in {value, None}
           /\ Positive(q.above) \in Nat \cup {None} /\ Positive(q.under) \in Nat \cup {None}
           /\ q.plus \in Nat \cup {None}
           /\ \A i \in {1, 2} : End(q.between, i) \in Nat \cup {None}
                                /\ End(q.to, i) \in Nat \cup {None}
<1>1. \A range \in (Nat \X Nat) \cup {None}, i \in {1, 2} : End(range, i) \in Nat \cup {None}
  BY DEF End
<1>2. \A n \in Nat \cup {None} : Positive(n) \in Nat \cup {None}
  BY DEF Positive, Bound
<1> QED
  BY <1>1, <1>2 DEF Search, Word

LEMMA BoundsTyped ==
    ASSUME NEW q \in Search
    PROVE  ParsedMin(q) \in Int \cup {None} /\ ParsedMax(q) \in Int \cup {None}
<1> DEFINE mins == <<Word(q, "teenager", 13), Word(q, "adult", 18),
                     Word(q, "senior", 60), Word(q, "young", 16),
                     Positive(q.above), q.plus, End(q.between, 1), End(q.to, 1)>>
           maxs == <<Word(q, "teenager", 19), Word(q, "young", 24),
                     Positive(q.under), End(q.between, 2), End(q.to, 2)>>
<1>1. DOMAIN mins = 1..8 /\ DOMAIN maxs = 1..5
  OBVIOUS
<1>2. \A i \in 1..8 : mins[i] \in Nat \cup {None}
  <2>1. mins[1] = Word(q, "teenager", 13) /\ mins[2] = Word(q, "adult", 18)
        /\ mins[3] = Word(q, "senior", 60) /\ mins[4] = Word(q, "young", 16)
        /\ mins[5] = Positive(q.above) /\ mins[6] = q.plus
        /\ mins[7] = End(q.between, 1) /\ mins[8] = End(q.to, 1)
    OBVIOUS
  <2> HIDE DEF mins
  <2> QED
    BY <2>1, RulesTyped
<1>3. \A i \in 1..5 : maxs[i] \in Nat \cup {None}
  <2>1. maxs[1] = Word(q, "teenager", 19) /\ maxs[2] = Word(q, "young", 24)
        /\ maxs[3] = Positive(q.under)
        /\ maxs[4] = End(q.between, 2) /\ maxs[5] = End(q.to, 2)
    OBVIOUS
  <2> HIDE DEF maxs
  <2> QED
    BY <2>1, RulesTyped
<1> HIDE DEF mins, maxs
<1>4. LastGiven(mins) \in Nat \cup {None} /\ LastGiven(maxs) \in Nat \cup {None}
  BY <1>1, <1>2, <1>3, LastGivenIsGiven
<1> QED
  BY <1>4 DEF ParsedMin, ParsedMax, mins, maxs

LEMMA ParsedTyped ==
    ASSUME NEW q \in Search
    PROVE  ParseNaturalLanguage(q) \subseteq Filter
<1>1. ParsedGender(q) \in {"male", "female", Empty}
  BY DEF ParsedGender
<1>2. ParsedGroup(q) \in {"senior", "adult", "teenager", Empty}
  BY DEF ParsedGroup
<1>3. ASSUME NEW c \in Countries \cup {Empty}
      PROVE  [gender |-> ParsedGender(q), group |-> ParsedGroup(q), country |-> c,
              minAge |-> ParsedMin(q), maxAge |-> ParsedMax(q),
              gp |-> None, cp |-> None, sort |-> Empty, order |-> Empty] \in Filter
  <2>1. /\ ParsedGender(q) \in MaleWords \cup FemaleWords \cup {Empty, Other}
        /\ ParsedGroup(q) \in ChildWords \cup TeenagerWords \cup AdultWords
                                 \cup SeniorWords \cup {Empty, Other}
    BY <1>1, <1>2 DEF MaleWords, FemaleWords, TeenagerWords, AdultWords, SeniorWords
  <2> QED
    BY <2>1, BoundsTyped DEF Filter
<1>4. q.countries \subseteq Countries
  BY DEF Search
<1> QED
  BY <1>3, <1>4 DEF ParseNaturalLanguage
=============================================================================
