------------------------------- MODULE MCQueries -------------------------------
(* Instances of Queries for TLC.                                           *)
EXTENDS Queries, TLC

(* Australia and Austria both begin with AU.                               *)
CountryNames == [c \in {"AU", "AT"} |-> IF c = "AU" THEN {"AU", "AT"} ELSE {}]

Person(name, gender, age, group, country, gp, cp) ==
    [name |-> name, created |-> name \div 3, gender |-> gender, age |-> age, group |-> group,
     country |-> country, gp |-> gp, cp |-> cp]

(* Rows that were created at the same moment, as those of a seed are.      *)
Seeded == {Person(1, "male", 30, "adult", "AU", 952, 900),
           Person(2, "female", 16, "teenager", "AT", 700, 700),
           Person(3, "male", 18, "teenager", "AT", 957, 300),
           Person(4, "male", 70, "senior", "AU", 990, 600)}

(* Imported: no gender, an age group that is not that of the age, a NaN.   *)
WithImported == {Person(5, Empty, 0, "adult", "AT", NaN, 500)}
                  \cup {row \in Seeded : row.name # 4}

SeededOrImported == {Seeded, WithImported}

List(f, page, limit) == [path |-> "list", ask |-> f, page |-> page, limit |-> limit]
Find(q, page, limit) == [path |-> "search", ask |-> q, page |-> page, limit |-> limit]

ByName == [NoFilter EXCEPT !.sort = "name", !.order = "asc"]
NoWords == [words |-> {}, above |-> None, under |-> None, plus |-> None,
            between |-> None, to |-> None, countries |-> {}]

SomeRequests ==
    {List(ByName, 0, 0),                                           \* two pages of two
     List([ByName EXCEPT !.order = "ascending"], 1, 4),            \* cut to three
     List([ByName EXCEPT !.maxAge = 20], 0, 2),
     List([NoFilter EXCEPT !.group = "young"], 2, 1),
     List([NoFilter EXCEPT !.gender = "males"], 0, 0),             \* refused
     List([NoFilter EXCEPT !.country = "AU"], 0, 0),               \* with ties
     Find([NoWords EXCEPT !.words = {"teenager"}], 0, 1),          \* as age_group=young
     Find([NoWords EXCEPT !.words = {"male", "young"}, !.above = 17], 0, 0),
     Find([NoWords EXCEPT !.words = {"male", "female"}], 0, 0),    \* not understood
     Find([NoWords EXCEPT !.countries = {"AU", "AT"}], 0, 1)}

(* 0.951 and 0.954, on either side of a row with 0.952.                    *)
GenderThresholds == {List([ByName EXCEPT !.gp = p], 0, 2) : p \in {951, 954}}

AllRequests == SomeRequests \cup GenderThresholds
=============================================================================
