------------------------------ MODULE MCCsvImport ------------------------------
(* Instances of CsvImport for TLC.                                         *)
EXTENDS CsvImport

CONSTANTS ada, bob, w1, w2

Symmetry == Permutations(Workers)

Good(n) == [name |-> n, defect |-> "none"]
Bad(n, defect) == [name |-> n, defect |-> defect]

(* Two full chunks and a last one that is not; duplicates within a chunk,  *)
(* across chunks and with the table; a row refused between two others, one *)
(* with a column too few, one that only the database refuses.              *)
TrickyFiles ==
    {<<Good(ada), Good(bob), Good(ada), Good(ada), Good(bob)>>,
     <<Good(ada), Bad(bob, "invalid"), Good(bob), Bad(ada, "encoding"), Good(bob)>>,
     <<Bad(ada, "encoding"), Bad(bob, "columns"), Bad(ada, "invalid"), Good(ada)>>}

EmptyOrTricky == TrickyFiles \cup {<< >>}

AllHeaders == {"ok", "malformed_file", "missing_required_columns"}
=============================================================================
