----------------------------- MODULE ImportLedger -----------------------------
(* What POST /profiles/import promises (profile_handler.go,                *)
(* ImportProfiles; utils.go, ProcessCSV): a ledger of rows.  Each row is   *)
(* taken up or refused once, a row that was taken up is settled once, as   *)
(* inserted or as skipped, and only until then can it reach the table.     *)
EXTENDS Integers, FiniteSets

CONSTANTS Names

VARIABLES
    name,     \* the name in each row
    heard,    \* an INSERT that commits is always answered
    read,     \* rows taken up or refused
    pending,  \* rows taken up and not settled
    stored,   \* rows that were added to the table
    table,    \* names in the table, to which others write as well
    total,    \* the numbers of the answer
    inserted,
    skipped,
    phase     \* open; rejected for its header; answered

vars == <<name, heard, read, pending, stored, table, total, inserted, skipped, phase>>

Init ==
    /\ read = {} /\ pending = {} /\ stored = {}
    /\ total = 0 /\ inserted = 0 /\ skipped = 0
    /\ phase = "open"

Reject ==
    /\ phase = "open" /\ read = {}
    /\ phase' = "rejected"
    /\ UNCHANGED <<name, heard, read, pending, stored, table, total, inserted, skipped>>

(* A row that is not valid, or bytes that are not even a row.              *)
Refuse ==
    /\ phase = "open"
    /\ UNCHANGED read \/ \E p \in DOMAIN name \ read : read' = read \cup {p}
    /\ total' = total + 1 /\ skipped' = skipped + 1
    /\ UNCHANGED <<name, heard, pending, stored, table, inserted, phase>>

Take(p) ==
    /\ phase = "open" /\ p \notin read
    /\ read' = read \cup {p}
    /\ pending' = pending \cup {p}
    /\ total' = total + 1
    /\ UNCHANGED <<name, heard, stored, table, inserted, skipped, phase>>

(* The names of the rows are in the table then; of each that was not, one  *)
(* row was added.                                                          *)
Store(rows) ==
    /\ phase = "open"
    /\ table' = table \cup {name[p] : p \in rows}
    /\ \E new \in SUBSET rows :
        /\ stored' = stored \cup new
        /\ {name[p] : p \in new} = {name[p] : p \in rows} \ table
        /\ \A p, q \in new : name[p] = name[q] => p = q
    /\ UNCHANGED <<name, heard, read, pending, total, inserted, skipped, phase>>

Settle(rows) ==
    /\ phase = "open"
    /\ pending' = pending \ rows
    /\ \E n \in 0..Cardinality(rows) :
        /\ heard => Cardinality(stored \cap rows) <= n
        /\ inserted' = inserted + n
        /\ skipped' = skipped + (Cardinality(rows) - n)
    /\ UNCHANGED <<name, heard, read, stored, table, total, phase>>

Answer ==
    /\ phase = "rejected" \/ (phase = "open" /\ read = DOMAIN name /\ pending = {})
    /\ phase' = "answered"
    /\ UNCHANGED <<name, heard, read, pending, stored, table, total, inserted, skipped>>

OthersWrite(n) ==
    /\ table' \in {table \cup {n}, table \ {n}}
    /\ UNCHANGED <<name, heard, read, pending, stored, total, inserted, skipped, phase>>

Next ==
    \/ Reject \/ Refuse \/ Answer
    \/ \E p \in DOMAIN name : Take(p)
    \/ \E rows \in SUBSET pending : Store(rows) \/ Settle(rows)
    \/ \E n \in Names : OthersWrite(n)

Spec == Init /\ [][Next]_vars
=============================================================================
