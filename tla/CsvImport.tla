------------------------------- MODULE CsvImport -------------------------------
(* The CSV import: ImportProfiles (internal/handler/http) and ProcessCSV   *)
(* and BulkInsert (internal/service/utils.go).  One goroutine reads the    *)
(* file and sends the valid rows in chunks through a bounded channel; the  *)
(* workers insert the chunks, all at once or, should that fail, row by     *)
(* row, and add what became of them to one shared result.                  *)
(*                                                                         *)
(* An action is a section under the mutex, a channel operation or an SQL   *)
(* statement, with the local code around it.                               *)
EXTENDS Integers, Sequences, FiniteSets, SequencesExt

CONSTANTS
    Names,       \* names of people (column profiles.name, UNIQUE)
    Headers,     \* how the first line may turn out
    Files,       \* the files that may be uploaded: sequences of rows
    Workers,     \* worker goroutines (maxWorkers of them)
    ChannelCap,  \* capacity of the channel, maxWorkers*2
    ChunkSize,   \* rows per chunk
    Databases,   \* how the database may behave during the import
    Others,      \* names that other requests insert and delete meanwhile
    MaxErrors,   \* bound on the I/O errors of the file
    None         \* no chunk

(* What is wrong with a row: validateRow refuses it; it has not as many    *)
(* columns as the header (FieldsPerRecord = -1: what is missing is empty); *)
(* it is not valid UTF-8, which only the database notices.                 *)
Defects == {"none", "invalid", "columns", "encoding"}
Row == [name : Names, defect : Defects]

ASSUME ConstantsAssumption ==
    /\ Headers \subseteq {"ok", "malformed_file", "missing_required_columns"}
    /\ Files \subseteq Seq(Row)
    /\ ChannelCap \in Nat \ {0} /\ ChunkSize \in Nat \ {0}
    /\ Workers # {} /\ IsFiniteSet(Workers)
    /\ Databases \subseteq {"sound", "failing", "lossy"}
    /\ Others \subseteq Names /\ MaxErrors \in Nat

Reasons == {"malformed_file", "missing_required_columns", "malformed_row",
            "validation", "duplicate_name", "insert_error"}
Counts == [Reasons -> Nat]
NoReasons == [reason \in Reasons |-> 0]

VARIABLES
    file,      \* the rows of the file
    header,    \* what ReadHeader will find
    database,  \* sound: a statement fails only for the rows it carries;
               \* failing: for other reasons, too; lossy: even after its commit
    pos,       \* position of the next row
    errors,    \* I/O errors so far
    step,      \* of the goroutine that runs ProcessCSV
    buffer,    \* the array behind batch: positions of rows
    size,      \* len(batch)
    channel,   \* the chunks in the channel
    closed,    \* chunkCh is closed
    worker,    \* the workers
    result,    \* the ImportResult
    table,     \* names in profiles
    (* History, read by the properties only: *)
    tried,     \* per row, how many chunks with it BulkInsert was given
    stored,    \* rows that this import added to profiles
    removed    \* names that others deleted since the import began

vars == <<file, header, database, pos, errors, step, buffer, size, channel, closed,
          worker, result, table, tried, stored, removed>>

Positions == 1..Len(file)

(* A chunk of its own holds a copy of the batch; a shared one is a slice   *)
(* of the array the batch is built in.                                     *)
Copied == [shared : {FALSE}, rows : Seq(Nat)]
Shared == [shared : {TRUE}, len : Nat]
Chunk == Copied \cup Shared

Profiles(chunk) == IF chunk.shared THEN SubSeq(buffer, 1, chunk.len) ELSE chunk.rows

Waiting == [step |-> "receive", chunk |-> None, next |-> 1,
            inserted |-> 0, reasons |-> NoReasons]

Total(reasons) == reasons["malformed_file"] + reasons["missing_required_columns"]
                  + reasons["malformed_row"] + reasons["validation"]
                  + reasons["duplicate_name"] + reasons["insert_error"]

Skip(reason) == [result EXCEPT !.total = @ + 1, !.skipped = @ + 1,
                               !.reasons[reason] = @ + 1]

-----------------------------------------------------------------------------
(* ProcessCSV                                                              *)

(* Without a header there is nothing to count but the reason.              *)
ReadHeader ==
    /\ step = "header"
    /\ IF header = "ok"
       THEN step' = "read" /\ UNCHANGED result
       ELSE step' = "return" /\ result' = [result EXCEPT !.reasons[header] = @ + 1]
    /\ UNCHANGED <<file, header, database, pos, errors, buffer, size, channel, closed,
                   worker, table, tried, stored, removed>>

(* With LazyQuotes and any number of fields, only an I/O error makes Read  *)
(* fail; the bytes it got are gone, whether or not they end the row.       *)
ReadFails ==
    /\ step = "read"
    /\ errors < MaxErrors
    /\ errors' = errors + 1
    /\ UNCHANGED pos \/ (pos <= Len(file) /\ pos' = pos + 1)
    /\ result' = Skip("malformed_row")
    /\ UNCHANGED <<file, header, database, step, buffer, size, channel, closed,
                   worker, table, tried, stored, removed>>

FullPast(n) == n > ChunkSize
Full(n) == n >= ChunkSize

SkipRow ==
    /\ step = "read" /\ pos <= Len(file)
    /\ file[pos].defect = "invalid"
    /\ pos' = pos + 1
    /\ result' = Skip("validation")
    /\ UNCHANGED <<file, header, database, errors, step, buffer, size, channel, closed,
                   worker, table, tried, stored, removed>>

BatchRow ==
    /\ step = "read" /\ pos <= Len(file)
    /\ file[pos].defect # "invalid"
    /\ pos' = pos + 1
    /\ buffer' = [buffer EXCEPT ![size + 1] = pos]
    /\ size' = size + 1
    /\ step' = IF Full(size') THEN "send" ELSE "read"
    /\ result' = [result EXCEPT !.total = @ + 1]
    /\ UNCHANGED <<file, header, database, errors, channel, closed,
                   worker, table, tried, stored, removed>>

Send(chunk) ==
    /\ Len(channel) < ChannelCap
    /\ channel' = Append(channel, chunk)

FullChunkShared == [shared |-> TRUE, len |-> size]
FullChunk == [shared |-> FALSE, rows |-> SubSeq(buffer, 1, size)]

(* The batch starts anew in the same array, so the chunk is a copy.        *)
SendChunk ==
    /\ step = "send"
    /\ Send(FullChunk)
    /\ size' = 0
    /\ step' = "read"
    /\ UNCHANGED <<file, header, database, pos, errors, buffer, closed,
                   worker, result, table, tried, stored, removed>>

ClosesAfterSending ==
    /\ step = "read" /\ pos > Len(file)
    /\ IF size > 0 THEN Send([shared |-> TRUE, len |-> size]) ELSE UNCHANGED channel
    /\ closed' = (size > 0)
    /\ step' = "wait"
    /\ UNCHANGED <<file, header, database, pos, errors, buffer, size,
                   worker, result, table, tried, stored, removed>>
(* The last chunk is the batch itself: nothing is read after it.           *)
EndOfFile ==
    /\ step = "read" /\ pos > Len(file)
    /\ IF size > 0 THEN Send([shared |-> TRUE, len |-> size]) ELSE UNCHANGED channel
    /\ closed' = TRUE
    /\ step' = "wait"
    /\ UNCHANGED <<file, header, database, pos, errors, buffer, size,
                   worker, result, table, tried, stored, removed>>

WaitForOne ==
    /\ step = "wait"
    /\ \E w \in Workers : worker[w].step = "exited"
    /\ step' = "return"
    /\ UNCHANGED <<file, header, database, pos, errors, buffer, size, channel, closed,
                   worker, result, table, tried, stored, removed>>
(* wg.Wait, and then the handler answers.                                  *)
Wait ==
    /\ step = "wait"
    /\ \A w \in Workers : worker[w].step = "exited"
    /\ step' = "return"
    /\ UNCHANGED <<file, header, database, pos, errors, buffer, size, channel, closed,
                   worker, result, table, tried, stored, removed>>

(* ImportProfiles answers success whatever ProcessCSV returned.            *)
Respond ==
    /\ step = "return"
    /\ step' = "done"
    /\ result' = [result EXCEPT !.status = "success"]
    /\ UNCHANGED <<file, header, database, pos, errors, buffer, size, channel, closed,
                   worker, table, tried, stored, removed>>

-----------------------------------------------------------------------------
(* The workers                                                             *)

Receive(w) ==
    /\ worker[w].step = "receive"
    /\ channel # << >>
    /\ channel' = Tail(channel)
    /\ worker' = [worker EXCEPT ![w].step = "bulk", ![w].chunk = Head(channel)]
    /\ UNCHANGED <<file, header, database, pos, errors, step, buffer, size, closed,
                   result, table, tried, stored, removed>>

(* INSERT ... ON CONFLICT (name) DO NOTHING: every name is there, and of   *)
(* each that was not, the first row was added.                             *)
Added(positions) ==
    {p \in positions :
        /\ file[p].name \notin table
        /\ \A q \in positions : file[q].name = file[p].name => p <= q}

Insert(positions) ==
    /\ table' = table \cup {file[p].name : p \in positions}
    /\ stored' = stored \cup Added(positions)

(* The statement takes the whole chunk or, with a row that is not UTF-8,   *)
(* nothing.  Whatever it skipped, it counts as inserted.  On an error,     *)
(* even of a commit whose answer was lost, every row is tried again.       *)
BulkCreateProfiles(w) ==
    /\ worker[w].step = "bulk"
    /\ LET rows == Profiles(worker[w].chunk)
           broken == \E p \in Range(rows) : file[p].defect = "encoding"
       IN  /\ tried' = [p \in Positions |->
                            IF p \in Range(rows) THEN tried[p] + 1 ELSE tried[p]]
           /\ \/ /\ ~broken
                 /\ Insert(Range(rows))
                 /\ worker' = [worker EXCEPT ![w].step = "tally",
                                             ![w].inserted = Len(rows)]
              \/ /\ broken \/ database # "sound"
                 /\ \/ UNCHANGED <<table, stored>>
                    \/ ~broken /\ database = "lossy" /\ Insert(Range(rows))
                 /\ worker' = [worker EXCEPT ![w].step = "rows"]
    /\ UNCHANGED <<file, header, database, pos, errors, step, buffer, size, channel, closed,
                   result, removed>>

CountedUntilError(w, outcome) ==
    LET last == worker[w].next = Len(Profiles(worker[w].chunk))
        counted == IF outcome = "inserted"
                   THEN [worker[w] EXCEPT !.inserted = @ + 1]
                   ELSE [worker[w] EXCEPT !.reasons[outcome] = @ + 1]
    IN  worker' = [worker EXCEPT ![w] =
            [counted EXCEPT !.next = @ + 1,
                            !.step = IF last \/ outcome = "insert_error" THEN "tally"
                                                                        ELSE "rows"]]
(* One round of the fallback, and what it counts.                          *)
Counted(w, outcome) ==
    LET last == worker[w].next = Len(Profiles(worker[w].chunk))
        counted == IF outcome = "inserted"
                   THEN [worker[w] EXCEPT !.inserted = @ + 1]
                   ELSE [worker[w] EXCEPT !.reasons[outcome] = @ + 1]
    IN  worker' = [worker EXCEPT ![w] =
            [counted EXCEPT !.next = @ + 1, !.step = IF last THEN "tally" ELSE "rows"]]

CreateProfile(w) ==
    /\ worker[w].step = "rows"
    /\ LET p == Profiles(worker[w].chunk)[worker[w].next]
       IN  \/ /\ file[p].defect # "encoding"
              /\ file[p].name \in table
              /\ Counted(w, "duplicate_name")
              /\ UNCHANGED <<table, stored>>
           \/ /\ file[p].defect # "encoding"
              /\ file[p].name \notin table
              /\ Insert({p})
              /\ \/ Counted(w, "inserted")
                 \/ database = "lossy" /\ Counted(w, "insert_error")
           \/ /\ file[p].defect = "encoding" \/ database # "sound"
              /\ Counted(w, "insert_error")
              /\ UNCHANGED <<table, stored>>
    /\ UNCHANGED <<file, header, database, pos, errors, step, buffer, size, channel, closed,
                   result, tried, removed>>

AddsInsertedOnly(w) == [result EXCEPT !.inserted = @ + worker[w].inserted]
Overwrites(w) ==
    [result EXCEPT !.inserted = worker[w].inserted,
                   !.skipped = @ + Total(worker[w].reasons),
                   !.reasons = [reason \in Reasons |->
                                   result.reasons[reason] + worker[w].reasons[reason]]]
(* What a worker adds to the result.                                       *)
Adds(w) ==
    [result EXCEPT !.inserted = @ + worker[w].inserted,
                   !.skipped = @ + Total(worker[w].reasons),
                   !.reasons = [reason \in Reasons |->
                                   result.reasons[reason] + worker[w].reasons[reason]]]

(* Under the mutex, once per chunk.                                        *)
Tally(w) ==
    /\ worker[w].step = "tally"
    /\ result' = Adds(w)
    /\ worker' = [worker EXCEPT ![w] = Waiting]
    /\ UNCHANGED <<file, header, database, pos, errors, step, buffer, size, channel, closed,
                   table, tried, stored, removed>>

(* range chunkCh ends once the channel is closed and empty.                *)
Exit(w) ==
    /\ worker[w].step = "receive"
    /\ closed /\ channel = << >>
    /\ worker' = [worker EXCEPT ![w].step = "exited"]
    /\ UNCHANGED <<file, header, database, pos, errors, step, buffer, size, channel, closed,
                   result, table, tried, stored, removed>>

-----------------------------------------------------------------------------
(* Other requests (and other imports) write to the same table.             *)

OtherInserts(n) ==
    /\ n \notin table
    /\ table' = table \cup {n}
    /\ UNCHANGED <<file, header, database, pos, errors, step, buffer, size, channel, closed,
                   worker, result, tried, stored, removed>>

OtherDeletes(n) ==
    /\ n \in table
    /\ table' = table \ {n}
    /\ removed' = removed \cup {n}
    /\ UNCHANGED <<file, header, database, pos, errors, step, buffer, size, channel, closed,
                   worker, result, tried, stored>>

-----------------------------------------------------------------------------
Init ==
    /\ file \in Files
    /\ header \in Headers
    /\ database \in Databases
    /\ pos = 1
    /\ errors = 0
    /\ step = "header"
    /\ buffer = [i \in 1..ChunkSize |-> 0]
    /\ size = 0
    /\ channel = << >>
    /\ closed = FALSE
    /\ worker = [w \in Workers |-> Waiting]
    /\ result = [status |-> "", total |-> 0, inserted |-> 0, skipped |-> 0,
                 reasons |-> NoReasons]
    /\ table \in SUBSET Names
    /\ tried = [p \in Positions |-> 0]
    /\ stored = {}
    /\ removed = {}

Process ==
    \/ ReadHeader
    \/ ReadFails
    \/ SkipRow
    \/ BatchRow
    \/ SendChunk
    \/ EndOfFile
    \/ Wait
    \/ Respond

Work(w) ==
    \/ Receive(w)
    \/ BulkCreateProfiles(w)
    \/ CreateProfile(w)
    \/ Tally(w)
    \/ Exit(w)

Next ==
    \/ Process
    \/ \E w \in Workers : Work(w)
    \/ \E n \in Others : OtherInserts(n) \/ OtherDeletes(n)

Spec == Init /\ [][Next]_vars

(* The Go scheduler runs every goroutine that can run, and a statement     *)
(* returns, or fails when its context ends.                                *)
FairSpec == Spec /\ WF_vars(Process) /\ \A w \in Workers : WF_vars(Work(w))

-----------------------------------------------------------------------------
(* Properties                                                              *)

WorkerState == [step : {"receive", "bulk", "rows", "tally", "exited"},
                chunk : Chunk \cup {None}, next : Nat, inserted : Nat, reasons : Counts]

(* Counters, chunks and goroutines stay within their types, no batch       *)
(* outgrows its array and no channel its capacity.                         *)
TypeOK ==
    /\ file \in Files /\ header \in Headers /\ database \in Databases
    /\ pos \in 1..Len(file) + 1 /\ errors \in 0..MaxErrors
    /\ step \in {"header", "read", "send", "wait", "return", "done"}
    /\ buffer \in [1..ChunkSize -> Nat] /\ size \in 0..ChunkSize
    /\ channel \in Seq(Chunk) /\ Len(channel) <= ChannelCap
    /\ closed \in BOOLEAN
    /\ worker \in [Workers -> WorkerState]
    /\ result \in [status : {"", "success"}, total : Nat, inserted : Nat,
                   skipped : Nat, reasons : Counts]
    /\ table \subseteq Names /\ removed \subseteq Names
    /\ tried \in [Positions -> Nat] /\ stored \subseteq Positions

Rows(chunk) == Range(Profiles(chunk))

(* Rows on their way: in the batch, until it is itself the last chunk, in  *)
(* the channel, with a worker.                                             *)
Batch == IF closed THEN {} ELSE {buffer[i] : i \in 1..size}
InChannel == UNION {Rows(channel[i]) : i \in DOMAIN channel}
Busy == {"bulk", "rows", "tally"}
WithWorkers == UNION {Rows(worker[w].chunk) : w \in {v \in Workers : worker[v].step \in Busy}}
OnTheWay == Batch \cup InChannel \cup WithWorkers

(* No row is lost or counted twice between the reader, the channel, the    *)
(* workers and the result, whatever fails: each row counted in TotalRows   *)
(* is inserted, skipped for exactly one reason, or still on its way.       *)
Accounted ==
    header = "ok" =>
        /\ result.total = result.inserted + result.skipped + Cardinality(OnTheWay)
        /\ result.skipped = Total(result.reasons)

(* The rows that reach the database are those of the file, although the    *)
(* batch that carried them is reused: when the import returns, each row    *)
(* that passed validation was in one chunk and each other row in none.     *)
EachRowOnce ==
    /\ \A p \in Positions : tried[p] <= (IF file[p].defect = "invalid" THEN 0 ELSE 1)
    /\ step = "done" /\ header = "ok" /\ errors = 0 =>
            \A p \in Positions : tried[p] = (IF file[p].defect = "invalid" THEN 0 ELSE 1)

(* SOLUTION.md, Failure handling: "A single bad row never fails the        *)
(* upload."  If no statement fails but for the row it carries, the name of *)
(* every good row is in the table in the end, or somebody deleted it.      *)
GoodRowsLand ==
    step = "done" /\ header = "ok" /\ database = "sound" /\ errors = 0 =>
        \A p \in Positions :
            file[p].defect \in {"none", "columns"} => file[p].name \in table \cup removed

(* ImportProfiles invalidates the lists if Inserted > 0.  That is right as *)
(* long as Inserted never falls short of the rows that were stored, which  *)
(* it does not when statements fail and chunks are repeated row by row.    *)
(* It does when an INSERT commits and its answer is lost (a lossy          *)
(* database): the rows are stored, and counted as duplicates or errors.    *)
InsertedCoversStored ==
    step = "done" /\ database # "lossy" => result.inserted >= Cardinality(stored)

(* The import answers: no worker stops early, so the reader never waits    *)
(* for ever to send, nor ProcessCSV for a worker.                          *)
ImportAnswers == <>(step = "done")

(* The import as a ledger.                                                 *)
RowName == [p \in Positions |-> file[p].name]
Read == 1 .. pos - 1
Phase == IF step = "done" THEN "answered"
         ELSE IF step = "return" /\ header # "ok" THEN "rejected" ELSE "open"
Ledger == INSTANCE ImportLedger WITH
    name <- RowName, heard <- database # "lossy", read <- Read, pending <- OnTheWay,
    total <- result.total, inserted <- result.inserted, skipped <- result.skipped,
    phase <- Phase

(* Whatever runs at once and whatever fails, the import keeps such a       *)
(* ledger: each row is taken up once, stored only while it is on its way,  *)
(* settled once, and nothing is stored or counted after the answer.        *)
ImplementsLedger == Ledger!Spec
=============================================================================
