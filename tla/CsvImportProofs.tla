----------------------------- MODULE CsvImportProofs -----------------------------
(* Type correctness of CsvImport, and what becomes of the rows, for any    *)
(* files, workers, sizes of chunks and of the channel.                     *)
EXTENDS CsvImport, TLAPS, SequenceTheorems, FiniteSetTheorems

-----------------------------------------------------------------------------
(* The invariant                                                           *)

(* Rows that were read and passed validation, and those of them that no    *)
(* statement has been given yet.                                           *)
Valid == {p \in 1 .. pos - 1 : file[p].defect # "invalid"}
Untried == {p \in Valid : tried[p] = 0}

(* Where they are besides the batch: in the channel, or with a worker that *)
(* is about to insert them.                                                *)
Queue == [i \in DOMAIN channel |-> Rows(channel[i])]
Held == [w \in Workers |->
            IF worker[w].step = "bulk" THEN Rows(worker[w].chunk) ELSE {}]

Disjoint(a, b) == a \cap b = {}
Apart(batch, queue, held) ==
    /\ \A i \in DOMAIN queue : Disjoint(queue[i], batch)
    /\ \A w \in Workers : Disjoint(held[w], batch)
    /\ \A i, j \in DOMAIN queue : i # j => Disjoint(queue[i], queue[j])
    /\ \A i \in DOMAIN queue, w \in Workers : Disjoint(queue[i], held[w])
    /\ \A v, w \in Workers : v # w => Disjoint(held[v], held[w])

Carry(batch, queue, held) ==
    batch \cup (UNION {queue[i] : i \in DOMAIN queue}) \cup (UNION {held[w] : w \in Workers})

(* Once each, and all of them unless the file could not be read.           *)
Carried ==
    /\ Carry(Batch, Queue, Held) \subseteq Untried
    /\ Apart(Batch, Queue, Held)
    /\ errors = 0 => Untried \subseteq Carry(Batch, Queue, Held)

TriedOnce == \A p \in Positions : tried[p] \in {0, 1} /\ (p \notin Valid => tried[p] = 0)

(* A chunk of the batch itself is the last one.                            *)
Sendable(chunk) ==
    /\ chunk \in Chunk
    /\ chunk.shared => closed /\ chunk.len \in 0..ChunkSize
    /\ Len(Profiles(chunk)) > 0 /\ Rows(chunk) \subseteq Positions

ChunksOK ==
    /\ \A i \in DOMAIN channel : Sendable(channel[i])
    /\ \A w \in Workers : worker[w].step \in Busy => Sendable(worker[w].chunk)

StepsOK ==
    /\ step \in {"read", "send", "wait"} => header = "ok"
    /\ header # "ok" => pos = 1
    /\ closed <=> step = "wait" \/ (step \in {"return", "done"} /\ header = "ok")
    /\ closed => pos = Len(file) + 1
    /\ step \in {"header", "read"} => size < ChunkSize
    /\ step = "send" => size > 0

WorkersOK ==
    \A w \in Workers :
        /\ worker[w].step = "receive" => worker[w] = Waiting
        /\ worker[w].step = "bulk" => worker[w].next = 1
        /\ worker[w].step = "rows" => worker[w].next \in 1..Len(Profiles(worker[w].chunk))
        /\ worker[w].step = "exited" => closed /\ channel = <<>>
        /\ closed /\ step # "wait" => worker[w].step = "exited"

(* A good row that a statement was given is in the table, unless it is     *)
(* still to be tried alone, or was deleted.                                *)
Good(p) == file[p].defect \in {"none", "columns"}
Retried(w, p) == /\ worker[w].step = "rows"
                 /\ \E i \in worker[w].next..Len(Profiles(worker[w].chunk)) :
                        Profiles(worker[w].chunk)[i] = p
Landing ==
    database = "sound" => \A p \in Positions :
                    Good(p) /\ tried[p] = 1 => \/ file[p].name \in table \cup removed
                                               \/ \E w \in Workers : Retried(w, p)

Inv == /\ TypeOK /\ StepsOK /\ WorkersOK /\ ChunksOK
       /\ Carried /\ TriedOnce /\ Landing

-----------------------------------------------------------------------------
(* The parts of TypeOK                                                     *)

Result == [status : {"", "success"}, total : Nat, inserted : Nat,
           skipped : Nat, reasons : Counts]

FileOK == /\ file \in Files /\ header \in Headers /\ database \in Databases
          /\ pos \in 1..Len(file) + 1 /\ errors \in 0..MaxErrors
BatchOK == buffer \in [1..ChunkSize -> Nat] /\ size \in 0..ChunkSize
ChannelOK == channel \in Seq(Chunk) /\ Len(channel) <= ChannelCap
GoroutinesOK == /\ step \in {"header", "read", "send", "wait", "return", "done"}
                /\ closed \in BOOLEAN
                /\ worker \in [Workers -> WorkerState]
RowsOK == /\ table \subseteq Names /\ removed \subseteq Names
          /\ tried \in [Positions -> Nat] /\ stored \subseteq Positions

LEMMA Parts == TypeOK <=> /\ FileOK /\ BatchOK /\ ChannelOK /\ GoroutinesOK /\ RowsOK
                          /\ result \in Result
BY DEF TypeOK, FileOK, BatchOK, ChannelOK, GoroutinesOK, RowsOK, Result

LEMMA PartsNext == /\ FileOK' /\ BatchOK' /\ ChannelOK' /\ GoroutinesOK' /\ RowsOK'
                   /\ result' \in Result
                   => TypeOK'
BY DEF TypeOK, FileOK, BatchOK, ChannelOK, GoroutinesOK, RowsOK, Result

-----------------------------------------------------------------------------
(* The data                                                                *)

LEMMA FileRows ==
    ASSUME file \in Files
    PROVE  /\ Len(file) \in Nat /\ Positions = 1..Len(file)
           /\ \A p \in Positions : file[p].name \in Names /\ file[p].defect \in Defects
<1>1. file \in Seq(Row)
  BY ConstantsAssumption
<1>2. Len(file) \in Nat /\ \A p \in 1..Len(file) : file[p] \in Row
  BY <1>1
<1> QED
  BY <1>2 DEF Positions, Row

(* A slice of the array.                                                   *)
LEMMA Slice ==
    ASSUME NEW b \in [1..ChunkSize -> Nat], NEW n \in 0..ChunkSize
    PROVE  LET s == SubSeq(b, 1, n)
           IN  /\ s \in Seq(Nat) /\ Len(s) = n
               /\ \A i \in 1..n : s[i] = b[i]
               /\ Range(s) = {b[i] : i \in 1..n}
<1> DEFINE s == SubSeq(b, 1, n)
<1>1. ChunkSize \in Nat /\ b \in Seq(Nat) /\ Len(b) = ChunkSize
  BY ConstantsAssumption
<1>2. \A i \in 1..n : b[i] \in Nat
  BY <1>1
<1>3. s \in Seq(Nat) /\ Len(s) = n /\ \A i \in 1..n : s[i] = b[i]
  BY <1>1, <1>2, SubSeqProperties
<1>4. DOMAIN s = 1..n
  BY <1>3
<1>5. Range(s) = {b[i] : i \in 1..n}
  BY <1>3, <1>4 DEF Range
<1> QED
  BY <1>3, <1>5

LEMMA ChunkRows ==
    ASSUME TypeOK, NEW c, Sendable(c)
    PROVE  /\ Profiles(c) \in Seq(Nat)
           /\ Len(Profiles(c)) \in Nat \ {0}
           /\ Rows(c) = {Profiles(c)[i] : i \in 1..Len(Profiles(c))}
           /\ \A i \in 1..Len(Profiles(c)) : Profiles(c)[i] \in Positions
<1>1. Profiles(c) \in Seq(Nat)
  <2>1. CASE c.shared
    BY <2>1, Slice DEF TypeOK, Sendable, Profiles
  <2>2. CASE ~c.shared
    BY <2>2 DEF Sendable, Profiles, Chunk, Copied, Shared
  <2> QED
    BY <2>1, <2>2
<1>2. DOMAIN Profiles(c) = 1..Len(Profiles(c))
  BY <1>1
<1> QED
  BY <1>1, <1>2 DEF Rows, Range, Sendable

LEMMA ReasonsAdd ==
    ASSUME NEW r \in Counts
    PROVE  /\ Total(r) \in Nat
           /\ \A reason \in Reasons : [r EXCEPT ![reason] = @ + 1] \in Counts
           /\ \A s \in Counts : [reason \in Reasons |-> r[reason] + s[reason]] \in Counts
<1>1. \A reason \in Reasons : r[reason] \in Nat
  BY DEF Counts
<1>2. Total(r) \in Nat
  BY <1>1 DEF Total, Reasons
<1>3. \A reason \in Reasons : [r EXCEPT ![reason] = @ + 1] \in Counts
  BY <1>1 DEF Counts
<1>4. \A s \in Counts : [reason \in Reasons |-> r[reason] + s[reason]] \in Counts
  BY <1>1 DEF Counts
<1> QED
  BY <1>2, <1>3, <1>4

LEMMA ResultsTyped ==
    ASSUME result \in Result
    PROVE  /\ \A reason \in Reasons : Skip(reason) \in Result
           /\ \A reason \in Reasons : [result EXCEPT !.reasons[reason] = @ + 1] \in Result
           /\ \A w : worker[w] \in WorkerState => Adds(w) \in Result
           /\ [result EXCEPT !.total = @ + 1] \in Result
           /\ [result EXCEPT !.status = "success"] \in Result
<1>1. /\ result.total \in Nat /\ result.inserted \in Nat /\ result.skipped \in Nat
      /\ result.reasons \in Counts
  BY DEF Result
<1>2. \A reason \in Reasons : [result.reasons EXCEPT ![reason] = @ + 1] \in Counts
  BY <1>1, ReasonsAdd
<1>3. \A reason \in Reasons : [result EXCEPT !.reasons[reason] = @ + 1] \in Result
  BY <1>2 DEF Result
<1>4. PICK total, skipped : total = result.total + 1 /\ skipped = result.skipped + 1
  OBVIOUS
<1>5. total \in Nat /\ skipped \in Nat
  BY <1>1, <1>4
<1>6. ASSUME NEW reason \in Reasons
      PROVE  Skip(reason) \in Result
  <2>1. PICK reasons : reasons = [result.reasons EXCEPT ![reason] = @ + 1]
    OBVIOUS
  <2>2. reasons \in Counts
    BY <1>2, <2>1
  <2>3. [result EXCEPT !.total = total, !.skipped = skipped, !.reasons = reasons] \in Result
    BY <1>5, <2>2 DEF Result
  <2> QED
    BY <1>4, <2>1, <2>3 DEF Skip
<1>7. ASSUME NEW w, worker[w] \in WorkerState
      PROVE  Adds(w) \in Result
  <2>1. worker[w].inserted \in Nat /\ worker[w].reasons \in Counts
    BY <1>7 DEF WorkerState
  <2>2. PICK n, m, reasons :
            /\ n = result.inserted + worker[w].inserted
            /\ m = result.skipped + Total(worker[w].reasons)
            /\ reasons = [reason \in Reasons |->
                            result.reasons[reason] + worker[w].reasons[reason]]
    OBVIOUS
  <2>3. n \in Nat
    BY <1>1, <2>1, <2>2
  <2>4. m \in Nat
    BY <1>1, <2>1, <2>2, ReasonsAdd
  <2>5. reasons \in Counts
    BY <1>1, <2>1, <2>2, ReasonsAdd
  <2>6. [result EXCEPT !.inserted = n, !.skipped = m, !.reasons = reasons] \in Result
    BY <2>3, <2>4, <2>5 DEF Result
  <2> QED
    BY <2>2, <2>6 DEF Adds
<1>8. [result EXCEPT !.total = total] \in Result
  BY <1>5 DEF Result
<1>9. [result EXCEPT !.status = "success"] \in Result
  BY DEF Result
<1> QED
  BY <1>3, <1>4, <1>6, <1>7, <1>8, <1>9

LEMMA WorkersTyped ==
    /\ Waiting \in WorkerState
    /\ \A t \in WorkerState :
          /\ \A c \in Chunk : [t EXCEPT !.step = "bulk", !.chunk = c] \in WorkerState
          /\ \A n \in Nat : [t EXCEPT !.step = "tally", !.inserted = n] \in WorkerState
          /\ [t EXCEPT !.step = "rows"] \in WorkerState
          /\ [t EXCEPT !.step = "exited"] \in WorkerState
<1>1. Waiting \in WorkerState
  BY DEF Waiting, WorkerState, Counts, NoReasons
<1>2. ASSUME NEW t \in WorkerState
      PROVE  /\ \A c \in Chunk : [t EXCEPT !.step = "bulk", !.chunk = c] \in WorkerState
             /\ \A n \in Nat : [t EXCEPT !.step = "tally", !.inserted = n] \in WorkerState
             /\ [t EXCEPT !.step = "rows"] \in WorkerState
             /\ [t EXCEPT !.step = "exited"] \in WorkerState
  BY DEF WorkerState
<1> QED
  BY <1>1, <1>2

(* What one round of the fallback leaves of the worker.                    *)
LEMMA CountedWorker ==
    ASSUME NEW w \in Workers, worker \in [Workers -> WorkerState],
           NEW outcome \in Reasons \cup {"inserted"}, Counted(w, outcome)
    PROVE  /\ worker' \in [Workers -> WorkerState]
           /\ worker'[w].next = worker[w].next + 1 /\ worker'[w].chunk = worker[w].chunk
           /\ worker'[w].step = IF worker[w].next = Len(Profiles(worker[w].chunk))
                                THEN "tally" ELSE "rows"
           /\ \A v \in Workers : v # w => worker'[v] = worker[v]
<1> DEFINE last == worker[w].next = Len(Profiles(worker[w].chunk))
<1>1. PICK s : s = IF last THEN "tally" ELSE "rows"
  OBVIOUS
<1>2. PICK t : t = worker[w]
  OBVIOUS
<1>3. PICK n, m : n = t.next + 1 /\ m = t.inserted + 1
  OBVIOUS
<1>4. t \in WorkerState /\ s \in {"rows", "tally"}
  BY <1>1, <1>2
<1>5. n \in Nat /\ m \in Nat /\ t.reasons \in Counts
  BY <1>3, <1>4 DEF WorkerState
<1>6. PICK u : /\ worker' = [worker EXCEPT ![w] = u]
               /\ u \in WorkerState /\ u.next = n /\ u.chunk = t.chunk /\ u.step = s
  <2>1. PICK c : c = IF outcome = "inserted" THEN [t EXCEPT !.inserted = m]
                     ELSE [t EXCEPT !.reasons[outcome] = @ + 1]
    OBVIOUS
  <2>2. c \in WorkerState /\ c.next = t.next /\ c.chunk = t.chunk
    <3>1. CASE outcome = "inserted"
      BY <1>4, <1>5, <2>1, <3>1 DEF WorkerState
    <3>2. CASE outcome # "inserted"
      <4>1. PICK reasons : reasons = [t.reasons EXCEPT ![outcome] = @ + 1]
        OBVIOUS
      <4>2. reasons \in Counts
        BY <1>5, <3>2, <4>1, ReasonsAdd
      <4>3. c = [t EXCEPT !.reasons = reasons]
        BY <2>1, <3>2, <4>1
      <4> QED
        BY <1>4, <4>2, <4>3 DEF WorkerState
    <3> QED
      BY <3>1, <3>2
  <2>3. PICK u : u = [c EXCEPT !.next = n, !.step = s]
    OBVIOUS
  <2>4. u \in WorkerState /\ u.next = n /\ u.chunk = t.chunk /\ u.step = s
    BY <1>4, <1>5, <2>2, <2>3 DEF WorkerState
  <2>5. worker' = [worker EXCEPT ![w] = u]
    BY <1>1, <1>2, <1>3, <2>1, <2>2, <2>3 DEF Counted
  <2> QED
    BY <2>4, <2>5
<1> QED
  BY <1>1, <1>2, <1>3, <1>6

-----------------------------------------------------------------------------
(* The initial states                                                      *)

LEMMA InitHolds == Init => Inv
<1> SUFFICES ASSUME Init
             PROVE  Inv
  OBVIOUS
<1>1. file \in Files /\ pos = 1 /\ channel = <<>> /\ ~closed /\ size = 0 /\ step = "header"
  BY DEF Init
<1>2. Len(file) \in Nat
  BY <1>1, FileRows
<1>3. TypeOK
  <2>1. ChannelCap \in Nat /\ ChunkSize \in Nat /\ MaxErrors \in Nat
    BY ConstantsAssumption
  <2>2. FileOK
    <3>1. header \in Headers /\ database \in Databases /\ errors = 0
      BY DEF Init
    <3> QED
      BY <1>1, <1>2, <2>1, <3>1 DEF FileOK
  <2>3. BatchOK
    <3>1. buffer = [i \in 1..ChunkSize |-> 0]
      BY DEF Init
    <3> QED
      BY <1>1, <2>1, <3>1 DEF BatchOK
  <2>4. ChannelOK
    BY <1>1, <2>1 DEF ChannelOK
  <2>5. GoroutinesOK
    BY <1>1, WorkersTyped DEF Init, GoroutinesOK
  <2>6. RowsOK
    BY DEF Init, RowsOK
  <2>7. NoReasons \in Counts
    BY DEF NoReasons, Counts
  <2>8. result \in Result
    BY <2>7 DEF Init, Result
  <2> QED
    BY <2>2, <2>3, <2>4, <2>5, <2>6, <2>8, Parts
<1>4. \A w \in Workers : worker[w] = Waiting /\ worker[w].step = "receive"
  BY DEF Init, Waiting
<1>5. Valid = {} /\ Batch = {} /\ Queue = <<>> /\ DOMAIN Queue = {}
      /\ \A w \in Workers : Held[w] = {}
  BY <1>1, <1>2, <1>4 DEF Valid, Batch, Queue, Held
<1>6. Carried
  BY <1>5 DEF Carried, Untried, Carry, Apart, Disjoint
<1>7. TriedOnce
  BY DEF TriedOnce, Init
<1>8. Landing
  <2>1. \A p \in Positions : tried[p] = 0
    BY DEF Init
  <2> QED
    BY <2>1 DEF Landing
<1>9. StepsOK
  BY <1>1, ConstantsAssumption DEF StepsOK
<1>10. WorkersOK
  BY <1>1, <1>4 DEF WorkersOK
<1>11. ChunksOK
  BY <1>1, <1>4 DEF ChunksOK, Busy
<1> QED
  BY <1>3, <1>6, <1>7, <1>8, <1>9, <1>10, <1>11 DEF Inv
-----------------------------------------------------------------------------
(* Types                                                                   *)

LEMMA ReaderTypes ==
    ASSUME Inv, Process
    PROVE  TypeOK'
<1> USE DEF Inv
<1>1. FileOK /\ BatchOK /\ ChannelOK /\ GoroutinesOK /\ RowsOK /\ result \in Result
  BY Parts
<1>2. ChannelCap \in Nat /\ ChunkSize \in Nat /\ Len(file) \in Nat
  BY <1>1, ConstantsAssumption, FileRows DEF FileOK
<1>3. UNCHANGED <<file, header, database, worker, table, tried, stored, removed>>
  BY DEF Process, ReadHeader, ReadFails, SkipRow, BatchRow, SendChunk, EndOfFile, Wait, Respond
<1>4. RowsOK'
  BY <1>1, <1>3 DEF RowsOK, Positions
<1>5. step' \in {"header", "read", "send", "wait", "return", "done"} /\ closed' \in BOOLEAN
  BY <1>1 DEF Process, ReadHeader, ReadFails, SkipRow, BatchRow, SendChunk, EndOfFile, Wait,
              Respond, GoroutinesOK
<1>6. GoroutinesOK'
  BY <1>1, <1>3, <1>5 DEF GoroutinesOK
<1>7. CASE ReadHeader \/ Wait \/ Respond
  <2>1. UNCHANGED <<pos, errors, buffer, size, channel>>
    BY <1>7 DEF ReadHeader, Wait, Respond
  <2>2. result' \in Result
    <3>1. header # "ok" /\ header \in Headers => header \in Reasons
      BY ConstantsAssumption DEF Reasons
    <3> QED
      BY <1>1, <1>7, <3>1, ResultsTyped DEF ReadHeader, Wait, Respond, FileOK
  <2> QED
    BY <1>1, <1>3, <1>4, <1>6, <2>1, <2>2, PartsNext DEF FileOK, BatchOK, ChannelOK
<1>8. CASE ReadFails \/ SkipRow
  <2>1. result' \in Result
    BY <1>1, <1>8, ResultsTyped DEF ReadFails, SkipRow, Reasons
  <2>2. FileOK'
    BY <1>1, <1>2, <1>3, <1>8, ConstantsAssumption DEF ReadFails, SkipRow, FileOK
  <2>3. UNCHANGED <<buffer, size, channel>>
    BY <1>8 DEF ReadFails, SkipRow
  <2> QED
    BY <1>1, <1>4, <1>6, <2>1, <2>2, <2>3, PartsNext DEF BatchOK, ChannelOK
<1>9. CASE BatchRow
  <2>1. result' \in Result
    BY <1>1, <1>9, ResultsTyped DEF BatchRow
  <2>2. FileOK'
    BY <1>1, <1>2, <1>3, <1>9 DEF BatchRow, FileOK
  <2>3. size < ChunkSize /\ pos \in Nat /\ size \in Nat
    BY <1>1, <1>2, <1>9 DEF BatchRow, StepsOK, FileOK, BatchOK
  <2>4. BatchOK'
    BY <1>1, <1>2, <1>9, <2>3 DEF BatchRow, BatchOK
  <2> QED
    BY <1>1, <1>4, <1>6, <1>9, <2>1, <2>2, <2>4, PartsNext DEF BatchRow, ChannelOK
<1>10. CASE SendChunk
  <2>1. FullChunk \in Chunk
    BY <1>1, Slice DEF FullChunk, Chunk, Copied, BatchOK
  <2>2. ChannelOK'
    BY <1>1, <1>2, <1>10, <2>1 DEF SendChunk, Send, ChannelOK
  <2>3. BatchOK'
    BY <1>1, <1>2, <1>10 DEF SendChunk, BatchOK
  <2> QED
    BY <1>1, <1>3, <1>4, <1>6, <1>10, <2>2, <2>3, PartsNext DEF SendChunk, FileOK
<1>11. CASE EndOfFile
  <2>1. [shared |-> TRUE, len |-> size] \in Chunk
    BY <1>1, <1>2 DEF Chunk, Shared, BatchOK
  <2>2. ChannelOK'
    BY <1>1, <1>2, <1>11, <2>1 DEF EndOfFile, Send, ChannelOK
  <2> QED
    BY <1>1, <1>3, <1>4, <1>6, <1>11, <2>2, PartsNext DEF EndOfFile, FileOK, BatchOK
<1> QED
  BY <1>7, <1>8, <1>9, <1>10, <1>11 DEF Process
(* A worker that is busy has rows of the file in hand.                     *)
LEMMA InHand ==
    ASSUME Inv, NEW w \in Workers, worker[w].step \in Busy
    PROVE  /\ worker[w].chunk \in Chunk
           /\ Profiles(worker[w].chunk) \in Seq(Nat)
           /\ Len(Profiles(worker[w].chunk)) \in Nat \ {0}
           /\ Rows(worker[w].chunk) = {Profiles(worker[w].chunk)[i] :
                                         i \in 1..Len(Profiles(worker[w].chunk))}
           /\ Rows(worker[w].chunk) \subseteq Positions
           /\ \A i \in 1..Len(Profiles(worker[w].chunk)) :
                    Profiles(worker[w].chunk)[i] \in Positions
<1>1. TypeOK /\ Sendable(worker[w].chunk)
  BY DEF Inv, ChunksOK
<1> QED
  BY <1>1, ChunkRows DEF Sendable

LEMMA InsertTypes ==
    ASSUME RowsOK, file \in Files, NEW P \in SUBSET Positions, Insert(P)
    PROVE  table' \subseteq Names /\ stored' \subseteq Positions
<1>1. \A p \in P : file[p].name \in Names
  BY FileRows
<1> QED
  BY <1>1 DEF Insert, Added, RowsOK

LEMMA WorkerTypes ==
    ASSUME Inv, NEW w \in Workers, Work(w)
    PROVE  TypeOK'
<1>1. FileOK /\ BatchOK /\ ChannelOK /\ GoroutinesOK /\ RowsOK /\ result \in Result
  BY Parts DEF Inv
<1>2. UNCHANGED <<file, header, database, pos, errors, step, buffer, size, closed, removed>>
  BY DEF Work, Receive, BulkCreateProfiles, CreateProfile, Tally, Exit
<1>3. FileOK' /\ BatchOK'
  BY <1>1, <1>2 DEF FileOK, BatchOK
<1>4. worker[w] \in WorkerState
  BY <1>1 DEF GoroutinesOK
<1>5. CASE Receive(w)
  <2>1. Len(channel) > 0 /\ Head(channel) \in Chunk /\ Tail(channel) \in Seq(Chunk)
        /\ Len(Tail(channel)) = Len(channel) - 1
    BY <1>1, <1>5 DEF Receive, ChannelOK
  <2>2. PICK c : c = Head(channel)
    OBVIOUS
  <2>3. worker' = [worker EXCEPT ![w] = [worker[w] EXCEPT !.step = "bulk", !.chunk = c]]
    BY <1>1, <1>5, <2>2 DEF Receive, GoroutinesOK
  <2>4. [worker[w] EXCEPT !.step = "bulk", !.chunk = c] \in WorkerState
    BY <1>4, <2>1, <2>2, WorkersTyped
  <2>5. GoroutinesOK'
    BY <1>1, <1>2, <2>3, <2>4 DEF GoroutinesOK
  <2>6. ChannelOK'
    BY <1>1, <1>5, <2>1, ConstantsAssumption DEF Receive, ChannelOK
  <2> QED
    BY <1>1, <1>2, <1>3, <1>5, <2>5, <2>6, PartsNext DEF Receive, RowsOK, Positions
<1>6. CASE BulkCreateProfiles(w)
  <2>1. PICK rows, c : rows = Profiles(c) /\ c = worker[w].chunk
    OBVIOUS
  <2>2. Len(rows) \in Nat /\ Range(rows) \subseteq Positions
    BY <1>6, <2>1, InHand DEF BulkCreateProfiles, Busy, Rows
  <2>3. \/ worker' = [worker EXCEPT ![w] = [worker[w] EXCEPT !.step = "tally", !.inserted = Len(rows)]]
        \/ worker' = [worker EXCEPT ![w] = [worker[w] EXCEPT !.step = "rows"]]
    BY <1>1, <1>6, <2>1 DEF BulkCreateProfiles, GoroutinesOK
  <2>4. worker' \in [Workers -> WorkerState]
    BY <1>1, <1>4, <2>2, <2>3, WorkersTyped DEF GoroutinesOK
  <2>5. table' \subseteq Names /\ stored' \subseteq Positions
    BY <1>1, <1>6, <2>1, <2>2, InsertTypes DEF BulkCreateProfiles, RowsOK, FileOK
  <2>6. tried' \in [Positions -> Nat]
    BY <1>1, <1>6 DEF BulkCreateProfiles, RowsOK
  <2> QED
    BY <1>1, <1>2, <1>3, <1>6, <2>4, <2>5, <2>6, PartsNext
       DEF BulkCreateProfiles, GoroutinesOK, RowsOK, ChannelOK, Positions
<1>7. CASE CreateProfile(w)
  <2>1. \E outcome \in Reasons \cup {"inserted"} : Counted(w, outcome)
    BY <1>7 DEF CreateProfile, Reasons
  <2>2. worker' \in [Workers -> WorkerState]
    BY <1>1, <2>1, CountedWorker DEF GoroutinesOK
  <2>3. PICK p : p = Profiles(worker[w].chunk)[worker[w].next]
    OBVIOUS
  <2>4. p \in Positions
    BY <1>7, <2>3, InHand DEF CreateProfile, Busy, Inv, WorkersOK
  <2>5. table' \subseteq Names /\ stored' \subseteq Positions
    <3>1. Insert({p}) \/ UNCHANGED <<table, stored>>
      BY <1>7, <2>3 DEF CreateProfile
    <3> QED
      BY <1>1, <2>4, <3>1, InsertTypes DEF RowsOK, FileOK
  <2> QED
    BY <1>1, <1>2, <1>3, <1>7, <2>2, <2>5, PartsNext
       DEF CreateProfile, GoroutinesOK, RowsOK, ChannelOK, Positions
<1>8. CASE Tally(w) \/ Exit(w)
  <2>1. worker' = [worker EXCEPT ![w] = Waiting]
        \/ worker' = [worker EXCEPT ![w] = [worker[w] EXCEPT !.step = "exited"]]
    BY <1>1, <1>8 DEF Tally, Exit, GoroutinesOK
  <2>2. worker' \in [Workers -> WorkerState]
    BY <1>1, <1>4, <2>1, WorkersTyped DEF GoroutinesOK
  <2>3. result' \in Result
    BY <1>1, <1>4, <1>8, ResultsTyped DEF Tally, Exit
  <2> QED
    BY <1>1, <1>2, <1>3, <1>8, <2>2, <2>3, PartsNext
       DEF Tally, Exit, GoroutinesOK, RowsOK, ChannelOK, Positions
<1> QED
  BY <1>5, <1>6, <1>7, <1>8 DEF Work

LEMMA OtherTypes ==
    ASSUME Inv, NEW n \in Others, OtherInserts(n) \/ OtherDeletes(n)
    PROVE  TypeOK'
<1>1. FileOK /\ BatchOK /\ ChannelOK /\ GoroutinesOK /\ RowsOK /\ result \in Result
  BY Parts DEF Inv
<1>2. n \in Names
  BY ConstantsAssumption
<1>3. table' \subseteq Names /\ removed' \subseteq Names
  BY <1>1, <1>2 DEF OtherInserts, OtherDeletes, RowsOK
<1> QED
  BY <1>1, <1>3, PartsNext DEF OtherInserts, OtherDeletes, FileOK, BatchOK, ChannelOK,
                               GoroutinesOK, RowsOK, Positions
-----------------------------------------------------------------------------
(* Steps, goroutines and their chunks                                      *)

(* The array is written to only while no chunk is a slice of it.           *)
LEMMA ChunkKept ==
    ASSUME TypeOK, file' = file, buffer' = buffer \/ ~closed, closed => closed',
           NEW c, Sendable(c)
    PROVE  Profiles(c)' = Profiles(c) /\ Rows(c)' = Rows(c) /\ Sendable(c)'
<1>1. c.shared => buffer' = buffer
  BY DEF Sendable
<1>2. Profiles(c)' = Profiles(c)
  BY <1>1 DEF Profiles
<1> QED
  BY <1>2 DEF Rows, Sendable, Positions

LEMMA ReaderChanges ==
    ASSUME Inv, Process
    PROVE  /\ file' = file /\ header' = header /\ worker' = worker /\ tried' = tried
           /\ buffer' = buffer \/ ~closed
           /\ closed => closed'
           /\ errors' = errors \/ errors' > 0
           /\ table' = table /\ removed' = removed /\ database' = database
<1>1. ASSUME BatchRow PROVE ~closed
  BY <1>1 DEF BatchRow, Inv, StepsOK
<1>2. errors \in Nat
  <2>1. MaxErrors \in Nat /\ errors \in 0..MaxErrors
    BY ConstantsAssumption DEF Inv, TypeOK
  <2> QED
    BY <2>1
<1>3. CASE ReadFails
  BY <1>2, <1>3 DEF ReadFails
<1>4. CASE BatchRow
  BY <1>1, <1>4 DEF BatchRow
<1>5. CASE ReadHeader \/ SkipRow \/ SendChunk
  BY <1>5 DEF ReadHeader, SkipRow, SendChunk
<1>6. CASE EndOfFile \/ Wait \/ Respond
  BY <1>6 DEF EndOfFile, Wait, Respond
<1> QED
  BY <1>3, <1>4, <1>5, <1>6 DEF Process

(* What is sent: the batch.                                                *)
LEMMA BatchSent ==
    ASSUME Inv, ~closed, size > 0
    PROVE  /\ Sendable(FullChunk) /\ Rows(FullChunk) = Batch
           /\ \A c : c = [shared |-> TRUE, len |-> size] =>
                    /\ c \in Chunk /\ Profiles(c) = SubSeq(buffer, 1, size)
                    /\ Len(Profiles(c)) > 0 /\ Rows(c) = Batch /\ Rows(c) \subseteq Positions
<1>1. buffer \in [1..ChunkSize -> Nat] /\ size \in 0..ChunkSize /\ ChunkSize \in Nat
      /\ file \in Files
  BY ConstantsAssumption DEF Inv, TypeOK
<1>2. PICK s : s = SubSeq(buffer, 1, size)
  OBVIOUS
<1>3. s \in Seq(Nat) /\ Len(s) = size /\ Range(s) = Batch
  BY <1>1, <1>2, Slice DEF Batch
<1>4. Batch \subseteq Positions
  <2>1. Batch \subseteq Valid
    BY DEF Inv, Carried, Carry, Untried
  <2>2. pos \in 1..Len(file) + 1 /\ Len(file) \in Nat
    BY <1>1, FileRows DEF Inv, TypeOK
  <2> QED
    BY <2>1, <2>2 DEF Valid, Positions
<1>5. FullChunk.shared = FALSE /\ FullChunk.rows = s /\ FullChunk \in Chunk
  BY <1>2, <1>3 DEF FullChunk, Chunk, Copied
<1>6. Profiles(FullChunk) = s
  BY <1>5 DEF Profiles
<1>7. \A c : c = [shared |-> TRUE, len |-> size] =>
            c \in Chunk /\ Profiles(c) = s
  BY <1>1, <1>2 DEF Chunk, Shared, Profiles
<1> QED
  BY <1>1, <1>2, <1>3, <1>4, <1>5, <1>6, <1>7 DEF Sendable, Rows

(* What the reader sends is the batch, and the batch is empty then.        *)
LEMMA Sent ==
    ASSUME Inv, SendChunk \/ (EndOfFile /\ size > 0)
    PROVE  /\ \E c : channel' = Append(channel, c) /\ Rows(c)' = Batch /\ Sendable(c)'
           /\ Batch' = {}
<1>1. ~closed /\ size \in Nat /\ size > 0 /\ TypeOK
  <2>1. ChunkSize \in Nat /\ size \in 0..ChunkSize
    BY ConstantsAssumption DEF Inv, TypeOK
  <2>2. ~closed /\ size > 0
    BY DEF Inv, StepsOK, SendChunk, EndOfFile
  <2> QED
    BY <2>1, <2>2 DEF Inv
<1>2. CASE SendChunk
  <2>1. PICK c : c = FullChunk
    OBVIOUS
  <2>2. Sendable(c) /\ Rows(c) = Batch
    BY <1>1, <2>1, BatchSent
  <2>3. Sendable(c)' /\ Rows(c)' = Batch
    BY <1>1, <1>2, <2>2, ChunkKept DEF SendChunk
  <2>4. Batch' = {}
    BY <1>2 DEF SendChunk, Batch
  <2> QED
    BY <1>2, <2>1, <2>3, <2>4 DEF SendChunk, Send
<1>3. CASE EndOfFile /\ size > 0
  <2>1. PICK c : c = [shared |-> TRUE, len |-> size]
    OBVIOUS
  <2>2. /\ c \in Chunk /\ c.shared /\ c.len \in 0..ChunkSize
        /\ Len(Profiles(c)) > 0 /\ Rows(c) = Batch /\ Rows(c) \subseteq Positions
    BY <1>1, <2>1, BatchSent DEF TypeOK
  <2>3. Profiles(c)' = Profiles(c)
    BY <1>3 DEF EndOfFile, Profiles
  <2>4. Rows(c)' = Rows(c)
    BY <2>3 DEF Rows
  <2>5. Sendable(c)'
    BY <1>3, <2>2, <2>3, <2>4 DEF EndOfFile, Sendable, Positions
  <2>6. Batch' = {}
    BY <1>3 DEF EndOfFile, Batch
  <2> QED
    BY <1>3, <2>1, <2>2, <2>4, <2>5, <2>6 DEF EndOfFile, Send
<1> QED
  BY <1>2, <1>3

LEMMA ReaderSteps ==
    ASSUME Inv, Process
    PROVE  StepsOK' /\ WorkersOK' /\ ChunksOK'
<1>1. /\ pos \in 1..Len(file) + 1 /\ Len(file) \in Nat /\ size \in 0..ChunkSize
      /\ ChunkSize \in Nat \ {0} /\ channel \in Seq(Chunk) /\ closed \in BOOLEAN
      /\ header \in Headers /\ TypeOK
  BY ConstantsAssumption, FileRows DEF Inv, TypeOK
<1>2. StepsOK /\ WorkersOK /\ ChunksOK
  BY DEF Inv
<1>3. StepsOK'
  <2>1. CASE ReadHeader \/ ReadFails \/ SkipRow
    BY <1>1, <1>2, <2>1 DEF StepsOK, ReadHeader, ReadFails, SkipRow
  <2>2. CASE BatchRow
    BY <1>1, <1>2, <2>2 DEF StepsOK, BatchRow, Full
  <2>3. CASE SendChunk \/ EndOfFile
    BY <1>1, <1>2, <2>3 DEF StepsOK, SendChunk, EndOfFile
  <2>4. CASE Wait \/ Respond
    BY <1>1, <1>2, <2>4 DEF StepsOK, Wait, Respond
  <2> QED
    BY <2>1, <2>2, <2>3, <2>4 DEF Process
<1>4. ASSUME NEW c, Sendable(c)
      PROVE  Sendable(c)' /\ Profiles(c)' = Profiles(c)
  BY <1>1, <1>4, ReaderChanges, ChunkKept
<1>5. \A w \in Workers : worker[w].step \in Busy =>
            Sendable(worker[w].chunk)' /\ Profiles(worker[w].chunk)' = Profiles(worker[w].chunk)
  BY <1>2, <1>4, ReaderChanges DEF ChunksOK
<1>6. ASSUME NEW w \in Workers, worker[w].step = "exited"
      PROVE  closed' /\ channel' = <<>>
  <2>1. closed /\ channel = <<>>
    BY <1>2, <1>6 DEF WorkersOK
  <2>2. Wait \/ Respond
    BY <1>2, <2>1 DEF StepsOK, Process, ReadHeader, ReadFails, SkipRow, BatchRow, SendChunk,
                      EndOfFile
  <2> QED
    BY <2>1, <2>2 DEF Wait, Respond
<1>7. ASSUME NEW w \in Workers, closed', step' # "wait"
      PROVE  worker[w].step = "exited"
  <2>1. Wait \/ Respond
    BY <1>2, <1>7 DEF StepsOK, Process, ReadHeader, ReadFails, SkipRow, BatchRow, SendChunk,
                      EndOfFile
  <2>2. CASE Wait
    BY <2>2 DEF Wait
  <2>3. CASE Respond
    BY <1>2, <1>7, <2>3 DEF Respond, WorkersOK
  <2> QED
    BY <2>1, <2>2, <2>3
<1>8. ASSUME NEW w \in Workers, worker[w].step = "rows"
      PROVE  worker[w].next \in 1..Len(Profiles(worker[w].chunk)')
  BY <1>2, <1>5, <1>8 DEF WorkersOK, Busy
<1>9. WorkersOK'
  BY <1>2, <1>6, <1>7, <1>8, ReaderChanges DEF WorkersOK
<1>10. \A c : Sendable(c) => Sendable(c)'
  BY <1>4
<1>11. ASSUME NEW i \in DOMAIN channel'
       PROVE  Sendable(channel[i])'
  <2>1. PICK c : c = channel'[i]
    OBVIOUS
  <2>2. Sendable(c)'
    <3>1. CASE channel' = channel
      BY <1>2, <1>10, <1>11, <2>1, <3>1 DEF ChunksOK
    <3>2. CASE SendChunk \/ (EndOfFile /\ size > 0)
      <4>1. PICK d : channel' = Append(channel, d) /\ Sendable(d)'
        BY <3>2, Sent
      <4>2. c = d \/ \E k \in DOMAIN channel : c = channel[k]
        BY <1>1, <1>11, <2>1, <4>1
      <4> QED
        BY <1>2, <1>10, <4>1, <4>2 DEF ChunksOK
    <3> QED
      BY <1>1, <3>1, <3>2 DEF Process, ReadHeader, ReadFails, SkipRow, BatchRow, EndOfFile,
                                    Wait, Respond
  <2> QED
    BY <2>1, <2>2
<1>12. ChunksOK'
  BY <1>2, <1>5, <1>11, ReaderChanges DEF ChunksOK
<1> QED
  BY <1>3, <1>9, <1>12
LEMMA WorkerChanges ==
    ASSUME Inv, NEW w \in Workers, Work(w)
    PROVE  /\ UNCHANGED <<file, header, database, pos, errors, step, buffer, size, closed, removed>>
           /\ \A v \in Workers : v # w => worker'[v] = worker[v]
           /\ worker[w].step # "exited"
<1>1. UNCHANGED <<file, header, database, pos, errors, step, buffer, size, closed, removed>>
      /\ worker[w].step # "exited"
  BY DEF Work, Receive, BulkCreateProfiles, CreateProfile, Tally, Exit
<1>2. worker \in [Workers -> WorkerState]
  BY DEF Inv, TypeOK
<1>3. CASE CreateProfile(w)
  <2>1. \E outcome \in Reasons \cup {"inserted"} : Counted(w, outcome)
    BY <1>3 DEF CreateProfile, Reasons
  <2> QED
    BY <1>1, <1>2, <2>1, CountedWorker
<1>4. CASE Receive(w) \/ BulkCreateProfiles(w) \/ Tally(w) \/ Exit(w)
  BY <1>1, <1>2, <1>4 DEF Receive, BulkCreateProfiles, Tally, Exit
<1> QED
  BY <1>3, <1>4 DEF Work

(* What the worker itself has in hand then.                                *)
LEMMA WorkerGoes ==
    ASSUME Inv, NEW w \in Workers, Work(w)
    PROVE  \/ /\ Receive(w) /\ worker'[w].step = "bulk" /\ worker'[w].next = 1
              /\ channel \in Seq(Chunk) /\ channel # <<>> /\ channel' = Tail(channel)
              /\ worker'[w].chunk = channel[1]
           \/ /\ BulkCreateProfiles(w) /\ channel' = channel
              /\ worker'[w].step \in {"rows", "tally"} /\ worker'[w].next = 1
              /\ worker'[w].chunk = worker[w].chunk
           \/ /\ CreateProfile(w) /\ channel' = channel /\ worker'[w].chunk = worker[w].chunk
              /\ worker'[w].next = worker[w].next + 1
              /\ worker'[w].step = IF worker[w].next = Len(Profiles(worker[w].chunk))
                                   THEN "tally" ELSE "rows"
           \/ /\ Tally(w) /\ channel' = channel /\ worker'[w] = Waiting
           \/ /\ Exit(w) /\ channel' = channel /\ worker'[w].step = "exited"
<1>1. worker \in [Workers -> WorkerState] /\ channel \in Seq(Chunk)
  BY DEF Inv, TypeOK
<1>2. worker[w] \in WorkerState
  BY <1>1
<1>3. CASE Receive(w)
  <2>1. worker[w].next = 1
    BY <1>3 DEF Receive, Inv, WorkersOK, Waiting
  <2>2. worker' = [worker EXCEPT ![w] = [worker[w] EXCEPT !.step = "bulk", !.chunk = Head(channel)]]
    BY <1>1, <1>3 DEF Receive
  <2>3. Head(channel) = channel[1] /\ channel' = Tail(channel) /\ channel # <<>>
    BY <1>1, <1>3 DEF Receive
  <2> QED
    BY <1>1, <1>2, <1>3, <2>1, <2>2, <2>3 DEF WorkerState
<1>4. CASE BulkCreateProfiles(w)
  <2>1. worker[w].next = 1 /\ channel' = channel
    BY <1>4 DEF BulkCreateProfiles, Inv, WorkersOK
  <2>2. \/ \E n : worker' = [worker EXCEPT ![w] = [worker[w] EXCEPT !.step = "tally", !.inserted = n]]
        \/ worker' = [worker EXCEPT ![w] = [worker[w] EXCEPT !.step = "rows"]]
    BY <1>1, <1>4 DEF BulkCreateProfiles
  <2> QED
    BY <1>1, <1>2, <1>4, <2>1, <2>2 DEF WorkerState
<1>5. CASE CreateProfile(w)
  <2>1. \E outcome \in Reasons \cup {"inserted"} : Counted(w, outcome)
    BY <1>5 DEF CreateProfile, Reasons
  <2> QED
    BY <1>1, <1>5, <2>1, CountedWorker DEF CreateProfile
<1>6. CASE Tally(w)
  BY <1>1, <1>6 DEF Tally
<1>7. CASE Exit(w)
  BY <1>1, <1>2, <1>7 DEF Exit, WorkerState
<1> QED
  BY <1>3, <1>4, <1>5, <1>6, <1>7 DEF Work

LEMMA WorkerSteps ==
    ASSUME Inv, NEW w \in Workers, Work(w)
    PROVE  StepsOK' /\ WorkersOK' /\ ChunksOK'
<1>1. TypeOK /\ StepsOK /\ WorkersOK /\ ChunksOK
  BY DEF Inv
<1>2. StepsOK'
  BY <1>1, WorkerChanges DEF StepsOK
<1>3. \A c : Sendable(c) => Sendable(c)' /\ Profiles(c)' = Profiles(c)
  BY <1>1, WorkerChanges, ChunkKept
<1>4. channel \in Seq(Chunk) /\ worker \in [Workers -> WorkerState]
  BY <1>1 DEF TypeOK
<1>5. ~(closed /\ step # "wait")
  BY <1>1, WorkerChanges DEF WorkersOK
<1>6. ASSUME NEW v \in Workers, v # w
      PROVE  /\ worker'[v].step = "receive" => worker'[v] = Waiting
             /\ worker'[v].step = "bulk" => worker'[v].next = 1
             /\ worker'[v].step = "rows" => worker'[v].next \in 1..Len(Profiles(worker[v].chunk)')
             /\ worker'[v].step = "exited" => closed' /\ channel' = <<>>
             /\ worker'[v].step \in Busy => Sendable(worker[v].chunk)'
  <2>1. PICK c : c = worker[v].chunk /\ c = worker'[v].chunk /\ worker'[v] = worker[v]
    BY <1>6, WorkerChanges
  <2>2. worker[v].step \in Busy => Sendable(c)' /\ Profiles(c)' = Profiles(c)
    BY <1>1, <1>3, <2>1 DEF ChunksOK
  <2>3. worker[v].step = "exited" => closed' /\ channel' = <<>>
    BY <1>1, WorkerChanges, WorkerGoes DEF WorkersOK
  <2>4. worker[v].step = "rows" => worker[v].next \in 1..Len(Profiles(c))
    BY <1>1, <2>1 DEF WorkersOK
  <2> QED
    BY <1>1, <2>1, <2>2, <2>3, <2>4 DEF WorkersOK, Busy
<1>7.        /\ worker'[w].step = "receive" => worker'[w] = Waiting
             /\ worker'[w].step = "bulk" => worker'[w].next = 1
             /\ worker'[w].step = "rows" => worker'[w].next \in 1..Len(Profiles(worker[w].chunk)')
             /\ worker'[w].step = "exited" => closed' /\ channel' = <<>>
             /\ worker'[w].step \in Busy => Sendable(worker[w].chunk)'
  <2>1. PICK c : c = worker'[w].chunk
    OBVIOUS
  <2>2. CASE Receive(w)
    <3>0. channel # <<>> /\ 1 \in DOMAIN channel
      BY <1>4, <2>2 DEF Receive
    <3>1. worker'[w].step = "bulk" /\ worker'[w].next = 1 /\ c = channel[1]
      <4>1. worker[w].step = "receive" /\ channel' # channel
        BY <1>4, <2>2, <3>0 DEF Receive
      <4> QED
        BY <2>1, <4>1, WorkerGoes
    <3>2. Sendable(c)'
      BY <1>1, <1>3, <3>0, <3>1 DEF ChunksOK
    <3> QED
      BY <2>1, <3>1, <3>2
  <2>3. CASE BulkCreateProfiles(w)
    <3>1. worker'[w].step \in {"rows", "tally"} /\ worker'[w].next = 1 /\ c = worker[w].chunk
      BY <2>1, <2>3, WorkerGoes DEF Receive, BulkCreateProfiles, CreateProfile, Tally, Exit
    <3>2. Sendable(c) /\ Len(Profiles(c)) \in Nat \ {0}
      BY <1>1, <2>3, <3>1, InHand DEF ChunksOK, BulkCreateProfiles, Busy
    <3>3. Sendable(c)' /\ Profiles(c)' = Profiles(c)
      BY <1>3, <3>2
    <3> QED
      BY <2>1, <3>1, <3>2, <3>3
  <2>4. CASE CreateProfile(w)
    <3>1. /\ worker'[w].next = worker[w].next + 1 /\ c = worker[w].chunk
          /\ worker'[w].step = IF worker[w].next = Len(Profiles(c)) THEN "tally" ELSE "rows"
      BY <2>1, <2>4, WorkerGoes DEF Receive, BulkCreateProfiles, CreateProfile, Tally, Exit
    <3>2. Sendable(c) /\ Len(Profiles(c)) \in Nat \ {0} /\ worker[w].next \in 1..Len(Profiles(c))
      BY <1>1, <2>4, <3>1, InHand DEF ChunksOK, WorkersOK, CreateProfile, Busy
    <3>3. Sendable(c)' /\ Profiles(c)' = Profiles(c)
      BY <1>3, <3>2
    <3> QED
      BY <2>1, <3>1, <3>2, <3>3
  <2>5. CASE Tally(w)
    <3>1. worker'[w] = Waiting /\ Waiting.step = "receive"
      BY <2>5, WorkerGoes DEF Receive, BulkCreateProfiles, CreateProfile, Tally, Exit, Waiting
    <3> QED
      BY <3>1 DEF Busy
  <2>6. CASE Exit(w)
    <3>1. worker'[w].step = "exited" /\ closed /\ channel = <<>> /\ channel' = channel
      BY <2>6, WorkerGoes DEF Receive, BulkCreateProfiles, CreateProfile, Tally, Exit
    <3> QED
      BY <3>1, WorkerChanges DEF Busy
  <2> QED
    BY <2>2, <2>3, <2>4, <2>5, <2>6 DEF Work
<1>8. WorkersOK'
  BY <1>5, <1>6, <1>7, WorkerChanges DEF WorkersOK
<1>9. ASSUME NEW i \in DOMAIN channel'
      PROVE  Sendable(channel[i])'
  <2>1. PICK c : c = channel'[i]
    OBVIOUS
  <2>2. \E j \in DOMAIN channel : c = channel[j]
    BY <1>4, <1>9, <2>1, WorkerGoes
  <2> QED
    BY <1>1, <1>3, <2>1, <2>2 DEF ChunksOK
<1>10. ChunksOK'
  BY <1>6, <1>7, <1>9 DEF ChunksOK
<1> QED
  BY <1>2, <1>8, <1>10
-----------------------------------------------------------------------------
(* Rows on their way                                                       *)

LEMMA BatchGrows ==
    ASSUME NEW batch, NEW queue, NEW held, NEW p,
           p \notin Carry(batch, queue, held), Apart(batch, queue, held)
    PROVE  Apart(batch \cup {p}, queue, held)
BY DEF Carry, Apart, Disjoint

LEMMA ChunkQueued ==
    ASSUME NEW batch, NEW queue, NEW held, NEW queue2, NEW n \in Nat,
           Apart(batch, queue, held),
           DOMAIN queue = 1..n, DOMAIN queue2 = 1..n + 1,
           \A i \in 1..n : queue2[i] = queue[i], queue2[n + 1] = batch
    PROVE  Apart({}, queue2, held)
<1>1. \A i \in 1..n + 1 : i \in 1..n \/ i = n + 1
  OBVIOUS
<1> QED
  BY <1>1 DEF Apart, Disjoint

LEMMA CarryQueued ==
    ASSUME NEW batch, NEW queue, NEW held, NEW queue2, NEW n \in Nat,
           DOMAIN queue = 1..n, DOMAIN queue2 = 1..n + 1,
           \A i \in 1..n : queue2[i] = queue[i], queue2[n + 1] = batch
    PROVE  Carry({}, queue2, held) = Carry(batch, queue, held)
<1>1. \A i \in 1..n + 1 : i \in 1..n \/ i = n + 1
  OBVIOUS
<1>2. n + 1 \in 1..n + 1 /\ 1..n \subseteq 1..n + 1
  OBVIOUS
<1>3. UNION {queue2[i] : i \in 1..n + 1} = (UNION {queue[i] : i \in 1..n}) \cup batch
  BY <1>1, <1>2
<1> QED
  BY <1>3 DEF Carry

LEMMA ChunkTaken ==
    ASSUME NEW batch, NEW queue, NEW held, NEW queue2, NEW held2,
           NEW n \in Nat \ {0}, NEW w \in Workers,
           Apart(batch, queue, held),
           DOMAIN queue = 1..n, DOMAIN queue2 = 1..n - 1,
           \A i \in 1..n - 1 : queue2[i] = queue[i + 1],
           held2[w] = queue[1], held[w] = {},
           \A v \in Workers : v # w => held2[v] = held[v]
    PROVE  Apart(batch, queue2, held2)
<1>1. \A i \in 1..n - 1 : i + 1 \in 1..n /\ i + 1 # 1
  OBVIOUS
<1>2. 1 \in 1..n
  OBVIOUS
<1>3. \A i, j \in 1..n - 1 : i # j => i + 1 # j + 1
  OBVIOUS
<1>4. \A i \in 1..n - 1 : Disjoint(queue2[i], batch)
  BY <1>1 DEF Apart
<1>5. \A v \in Workers : Disjoint(held2[v], batch)
  BY <1>2 DEF Apart
<1>6. ASSUME NEW i \in 1..n - 1, NEW j \in 1..n - 1, i # j
      PROVE  Disjoint(queue2[i], queue2[j])
  <2>1. i + 1 \in DOMAIN queue /\ j + 1 \in DOMAIN queue /\ i + 1 # j + 1
    BY <1>1, <1>3, <1>6
  <2>2. Disjoint(queue[i + 1], queue[j + 1])
    BY <2>1 DEF Apart
  <2> QED
    BY <2>2
<1>7. \A i \in 1..n - 1, v \in Workers : Disjoint(queue2[i], held2[v])
  BY <1>1, <1>2 DEF Apart
<1>8. \A u, v \in Workers : u # v => Disjoint(held2[u], held2[v])
  BY <1>2 DEF Apart, Disjoint
<1> QED
  BY <1>4, <1>5, <1>6, <1>7, <1>8 DEF Apart

LEMMA CarryTaken ==
    ASSUME NEW batch, NEW queue, NEW held, NEW queue2, NEW held2,
           NEW n \in Nat \ {0}, NEW w \in Workers,
           DOMAIN queue = 1..n, DOMAIN queue2 = 1..n - 1,
           \A i \in 1..n - 1 : queue2[i] = queue[i + 1],
           held2[w] = queue[1], held[w] = {},
           \A v \in Workers : v # w => held2[v] = held[v]
    PROVE  Carry(batch, queue2, held2) = Carry(batch, queue, held)
<1>1. UNION {queue[i] : i \in 1..n} = (UNION {queue2[i] : i \in 1..n - 1}) \cup queue[1]
  <2>1. \A i \in 1..n : i = 1 \/ (i - 1 \in 1..n - 1 /\ queue2[i - 1] = queue[i])
    OBVIOUS
  <2>2. \A i \in 1..n - 1 : i + 1 \in 1..n
    OBVIOUS
  <2>3. 1 \in 1..n
    OBVIOUS
  <2> QED
    BY <2>1, <2>2, <2>3
<1>2. UNION {held2[v] : v \in Workers} = (UNION {held[v] : v \in Workers}) \cup queue[1]
  OBVIOUS
<1> QED
  BY <1>1, <1>2 DEF Carry

LEMMA ChunkDone ==
    ASSUME NEW batch, NEW queue, NEW held, NEW held2, NEW w \in Workers,
           Apart(batch, queue, held),
           held2[w] = {}, \A v \in Workers : v # w => held2[v] = held[v]
    PROVE  Apart(batch, queue, held2)
BY DEF Apart, Disjoint

LEMMA CarryDone ==
    ASSUME NEW batch, NEW queue, NEW held, NEW held2, NEW w \in Workers,
           Apart(batch, queue, held),
           held2[w] = {}, \A v \in Workers : v # w => held2[v] = held[v]
    PROVE  \A p : p \in Carry(batch, queue, held2)
                    <=> p \in Carry(batch, queue, held) /\ p \notin held[w]
<1>1. /\ batch \cap held[w] = {}
      /\ (UNION {queue[i] : i \in DOMAIN queue}) \cap held[w] = {}
  BY DEF Apart, Disjoint
<1>2. \A v \in Workers : v # w => held[v] \cap held[w] = {} /\ held2[v] = held[v]
  BY DEF Apart, Disjoint
<1>3. UNION {held2[v] : v \in Workers} = (UNION {held[v] : v \in Workers}) \ held[w]
  BY <1>2
<1> QED
  BY <1>1, <1>3 DEF Carry

(* Where nothing moves.                                                    *)
LEMMA HeldKept ==
    ASSUME Inv, file' = file, buffer' = buffer \/ ~closed, closed => closed',
           NEW w \in Workers, worker'[w].step = "bulk" <=> worker[w].step = "bulk",
           worker[w].step = "bulk" => worker'[w].chunk = worker[w].chunk
    PROVE  Held'[w] = Held[w]
<1>1. PICK c : c = worker[w].chunk
  OBVIOUS
<1>2. worker[w].step = "bulk" => Sendable(c)
  BY <1>1 DEF Inv, ChunksOK, Busy
<1>3. worker[w].step = "bulk" => Rows(c)' = Rows(c)
  BY <1>2, ChunkKept DEF Inv
<1>4. worker[w].step = "bulk" => worker'[w].chunk = c
  BY <1>1
<1> QED
  BY <1>1, <1>3, <1>4 DEF Held

LEMMA QueueRows ==
    ASSUME Inv, file' = file, buffer' = buffer \/ ~closed, closed => closed'
    PROVE  /\ DOMAIN Queue = 1..Len(channel) /\ Len(channel) \in Nat
           /\ \A i \in 1..Len(channel) : Queue[i] = Rows(channel[i])
           /\ \A i \in 1..Len(channel) : \A c : c = channel[i] => Rows(c)' = Queue[i]
           /\ channel' = channel => Queue' = Queue
<1>1. channel \in Seq(Chunk) /\ TypeOK
  BY DEF Inv, TypeOK
<1>2. DOMAIN Queue = 1..Len(channel) /\ Len(channel) \in Nat
  BY <1>1 DEF Queue
<1>3. ASSUME NEW i \in 1..Len(channel), NEW c, c = channel[i]
      PROVE  Queue[i] = Rows(c) /\ Rows(c)' = Queue[i]
  <2>1. Queue[i] = Rows(c)
    BY <1>1, <1>3 DEF Queue
  <2>2. Sendable(c)
    BY <1>1, <1>3 DEF Inv, ChunksOK
  <2> QED
    BY <1>1, <2>1, <2>2, ChunkKept
<1>4. ASSUME channel' = channel
      PROVE  Queue' = Queue
  <2>1. ASSUME NEW i \in 1..Len(channel)
        PROVE  Rows(channel[i])' = Queue[i]
    <3>1. PICK c : c = channel[i] /\ c = channel'[i]
      BY <1>4
    <3> QED
      BY <1>3, <3>1
  <2> QED
    BY <1>1, <1>2, <1>4, <2>1 DEF Queue
<1> QED
  BY <1>2, <1>3, <1>4

(* What the steps that move rows do to where they are.                     *)
LEMMA RowBatched ==
    ASSUME Inv, BatchRow
    PROVE  /\ pos \in Positions /\ pos \notin Valid /\ pos \notin Untried
           /\ Valid' = Valid \cup {pos} /\ Untried' = Untried \cup {pos}
           /\ Batch' = Batch \cup {pos} /\ Queue' = Queue /\ errors' = errors
<1>1. /\ pos \in 1..Len(file) + 1 /\ Len(file) \in Nat /\ Positions = 1..Len(file)
      /\ pos \in Nat /\ size \in Nat
      /\ tried \in [Positions -> Nat] /\ file' = file /\ tried' = tried /\ Process
  <2>1. pos \in 1..Len(file) + 1 /\ file \in Files /\ tried \in [Positions -> Nat]
        /\ size \in 0..ChunkSize /\ ChunkSize \in Nat
    BY ConstantsAssumption DEF Inv, TypeOK
  <2> QED
    BY <2>1, FileRows, ReaderChanges DEF Positions, Process
<1>2. ~closed /\ pos \in Positions /\ pos \notin Valid
  BY <1>1 DEF BatchRow, Valid, Inv, StepsOK
<1>3. Valid' = Valid \cup {pos}
  BY <1>1 DEF BatchRow, Valid
<1>4. pos \notin Untried /\ Untried' = Untried \cup {pos}
  BY <1>1, <1>2, <1>3 DEF Untried, TriedOnce, Inv
<1>5. Batch' = Batch \cup {pos}
  <2>1. buffer \in [1..ChunkSize -> Nat] /\ size + 1 \in 1..ChunkSize
    <3>1. buffer \in [1..ChunkSize -> Nat] /\ size < ChunkSize /\ ChunkSize \in Nat
      BY ConstantsAssumption DEF Inv, TypeOK, StepsOK, BatchRow
    <3> QED
      BY <1>1, <3>1
  <2>2. 1..size + 1 = 1..size \cup {size + 1} /\ 1..size \subseteq 1..ChunkSize
        /\ size + 1 \notin 1..size
    BY <1>1, <2>1, ConstantsAssumption
  <2>3. buffer' = [buffer EXCEPT ![size + 1] = pos] /\ size' = size + 1 /\ ~closed'
    BY <1>2 DEF BatchRow
  <2> QED
    BY <1>2, <2>1, <2>2, <2>3 DEF Batch
<1>6. Queue' = Queue /\ errors' = errors
  BY <1>1, QueueRows, ReaderChanges DEF BatchRow
<1> QED
  BY <1>2, <1>3, <1>4, <1>5, <1>6

LEMMA BatchQueued ==
    ASSUME Inv, SendChunk \/ (EndOfFile /\ size > 0)
    PROVE  /\ \E n \in Nat :
                /\ DOMAIN Queue = 1..n /\ DOMAIN Queue' = 1..n + 1
                /\ Queue'[n + 1] = Batch /\ \A i \in 1..n : Queue'[i] = Queue[i]
           /\ Batch' = {} /\ Valid' = Valid /\ Untried' = Untried /\ errors' = errors
<1>1. Process
  BY DEF Process
<1>2. PICK c : channel' = Append(channel, c) /\ Rows(c)' = Batch /\ Batch' = {}
  BY Sent
<1>3. channel \in Seq(Chunk)
  BY DEF Inv, TypeOK
<1>4. PICK n \in Nat : n = Len(channel)
  BY <1>3
<1>5. /\ DOMAIN channel' = 1..n + 1 /\ channel'[n + 1] = c
      /\ \A i \in 1..n : channel'[i] = channel[i]
  BY <1>2, <1>3, <1>4
<1>6. DOMAIN Queue = 1..n /\ DOMAIN Queue' = 1..n + 1
  BY <1>1, <1>4, <1>5, QueueRows, ReaderChanges DEF Queue
<1>7. Queue'[n + 1] = Batch
  BY <1>2, <1>5 DEF Queue
<1>8. ASSUME NEW i \in 1..n
      PROVE  Queue'[i] = Queue[i]
  <2>1. PICK d : d = channel[i] /\ d = channel'[i]
    BY <1>5
  <2>2. Rows(d)' = Queue[i]
    BY <1>1, <1>4, <2>1, QueueRows, ReaderChanges
  <2> QED
    BY <1>5, <2>1, <2>2 DEF Queue
<1>9. Valid' = Valid /\ Untried' = Untried /\ errors' = errors
  BY DEF Valid, Untried, SendChunk, EndOfFile
<1> QED
  BY <1>2, <1>6, <1>7, <1>8, <1>9

LEMMA ChunkReceived ==
    ASSUME Inv, NEW w \in Workers, Receive(w)
    PROVE  /\ \E n \in Nat \ {0} :
                /\ DOMAIN Queue = 1..n /\ DOMAIN Queue' = 1..n - 1
                /\ \A i \in 1..n - 1 : Queue'[i] = Queue[i + 1]
                /\ Rows(worker[w].chunk)' = Queue[1]
           /\ worker'[w].step = "bulk" /\ Untried' = Untried
<1>1. Work(w)
  BY DEF Work
<1>2. UNCHANGED <<file, pos, buffer, closed>>
  BY <1>1, WorkerChanges
<1>3. /\ worker'[w].step = "bulk" /\ channel' = Tail(channel) /\ worker'[w].chunk = channel[1]
      /\ channel \in Seq(Chunk) /\ channel # <<>>
  <2>1. worker[w].step = "receive" /\ channel' = Tail(channel) /\ channel # <<>>
    BY DEF Receive
  <2>2. channel \in Seq(Chunk)
    BY DEF Inv, TypeOK
  <2>3. Tail(channel) # channel
    BY <2>1, <2>2
  <2> QED
    BY <1>1, <2>1, <2>2, <2>3, WorkerGoes
<1>4. PICK n \in Nat \ {0} : n = Len(channel)
  BY <1>3
<1>5. DOMAIN channel' = 1..n - 1 /\ \A i \in 1..n - 1 : channel'[i] = channel[i + 1]
  BY <1>3, <1>4
<1>6. DOMAIN Queue = 1..n /\ DOMAIN Queue' = 1..n - 1
  BY <1>2, <1>4, <1>5, QueueRows DEF Queue
<1>7. ASSUME NEW i \in 1..n - 1
      PROVE  Queue'[i] = Queue[i + 1]
  <2>1. PICK d : d = channel[i + 1] /\ d = channel'[i]
    BY <1>5
  <2>2. i + 1 \in 1..Len(channel)
    BY <1>4
  <2>3. Rows(d)' = Queue[i + 1]
    BY <1>2, <2>1, <2>2, QueueRows
  <2> QED
    BY <1>5, <2>1, <2>3 DEF Queue
<1>8. Rows(worker[w].chunk)' = Queue[1]
  <2>1. PICK d : d = channel[1] /\ d = worker'[w].chunk
    BY <1>3
  <2>2. 1 \in 1..Len(channel)
    BY <1>4
  <2>3. Rows(d)' = Queue[1]
    BY <1>2, <2>1, <2>2, QueueRows
  <2> QED
    BY <2>1, <2>3
<1>9. Untried' = Untried
  BY <1>2 DEF Receive, Untried, Valid
<1> QED
  BY <1>3, <1>6, <1>7, <1>8, <1>9

LEMMA ReaderRows ==
    ASSUME Inv, Process
    PROVE  Carried' /\ TriedOnce'
<1>1. /\ pos \in 1..Len(file) + 1 /\ Len(file) \in Nat /\ Positions = 1..Len(file)
      /\ pos \in Nat /\ size \in Nat
      /\ tried \in [Positions -> Nat] /\ file' = file /\ tried' = tried /\ Positions' = Positions
  <2>1. pos \in 1..Len(file) + 1 /\ file \in Files /\ tried \in [Positions -> Nat]
        /\ size \in 0..ChunkSize /\ ChunkSize \in Nat
    BY ConstantsAssumption DEF Inv, TypeOK
  <2> QED
    BY <2>1, FileRows, ReaderChanges DEF Positions
<1>2. /\ Carry(Batch, Queue, Held) \subseteq Untried /\ Apart(Batch, Queue, Held)
      /\ errors = 0 => Untried \subseteq Carry(Batch, Queue, Held)
  BY DEF Inv, Carried
<1>3. TriedOnce
  BY DEF Inv
<1>4. Held' = Held
  BY HeldKept, ReaderChanges DEF Held
<1>5. CASE ReadHeader \/ SkipRow \/ Wait \/ Respond
  <2>1. Valid' = Valid
    BY <1>1, <1>5 DEF Valid, ReadHeader, SkipRow, Wait, Respond
  <2>2. Untried' = Untried
    BY <1>1, <2>1 DEF Untried
  <2>3. Queue' = Queue
    BY <1>5, QueueRows, ReaderChanges DEF ReadHeader, SkipRow, Wait, Respond
  <2>4. Batch' = Batch /\ errors' = errors
    <3>1. UNCHANGED <<closed, buffer, size, errors>>
      BY <1>5 DEF ReadHeader, SkipRow, Wait, Respond
    <3> QED
      BY <3>1 DEF Batch
  <2> QED
    BY <1>1, <1>2, <1>3, <1>4, <2>1, <2>2, <2>3, <2>4 DEF Carried, TriedOnce
<1>6. CASE ReadFails
  <2>1. Valid \subseteq Valid'
    BY <1>1, <1>6 DEF Valid, ReadFails
  <2>2. Untried \subseteq Untried'
    BY <1>1, <2>1 DEF Untried
  <2>3. Queue' = Queue
    BY <1>6, QueueRows, ReaderChanges DEF ReadFails
  <2>4. Batch' = Batch /\ errors' # 0
    <3>1. errors \in 0..MaxErrors /\ MaxErrors \in Nat
      BY ConstantsAssumption DEF Inv, TypeOK
    <3> QED
      BY <1>6, <3>1 DEF Batch, ReadFails
  <2>5. Carry(Batch', Queue', Held') \subseteq Untried'
    BY <1>2, <1>4, <2>2, <2>3, <2>4
  <2>6. TriedOnce'
    BY <1>1, <1>3, <2>1 DEF TriedOnce
  <2> QED
    BY <1>2, <1>4, <2>3, <2>4, <2>5, <2>6 DEF Carried
<1>7. CASE BatchRow
  <2>1. PICK p : p = pos
    OBVIOUS
  <2>2. /\ Valid' = Valid \cup {p} /\ p \notin Untried /\ Untried' = Untried \cup {p}
        /\ Batch' = Batch \cup {p} /\ Queue' = Queue /\ errors' = errors
    BY <1>7, <2>1, RowBatched
  <2>3. Apart(Batch', Queue', Held')
    BY <1>2, <1>4, <2>2, BatchGrows
  <2>4. Carry(Batch', Queue', Held') = Carry(Batch, Queue, Held) \cup {p}
    BY <1>4, <2>2 DEF Carry
  <2>5. Carried'
    BY <1>2, <2>2, <2>3, <2>4 DEF Carried
  <2>6. TriedOnce'
    BY <1>1, <1>3, <2>2 DEF TriedOnce
  <2> QED
    BY <2>5, <2>6
<1>8. CASE SendChunk \/ (EndOfFile /\ size > 0)
  <2>1. PICK n \in Nat :
            /\ DOMAIN Queue = 1..n /\ DOMAIN Queue' = 1..n + 1
            /\ Queue'[n + 1] = Batch /\ \A i \in 1..n : Queue'[i] = Queue[i]
    BY <1>8, BatchQueued
  <2>2. Batch' = {} /\ Valid' = Valid /\ Untried' = Untried /\ errors' = errors
    BY <1>8, BatchQueued
  <2>3. PICK batch, queue, queue2, held :
            batch = Batch /\ queue = Queue /\ queue2 = Queue' /\ held = Held
    OBVIOUS
  <2>4. DOMAIN queue = 1..n /\ DOMAIN queue2 = 1..n + 1 /\ queue2[n + 1] = batch
    BY <2>1, <2>3
  <2>5. \A i \in 1..n : queue2[i] = queue[i]
    BY <2>1, <2>3
  <2>6. Apart(batch, queue, held)
    BY <1>2, <2>3
  <2>7. Apart({}, queue2, held)
    BY <2>4, <2>5, <2>6, ChunkQueued
  <2>8. Carry({}, queue2, held) = Carry(batch, queue, held)
    BY <2>4, <2>5, CarryQueued
  <2>9. Apart({}, Queue', Held) /\ Carry({}, Queue', Held) = Carry(Batch, Queue, Held)
    BY <2>3, <2>7, <2>8
  <2> QED
    BY <1>1, <1>2, <1>3, <1>4, <2>2, <2>9 DEF Carried, TriedOnce
<1>9. CASE EndOfFile /\ size = 0
  <2>1. Batch' = {} /\ Batch = {}
    BY <1>9 DEF EndOfFile, Batch
  <2>2. Queue' = Queue
    BY <1>9, QueueRows, ReaderChanges DEF EndOfFile
  <2>3. Valid' = Valid /\ Untried' = Untried /\ errors' = errors
    BY <1>9 DEF Valid, Untried, EndOfFile
  <2> QED
    BY <1>1, <1>2, <1>3, <1>4, <2>1, <2>2, <2>3 DEF Carried, TriedOnce
<1> QED
  BY <1>1, <1>5, <1>6, <1>7, <1>8, <1>9 DEF Process
LEMMA WorkerRows ==
    ASSUME Inv, NEW w \in Workers, Work(w)
    PROVE  Carried' /\ TriedOnce'
<1>1. UNCHANGED <<file, pos, errors, buffer, size, closed>> /\ Positions' = Positions
  BY WorkerChanges DEF Positions
<1>2. /\ Carry(Batch, Queue, Held) \subseteq Untried /\ Apart(Batch, Queue, Held)
      /\ errors = 0 => Untried \subseteq Carry(Batch, Queue, Held)
  BY DEF Inv, Carried
<1>3. TriedOnce /\ tried \in [Positions -> Nat]
  BY DEF Inv, TypeOK
<1>4. Batch' = Batch /\ Valid' = Valid
  BY <1>1 DEF Batch, Valid
<1>5. \A v \in Workers : v # w => Held'[v] = Held[v]
  BY <1>1, WorkerChanges, HeldKept
<1>6. CASE Receive(w)
  <2>1. PICK n \in Nat \ {0} :
            /\ DOMAIN Queue = 1..n /\ DOMAIN Queue' = 1..n - 1
            /\ \A i \in 1..n - 1 : Queue'[i] = Queue[i + 1]
            /\ Rows(worker[w].chunk)' = Queue[1]
    BY <1>6, ChunkReceived
  <2>2. Held[w] = {} /\ Held'[w] = Queue[1] /\ Untried' = Untried /\ tried' = tried
    BY <1>6, <2>1, ChunkReceived DEF Held, Receive
  <2>3. PICK queue, queue2, held, held2 :
            queue = Queue /\ queue2 = Queue' /\ held = Held /\ held2 = Held'
    OBVIOUS
  <2>4. /\ DOMAIN queue = 1..n /\ DOMAIN queue2 = 1..n - 1
        /\ held[w] = {} /\ held2[w] = queue[1]
        /\ Apart(Batch, queue, held)
    BY <1>2, <2>1, <2>2, <2>3
  <2>5. \A i \in 1..n - 1 : queue2[i] = queue[i + 1]
    BY <2>1, <2>3
  <2>6. \A v \in Workers : v # w => held2[v] = held[v]
    BY <1>5, <2>3
  <2>7. Apart(Batch, queue2, held2)
    BY <2>4, <2>5, <2>6, ChunkTaken
  <2>8. Carry(Batch, queue2, held2) = Carry(Batch, queue, held)
    BY <2>4, <2>5, <2>6, CarryTaken
  <2> QED
    BY <1>1, <1>2, <1>3, <1>4, <2>2, <2>3, <2>7, <2>8 DEF Carried, TriedOnce
<1>7. CASE BulkCreateProfiles(w)
  <2>1. worker[w].step = "bulk" /\ worker'[w].step # "bulk" /\ channel' = channel
    <3>1. worker[w].step = "bulk" /\ channel' = channel
      BY <1>7 DEF BulkCreateProfiles
    <3>2. ~Receive(w) /\ ~CreateProfile(w) /\ ~Tally(w) /\ ~Exit(w)
      BY <3>1 DEF Receive, CreateProfile, Tally, Exit
    <3> QED
      BY <3>1, <3>2, WorkerGoes
  <2>2. Held[w] = Range(Profiles(worker[w].chunk)) /\ Held'[w] = {}
    BY <2>1 DEF Held, Rows
  <2>3. PICK rows : rows = Held[w]
    OBVIOUS
  <2>4. tried' = [p \in Positions |-> IF p \in rows THEN tried[p] + 1 ELSE tried[p]]
    BY <1>7, <2>2, <2>3 DEF BulkCreateProfiles
  <2>5. rows \subseteq Untried
    BY <1>2, <2>3 DEF Carry
  <2>6. Untried' = Untried \ rows
    <3>1. Valid \subseteq Positions
      <4>1. pos \in 1..Len(file) + 1 /\ Len(file) \in Nat
        BY FileRows DEF Inv, TypeOK
      <4> QED
        BY <4>1 DEF Valid, Positions
    <3>2. \A p \in Valid : tried[p] \in Nat /\ tried'[p] = IF p \in rows THEN tried[p] + 1 ELSE tried[p]
      BY <1>3, <2>4, <3>1
    <3> QED
      BY <1>4, <2>5, <3>2 DEF Untried
  <2>7. Queue' = Queue
    BY <1>1, <2>1, QueueRows
  <2>8. Apart(Batch, Queue, Held')
    BY <1>2, <1>5, <2>2, <2>3, ChunkDone
  <2>9. Carry(Batch, Queue, Held') = Carry(Batch, Queue, Held) \ rows
    <3>1. PICK held, held2 : held = Held /\ held2 = Held'
      OBVIOUS
    <3>2. Apart(Batch, Queue, held) /\ held2[w] = {} /\ \A v \in Workers : v # w => held2[v] = held[v]
      BY <1>2, <1>5, <2>2, <3>1
    <3>3. \A p : p \in Carry(Batch, Queue, held2)
                    <=> p \in Carry(Batch, Queue, held) /\ p \notin held[w]
      BY <3>2, CarryDone
    <3> QED
      BY <2>3, <3>1, <3>3
  <2>10. TriedOnce'
    BY <1>1, <1>3, <1>4, <2>4, <2>5 DEF TriedOnce, Untried
  <2>11. Carried'
    BY <1>1, <1>2, <1>4, <2>6, <2>7, <2>8, <2>9 DEF Carried
  <2> QED
    BY <2>10, <2>11
<1>8. CASE CreateProfile(w) \/ Tally(w) \/ Exit(w)
  <2>1. worker[w].step # "bulk" /\ worker'[w].step # "bulk" /\ channel' = channel /\ tried' = tried
    <3>1. worker[w].step # "bulk" /\ channel' = channel /\ tried' = tried
      BY <1>8 DEF CreateProfile, Tally, Exit
    <3>2. ~BulkCreateProfiles(w) /\ ~Receive(w)
      <4>1. channel \in Seq(Chunk)
        BY DEF Inv, TypeOK
      <4>2. channel # <<>> => Tail(channel) # channel
        BY <4>1
      <4> QED
        BY <3>1, <4>2 DEF BulkCreateProfiles, Receive
    <3> QED
      BY <3>1, <3>2, WorkerGoes DEF Waiting
  <2>2. Held' = Held
    BY <1>5, <2>1 DEF Held
  <2>3. Queue' = Queue
    BY <1>1, <2>1, QueueRows
  <2>4. Untried' = Untried
    BY <1>4, <2>1 DEF Untried
  <2> QED
    BY <1>1, <1>2, <1>3, <1>4, <2>1, <2>2, <2>3, <2>4 DEF Carried, TriedOnce
<1> QED
  BY <1>6, <1>7, <1>8 DEF Work

LEMMA OtherRows ==
    ASSUME Inv, NEW n \in Others, OtherInserts(n) \/ OtherDeletes(n)
    PROVE  StepsOK' /\ WorkersOK' /\ ChunksOK' /\ Carried' /\ TriedOnce'
<1>1. UNCHANGED <<file, header, pos, errors, step, buffer, size, channel, closed, worker, tried>>
  BY DEF OtherInserts, OtherDeletes
<1>2. UNCHANGED <<Positions, Valid, Untried, Batch, Queue, Held>>
  BY <1>1 DEF Positions, Valid, Untried, Batch, Queue, Held, Rows, Profiles
<1>3. StepsOK' /\ Carried' /\ TriedOnce'
  BY <1>1, <1>2 DEF Inv, StepsOK, Carried, TriedOnce
<1>4. WorkersOK'
  BY <1>1 DEF Inv, WorkersOK, Profiles
<1>5. ChunksOK'
  BY <1>1, <1>2 DEF Inv, ChunksOK, Sendable, Rows, Profiles
<1> QED
  BY <1>3, <1>4, <1>5
-----------------------------------------------------------------------------
(* Good rows land                                                          *)

(* A worker that is left alone still has its rows to try.                  *)
LEMMA RetriedKept ==
    ASSUME Inv, file' = file, buffer' = buffer \/ ~closed, closed => closed',
           NEW w \in Workers, worker'[w] = worker[w], NEW p, Retried(w, p)
    PROVE  Retried(w, p)'
<1>1. PICK c : c = worker[w].chunk /\ c = worker'[w].chunk
  OBVIOUS
<1>2. worker[w].step = "rows" /\ \E i \in worker[w].next..Len(Profiles(c)) : Profiles(c)[i] = p
  BY <1>1 DEF Retried
<1>3. Sendable(c)
  BY <1>1, <1>2 DEF Inv, ChunksOK, Busy
<1>4. Profiles(c)' = Profiles(c)
  BY <1>3, ChunkKept DEF Inv
<1> QED
  BY <1>1, <1>2, <1>4 DEF Retried

LEMMA InsertKeeps ==
    ASSUME NEW P, Insert(P) \/ UNCHANGED <<table, stored>>
    PROVE  table \subseteq table' /\ (Insert(P) => \A p \in P : file[p].name \in table')
BY DEF Insert

LEMMA ReaderLands ==
    ASSUME Inv, Process
    PROVE  Landing'
<1>1. /\ UNCHANGED <<file, tried, table, removed, database, worker>>
      /\ buffer' = buffer \/ ~closed
      /\ closed => closed'
  BY ReaderChanges
<1>2. \A w \in Workers, p \in Positions : Retried(w, p) => Retried(w, p)'
  BY <1>1, ReaderChanges, RetriedKept
<1>3. Positions' = Positions /\ \A p : Good(p)' <=> Good(p)
  BY <1>1 DEF Positions, Good
<1> QED
  BY <1>1, <1>2, <1>3 DEF Inv, Landing

LEMMA WorkerLands ==
    ASSUME Inv, NEW w \in Workers, Work(w)
    PROVE  Landing'
<1>1. /\ UNCHANGED <<file, removed, database, buffer, closed>>
      /\ \A v \in Workers : v # w => worker'[v] = worker[v]
  BY WorkerChanges
<1>2. Positions' = Positions /\ \A p : Good(p)' <=> Good(p)
  BY <1>1 DEF Positions, Good
<1>3. SUFFICES ASSUME database = "sound", NEW p \in Positions, Good(p), tried'[p] = 1
               PROVE  \/ file[p].name \in table' \cup removed
                      \/ \E v \in Workers : Retried(v, p)'
  BY <1>1, <1>2 DEF Landing
<1>4. tried[p] = 1 => \/ file[p].name \in table \cup removed
                      \/ \E v \in Workers : Retried(v, p)
  BY <1>3 DEF Inv, Landing
<1>5. \A v \in Workers : v # w /\ Retried(v, p) => Retried(v, p)'
  BY <1>1, RetriedKept
<1>6. CASE Receive(w) \/ Tally(w) \/ Exit(w)
  <2>1. tried' = tried /\ table' = table /\ worker[w].step # "rows"
    BY <1>6 DEF Receive, Tally, Exit
  <2>2. ~Retried(w, p)
    BY <2>1 DEF Retried
  <2> QED
    BY <1>3, <1>4, <1>5, <2>1, <2>2
<1>7. CASE BulkCreateProfiles(w)
  <2>1. PICK c, rows : c = worker[w].chunk /\ rows = Profiles(c)
    OBVIOUS
  <2>2. /\ worker[w].step = "bulk" /\ worker[w].step \in Busy /\ channel' = channel
        /\ ~Receive(w) /\ ~CreateProfile(w) /\ ~Tally(w) /\ ~Exit(w)
    BY <1>7 DEF BulkCreateProfiles, Busy, Receive, CreateProfile, Tally, Exit
  <2>3. worker'[w].chunk = c /\ worker'[w].next = 1
    BY <2>1, <2>2, WorkerGoes
  <2>4. Sendable(c) /\ Len(rows) \in Nat \ {0} /\ Range(rows) = {rows[i] : i \in 1..Len(rows)}
    BY <2>1, <2>2, InHand DEF Inv, ChunksOK, Rows
  <2>5. Profiles(c)' = rows
    BY <1>1, <2>1, <2>4, ChunkKept DEF Inv
  <2>6. table \subseteq table' /\ (Insert(Range(rows)) => \A q \in Range(rows) : file[q].name \in table')
    BY <1>7, <2>1, InsertKeeps DEF BulkCreateProfiles
  <2>7. CASE p \in Range(rows)
    <3>1. Insert(Range(rows)) \/ worker'[w].step = "rows"
      <4>1. worker \in [Workers -> WorkerState]
        BY DEF Inv, TypeOK
      <4>2. \/ Insert(Range(Profiles(worker[w].chunk)))
            \/ worker' = [worker EXCEPT ![w].step = "rows"]
        BY <1>7 DEF BulkCreateProfiles
      <4>3. worker' = [worker EXCEPT ![w].step = "rows"] => worker'[w].step = "rows"
        BY <4>1 DEF WorkerState
      <4> QED
        BY <2>1, <4>2, <4>3
    <3>2. CASE worker'[w].step = "rows"
      <4>1. PICK i \in 1..Len(rows) : rows[i] = p
        BY <2>4, <2>7
      <4>2. Retried(w, p)'
        BY <2>3, <2>5, <3>2, <4>1 DEF Retried
      <4> QED
        BY <4>2
    <3> QED
      BY <2>6, <2>7, <3>1, <3>2
  <2>8. CASE p \notin Range(rows)
    <3>1. tried'[p] = tried[p]
      BY <1>3, <1>7, <2>1, <2>8 DEF BulkCreateProfiles
    <3>2. ~Retried(w, p)
      BY <2>2 DEF Retried
    <3> QED
      BY <1>3, <1>4, <1>5, <2>6, <3>1, <3>2
  <2> QED
    BY <2>7, <2>8
<1>8. CASE CreateProfile(w)
  <2>1. PICK c, rows, next : c = worker[w].chunk /\ rows = Profiles(c) /\ next = worker[w].next
    OBVIOUS
  <2>2. /\ worker[w].step = "rows" /\ worker[w].step \in Busy /\ channel' = channel /\ tried' = tried
        /\ ~Receive(w) /\ ~BulkCreateProfiles(w) /\ ~Tally(w) /\ ~Exit(w)
    BY <1>8 DEF BulkCreateProfiles, Busy, Receive, CreateProfile, Tally, Exit
  <2>3. /\ worker'[w].chunk = c /\ worker'[w].next = next + 1
        /\ worker'[w].step = IF next = Len(rows) THEN "tally" ELSE "rows"
    BY <2>1, <2>2, WorkerGoes
  <2>4. Sendable(c) /\ Len(rows) \in Nat \ {0} /\ next \in 1..Len(rows)
    BY <2>1, <2>2, InHand DEF Inv, ChunksOK, WorkersOK
  <2>5. Profiles(c)' = rows
    BY <1>1, <2>1, <2>4, ChunkKept DEF Inv
  <2>6. table \subseteq table'
    BY <1>8, InsertKeeps DEF CreateProfile
  <2>7. ASSUME Retried(w, p)
        PROVE  file[p].name \in table' \/ Retried(w, p)'
    <3>1. PICK i \in next..Len(rows) : rows[i] = p
      BY <2>1, <2>7 DEF Retried
    <3>2. CASE i = next
      <4>1. p = Profiles(worker[w].chunk)[worker[w].next] /\ file[p].defect # "encoding"
        BY <1>3, <2>1, <3>1, <3>2 DEF Good
      <4>2. file[p].name \in table \/ Insert({p})
        BY <1>3, <1>8, <4>1 DEF CreateProfile
      <4> QED
        BY <2>6, <4>2, InsertKeeps
    <3>3. CASE i # next
      <4>1. i \in next + 1..Len(rows) /\ worker'[w].step = "rows"
        BY <2>3, <2>4, <3>1, <3>3
      <4>2. Retried(w, p)'
        BY <2>3, <2>5, <3>1, <4>1 DEF Retried
      <4> QED
        BY <4>2
    <3> QED
      BY <3>2, <3>3
  <2> QED
    BY <1>3, <1>4, <1>5, <2>2, <2>6, <2>7
<1> QED
  BY <1>6, <1>7, <1>8 DEF Work

LEMMA OtherLands ==
    ASSUME Inv, NEW n \in Others, OtherInserts(n) \/ OtherDeletes(n)
    PROVE  Landing'
<1>1. UNCHANGED <<file, database, buffer, closed, worker, tried>>
      /\ table \cup removed \subseteq table' \cup removed'
  BY DEF OtherInserts, OtherDeletes
<1>2. \A v \in Workers, p \in Positions : Retried(v, p) => Retried(v, p)'
  BY <1>1, RetriedKept
<1>3. Positions' = Positions /\ \A p : Good(p)' <=> Good(p)
  BY <1>1 DEF Positions, Good
<1> QED
  BY <1>1, <1>2, <1>3 DEF Inv, Landing

-----------------------------------------------------------------------------
(* The theorems                                                            *)

LEMMA StepHolds == Inv /\ [Next]_vars => Inv'
<1> SUFFICES ASSUME Inv, [Next]_vars
             PROVE  Inv'
  OBVIOUS
<1>1. ASSUME Process PROVE Inv'
  BY <1>1, ReaderTypes, ReaderSteps, ReaderRows, ReaderLands DEF Inv
<1>2. ASSUME NEW w \in Workers, Work(w) PROVE Inv'
  BY <1>2, WorkerTypes, WorkerSteps, WorkerRows, WorkerLands DEF Inv
<1>3. ASSUME NEW n \in Others, OtherInserts(n) \/ OtherDeletes(n) PROVE Inv'
  BY <1>3, OtherTypes, OtherRows, OtherLands DEF Inv
<1>4. CASE UNCHANGED vars
  <2>1. UNCHANGED <<TypeOK, StepsOK, WorkersOK, ChunksOK, Carried, TriedOnce, Landing>>
    BY <1>4 DEF vars, TypeOK, Positions, StepsOK, WorkersOK, ChunksOK, Sendable, Rows, Profiles,
                Carried, Untried, Valid, Batch, Queue, Held, TriedOnce, Landing, Good, Retried
  <2> QED
    BY <2>1 DEF Inv
<1> QED
  BY <1>1, <1>2, <1>3, <1>4 DEF Next

LEMMA Invariant == Spec => []Inv
BY InitHolds, StepHolds, PTL DEF Spec

(* Counters, chunks and goroutines stay within their types, no batch       *)
(* outgrows its array (ProcessCSV) and no channel its capacity.            *)
THEOREM TypeCorrect == Spec => []TypeOK
<1>1. Inv => TypeOK
  BY DEF Inv
<1> QED
  BY <1>1, Invariant, PTL

(* When all workers are gone, nothing is on its way.                       *)
LEMMA NothingLeft ==
    ASSUME Inv, step = "done", header = "ok"
    PROVE  /\ \A w \in Workers : worker[w].step = "exited"
           /\ pos = Len(file) + 1
           /\ errors = 0 => Untried = {}
<1>1. closed /\ pos = Len(file) + 1
  BY DEF Inv, StepsOK
<1>2. \A w \in Workers : worker[w].step = "exited"
  BY <1>1 DEF Inv, WorkersOK
<1>3. channel = <<>>
  BY <1>2, ConstantsAssumption DEF Inv, WorkersOK
<1>4. Batch = {} /\ DOMAIN Queue = {} /\ \A w \in Workers : Held[w] = {}
  BY <1>1, <1>2, <1>3 DEF Batch, Queue, Held
<1>5. Carry(Batch, Queue, Held) = {}
  BY <1>4 DEF Carry
<1> QED
  BY <1>1, <1>2, <1>5 DEF Inv, Carried

(* Every row that passed validateRow is in one chunk and every other row   *)
(* in none, although ProcessCSV reuses the batch while workers read.       *)
THEOREM EveryRowOnce == Spec => []EachRowOnce
<1>1. ASSUME Inv PROVE EachRowOnce
  <2>1. Len(file) \in Nat /\ Positions = 1..Len(file)
    BY <1>1, FileRows DEF Inv, TypeOK
  <2>2. \A p \in Positions : tried[p] \in {0, 1} /\ (file[p].defect = "invalid" => tried[p] = 0)
    BY <1>1 DEF Inv, TriedOnce, Valid
  <2>3. ASSUME step = "done", header = "ok", errors = 0, NEW p \in Positions,
               file[p].defect # "invalid"
        PROVE  tried[p] = 1
    <3>1. pos = Len(file) + 1 /\ Untried = {}
      BY <1>1, <2>3, NothingLeft
    <3>2. p \in Valid
      BY <2>1, <2>3, <3>1 DEF Valid
    <3> QED
      BY <2>2, <3>1, <3>2 DEF Untried
  <2> QED
    BY <2>2, <2>3 DEF EachRowOnce
<1> QED
  BY <1>1, Invariant, PTL

(* A bad row takes no good one with it: if BulkInsert fails only for the   *)
(* rows it was given, every good row is stored in the end.                 *)
THEOREM EveryGoodRowLands == Spec => []GoodRowsLand
<1>1. ASSUME Inv PROVE GoodRowsLand
  <2>1. SUFFICES ASSUME step = "done", header = "ok", database = "sound", errors = 0,
                        NEW p \in Positions, file[p].defect \in {"none", "columns"}
                 PROVE  file[p].name \in table \cup removed
    BY DEF GoodRowsLand
  <2>2. Len(file) \in Nat /\ Positions = 1..Len(file)
    BY <1>1, FileRows DEF Inv, TypeOK
  <2>3. pos = Len(file) + 1 /\ Untried = {} /\ \A w \in Workers : worker[w].step = "exited"
    BY <1>1, <2>1, NothingLeft
  <2>4. p \in Valid
    BY <2>1, <2>2, <2>3 DEF Valid
  <2>5. tried[p] = 1
    BY <1>1, <2>3, <2>4 DEF Inv, TriedOnce, Untried
  <2>6. \A w \in Workers : ~Retried(w, p)
    BY <2>3 DEF Retried
  <2> QED
    BY <1>1, <2>1, <2>5, <2>6 DEF Inv, Landing, Good
<1> QED
  BY <1>1, Invariant, PTL
-----------------------------------------------------------------------------
(* The count                                                               *)

(* The rows that each worker has in hand, inserted already or not.         *)
Hand == [w \in Workers |-> IF worker[w].step \in Busy THEN Rows(worker[w].chunk) ELSE {}]

Distinct(s) == \A i, j \in 1..Len(s) : s[i] = s[j] => i = j

(* No row is twice on its way, and the rows of a worker that has given     *)
(* them to a statement are in no other hands.                              *)
Disjointly ==
    /\ OnTheWay \subseteq Valid
    /\ Apart(Batch, Queue, Hand)
    /\ \A w \in Workers : worker[w].step \in {"rows", "tally"} => Disjoint(Hand[w], Untried)

DistinctOK ==
    /\ \A i, j \in 1..size : buffer[i] = buffer[j] => i = j
    /\ \A i \in DOMAIN channel : Distinct(Profiles(channel[i]))
    /\ \A w \in Workers : worker[w].step \in Busy => Distinct(Profiles(worker[w].chunk))

(* What a worker has counted is what it has done.                          *)
CountsOK ==
    \A w \in Workers :
        /\ worker[w].step = "bulk" => worker[w].inserted = 0 /\ worker[w].reasons = NoReasons
        /\ worker[w].step = "rows" =>
                worker[w].inserted + Total(worker[w].reasons) = worker[w].next - 1
        /\ worker[w].step = "tally" =>
                worker[w].inserted + Total(worker[w].reasons) = Len(Profiles(worker[w].chunk))

(* Stored rows are behind a statement, and counted by the worker or by the *)
(* result.                                                                 *)
Covered ==
    /\ stored \subseteq Valid \ Untried
    /\ database # "lossy" =>
        /\ Cardinality(stored \ WithWorkers) <= result.inserted
        /\ \A w \in Workers : Cardinality(stored \cap Hand[w]) <= worker[w].inserted

Count == Disjointly /\ DistinctOK /\ CountsOK /\ Accounted /\ Covered

LEMMA RowsFinite ==
    ASSUME TypeOK, NEW S \in SUBSET Positions
    PROVE  IsFiniteSet(S) /\ Cardinality(S) \in Nat
<1>1. Len(file) \in Nat /\ Positions = 1..Len(file)
  BY FileRows DEF TypeOK
<1>2. IsFiniteSet(Positions)
  BY <1>1, FS_Interval
<1>3. IsFiniteSet(S)
  BY <1>2, FS_Subset
<1> QED
  BY <1>3, FS_CardinalityType

LEMMA ValidRows ==
    ASSUME TypeOK
    PROVE  Valid \subseteq Positions /\ Untried \subseteq Valid
<1>1. pos \in 1..Len(file) + 1 /\ Len(file) \in Nat
  BY FileRows DEF TypeOK
<1> QED
  BY <1>1 DEF Valid, Untried, Positions

(* A chunk has as many rows as places.                                     *)
LEMMA ChunkLength ==
    ASSUME TypeOK, NEW c, Sendable(c), Distinct(Profiles(c))
    PROVE  Cardinality(Rows(c)) = Len(Profiles(c))
<1>1. PICK s : s = Profiles(c)
  OBVIOUS
<1>2. PICK n \in Nat : n = Len(s)
  BY <1>1, ChunkRows
<1>3. Rows(c) = {s[i] : i \in 1..n} /\ s \in Seq(Nat) /\ DOMAIN s = 1..n
  BY <1>1, <1>2, ChunkRows
<1>4. \A i, j \in 1..n : s[i] = s[j] => i = j
  BY <1>1, <1>2 DEF Distinct
<1>5. s \in [1..n -> Rows(c)]
  BY <1>3
<1>6. s \in Bijection(1..n, Rows(c))
  BY <1>3, <1>4, <1>5 DEF Bijection, Injection, Surjection, IsInjective
<1>7. ExistsBijection(1..n, Rows(c))
  BY <1>6 DEF ExistsBijection
<1> QED
  BY <1>1, <1>2, <1>7, FS_CountingElements

LEMMA Way == OnTheWay = Carry(Batch, Queue, Hand)
<1>1. InChannel = UNION {Queue[i] : i \in DOMAIN Queue}
  BY DEF InChannel, Queue
<1>2. WithWorkers = UNION {Hand[w] : w \in Workers}
  BY DEF WithWorkers, Hand
<1> QED
  BY <1>1, <1>2 DEF OnTheWay, Carry

LEMMA WayNext == OnTheWay' = Carry(Batch', Queue', Hand')
<1>1. InChannel' = UNION {Queue'[i] : i \in DOMAIN Queue'}
  BY DEF InChannel, Queue
<1>2. WithWorkers' = UNION {Hand'[w] : w \in Workers}
  BY DEF WithWorkers, Hand
<1> QED
  BY <1>1, <1>2 DEF OnTheWay, Carry

LEMMA WorkersHands ==
    /\ WithWorkers = UNION {Hand[w] : w \in Workers}
    /\ WithWorkers' = UNION {Hand'[w] : w \in Workers}
<1>1. WithWorkers = UNION {Hand[w] : w \in Workers}
  BY DEF WithWorkers, Hand
<1>2. WithWorkers' = UNION {Hand'[w] : w \in Workers}
  BY DEF WithWorkers, Hand
<1> QED
  BY <1>1, <1>2

LEMMA HandKept ==
    ASSUME Inv, file' = file, buffer' = buffer \/ ~closed, closed => closed',
           NEW w \in Workers, worker'[w].step \in Busy <=> worker[w].step \in Busy,
           worker[w].step \in Busy => worker'[w].chunk = worker[w].chunk
    PROVE  Hand'[w] = Hand[w]
<1>1. PICK c : c = worker[w].chunk
  OBVIOUS
<1>2. worker[w].step \in Busy => Sendable(c)
  BY <1>1 DEF Inv, ChunksOK
<1>3. worker[w].step \in Busy => Rows(c)' = Rows(c)
  BY <1>2, ChunkKept DEF Inv
<1>4. worker[w].step \in Busy => worker'[w].chunk = c
  BY <1>1
<1> QED
  BY <1>1, <1>3, <1>4 DEF Hand

LEMMA ReaderMoves ==
    ASSUME Inv, Disjointly, Process
    PROVE  /\ Disjointly' /\ Hand' = Hand
           /\ BatchRow => pos \notin OnTheWay /\ OnTheWay' = OnTheWay \cup {pos}
           /\ ~BatchRow => OnTheWay' = OnTheWay
<1>1. Hand' = Hand
  BY HandKept, ReaderChanges DEF Hand
<1>2. OnTheWay \subseteq Valid /\ Apart(Batch, Queue, Hand)
      /\ \A w \in Workers : worker[w].step \in {"rows", "tally"} => Disjoint(Hand[w], Untried)
  BY DEF Disjointly
<1>3. file' = file /\ tried' = tried /\ worker' = worker
  BY ReaderChanges
<1>4. \A w \in Workers : Hand[w] \subseteq Valid
  BY <1>2, Way DEF Carry
<1>5. \A w \in Workers : worker'[w].step \in {"rows", "tally"} => Disjoint(Hand'[w], Untried')
  BY <1>1, <1>2, <1>3, <1>4 DEF Disjoint, Untried
<1>6. CASE ReadHeader \/ ReadFails \/ SkipRow \/ Wait \/ Respond \/ (EndOfFile /\ size = 0)
  <2>1. Queue' = Queue
    BY <1>6, QueueRows, ReaderChanges DEF ReadHeader, ReadFails, SkipRow, Wait, Respond, EndOfFile
  <2>2. Batch' = Batch
    <3>1. CASE EndOfFile /\ size = 0
      BY <3>1 DEF EndOfFile, Batch
    <3>2. CASE ReadHeader \/ ReadFails \/ SkipRow \/ Wait \/ Respond
      <4>1. UNCHANGED <<closed, buffer, size>>
        BY <3>2 DEF ReadHeader, ReadFails, SkipRow, Wait, Respond
      <4> QED
        BY <4>1 DEF Batch
    <3> QED
      BY <1>6, <3>1, <3>2
  <2>3. OnTheWay' = OnTheWay
    BY <1>1, <2>1, <2>2, Way, WayNext
  <2>4. Valid \subseteq Valid'
    <3>1. pos' = pos \/ pos' = pos + 1
      BY <1>6 DEF ReadHeader, ReadFails, SkipRow, Wait, Respond, EndOfFile
    <3>2. pos \in Nat
      <4>1. pos \in 1..Len(file) + 1 /\ Len(file) \in Nat
        BY FileRows DEF Inv, TypeOK
      <4> QED
        BY <4>1
    <3> QED
      BY <1>3, <3>1, <3>2 DEF Valid
  <2>5. Disjointly'
    BY <1>1, <1>2, <1>5, <2>1, <2>2, <2>3, <2>4 DEF Disjointly
  <2>6. ~BatchRow
    <3>1. /\ pos \in 1..Len(file) + 1 /\ Len(file) \in Nat
          /\ errors \in 0..MaxErrors /\ MaxErrors \in Nat
      BY ConstantsAssumption, FileRows DEF Inv, TypeOK
    <3>2. CASE ReadHeader \/ SkipRow \/ Wait \/ Respond
      BY <3>2 DEF ReadHeader, SkipRow, Wait, Respond, BatchRow
    <3>3. CASE ReadFails \/ EndOfFile
      <4>1. errors' # errors \/ pos > Len(file)
        BY <3>1, <3>3 DEF ReadFails, EndOfFile
      <4> QED
        BY <3>1, <4>1 DEF BatchRow
    <3> QED
      BY <1>6, <3>2, <3>3
  <2> QED
    BY <1>1, <2>3, <2>5, <2>6
<1>7. CASE BatchRow
  <2>1. PICK p : p = pos
    OBVIOUS
  <2>2. p \notin Valid /\ Valid' = Valid \cup {p} /\ Batch' = Batch \cup {p} /\ Queue' = Queue
    BY <1>7, <2>1, RowBatched
  <2>3. p \notin OnTheWay /\ p \notin Carry(Batch, Queue, Hand)
    BY <1>2, <2>2, Way
  <2>4. OnTheWay' = OnTheWay \cup {p}
    BY <1>1, <2>2, Way, WayNext DEF Carry
  <2>5. Apart(Batch', Queue', Hand')
    BY <1>1, <1>2, <2>2, <2>3, BatchGrows
  <2>6. Disjointly'
    BY <1>2, <1>5, <2>2, <2>4, <2>5 DEF Disjointly
  <2> QED
    BY <1>1, <1>7, <2>1, <2>3, <2>4, <2>6
<1>8. CASE SendChunk \/ (EndOfFile /\ size > 0)
  <2>1. PICK n \in Nat :
            /\ DOMAIN Queue = 1..n /\ DOMAIN Queue' = 1..n + 1
            /\ Queue'[n + 1] = Batch /\ \A i \in 1..n : Queue'[i] = Queue[i]
    BY <1>8, BatchQueued
  <2>2. Batch' = {} /\ Valid' = Valid
    BY <1>8, BatchQueued
  <2>3. PICK batch, queue, queue2, hand :
            batch = Batch /\ queue = Queue /\ queue2 = Queue' /\ hand = Hand
    OBVIOUS
  <2>4. DOMAIN queue = 1..n /\ DOMAIN queue2 = 1..n + 1 /\ queue2[n + 1] = batch
    BY <2>1, <2>3
  <2>5. \A i \in 1..n : queue2[i] = queue[i]
    BY <2>1, <2>3
  <2>6. Apart(batch, queue, hand)
    BY <1>2, <2>3
  <2>7. Apart({}, queue2, hand) /\ Carry({}, queue2, hand) = Carry(batch, queue, hand)
    BY <2>4, <2>5, <2>6, ChunkQueued, CarryQueued
  <2>8. OnTheWay' = OnTheWay
    BY <1>1, <2>2, <2>3, <2>7, Way, WayNext
  <2>9. Disjointly'
    BY <1>1, <1>2, <1>5, <2>2, <2>3, <2>7, <2>8 DEF Disjointly
  <2>10. ~BatchRow
    <3>1. CASE SendChunk
      BY <3>1 DEF SendChunk, BatchRow
    <3>2. CASE EndOfFile
      <4>1. pos \in 1..Len(file) + 1 /\ Len(file) \in Nat
        BY FileRows DEF Inv, TypeOK
      <4> QED
        BY <3>2, <4>1 DEF EndOfFile, BatchRow
    <3> QED
      BY <1>8, <3>1, <3>2
  <2> QED
    BY <1>1, <2>8, <2>9, <2>10
<1>9. CASE EndOfFile
  <2>1. size \in Nat
    <3>1. size \in 0..ChunkSize /\ ChunkSize \in Nat
      BY ConstantsAssumption DEF Inv, TypeOK
    <3> QED
      BY <3>1
  <2> QED
    BY <1>6, <1>8, <1>9, <2>1
<1> QED
  BY <1>6, <1>7, <1>8, <1>9 DEF Process

LEMMA WorkerMoves ==
    ASSUME Inv, Disjointly, NEW w \in Workers, Work(w)
    PROVE  /\ Disjointly' /\ Untried' \subseteq Untried /\ Valid' = Valid
           /\ \A v \in Workers : v # w => Hand'[v] = Hand[v]
           /\ Receive(w) => Hand[w] = {} /\ Disjoint(Hand'[w], WithWorkers) /\ Hand'[w] \subseteq Untried
           /\ Tally(w) => Hand'[w] = {} /\ OnTheWay' = OnTheWay \ Hand[w]
           /\ ~Tally(w) => OnTheWay' = OnTheWay
           /\ ~Tally(w) /\ ~Receive(w) => Hand'[w] = Hand[w]
<1>1. UNCHANGED <<file, pos, buffer, size, closed>>
  BY WorkerChanges
<1>2. OnTheWay \subseteq Valid /\ Apart(Batch, Queue, Hand)
      /\ \A v \in Workers : worker[v].step \in {"rows", "tally"} => Disjoint(Hand[v], Untried)
  BY DEF Disjointly
<1>3. Batch' = Batch /\ Valid' = Valid
  BY <1>1 DEF Batch, Valid
<1>4. ASSUME NEW v \in Workers, v # w
      PROVE  worker'[v] = worker[v] /\ Hand'[v] = Hand[v]
  BY <1>1, <1>4, WorkerChanges, HandKept
<1>5. CASE Receive(w)
  <2>1. PICK n \in Nat \ {0} :
            /\ DOMAIN Queue = 1..n /\ DOMAIN Queue' = 1..n - 1
            /\ \A i \in 1..n - 1 : Queue'[i] = Queue[i + 1]
            /\ Rows(worker[w].chunk)' = Queue[1]
    BY <1>5, ChunkReceived
  <2>2. worker[w].step = "receive" /\ worker'[w].step = "bulk" /\ Untried' = Untried
    BY <1>5, ChunkReceived DEF Receive
  <2>3. Hand[w] = {} /\ Hand'[w] = Queue[1]
    BY <2>1, <2>2 DEF Hand, Busy
  <2>4. PICK batch, queue, queue2, hand, hand2 :
            /\ batch = Batch
            /\ queue = Queue /\ queue2 = Queue' /\ hand = Hand /\ hand2 = Hand'
    OBVIOUS
  <2>5. DOMAIN queue = 1..n /\ DOMAIN queue2 = 1..n - 1
    BY <2>1, <2>4
  <2>6. hand[w] = {} /\ hand2[w] = queue[1] /\ Apart(batch, queue, hand)
    BY <1>2, <2>3, <2>4
  <2>7. \A i \in 1..n - 1 : queue2[i] = queue[i + 1]
    BY <2>1, <2>4
  <2>8. \A v \in Workers : v # w => hand2[v] = hand[v]
    BY <1>4, <2>4
  <2>9. Apart(batch, queue2, hand2)
    BY <2>5, <2>6, <2>8, <2>7, ChunkTaken
  <2>10. Carry(batch, queue2, hand2) = Carry(batch, queue, hand)
    BY <2>5, <2>6, <2>8, <2>7, CarryTaken
  <2>11. OnTheWay' = OnTheWay
    BY <1>3, <2>4, <2>10, Way, WayNext
  <2>12. Disjointly'
    BY <1>2, <1>3, <1>4, <2>2, <2>4, <2>9, <2>11 DEF Disjointly
  <2>13. 1 \in DOMAIN Queue
    BY <2>1
  <2>14. Disjoint(Hand'[w], WithWorkers)
    BY <1>2, <2>3, <2>13, WorkersHands DEF Apart, Disjoint
  <2>15. Hand'[w] \subseteq Untried
    BY <2>3, <2>13 DEF Inv, Carried, Carry
  <2>16. ~Tally(w)
    BY <2>2 DEF Tally
  <2> QED
    BY <1>3, <1>4, <1>5, <2>2, <2>3, <2>11, <2>12, <2>14, <2>15, <2>16
<1>6. CASE Tally(w)
  <2>1. worker'[w].step = "receive" /\ worker[w].step = "tally" /\ channel' = channel /\ tried' = tried
    <3>1. worker[w].step = "tally" /\ channel' = channel /\ tried' = tried
          /\ worker' = [worker EXCEPT ![w] = Waiting]
      BY <1>6 DEF Tally
    <3>2. worker \in [Workers -> WorkerState]
      BY DEF Inv, TypeOK
    <3> QED
      BY <3>1, <3>2 DEF Waiting
  <2>2. Hand'[w] = {}
    BY <2>1 DEF Hand, Busy
  <2>3. Queue' = Queue
    BY <1>1, <2>1, QueueRows
  <2>4. Untried' = Untried
    BY <1>1, <1>3, <2>1 DEF Untried
  <2>5. Apart(Batch, Queue, Hand')
    BY <1>2, <1>4, <2>2, ChunkDone
  <2>6. PICK hand, hand2 : hand = Hand /\ hand2 = Hand'
    OBVIOUS
  <2>7. Apart(Batch, Queue, hand) /\ hand2[w] = {} /\ \A v \in Workers : v # w => hand2[v] = hand[v]
    BY <1>2, <1>4, <2>2, <2>6
  <2>8. \A p : p \in Carry(Batch, Queue, hand2) <=> p \in Carry(Batch, Queue, hand) /\ p \notin hand[w]
    BY <2>7, CarryDone
  <2>9. OnTheWay' = OnTheWay \ Hand[w]
    BY <1>3, <2>3, <2>6, <2>8, Way, WayNext
  <2>10. Disjointly'
    BY <1>2, <1>3, <1>4, <2>1, <2>3, <2>4, <2>5, <2>9 DEF Disjointly
  <2>11. ~Receive(w)
    BY <2>1 DEF Receive
  <2> QED
    BY <1>3, <1>4, <1>6, <2>2, <2>4, <2>9, <2>10, <2>11
<1>7. CASE BulkCreateProfiles(w) \/ CreateProfile(w) \/ Exit(w)
  <2>1. channel' = channel /\ ~Receive(w) /\ ~Tally(w)
    BY <1>7 DEF BulkCreateProfiles, CreateProfile, Exit, Receive, Tally
  <2>2. /\ worker'[w].step \in Busy <=> worker[w].step \in Busy
        /\ worker[w].step \in Busy => worker'[w].chunk = worker[w].chunk
    BY <1>7, <2>1, WorkerGoes DEF BulkCreateProfiles, CreateProfile, Exit, Busy
  <2>3. Hand'[w] = Hand[w]
    BY <1>1, <2>2, HandKept
  <2>4. Hand' = Hand
    BY <1>4, <2>3 DEF Hand
  <2>5. Queue' = Queue
    BY <1>1, <2>1, QueueRows
  <2>6. OnTheWay' = OnTheWay
    BY <1>3, <2>4, <2>5, Way, WayNext
  <2>7. Untried' \subseteq Untried
    <3>1. \A p \in Valid : tried'[p] = 0 => tried[p] = 0
      <4>1. tried \in [Positions -> Nat] /\ Valid \subseteq Positions
        BY ValidRows DEF Inv, TypeOK
      <4> QED
        BY <1>7, <4>1 DEF BulkCreateProfiles, CreateProfile, Exit
    <3> QED
      BY <1>3, <3>1 DEF Untried
  <2>8. worker'[w].step \in {"rows", "tally"} => Disjoint(Hand[w], Untried')
    <3>1. CASE BulkCreateProfiles(w)
      <4>1. worker[w].step = "bulk" /\ Hand[w] = Range(Profiles(worker[w].chunk))
        BY <3>1 DEF BulkCreateProfiles, Hand, Busy, Rows
      <4>2. PICK rows : rows = Hand[w]
        OBVIOUS
      <4>3. tried' = [p \in Positions |-> IF p \in rows THEN tried[p] + 1 ELSE tried[p]]
        BY <3>1, <4>1, <4>2 DEF BulkCreateProfiles
      <4>4. rows \subseteq Positions
        BY <4>1, <4>2, InHand DEF Busy, Rows
      <4>5. \A p \in rows : tried'[p] # 0
        <5>1. \A p \in Positions : tried[p] \in Nat
          BY DEF Inv, TypeOK
        <5> QED
          BY <4>3, <4>4, <5>1
      <4> QED
        BY <4>2, <4>5 DEF Disjoint, Untried
    <3>2. CASE CreateProfile(w)
      <4>1. worker[w].step = "rows"
        BY <3>2 DEF CreateProfile
      <4> QED
        BY <1>2, <2>7, <4>1 DEF Disjoint
    <3>3. CASE Exit(w)
      <4>1. worker[w].step = "receive"
        BY <3>3 DEF Exit
      <4>2. Hand[w] = {}
        BY <4>1 DEF Hand, Busy
      <4> QED
        BY <4>2 DEF Disjoint
    <3> QED
      BY <1>7, <3>1, <3>2, <3>3
  <2>9. \A v \in Workers : worker'[v].step \in {"rows", "tally"} => Disjoint(Hand[v], Untried')
    BY <1>2, <1>4, <2>7, <2>8 DEF Disjoint
  <2>10. Disjointly'
    BY <1>2, <1>3, <2>4, <2>5, <2>6, <2>9 DEF Disjointly
  <2> QED
    BY <1>3, <1>4, <2>1, <2>3, <2>6, <2>7, <2>10
<1> QED
  BY <1>5, <1>6, <1>7 DEF Work

LEMMA ReaderDistinct ==
    ASSUME Inv, Disjointly, DistinctOK, Process
    PROVE  DistinctOK'
<1>1. /\ buffer \in [1..ChunkSize -> Nat] /\ size \in 0..ChunkSize /\ ChunkSize \in Nat
      /\ channel \in Seq(Chunk) /\ TypeOK
  BY ConstantsAssumption DEF Inv, TypeOK
<1>2. \A i, j \in 1..size : buffer[i] = buffer[j] => i = j
  BY DEF DistinctOK
<1>3. \A c : Sendable(c) => Profiles(c)' = Profiles(c)
  BY <1>1, ReaderChanges, ChunkKept
<1>4. ASSUME NEW w \in Workers, worker'[w].step \in Busy
      PROVE  Distinct(Profiles(worker[w].chunk))'
  <2>1. PICK c : c = worker[w].chunk /\ c = worker'[w].chunk /\ worker[w].step \in Busy
    BY <1>4, ReaderChanges
  <2>2. Sendable(c) /\ Distinct(Profiles(c))
    BY <2>1 DEF Inv, ChunksOK, DistinctOK
  <2>3. Profiles(c)' = Profiles(c)
    BY <1>3, <2>2
  <2> QED
    BY <2>1, <2>2, <2>3 DEF Distinct
<1>5. ASSUME NEW c, NEW i \in DOMAIN channel, c = channel[i]
      PROVE  Distinct(Profiles(c))'
  <2>1. Sendable(c) /\ Distinct(Profiles(c))
    BY <1>5 DEF Inv, ChunksOK, DistinctOK
  <2> QED
    BY <1>3, <2>1 DEF Distinct
<1>6. Distinct(SubSeq(buffer, 1, size))
  <2>1. PICK s : s = SubSeq(buffer, 1, size)
    OBVIOUS
  <2>2. Len(s) = size /\ \A i \in 1..size : s[i] = buffer[i]
    BY <1>1, <2>1, Slice
  <2> QED
    BY <1>2, <2>1, <2>2 DEF Distinct
<1>7. \A i, j \in 1..size' : buffer'[i] = buffer'[j] => i = j
  <2>1. CASE BatchRow
    <3>1. size < ChunkSize /\ ~closed
      BY <2>1 DEF BatchRow, Inv, StepsOK
    <3>2. size' = size + 1 /\ buffer' = [buffer EXCEPT ![size + 1] = pos]
      BY <2>1 DEF BatchRow
    <3>3. \A i \in 1..size : buffer[i] # pos
      <4>1. pos \notin OnTheWay
        BY <2>1, ReaderMoves
      <4> QED
        BY <3>1, <4>1 DEF OnTheWay, Batch
    <3>4. \A i \in 1..size + 1 : (i \in 1..size /\ buffer'[i] = buffer[i])
                                \/ (i = size + 1 /\ buffer'[i] = pos)
      BY <1>1, <3>1, <3>2
    <3> QED
      BY <1>2, <3>2, <3>3, <3>4
  <2>2. CASE SendChunk
    BY <2>2 DEF SendChunk
  <2>3. CASE ~BatchRow /\ ~SendChunk
    <3>1. buffer' = buffer /\ size' = size
      BY <2>3 DEF Process, ReadHeader, ReadFails, SkipRow, EndOfFile, Wait, Respond
    <3> QED
      BY <1>2, <3>1
  <2> QED
    BY <2>1, <2>2, <2>3
<1>8. ASSUME NEW i \in DOMAIN channel'
      PROVE  Distinct(Profiles(channel[i]))'
  <2>1. PICK c : c = channel'[i]
    OBVIOUS
  <2>2. CASE channel' = channel
    BY <1>5, <1>8, <2>1, <2>2
  <2>3. CASE SendChunk \/ (EndOfFile /\ size > 0)
    <3>1. PICK d : channel' = Append(channel, d)
                   /\ (d = FullChunk \/ d = [shared |-> TRUE, len |-> size])
      BY <2>3 DEF SendChunk, EndOfFile, Send
    <3>2. c = d \/ \E k \in DOMAIN channel : c = channel[k]
      BY <1>1, <1>8, <2>1, <3>1
    <3>3. buffer' = buffer
      BY <2>3 DEF SendChunk, EndOfFile
    <3>4. Profiles(d)' = SubSeq(buffer, 1, size)
      <4>1. CASE d = FullChunk
        <5>1. d.shared = FALSE /\ d.rows = SubSeq(buffer, 1, size)
          BY <4>1 DEF FullChunk
        <5> QED
          BY <5>1 DEF Profiles
      <4>2. CASE d = [shared |-> TRUE, len |-> size]
        <5>1. d.shared = TRUE /\ d.len = size
          BY <4>2
        <5> QED
          BY <3>3, <5>1 DEF Profiles
      <4> QED
        BY <3>1, <4>1, <4>2
    <3> QED
      BY <1>5, <1>6, <2>1, <3>2, <3>4 DEF Distinct
  <2> QED
    BY <1>1, <2>2, <2>3 DEF Process, ReadHeader, ReadFails, SkipRow, BatchRow, EndOfFile, Wait,
                            Respond
<1> QED
  BY <1>4, <1>7, <1>8 DEF DistinctOK

LEMMA WorkerDistinct ==
    ASSUME Inv, DistinctOK, NEW w \in Workers, Work(w)
    PROVE  DistinctOK'
<1>1. UNCHANGED <<file, buffer, size, closed>>
  BY WorkerChanges
<1>2. channel \in Seq(Chunk) /\ TypeOK
  BY DEF Inv, TypeOK
<1>3. \A c : Sendable(c) => Profiles(c)' = Profiles(c)
  BY <1>1, <1>2, ChunkKept
<1>4. ASSUME NEW c, NEW i \in DOMAIN channel, c = channel[i]
      PROVE  Distinct(Profiles(c))'
  <2>1. Sendable(c) /\ Distinct(Profiles(c))
    BY <1>4 DEF Inv, ChunksOK, DistinctOK
  <2> QED
    BY <1>3, <2>1 DEF Distinct
<1>5. ASSUME NEW c, NEW v \in Workers, worker[v].step \in Busy, c = worker[v].chunk
      PROVE  Distinct(Profiles(c))'
  <2>1. Sendable(c) /\ Distinct(Profiles(c))
    BY <1>5 DEF Inv, ChunksOK, DistinctOK
  <2> QED
    BY <1>3, <2>1 DEF Distinct
<1>6. ASSUME NEW i \in DOMAIN channel'
      PROVE  Distinct(Profiles(channel[i]))'
  <2>1. PICK c : c = channel'[i]
    OBVIOUS
  <2>2. \E k \in DOMAIN channel : c = channel[k]
    BY <1>2, <1>6, <2>1, WorkerGoes
  <2> QED
    BY <1>4, <2>1, <2>2
<1>7. ASSUME NEW v \in Workers, worker'[v].step \in Busy
      PROVE  Distinct(Profiles(worker[v].chunk))'
  <2>1. PICK c : c = worker'[v].chunk
    OBVIOUS
  <2>2. CASE v # w
    BY <1>5, <1>7, <2>1, <2>2, WorkerChanges
  <2>3. CASE v = w
    <3>1. \/ channel # <<>> /\ c = channel[1]
          \/ worker[w].step \in Busy /\ c = worker[w].chunk
      <4>1. CASE Receive(w)
        <5>1. channel # <<>> /\ channel' = Tail(channel) /\ worker[w].step = "receive"
          BY <4>1 DEF Receive
        <5>2. channel' # channel
          BY <1>2, <5>1
        <5> QED
          BY <2>1, <2>3, <5>1, <5>2, WorkerGoes
      <4>2. CASE BulkCreateProfiles(w) \/ CreateProfile(w)
        <5>1. worker[w].step \in {"bulk", "rows"} /\ channel' = channel
          BY <4>2 DEF BulkCreateProfiles, CreateProfile
        <5>2. ~Receive(w) /\ ~Tally(w) /\ ~Exit(w)
          BY <5>1 DEF Receive, Tally, Exit
        <5> QED
          BY <2>1, <2>3, <5>1, <5>2, WorkerGoes DEF Busy
      <4>3. CASE Tally(w) \/ Exit(w)
        <5>1. channel' = channel /\ ~Receive(w) /\ ~BulkCreateProfiles(w) /\ ~CreateProfile(w)
          BY <4>3 DEF Receive, BulkCreateProfiles, CreateProfile, Tally, Exit
        <5>2. worker'[w].step \in {"receive", "exited"}
          BY <5>1, WorkerGoes DEF Waiting
        <5> QED
          BY <1>7, <2>3, <5>2 DEF Busy
      <4> QED
        BY <4>1, <4>2, <4>3 DEF Work
    <3>2. channel # <<>> => 1 \in DOMAIN channel
      BY <1>2
    <3> QED
      BY <1>4, <1>5, <2>1, <3>1, <3>2
  <2> QED
    BY <2>2, <2>3
<1> QED
  BY <1>1, <1>6, <1>7 DEF DistinctOK

-----------------------------------------------------------------------------

LEMMA TotalCounts ==
    ASSUME NEW r \in Counts, NEW reason \in Reasons
    PROVE  /\ Total([r EXCEPT ![reason] = @ + 1]) = Total(r) + 1
           /\ Total(NoReasons) = 0
           /\ \A s \in Counts : Total([x \in Reasons |-> r[x] + s[x]]) = Total(r) + Total(s)
<1>1. \A x \in Reasons : r[x] \in Nat
  BY DEF Counts
<1>2. Total(NoReasons) = 0
  BY DEF Total, NoReasons, Reasons
<1>3. ASSUME NEW s \in Counts
      PROVE  Total([x \in Reasons |-> r[x] + s[x]]) = Total(r) + Total(s)
  <2>1. \A x \in Reasons : s[x] \in Nat
    BY DEF Counts
  <2> QED
    BY <1>1, <2>1 DEF Total, Reasons
<1>4. PICK t : t = [r EXCEPT ![reason] = @ + 1]
  OBVIOUS
<1>5. \A x \in Reasons : t[x] = IF x = reason THEN r[x] + 1 ELSE r[x]
  BY <1>4 DEF Counts
<1>6. Total(t) = Total(r) + 1
  <2>1. PICK a, b, c, d, e, f :
            /\ a = r["malformed_file"] /\ b = r["missing_required_columns"]
            /\ c = r["malformed_row"] /\ d = r["validation"]
            /\ e = r["duplicate_name"] /\ f = r["insert_error"]
    OBVIOUS
  <2>2. a \in Nat /\ b \in Nat /\ c \in Nat /\ d \in Nat /\ e \in Nat /\ f \in Nat
    BY <1>1, <2>1 DEF Reasons
  <2>3. /\ t["malformed_file"] = IF reason = "malformed_file" THEN a + 1 ELSE a
        /\ t["missing_required_columns"] = IF reason = "missing_required_columns" THEN b + 1 ELSE b
        /\ t["malformed_row"] = IF reason = "malformed_row" THEN c + 1 ELSE c
        /\ t["validation"] = IF reason = "validation" THEN d + 1 ELSE d
        /\ t["duplicate_name"] = IF reason = "duplicate_name" THEN e + 1 ELSE e
        /\ t["insert_error"] = IF reason = "insert_error" THEN f + 1 ELSE f
    BY <1>5, <2>1 DEF Reasons
  <2>4. Total(r) = a + b + c + d + e + f
    BY <2>1 DEF Total
  <2>5. CASE reason = "malformed_file"
    BY <2>2, <2>3, <2>4, <2>5 DEF Total
  <2>6. CASE reason = "missing_required_columns"
    BY <2>2, <2>3, <2>4, <2>6 DEF Total
  <2>7. CASE reason = "malformed_row"
    BY <2>2, <2>3, <2>4, <2>7 DEF Total
  <2>8. CASE reason = "validation"
    BY <2>2, <2>3, <2>4, <2>8 DEF Total
  <2>9. CASE reason = "duplicate_name"
    BY <2>2, <2>3, <2>4, <2>9 DEF Total
  <2>10. CASE reason = "insert_error"
    BY <2>2, <2>3, <2>4, <2>10 DEF Total
  <2> QED
    BY <2>5, <2>6, <2>7, <2>8, <2>9, <2>10 DEF Reasons
<1> QED
  BY <1>2, <1>3, <1>4, <1>6

LEMMA CountedCounts ==
    ASSUME NEW w \in Workers, worker \in [Workers -> WorkerState],
           NEW outcome \in Reasons \cup {"inserted"}, Counted(w, outcome)
    PROVE  /\ worker'[w].inserted + Total(worker'[w].reasons)
                    = worker[w].inserted + Total(worker[w].reasons) + 1
           /\ worker'[w].inserted = worker[w].inserted + (IF outcome = "inserted" THEN 1 ELSE 0)
<1> DEFINE last == worker[w].next = Len(Profiles(worker[w].chunk))
<1>1. PICK t, s, n, m : /\ t = worker[w] /\ s = (IF last THEN "tally" ELSE "rows")
                        /\ n = t.next + 1 /\ m = t.inserted + 1
  OBVIOUS
<1>2. t \in WorkerState /\ t.inserted \in Nat /\ t.reasons \in Counts
  BY <1>1 DEF WorkerState
<1>3. PICK c : c = IF outcome = "inserted" THEN [t EXCEPT !.inserted = m]
                   ELSE [t EXCEPT !.reasons[outcome] = @ + 1]
  OBVIOUS
<1>4. worker' = [worker EXCEPT ![w] = [c EXCEPT !.next = n, !.step = s]]
  <2>1. c.next = t.next
    BY <1>2, <1>3 DEF WorkerState
  <2> QED
    BY <1>1, <1>3, <2>1 DEF Counted
<1>5. /\ c.inserted + Total(c.reasons) = t.inserted + Total(t.reasons) + 1
      /\ c.inserted = t.inserted + (IF outcome = "inserted" THEN 1 ELSE 0)
      /\ DOMAIN c = DOMAIN t
  <2>1. Total(t.reasons) \in Nat
    BY <1>2, ReasonsAdd
  <2>2. CASE outcome = "inserted"
    <3>1. c.inserted = m /\ c.reasons = t.reasons /\ DOMAIN c = DOMAIN t
      BY <1>2, <1>3, <2>2 DEF WorkerState
    <3> QED
      BY <1>1, <1>2, <2>1, <2>2, <3>1
  <2>3. CASE outcome # "inserted"
    <3>1. PICK reasons : reasons = [t.reasons EXCEPT ![outcome] = @ + 1]
      OBVIOUS
    <3>2. c = [t EXCEPT !.reasons = reasons]
      BY <1>3, <2>3, <3>1
    <3>3. c.inserted = t.inserted /\ c.reasons = reasons /\ DOMAIN c = DOMAIN t
      BY <1>2, <3>2 DEF WorkerState
    <3>4. Total(reasons) = Total(t.reasons) + 1
      BY <1>2, <2>3, <3>1, TotalCounts
    <3> QED
      BY <1>2, <2>1, <2>3, <3>3, <3>4
  <2> QED
    BY <2>2, <2>3
<1>6. worker'[w].inserted = c.inserted /\ worker'[w].reasons = c.reasons
  BY <1>2, <1>4, <1>5 DEF WorkerState
<1> QED
  BY <1>1, <1>5, <1>6

(* What each step of a worker leaves it with.                              *)
LEMMA WorkerCounted ==
    ASSUME Inv, NEW w \in Workers, Work(w)
    PROVE  /\ Receive(w) => /\ worker'[w].step = "bulk" /\ stored' = stored
                            /\ worker'[w].inserted = 0 /\ worker'[w].reasons = NoReasons
           /\ BulkCreateProfiles(w) =>
                /\ worker[w].step = "bulk" /\ worker[w].next = 1
                /\ worker'[w].next = 1 /\ worker'[w].chunk = worker[w].chunk
                /\ worker'[w].reasons = worker[w].reasons
                /\ \/ /\ worker'[w].step = "tally" /\ Insert(Rows(worker[w].chunk))
                      /\ worker'[w].inserted = Len(Profiles(worker[w].chunk))
                   \/ /\ worker'[w].step = "rows" /\ worker'[w].inserted = worker[w].inserted
                      /\ \/ stored' = stored
                         \/ database = "lossy" /\ Insert(Rows(worker[w].chunk))
           /\ Exit(w) => /\ worker'[w].step = "exited" /\ stored' = stored
                         /\ worker'[w].inserted = worker[w].inserted
<1>1. worker \in [Workers -> WorkerState] /\ worker[w] \in WorkerState /\ channel \in Seq(Chunk)
  BY DEF Inv, TypeOK
<1>2. ASSUME Receive(w)
      PROVE  /\ worker'[w].step = "bulk" /\ stored' = stored
             /\ worker'[w].inserted = 0 /\ worker'[w].reasons = NoReasons
  <2>1. worker[w] = Waiting
    BY <1>2 DEF Receive, Inv, WorkersOK
  <2>2. worker' = [worker EXCEPT ![w] = [worker[w] EXCEPT !.step = "bulk", !.chunk = Head(channel)]]
    BY <1>1, <1>2 DEF Receive
  <2>3. worker'[w] = [Waiting EXCEPT !.step = "bulk", !.chunk = Head(channel)]
    BY <1>1, <2>1, <2>2
  <2> QED
    BY <1>2, <2>3 DEF Waiting, Receive
<1>3. ASSUME BulkCreateProfiles(w)
      PROVE  /\ worker[w].step = "bulk" /\ worker[w].next = 1
             /\ worker'[w].next = 1 /\ worker'[w].chunk = worker[w].chunk
             /\ worker'[w].reasons = worker[w].reasons
             /\ \/ /\ worker'[w].step = "tally" /\ Insert(Rows(worker[w].chunk))
                   /\ worker'[w].inserted = Len(Profiles(worker[w].chunk))
                \/ /\ worker'[w].step = "rows" /\ worker'[w].inserted = worker[w].inserted
                   /\ \/ stored' = stored
                      \/ database = "lossy" /\ Insert(Rows(worker[w].chunk))
  <2>1. PICK t, rows, n : /\ t = worker[w] /\ rows = Profiles(worker[w].chunk) /\ n = Len(rows)
    OBVIOUS
  <2>2. worker[w].step = "bulk" /\ worker[w].next = 1
    BY <1>3 DEF BulkCreateProfiles, Inv, WorkersOK
  <2>3. \/ /\ worker' = [worker EXCEPT ![w] = [t EXCEPT !.step = "tally", !.inserted = n]]
           /\ Insert(Range(rows))
        \/ /\ worker' = [worker EXCEPT ![w] = [t EXCEPT !.step = "rows"]]
           /\ stored' = stored \/ (database = "lossy" /\ Insert(Range(rows)))
    BY <1>1, <1>3, <2>1 DEF BulkCreateProfiles
  <2>4. Range(rows) = Rows(worker[w].chunk)
    BY <2>1 DEF Rows
  <2>5. CASE /\ worker' = [worker EXCEPT ![w] = [t EXCEPT !.step = "tally", !.inserted = n]]
             /\ Insert(Range(rows))
    <3>1. worker'[w] = [t EXCEPT !.step = "tally", !.inserted = n] /\ t \in WorkerState
      BY <1>1, <2>1, <2>5
    <3>2. PICK u : u = worker'[w]
      OBVIOUS
    <3>3. /\ u.step = "tally" /\ u.inserted = n /\ u.next = t.next
          /\ u.chunk = t.chunk /\ u.reasons = t.reasons
      BY <3>1, <3>2 DEF WorkerState
    <3> QED
      BY <2>1, <2>2, <2>4, <2>5, <3>2, <3>3
  <2>6. CASE /\ worker' = [worker EXCEPT ![w] = [t EXCEPT !.step = "rows"]]
             /\ stored' = stored \/ (database = "lossy" /\ Insert(Range(rows)))
    <3>1. worker'[w] = [t EXCEPT !.step = "rows"] /\ t \in WorkerState
      BY <1>1, <2>1, <2>6
    <3>2. PICK u : u = worker'[w]
      OBVIOUS
    <3>3. /\ u.step = "rows" /\ u.inserted = t.inserted /\ u.next = t.next
          /\ u.chunk = t.chunk /\ u.reasons = t.reasons
      BY <3>1, <3>2 DEF WorkerState
    <3> QED
      BY <2>1, <2>2, <2>4, <2>6, <3>2, <3>3
  <2> QED
    BY <2>3, <2>5, <2>6
<1>4. ASSUME Exit(w)
      PROVE  /\ worker'[w].step = "exited" /\ stored' = stored
             /\ worker'[w].inserted = worker[w].inserted
  <2>1. worker' = [worker EXCEPT ![w] = [worker[w] EXCEPT !.step = "exited"]]
    BY <1>1, <1>4 DEF Exit
  <2> QED
    BY <1>1, <1>4, <2>1 DEF Exit, WorkerState
<1> QED
  BY <1>2, <1>3, <1>4

LEMMA ReaderCounts ==
    ASSUME Inv, CountsOK, Process
    PROVE  CountsOK'
<1>1. ASSUME NEW w \in Workers, worker[w].step = "tally"
      PROVE  worker[w].inserted + Total(worker[w].reasons) = Len(Profiles(worker[w].chunk)')
  <2>1. PICK c : c = worker[w].chunk /\ c = worker'[w].chunk
    BY ReaderChanges
  <2>2. Profiles(c)' = Profiles(c)
    BY <1>1, <2>1, ChunkKept, ReaderChanges DEF Inv, ChunksOK, Busy
  <2> QED
    BY <1>1, <2>1, <2>2 DEF CountsOK
<1> QED
  BY <1>1, ReaderChanges DEF CountsOK

LEMMA WorkerCounts ==
    ASSUME Inv, CountsOK, NEW w \in Workers, Work(w)
    PROVE  CountsOK'
<1>1. worker \in [Workers -> WorkerState] /\ TypeOK
  BY DEF Inv, TypeOK
<1>2. \A v \in Workers : v # w => worker'[v] = worker[v]
  BY WorkerChanges
<1>3. ASSUME NEW v \in Workers, worker[v].step \in Busy, NEW c, c = worker[v].chunk
      PROVE  Profiles(c)' = Profiles(c)
  BY <1>1, <1>3, WorkerChanges, ChunkKept DEF Inv, ChunksOK
<1>4. ASSUME NEW v \in Workers, v # w
      PROVE  /\ worker'[v].step = "bulk" => worker'[v].inserted = 0 /\ worker'[v].reasons = NoReasons
             /\ worker'[v].step = "rows" =>
                    worker'[v].inserted + Total(worker'[v].reasons) = worker'[v].next - 1
             /\ worker'[v].step = "tally" =>
                    worker'[v].inserted + Total(worker'[v].reasons) = Len(Profiles(worker[v].chunk)')
  <2>1. PICK c : c = worker[v].chunk /\ c = worker'[v].chunk
    BY <1>2, <1>4
  <2>2. worker[v].step = "tally" => Profiles(c)' = Profiles(c)
    BY <1>3, <2>1 DEF Busy
  <2> QED
    BY <1>2, <1>4, <2>1, <2>2 DEF CountsOK
<1>5. /\ worker'[w].step = "bulk" => worker'[w].inserted = 0 /\ worker'[w].reasons = NoReasons
      /\ worker'[w].step = "rows" =>
             worker'[w].inserted + Total(worker'[w].reasons) = worker'[w].next - 1
      /\ worker'[w].step = "tally" =>
             worker'[w].inserted + Total(worker'[w].reasons) = Len(Profiles(worker[w].chunk)')
  <2>1. CASE Receive(w)
    BY <2>1, WorkerCounted
  <2>2. CASE BulkCreateProfiles(w)
    <3>1. PICK c : c = worker[w].chunk /\ c = worker'[w].chunk
      BY <2>2, WorkerCounted
    <3>2. Profiles(c)' = Profiles(c) /\ Len(Profiles(c)) \in Nat
      BY <1>3, <2>2, <3>1, InHand DEF BulkCreateProfiles, Busy
    <3>3. worker[w].reasons = NoReasons /\ worker[w].inserted = 0 /\ Total(NoReasons) = 0
      <4>1. NoReasons \in Counts
        BY DEF NoReasons, Counts
      <4> QED
        BY <2>2, <4>1, TotalCounts DEF CountsOK, BulkCreateProfiles, Reasons
    <3> QED
      BY <2>2, <3>1, <3>2, <3>3, WorkerCounted
  <2>3. CASE CreateProfile(w)
    <3>1. PICK outcome \in Reasons \cup {"inserted"} : Counted(w, outcome)
      BY <2>3 DEF CreateProfile, Reasons
    <3>2. worker'[w].inserted + Total(worker'[w].reasons)
                    = worker[w].inserted + Total(worker[w].reasons) + 1
      BY <1>1, <3>1, CountedCounts
    <3>3. /\ worker'[w].next = worker[w].next + 1 /\ worker'[w].chunk = worker[w].chunk
          /\ worker'[w].step = IF worker[w].next = Len(Profiles(worker[w].chunk))
                               THEN "tally" ELSE "rows"
      BY <1>1, <3>1, CountedWorker
    <3>4. PICK c : c = worker[w].chunk /\ c = worker'[w].chunk
      BY <3>3
    <3>5. Profiles(c)' = Profiles(c) /\ worker[w].next \in Nat
      BY <1>1, <1>3, <2>3, <3>4 DEF CreateProfile, Busy, WorkerState
    <3>6. worker[w].inserted + Total(worker[w].reasons) = worker[w].next - 1
      BY <2>3 DEF CreateProfile, CountsOK
    <3> QED
      BY <3>2, <3>3, <3>4, <3>5, <3>6
  <2>4. CASE Tally(w) \/ Exit(w)
    <3>1. worker'[w].step \in {"receive", "exited"}
      BY <1>1, <2>4, WorkerCounted DEF Tally, Waiting
    <3> QED
      BY <3>1
  <2> QED
    BY <2>1, <2>2, <2>3, <2>4 DEF Work
<1> QED
  BY <1>4, <1>5 DEF CountsOK

-----------------------------------------------------------------------------

LEMMA ResultCounts ==
    ASSUME result \in Result
    PROVE  /\ result.total \in Nat /\ result.inserted \in Nat /\ result.skipped \in Nat
           /\ Total(result.reasons) \in Nat
           /\ \A reason \in Reasons :
                /\ Skip(reason).total = result.total + 1 /\ Skip(reason).skipped = result.skipped + 1
                /\ Skip(reason).inserted = result.inserted
                /\ Total(Skip(reason).reasons) = Total(result.reasons) + 1
           /\ \A w : worker[w] \in WorkerState =>
                /\ Adds(w).total = result.total
                /\ Adds(w).inserted = result.inserted + worker[w].inserted
                /\ Adds(w).skipped = result.skipped + Total(worker[w].reasons)
                /\ Total(Adds(w).reasons) = Total(result.reasons) + Total(worker[w].reasons)
<1>1. /\ result.total \in Nat /\ result.inserted \in Nat /\ result.skipped \in Nat
      /\ result.reasons \in Counts
  BY DEF Result
<1>2. ASSUME NEW reason \in Reasons
      PROVE  /\ Skip(reason).total = result.total + 1 /\ Skip(reason).skipped = result.skipped + 1
             /\ Skip(reason).inserted = result.inserted
             /\ Total(Skip(reason).reasons) = Total(result.reasons) + 1
  <2>1. PICK n, m, reasons : /\ n = result.total + 1 /\ m = result.skipped + 1
                             /\ reasons = [result.reasons EXCEPT ![reason] = @ + 1]
    OBVIOUS
  <2>2. Skip(reason) = [result EXCEPT !.total = n, !.skipped = m, !.reasons = reasons]
    BY <2>1 DEF Skip
  <2>3. /\ Skip(reason).total = n /\ Skip(reason).skipped = m
        /\ Skip(reason).inserted = result.inserted /\ Skip(reason).reasons = reasons
    BY <2>2 DEF Result
  <2>4. Total(reasons) = Total(result.reasons) + 1
    BY <1>1, <2>1, TotalCounts
  <2> QED
    BY <2>1, <2>3, <2>4
<1>3. ASSUME NEW w, worker[w] \in WorkerState
      PROVE  /\ Adds(w).total = result.total
             /\ Adds(w).inserted = result.inserted + worker[w].inserted
             /\ Adds(w).skipped = result.skipped + Total(worker[w].reasons)
             /\ Total(Adds(w).reasons) = Total(result.reasons) + Total(worker[w].reasons)
  <2>1. PICK n, m, reasons :
            /\ n = result.inserted + worker[w].inserted
            /\ m = result.skipped + Total(worker[w].reasons)
            /\ reasons = [reason \in Reasons |->
                            result.reasons[reason] + worker[w].reasons[reason]]
    OBVIOUS
  <2>2. Adds(w) = [result EXCEPT !.inserted = n, !.skipped = m, !.reasons = reasons]
    BY <2>1 DEF Adds
  <2>3. /\ Adds(w).total = result.total /\ Adds(w).inserted = n
        /\ Adds(w).skipped = m /\ Adds(w).reasons = reasons
    BY <2>2 DEF Result
  <2>4. worker[w].reasons \in Counts
    BY <1>3 DEF WorkerState
  <2>5. Total(reasons) = Total(result.reasons) + Total(worker[w].reasons)
    <3>1. "validation" \in Reasons
      BY DEF Reasons
    <3> QED
      BY <1>1, <2>1, <2>4, <3>1, TotalCounts
  <2> QED
    BY <2>1, <2>3, <2>5
<1>4. Total(result.reasons) \in Nat
  BY <1>1, ReasonsAdd
<1> QED
  BY <1>1, <1>2, <1>3, <1>4

LEMMA ReaderAccounts ==
    ASSUME Inv, Disjointly, Accounted, Process
    PROVE  Accounted'
<1>1. TypeOK /\ result \in Result /\ file' = file /\ header' = header
  BY Parts, ReaderChanges DEF Inv
<1>2. /\ result.total \in Nat /\ result.inserted \in Nat /\ result.skipped \in Nat
      /\ Total(result.reasons) \in Nat
  BY <1>1, ResultCounts
<1>3. OnTheWay \subseteq Positions
  BY <1>1, ValidRows DEF Disjointly
<1>4. IsFiniteSet(OnTheWay) /\ Cardinality(OnTheWay) \in Nat
  BY <1>1, <1>3, RowsFinite
<1>5. SUFFICES ASSUME header = "ok"
               PROVE  /\ result'.total = result'.inserted + result'.skipped + Cardinality(OnTheWay')
                      /\ result'.skipped = Total(result'.reasons)
  BY <1>1 DEF Accounted, Total
<1>6. /\ result.total = result.inserted + result.skipped + Cardinality(OnTheWay)
      /\ result.skipped = Total(result.reasons)
  BY <1>5 DEF Accounted
<1>7. CASE BatchRow
  <2>1. result' = [result EXCEPT !.total = result.total + 1]
    BY <1>7 DEF BatchRow
  <2>2. /\ result'.total = result.total + 1 /\ result'.inserted = result.inserted
        /\ result'.skipped = result.skipped /\ result'.reasons = result.reasons
    BY <1>1, <2>1 DEF Result
  <2>3. Cardinality(OnTheWay') = Cardinality(OnTheWay) + 1
    <3>1. PICK p : p = pos /\ p \notin OnTheWay /\ OnTheWay' = OnTheWay \cup {p}
      BY <1>7, ReaderMoves
    <3> QED
      BY <1>4, <3>1, FS_AddElement
  <2> QED
    BY <1>2, <1>4, <1>6, <2>2, <2>3
<1>8. CASE ~BatchRow
  <2>1. OnTheWay' = OnTheWay
    BY <1>8, ReaderMoves
  <2>2. CASE ReadFails \/ SkipRow
    <3>1. PICK reason \in Reasons : result' = Skip(reason)
      BY <2>2 DEF ReadFails, SkipRow, Reasons
    <3>2. /\ result'.total = result.total + 1 /\ result'.skipped = result.skipped + 1
          /\ result'.inserted = result.inserted
          /\ Total(result'.reasons) = Total(result.reasons) + 1
      BY <1>1, <3>1, ResultCounts
    <3> QED
      BY <1>2, <1>4, <1>6, <2>1, <3>2
  <2>3. CASE ReadHeader \/ SendChunk \/ EndOfFile \/ Wait \/ Respond
    <3>1. result' = result \/ result' = [result EXCEPT !.status = "success"]
      BY <1>5, <2>3 DEF ReadHeader, SendChunk, EndOfFile, Wait, Respond
    <3>2. /\ result'.total = result.total /\ result'.skipped = result.skipped
          /\ result'.inserted = result.inserted /\ result'.reasons = result.reasons
      BY <1>1, <3>1 DEF Result
    <3> QED
      BY <1>6, <2>1, <3>2
  <2> QED
    BY <1>8, <2>2, <2>3 DEF Process
<1> QED
  BY <1>7, <1>8

LEMMA WorkerAccounts ==
    ASSUME Inv, Disjointly, DistinctOK, CountsOK, Accounted, NEW w \in Workers, Work(w)
    PROVE  Accounted'
<1>1. TypeOK /\ result \in Result /\ file' = file /\ header' = header
  BY Parts, WorkerChanges DEF Inv
<1>2. /\ result.total \in Nat /\ result.inserted \in Nat /\ result.skipped \in Nat
      /\ Total(result.reasons) \in Nat
  BY <1>1, ResultCounts
<1>3. OnTheWay \subseteq Positions
  BY <1>1, ValidRows DEF Disjointly
<1>4. IsFiniteSet(OnTheWay) /\ Cardinality(OnTheWay) \in Nat
  BY <1>1, <1>3, RowsFinite
<1>5. SUFFICES ASSUME header = "ok"
               PROVE  /\ result'.total = result'.inserted + result'.skipped + Cardinality(OnTheWay')
                      /\ result'.skipped = Total(result'.reasons)
  BY <1>1 DEF Accounted, Total
<1>6. /\ result.total = result.inserted + result.skipped + Cardinality(OnTheWay)
      /\ result.skipped = Total(result.reasons)
  BY <1>5 DEF Accounted
<1>7. CASE Tally(w)
  <2>1. worker[w].step = "tally" /\ worker[w] \in WorkerState /\ result' = Adds(w)
    BY <1>1, <1>7 DEF Tally, TypeOK
  <2>2. PICK c : c = worker[w].chunk /\ Hand[w] = Rows(c)
    BY <2>1 DEF Hand, Busy
  <2>3. Sendable(c) /\ Distinct(Profiles(c)) /\ Len(Profiles(c)) \in Nat
    BY <2>1, <2>2, InHand DEF Inv, ChunksOK, DistinctOK, Busy
  <2>4. Cardinality(Hand[w]) = Len(Profiles(c))
    BY <1>1, <2>2, <2>3, ChunkLength
  <2>5. OnTheWay' = OnTheWay \ Hand[w]
    BY <1>7, WorkerMoves
  <2>6. OnTheWay \cap Hand[w] = Hand[w]
    BY Way DEF Carry
  <2>7. Cardinality(OnTheWay') = Cardinality(OnTheWay) - Len(Profiles(c))
    <3>1. PICK way, hand : way = OnTheWay /\ hand = Hand[w]
      OBVIOUS
    <3>2. Cardinality(way \ hand) = Cardinality(way) - Cardinality(way \cap hand)
      BY <1>4, <3>1, FS_Difference
    <3> QED
      BY <2>4, <2>5, <2>6, <3>1, <3>2
  <2>8. worker[w].inserted + Total(worker[w].reasons) = Len(Profiles(c))
    BY <2>1, <2>2 DEF CountsOK
  <2>9. worker[w].inserted \in Nat /\ Total(worker[w].reasons) \in Nat
    BY <2>1, ReasonsAdd DEF WorkerState
  <2>10. /\ result'.total = result.total
         /\ result'.inserted = result.inserted + worker[w].inserted
         /\ result'.skipped = result.skipped + Total(worker[w].reasons)
         /\ Total(result'.reasons) = Total(result.reasons) + Total(worker[w].reasons)
    BY <1>1, <2>1, ResultCounts
  <2> QED
    BY <1>2, <1>4, <1>6, <2>3, <2>7, <2>8, <2>9, <2>10
<1>8. CASE ~Tally(w)
  <2>1. result' = result /\ OnTheWay' = OnTheWay
    BY <1>8, WorkerMoves DEF Work, Receive, BulkCreateProfiles, CreateProfile, Exit
  <2> QED
    BY <1>6, <2>1
<1> QED
  BY <1>7, <1>8

LEMMA ReaderCovers ==
    ASSUME Inv, Disjointly, Covered, Process
    PROVE  Covered'
<1>1. /\ result \in Result /\ file' = file /\ worker' = worker /\ tried' = tried
      /\ database' = database /\ Hand' = Hand
  BY Parts, ReaderChanges, ReaderMoves DEF Inv
<1>2. stored' = stored
  BY DEF Process, ReadHeader, ReadFails, SkipRow, BatchRow, SendChunk, EndOfFile, Wait, Respond
<1>3. result'.inserted = result.inserted
  <2>1. \/ result' = result \/ (\E reason \in Reasons : result' = Skip(reason))
        \/ result' = [result EXCEPT !.total = @ + 1] \/ result' = [result EXCEPT !.status = "success"]
        \/ (\E r : result' = [result EXCEPT !.reasons = r])
    BY DEF Process, ReadHeader, ReadFails, SkipRow, BatchRow, SendChunk, EndOfFile, Wait, Respond,
           Reasons
  <2> QED
    BY <1>1, <2>1, ResultCounts DEF Result
<1>4. stored' \subseteq (Valid \ Untried)'
  <2>1. pos \in Nat /\ (pos' = pos \/ pos' = pos + 1)
    <3>1. pos \in 1..Len(file) + 1 /\ Len(file) \in Nat
      BY FileRows DEF Inv, TypeOK
    <3> QED
      BY <3>1 DEF Process, ReadHeader, ReadFails, SkipRow, BatchRow, SendChunk, EndOfFile, Wait,
                  Respond
  <2>2. Valid \subseteq Valid'
    BY <1>1, <2>1 DEF Valid
  <2> QED
    BY <1>1, <1>2, <2>2 DEF Covered, Untried
<1>5. WithWorkers' = WithWorkers
  BY <1>1, WorkersHands
<1> QED
  BY <1>1, <1>2, <1>3, <1>4, <1>5 DEF Covered

LEMMA AtMost ==
    ASSUME TypeOK, NEW S \in SUBSET Positions, NEW T \in SUBSET S
    PROVE  /\ Cardinality(T) <= Cardinality(S)
           /\ Cardinality(S) \in Nat /\ Cardinality(T) \in Nat
<1>1. IsFiniteSet(S) /\ T \subseteq Positions
  BY RowsFinite
<1> QED
  BY <1>1, RowsFinite, FS_Subset

LEMMA WorkerCovers ==
    ASSUME Inv, Disjointly, DistinctOK, CountsOK, Covered, NEW w \in Workers, Work(w)
    PROVE  Covered'
<1>1. /\ TypeOK /\ TypeOK' /\ result \in Result /\ file' = file /\ database' = database
      /\ Positions' = Positions
      /\ \A v \in Workers : v # w => worker'[v] = worker[v] /\ Hand'[v] = Hand[v]
      /\ Valid' = Valid /\ Untried' \subseteq Untried
  BY Parts, WorkerChanges, WorkerMoves, WorkerTypes DEF Inv, Positions
<1>2. stored \subseteq Valid \ Untried /\ stored \subseteq Positions /\ Untried \subseteq Valid
      /\ Valid \subseteq Positions
  BY <1>1, ValidRows DEF Covered
<1>3. /\ result.inserted \in Nat /\ stored' \subseteq Positions
      /\ \A v \in Workers : worker[v].inserted \in Nat /\ worker'[v].inserted \in Nat
  <2>1. worker \in [Workers -> WorkerState] /\ worker' \in [Workers -> WorkerState]
        /\ stored' \subseteq Positions
    BY <1>1 DEF TypeOK
  <2> QED
    BY <1>1, <2>1, ResultCounts DEF WorkerState
<1>4. database # "lossy" => /\ Cardinality(stored \ WithWorkers) <= result.inserted
                 /\ \A v \in Workers : Cardinality(stored \cap Hand[v]) <= worker[v].inserted
  BY DEF Covered
<1>5. \A v \in Workers : Hand[v] \subseteq OnTheWay /\ Hand[v] \subseteq WithWorkers
  BY Way, WorkersHands DEF Carry
<1>6. OnTheWay \subseteq Valid /\ \A u, v \in Workers : u # v => Hand[u] \cap Hand[v] = {}
  BY DEF Disjointly, Apart, Disjoint
<1>7. CASE Receive(w)
  <2>1. /\ stored' = stored /\ result' = result /\ worker'[w].inserted = 0
    BY <1>7, WorkerCounted DEF Receive
  <2>2. Hand[w] = {} /\ Hand'[w] \subseteq Untried
    BY <1>7, WorkerMoves
  <2>3. stored \cap Hand'[w] = {} /\ Cardinality(stored \cap Hand'[w]) = 0
    BY <1>2, <2>2, FS_EmptySet
  <2>4. stored \ WithWorkers' \subseteq stored \ WithWorkers
    BY <1>1, <2>2, WorkersHands
  <2>5. Cardinality(stored \ WithWorkers') <= Cardinality(stored \ WithWorkers)
        /\ Cardinality(stored \ WithWorkers') \in Nat /\ Cardinality(stored \ WithWorkers) \in Nat
    BY <1>1, <1>2, <2>4, AtMost
  <2>6. ASSUME database # "lossy", NEW v \in Workers
        PROVE  Cardinality(stored' \cap Hand'[v]) <= worker'[v].inserted
    <3>1. CASE v = w
      BY <2>1, <2>3, <3>1
    <3>2. CASE v # w
      <4>1. Hand'[v] = Hand[v] /\ worker'[v] = worker[v]
        BY <1>1, <3>2
      <4>2. Cardinality(stored \cap Hand[v]) <= worker[v].inserted
        BY <1>4, <2>6
      <4> QED
        BY <2>1, <4>1, <4>2
    <3> QED
      BY <3>1, <3>2
  <2>7. database # "lossy" => Cardinality(stored' \ WithWorkers') <= result'.inserted
    BY <1>3, <1>4, <2>1, <2>5
  <2>8. stored' \subseteq (Valid \ Untried)'
    BY <1>1, <1>2, <2>1
  <2> QED
    BY <1>1, <2>6, <2>7, <2>8 DEF Covered
<1>8. CASE BulkCreateProfiles(w)
  <2>1. result' = result /\ ~Tally(w) /\ ~Receive(w) /\ worker[w].step = "bulk"
    BY <1>8 DEF BulkCreateProfiles, Tally, Receive
  <2>2. Hand'[w] = Hand[w]
    BY <2>1, WorkerMoves
  <2>3. Hand' = Hand
    BY <1>1, <2>2 DEF Hand
  <2>4. WithWorkers' = WithWorkers
    BY <2>3, WorkersHands
  <2>5. PICK c : c = worker[w].chunk /\ Hand[w] = Rows(c)
    BY <2>1 DEF Hand, Busy
  <2>6. stored \subseteq stored' /\ stored' \subseteq stored \cup Hand[w]
    BY <1>8, <2>5, WorkerCounted DEF Insert, Added
  <2>7. worker'[w].step \in {"rows", "tally"}
    BY <1>8, WorkerCounted
  <2>8. Hand[w] \cap Untried' = {}
    BY <2>2, <2>7, WorkerMoves DEF Disjointly, Disjoint
  <2>9. stored' \subseteq (Valid \ Untried)'
    BY <1>1, <1>2, <1>5, <1>6, <2>6, <2>8
  <2>10. stored' \ WithWorkers' = stored \ WithWorkers
    BY <1>5, <2>4, <2>6
  <2>11. \A v \in Workers : v # w => stored' \cap Hand[v] = stored \cap Hand[v]
    BY <1>6, <2>6
  <2>12. database # "lossy" => Cardinality(stored' \cap Hand[w]) <= worker'[w].inserted
    <3>1. CASE /\ worker'[w].step = "tally"
               /\ worker'[w].inserted = Len(Profiles(worker[w].chunk))
      <4>1. Sendable(c) /\ Distinct(Profiles(c))
        BY <2>1, <2>5 DEF Inv, ChunksOK, DistinctOK, Busy
      <4>2. Cardinality(Hand[w]) = worker'[w].inserted
        BY <1>1, <2>5, <3>1, <4>1, ChunkLength
      <4>3. Cardinality(stored' \cap Hand[w]) <= Cardinality(Hand[w])
        <5>1. Hand[w] \subseteq Positions /\ stored' \cap Hand[w] \subseteq Hand[w]
          BY <1>2, <1>5, <1>6
        <5> QED
          BY <1>1, <5>1, AtMost
      <4> QED
        BY <4>2, <4>3
    <3>2. CASE worker'[w].inserted = worker[w].inserted /\ (stored' = stored \/ database = "lossy")
      BY <1>4, <3>2
    <3> QED
      BY <1>8, <3>1, <3>2, WorkerCounted
  <2>13. database # "lossy" => \A v \in Workers : Cardinality(stored' \cap Hand'[v]) <= worker'[v].inserted
    BY <1>1, <1>4, <2>3, <2>11, <2>12
  <2> QED
    BY <1>1, <1>4, <2>1, <2>9, <2>10, <2>13 DEF Covered
<1>9. CASE CreateProfile(w)
  <2>1. result' = result /\ ~Tally(w) /\ ~Receive(w) /\ worker[w].step = "rows" /\ tried' = tried
    BY <1>9 DEF CreateProfile, Tally, Receive
  <2>2. Hand'[w] = Hand[w]
    BY <2>1, WorkerMoves
  <2>3. Hand' = Hand
    BY <1>1, <2>2 DEF Hand
  <2>4. WithWorkers' = WithWorkers
    BY <2>3, WorkersHands
  <2>5. PICK c : c = worker[w].chunk /\ Hand[w] = Rows(c)
    BY <2>1 DEF Hand, Busy
  <2>6. PICK p : p = Profiles(c)[worker[w].next]
    OBVIOUS
  <2>7. p \in Hand[w]
    BY <2>1, <2>5, <2>6, InHand DEF Inv, WorkersOK, Busy
  <2>8. \/ stored' = stored
        \/ stored' \subseteq stored \cup {p} /\ stored \subseteq stored'
           /\ (database = "lossy" \/ Counted(w, "inserted"))
    BY <1>9, <2>5, <2>6 DEF CreateProfile, Insert, Added
  <2>9. Hand[w] \cap Untried = {}
    BY <2>1 DEF Disjointly, Disjoint
  <2>10. stored' \subseteq (Valid \ Untried)'
    BY <1>1, <1>2, <1>5, <1>6, <2>7, <2>8, <2>9
  <2>11. stored' \ WithWorkers' = stored \ WithWorkers
    BY <1>5, <2>4, <2>7, <2>8
  <2>12. \A v \in Workers : v # w => stored' \cap Hand[v] = stored \cap Hand[v]
    BY <1>6, <2>7, <2>8
  <2>13. worker'[w].inserted >= worker[w].inserted
         /\ (Counted(w, "inserted") => worker'[w].inserted = worker[w].inserted + 1)
    <3>1. PICK outcome \in Reasons \cup {"inserted"} : Counted(w, outcome)
      BY <1>9 DEF CreateProfile, Reasons
    <3>2. worker \in [Workers -> WorkerState]
      BY <1>1 DEF TypeOK
    <3> QED
      BY <1>3, <3>1, <3>2, CountedCounts
  <2>14. ASSUME database # "lossy"
         PROVE  Cardinality(stored' \cap Hand[w]) <= worker'[w].inserted
    <3>1. PICK S, T : S = stored \cap Hand[w] /\ T = stored' \cap Hand[w]
      OBVIOUS
    <3>2. IsFiniteSet(S) /\ Cardinality(S) \in Nat
      BY <1>1, <1>2, <3>1, RowsFinite
    <3>3. Cardinality(S) <= worker[w].inserted
      BY <1>4, <2>14, <3>1
    <3>4. CASE stored' = stored
      BY <1>3, <2>13, <3>1, <3>2, <3>3, <3>4
    <3>5. CASE stored' \subseteq stored \cup {p} /\ stored \subseteq stored' /\ Counted(w, "inserted")
      <4>1. T = S \/ T = S \cup {p}
        BY <2>7, <3>1, <3>5
      <4>2. Cardinality(T) <= Cardinality(S) + 1
        <5>1. Cardinality(S \cup {p}) \in {Cardinality(S), Cardinality(S) + 1}
          BY <3>2, FS_AddElement
        <5>2. CASE T = S
          BY <3>2, <5>2
        <5>3. CASE T = S \cup {p}
          <6>1. Cardinality(T) \in {Cardinality(S), Cardinality(S) + 1}
            BY <5>1, <5>3
          <6> QED
            BY <3>2, <6>1
        <5> QED
          BY <4>1, <5>2, <5>3
      <4>3. Cardinality(T) \in Nat
        BY <1>1, <1>3, <3>1, RowsFinite
      <4> QED
        BY <1>3, <2>13, <3>1, <3>2, <3>3, <3>5, <4>2, <4>3
    <3> QED
      BY <2>8, <2>14, <3>4, <3>5
  <2>15. database # "lossy" => \A v \in Workers : Cardinality(stored' \cap Hand'[v]) <= worker'[v].inserted
    BY <1>1, <1>4, <2>3, <2>12, <2>14
  <2> QED
    BY <1>1, <1>4, <2>1, <2>10, <2>11, <2>15 DEF Covered
<1>10. CASE Tally(w)
  <2>1. worker[w].step = "tally" /\ worker[w] \in WorkerState /\ result' = Adds(w)
        /\ stored' = stored
    BY <1>1, <1>10 DEF Tally, TypeOK
  <2>2. Hand'[w] = {}
    BY <1>10, WorkerMoves
  <2>3. PICK S, T, R : S = stored \ WithWorkers /\ T = stored \cap Hand[w]
                       /\ R = stored \ WithWorkers'
    OBVIOUS
  <2>4. R \subseteq S \cup T
    BY <1>1, <2>2, <2>3, WorkersHands
  <2>5. /\ S \subseteq Positions /\ T \subseteq Positions /\ R \subseteq Positions
    BY <1>2, <2>3
  <2>6. /\ IsFiniteSet(S) /\ IsFiniteSet(T)
        /\ Cardinality(S) \in Nat /\ Cardinality(T) \in Nat /\ Cardinality(S \cap T) \in Nat
        /\ Cardinality(R) \in Nat
    BY <1>1, <2>5, RowsFinite
  <2>7. Cardinality(S \cup T) = Cardinality(S) + Cardinality(T) - Cardinality(S \cap T)
    BY <2>6, FS_Union
  <2>8. Cardinality(R) <= Cardinality(S \cup T) /\ Cardinality(S \cup T) \in Nat
    <3>1. S \cup T \subseteq Positions
      BY <2>5
    <3> QED
      BY <1>1, <2>4, <3>1, AtMost
  <2>9. result'.inserted = result.inserted + worker[w].inserted
    BY <1>1, <2>1, ResultCounts
  <2>10. database # "lossy" => Cardinality(R) <= result'.inserted
    <3>1. database # "lossy" => Cardinality(S) <= result.inserted /\ Cardinality(T) <= worker[w].inserted
      BY <1>4, <2>3
    <3>2. worker[w].inserted \in Nat
      BY <1>3
    <3> QED
      BY <1>3, <2>6, <2>7, <2>8, <2>9, <3>1, <3>2
  <2>11. Cardinality(stored \cap Hand'[w]) = 0
    BY <2>2, FS_EmptySet
  <2>12. ASSUME database # "lossy", NEW v \in Workers
         PROVE  Cardinality(stored' \cap Hand'[v]) <= worker'[v].inserted
    <3>1. CASE v = w
      BY <1>3, <2>1, <2>11, <3>1
    <3>2. CASE v # w
      <4>1. Hand'[v] = Hand[v] /\ worker'[v] = worker[v]
        BY <1>1, <3>2
      <4>2. Cardinality(stored \cap Hand[v]) <= worker[v].inserted
        BY <1>4, <2>12
      <4> QED
        BY <2>1, <4>1, <4>2
    <3> QED
      BY <3>1, <3>2
  <2>13. stored' \subseteq (Valid \ Untried)'
    BY <1>1, <1>2, <2>1
  <2> QED
    BY <1>1, <2>1, <2>3, <2>10, <2>12, <2>13 DEF Covered
<1>11. CASE Exit(w)
  <2>1. result' = result /\ stored' = stored /\ worker'[w].inserted = worker[w].inserted
        /\ ~Tally(w) /\ ~Receive(w)
    <3>1. result' = result /\ closed /\ channel = <<>> /\ worker[w].step = "receive"
      BY <1>11 DEF Exit
    <3> QED
      BY <1>11, <3>1, WorkerCounted DEF Tally, Receive
  <2>2. Hand' = Hand
    <3>1. Hand'[w] = Hand[w]
      BY <2>1, WorkerMoves
    <3> QED
      BY <1>1, <3>1 DEF Hand
  <2>3. WithWorkers' = WithWorkers
    BY <2>2, WorkersHands
  <2>4. \A v \in Workers : worker'[v].inserted = worker[v].inserted
    BY <1>1, <2>1
  <2> QED
    BY <1>1, <1>2, <1>4, <2>1, <2>2, <2>3, <2>4 DEF Covered
<1> QED
  BY <1>7, <1>8, <1>9, <1>10, <1>11 DEF Work

-----------------------------------------------------------------------------

LEMMA CountInit == Init => Count
<1> SUFFICES ASSUME Init
             PROVE  Count
  OBVIOUS
<1>1. /\ file \in Files /\ pos = 1 /\ channel = <<>> /\ ~closed /\ size = 0 /\ stored = {}
      /\ \A w \in Workers : worker[w] = Waiting /\ worker[w].step = "receive"
  BY DEF Init, Waiting
<1>2. Inv /\ NoReasons \in Counts
  BY InitHolds DEF NoReasons, Counts
<1>3. /\ Batch = {} /\ DOMAIN Queue = {} /\ \A w \in Workers : Hand[w] = {}
  BY <1>1 DEF Batch, Queue, Hand, Busy
<1>4. OnTheWay = {} /\ Cardinality({}) = 0
  BY <1>3, Way, FS_EmptySet DEF Carry
<1>5. Disjointly
  BY <1>1, <1>3, <1>4 DEF Disjointly, Apart, Disjoint
<1>6. DistinctOK
  BY <1>1 DEF DistinctOK, Busy
<1>7. CountsOK
  BY <1>1 DEF CountsOK
<1>8. Accounted
  <2>1. Total(NoReasons) = 0
    BY <1>2, TotalCounts DEF Reasons
  <2>2. result.total = 0 /\ result.inserted = 0 /\ result.skipped = 0
        /\ result.reasons = NoReasons
    BY DEF Init
  <2>3. Cardinality(OnTheWay) = 0
    BY <1>4
  <2> QED
    BY <2>1, <2>2, <2>3 DEF Accounted
<1>9. Covered
  <2>1. \A S : stored \cap S = {} /\ stored \ S = {}
    BY <1>1
  <2>2. result.inserted = 0 /\ \A w \in Workers : worker[w].inserted = 0
    BY DEF Init, Waiting
  <2>3. stored \subseteq Valid \ Untried
    BY <1>1
  <2>4. Cardinality(stored \ WithWorkers) = 0
        /\ \A w \in Workers : Cardinality(stored \cap Hand[w]) = 0
    BY <1>4, <2>1
  <2> QED
    BY <2>2, <2>3, <2>4 DEF Covered
<1> QED
  BY <1>5, <1>6, <1>7, <1>8, <1>9 DEF Count

LEMMA CountStep == Inv /\ Count /\ [Next]_vars => Count'
<1> SUFFICES ASSUME Inv, Count, [Next]_vars
             PROVE  Count'
  OBVIOUS
<1>1. Disjointly /\ DistinctOK /\ CountsOK /\ Accounted /\ Covered
  BY DEF Count
<1>2. ASSUME Process PROVE Count'
  BY <1>1, <1>2, ReaderMoves, ReaderDistinct, ReaderCounts, ReaderAccounts, ReaderCovers DEF Count
<1>3. ASSUME NEW w \in Workers, Work(w) PROVE Count'
  BY <1>1, <1>3, WorkerMoves, WorkerDistinct, WorkerCounts, WorkerAccounts, WorkerCovers DEF Count
<1>4. ASSUME \/ \E n \in Others : OtherInserts(n) \/ OtherDeletes(n)
             \/ UNCHANGED vars
      PROVE  Count'
  <2>1. UNCHANGED <<file, header, database, pos, buffer, size, channel, closed, worker, result,
                    tried, stored>>
    BY <1>4 DEF OtherInserts, OtherDeletes, vars
  <2>2. UNCHANGED <<Valid, Untried, Batch, Queue, Hand, WithWorkers, OnTheWay>>
    BY <2>1 DEF Valid, Untried, Batch, Queue, Hand, Rows, Profiles, WithWorkers, OnTheWay, InChannel
  <2>3. Disjointly'
    BY <1>1, <2>1, <2>2 DEF Disjointly
  <2>4. DistinctOK'
    <3>1. \A c : Profiles(c)' = Profiles(c)
      BY <2>1 DEF Profiles
    <3>2. \A c : Distinct(Profiles(c))' <=> Distinct(Profiles(c))
      BY <3>1 DEF Distinct
    <3> QED
      BY <1>1, <2>1, <3>2 DEF DistinctOK
  <2>5. CountsOK'
    BY <1>1, <2>1 DEF CountsOK, Profiles
  <2>6. Accounted'
    BY <1>1, <2>1, <2>2 DEF Accounted
  <2>7. Covered'
    BY <1>1, <2>1, <2>2 DEF Covered
  <2> QED
    BY <2>3, <2>4, <2>5, <2>6, <2>7 DEF Count
<1> QED
  BY <1>2, <1>3, <1>4 DEF Next

LEMMA CountInvariant == Spec => []Count
BY Invariant, CountInit, CountStep, PTL DEF Spec

(* No row is lost or counted twice on its way from ReadRow through the     *)
(* channel and the workers to ImportResult.                                *)
THEOREM EveryRowAccounted == Spec => []Accounted
<1>1. Count => Accounted
  BY DEF Count
<1> QED
  BY <1>1, CountInvariant, PTL

(* Unless the answer of a committed INSERT is lost, Inserted never falls   *)
(* short of what the import added to profiles, also when statements fail   *)
(* and chunks are repeated row by row: ImportProfiles then invalidates the *)
(* lists whenever rows were added.                                         *)
THEOREM InsertedCoversAll == Spec => []InsertedCoversStored
<1>1. ASSUME Inv, Count PROVE InsertedCoversStored
  <2>1. SUFFICES ASSUME step = "done", database # "lossy"
                 PROVE  result.inserted >= Cardinality(stored)
    BY DEF InsertedCoversStored
  <2>2. TypeOK /\ stored \subseteq Valid
    BY <1>1 DEF Inv, Count, Covered
  <2>3. CASE header = "ok"
    <3>1. \A w \in Workers : worker[w].step \notin Busy
      BY <1>1, <2>1, <2>3, NothingLeft DEF Busy
    <3>2. stored \ WithWorkers = stored
      BY <3>1 DEF WithWorkers
    <3>3. /\ Cardinality(stored) \in Nat /\ result.inserted \in Nat
          /\ Cardinality(stored) <= result.inserted
      <4>1. Cardinality(stored \ WithWorkers) <= result.inserted
        BY <1>1, <2>1 DEF Count, Covered
      <4>2. Cardinality(stored) \in Nat
        BY <1>1, <2>2, RowsFinite DEF Inv, TypeOK
      <4> QED
        BY <2>2, <3>2, <4>1, <4>2 DEF TypeOK
    <3> QED
      BY <3>3
  <2>4. CASE header # "ok"
    <3>1. Valid = {}
      BY <1>1, <2>4 DEF Inv, StepsOK, Valid
    <3>2. stored = {} /\ Cardinality({}) = 0
      BY <2>2, <3>1, FS_EmptySet
    <3>3. result.inserted \in Nat
      BY <2>2 DEF TypeOK
    <3> QED
      BY <3>2, <3>3
  <2> QED
    BY <2>3, <2>4
<1> QED
  BY <1>1, Invariant, CountInvariant, PTL
-----------------------------------------------------------------------------
(* The ledger                                                              *)

LEMMA LeastRow ==
    ASSUME NEW T \in SUBSET Nat, T # {}
    PROVE  \E p \in T : \A q \in T : p <= q
<1>1. PICK R : R = OpToRel(<, Nat)
  OBVIOUS
<1>2. IsWellFoundedOn(R, Nat)
  BY <1>1, NatLessThanWellFounded
<1>3. PICK p \in T : \A q \in T : ~ (<<q, p>> \in R)
  BY <1>2, WFMin
<1>4. ASSUME NEW q \in T
      PROVE  p <= q
  <2>1. <<q, p>> \in R <=> q < p
    BY <1>1 DEF OpToRel
  <2> QED
    BY <1>3, <2>1
<1> QED
  BY <1>4

(* The ledger is open while a worker has rows in hand.                     *)
LEMMA StillOpen ==
    ASSUME Inv, Disjointly, NEW w \in Workers, worker[w].step \in Busy
    PROVE  Phase = "open" /\ Hand[w] \subseteq OnTheWay
<1>1. Hand[w] \subseteq OnTheWay /\ OnTheWay \subseteq Valid
  BY Way DEF Carry, Disjointly
<1>2. header = "ok"
  <2>1. SUFFICES ASSUME header # "ok" PROVE FALSE
    OBVIOUS
  <2>2. Valid = {}
    BY <2>1 DEF Inv, StepsOK, Valid
  <2>3. PICK c : c = worker[w].chunk /\ Sendable(c) /\ Hand[w] = Rows(c)
    BY DEF Inv, ChunksOK, Hand
  <2>4. Rows(c) = {}
    BY <1>1, <2>2, <2>3
  <2>5. Len(Profiles(c)) > 0
    BY <2>3 DEF Sendable
  <2>6. Profiles(c)[1] \in Rows(c)
    BY <2>3, <2>5, ChunkRows DEF Inv
  <2> QED
    BY <2>4, <2>6
<1>3. step # "done"
  BY <1>2 DEF Inv, StepsOK, WorkersOK, Busy
<1> QED
  BY <1>1, <1>2, <1>3 DEF Phase

(* When the import returns, everything was read and nothing is on its way. *)
LEMMA AllSettled ==
    ASSUME Inv, step = "return", header = "ok"
    PROVE  Read = DOMAIN RowName /\ OnTheWay = {}
<1>1. closed /\ pos = Len(file) + 1
  BY DEF Inv, StepsOK
<1>2. \A w \in Workers : worker[w].step = "exited"
  BY <1>1 DEF Inv, WorkersOK
<1>3. channel = <<>>
  BY <1>2, ConstantsAssumption DEF Inv, WorkersOK
<1>4. Batch = {} /\ DOMAIN Queue = {} /\ \A w \in Workers : Hand[w] = {}
  BY <1>1, <1>2, <1>3 DEF Batch, Queue, Hand, Busy
<1>5. OnTheWay = {}
  BY <1>4, Way DEF Carry
<1>6. Len(file) \in Nat
  BY FileRows DEF Inv, TypeOK
<1>7. Read = DOMAIN RowName
  BY <1>1, <1>6 DEF Read, RowName, Positions
<1> QED
  BY <1>5, <1>7

(* What an INSERT does to the table and to the rows of the import.         *)
LEMMA InsertStores ==
    ASSUME TypeOK, NEW rows \in SUBSET Positions, Insert(rows)
    PROVE  /\ table' = table \cup {RowName[p] : p \in rows}
           /\ \E new \in SUBSET rows :
                /\ stored' = stored \cup new
                /\ {RowName[p] : p \in new} = {RowName[p] : p \in rows} \ table
                /\ \A p, q \in new : RowName[p] = RowName[q] => p = q
<1>1. \A p \in rows : RowName[p] = file[p].name /\ p \in Nat
  BY DEF RowName, Positions
<1>2. PICK new : new = Added(rows)
  OBVIOUS
<1>3. \A p : p \in new <=> /\ p \in rows /\ RowName[p] \notin table
                           /\ \A q \in rows : RowName[q] = RowName[p] => p <= q
  BY <1>1, <1>2 DEF Added
<1>4. ASSUME NEW p \in rows, RowName[p] \notin table
      PROVE  \E q \in new : RowName[q] = RowName[p]
  <2>1. PICK T : T = {q \in rows : RowName[q] = RowName[p]}
    OBVIOUS
  <2>2. T # {} /\ T \in SUBSET Nat
    BY <1>1, <2>1
  <2>3. PICK q \in T : \A other \in T : q <= other
    BY <2>2, LeastRow
  <2>4. q \in new
    BY <1>3, <1>4, <2>1, <2>3
  <2> QED
    BY <2>1, <2>4
<1>5. {RowName[p] : p \in new} = {RowName[p] : p \in rows} \ table
  BY <1>3, <1>4
<1>6. \A p, q \in new : RowName[p] = RowName[q] => p = q
  <2>1. SUFFICES ASSUME NEW p \in new, NEW q \in new, RowName[p] = RowName[q]
                 PROVE  p = q
    OBVIOUS
  <2>2. p <= q /\ q <= p /\ p \in Nat /\ q \in Nat
    BY <1>1, <1>3, <2>1
  <2> QED
    BY <2>2
<1>7. {file[p].name : p \in rows} = {RowName[p] : p \in rows}
  BY <1>1
<1>8. new \in SUBSET rows
  BY <1>3
<1> QED
  BY <1>2, <1>5, <1>6, <1>7, <1>8 DEF Insert

LEMMA LedgerCardinality == \A S : Ledger!Cardinality(S) = Cardinality(S)
BY DEF Ledger!Cardinality, Cardinality

LEMMA LedgerStart ==
    ASSUME Init
    PROVE  Ledger!Init
<1>1. pos = 1 /\ stored = {} /\ step = "header"
      /\ result.total = 0 /\ result.inserted = 0 /\ result.skipped = 0
  BY DEF Init
<1>2. channel = <<>> /\ ~closed /\ size = 0 /\ \A w \in Workers : worker[w].step = "receive"
  BY DEF Init, Waiting
<1>3. Batch = {} /\ DOMAIN Queue = {} /\ \A w \in Workers : Hand[w] = {}
  BY <1>2 DEF Batch, Queue, Hand, Busy
<1>4. OnTheWay = {}
  BY <1>3, Way DEF Carry
<1> QED
  BY <1>1, <1>4 DEF Ledger!Init, Read, Phase

LEMMA ReaderLedger ==
    ASSUME Inv, Disjointly, Process
    PROVE  Ledger!Next \/ UNCHANGED Ledger!vars
<1>1. /\ UNCHANGED <<file, header, database, table>> /\ RowName' = RowName /\ result \in Result
      /\ pos \in 1..Len(file) + 1 /\ Len(file) \in Nat /\ pos \in Nat
      /\ DOMAIN RowName = 1..Len(file)
  <2>1. UNCHANGED <<file, header, database, table>>
    BY ReaderChanges
  <2>2. result \in Result
    BY Parts DEF Inv
  <2>3. pos \in 1..Len(file) + 1 /\ Len(file) \in Nat
    BY FileRows DEF Inv, TypeOK
  <2> QED
    BY <2>1, <2>2, <2>3 DEF RowName, Positions
<1>2. stored' = stored
  BY DEF Process, ReadHeader, ReadFails, SkipRow, BatchRow, SendChunk, EndOfFile, Wait, Respond
<1>3. \A reason \in Reasons :
        result' = Skip(reason) =>
            /\ result'.total = result.total + 1 /\ result'.skipped = result.skipped + 1
            /\ result'.inserted = result.inserted
  BY <1>1, ResultCounts
<1>4. step = "read" => Phase = "open"
  BY DEF Phase
<1>5. ASSUME ~BatchRow PROVE OnTheWay' = OnTheWay
  BY <1>5, ReaderMoves
<1>6. CASE ReadHeader /\ header # "ok"
  <2>1. pos = 1 /\ Read = {} /\ Read' = Read
    BY <1>1, <1>6 DEF ReadHeader, Inv, StepsOK, Read
  <2>2. Phase = "open" /\ Phase' = "rejected"
    BY <1>1, <1>6 DEF ReadHeader, Phase
  <2>3. UNCHANGED <<result.total, result.inserted, result.skipped>>
    <3>1. header \in Reasons
      BY <1>6, ConstantsAssumption DEF Inv, TypeOK, Reasons
    <3>2. result' = [result EXCEPT !.reasons[header] = @ + 1]
      BY <1>6 DEF ReadHeader
    <3> QED
      BY <1>1, <3>1, <3>2 DEF Result
  <2>4. OnTheWay' = OnTheWay
    BY <1>5, <1>6 DEF ReadHeader, BatchRow
  <2>5. Ledger!Reject
    BY <1>1, <1>2, <2>1, <2>2, <2>3, <2>4 DEF Ledger!Reject
  <2> QED
    BY <2>5 DEF Ledger!Next
<1>7. CASE \/ ReadHeader /\ header = "ok"
           \/ SendChunk \/ EndOfFile \/ Wait
  <2>1. Phase' = Phase
    BY <1>1, <1>7 DEF ReadHeader, SendChunk, EndOfFile, Wait, Phase, Inv, StepsOK
  <2>2. UNCHANGED <<result.total, result.inserted, result.skipped>> /\ Read' = Read
    BY <1>7 DEF ReadHeader, SendChunk, EndOfFile, Wait, Read
  <2>3. ~BatchRow
    BY <1>1, <1>7 DEF ReadHeader, SendChunk, EndOfFile, Wait, BatchRow
  <2> QED
    BY <1>1, <1>2, <1>5, <2>1, <2>2, <2>3 DEF Ledger!vars
<1>8. CASE ReadFails \/ SkipRow
  <2>1. Phase = "open" /\ Phase' = Phase
    BY <1>1, <1>4, <1>8 DEF ReadFails, SkipRow, Phase
  <2>2. /\ result'.total = result.total + 1 /\ result'.skipped = result.skipped + 1
        /\ result'.inserted = result.inserted
    BY <1>3, <1>8 DEF ReadFails, SkipRow, Reasons
  <2>3. UNCHANGED Read \/ \E p \in DOMAIN RowName \ Read : Read' = Read \cup {p}
    <3>1. CASE pos' = pos
      BY <3>1 DEF Read
    <3>2. CASE pos <= Len(file) /\ pos' = pos + 1
      <4>1. pos \in DOMAIN RowName \ Read /\ Read' = Read \cup {pos}
        BY <1>1, <3>2 DEF Read
      <4> QED
        BY <4>1
    <3> QED
      BY <1>8, <3>1, <3>2 DEF ReadFails, SkipRow
  <2>4. ~BatchRow
    <3>1. CASE SkipRow
      BY <3>1 DEF SkipRow, BatchRow
    <3>2. CASE ReadFails
      <4>1. errors' = errors + 1
        BY <3>2 DEF ReadFails
      <4>2. errors \in 0..MaxErrors
        BY DEF Inv, TypeOK
      <4>3. MaxErrors \in Nat
        BY ConstantsAssumption
      <4>4. errors' # errors
        BY <4>1, <4>2, <4>3
      <4> QED
        BY <4>4 DEF BatchRow
    <3> QED
      BY <1>8, <3>1, <3>2
  <2>5. Ledger!Refuse
    BY <1>1, <1>2, <1>5, <2>1, <2>2, <2>3, <2>4 DEF Ledger!Refuse
  <2> QED
    BY <2>5 DEF Ledger!Next
<1>9. CASE BatchRow
  <2>1. PICK p : p = pos
    OBVIOUS
  <2>2. p \in DOMAIN RowName /\ p \notin Read /\ Read' = Read \cup {p}
    BY <1>1, <1>9, <2>1 DEF BatchRow, Read
  <2>3. OnTheWay' = OnTheWay \cup {p}
    BY <1>9, <2>1, ReaderMoves
  <2>4. /\ result'.total = result.total + 1
        /\ UNCHANGED <<result.inserted, result.skipped>>
    <3>1. PICK n : n = result.total + 1
      OBVIOUS
    <3>2. result' = [result EXCEPT !.total = n]
      BY <1>9, <3>1 DEF BatchRow
    <3> QED
      BY <1>1, <3>1, <3>2 DEF Result
  <2>5. Phase = "open" /\ Phase' = Phase
    BY <1>4, <1>9 DEF BatchRow, Phase
  <2>6. Ledger!Take(p)
    BY <1>1, <1>2, <2>2, <2>3, <2>4, <2>5 DEF Ledger!Take
  <2> QED
    BY <2>2, <2>6 DEF Ledger!Next
<1>10. CASE Respond
  <2>1. Phase = "rejected" \/ (Phase = "open" /\ Read = DOMAIN RowName /\ OnTheWay = {})
    BY <1>10, AllSettled DEF Respond, Phase
  <2>2. Phase' = "answered" /\ Read' = Read
    BY <1>10 DEF Respond, Phase, Read
  <2>3. UNCHANGED <<result.total, result.inserted, result.skipped>>
    BY <1>1, <1>10 DEF Respond, Result
  <2>4. ~BatchRow
    BY <1>10 DEF Respond, BatchRow
  <2>5. Ledger!Answer
    BY <1>1, <1>2, <1>5, <2>1, <2>2, <2>3, <2>4 DEF Ledger!Answer
  <2> QED
    BY <2>5 DEF Ledger!Next
<1> QED
  BY <1>6, <1>7, <1>8, <1>9, <1>10 DEF Process

LEMMA WorkerLedger ==
    ASSUME Inv, Count, NEW w \in Workers, Work(w)
    PROVE  Ledger!Next \/ UNCHANGED Ledger!vars
<1>1. /\ UNCHANGED <<file, header, database, pos, step>> /\ TypeOK /\ result \in Result
      /\ Disjointly /\ DistinctOK /\ CountsOK /\ Covered
  BY WorkerChanges, Parts DEF Inv, Count
<1>2. RowName' = RowName /\ Read' = Read /\ Phase' = Phase
  BY <1>1 DEF RowName, Positions, Read, Phase
<1>3. ASSUME ~Tally(w)
      PROVE  UNCHANGED <<result.total, result.inserted, result.skipped>> /\ OnTheWay' = OnTheWay
  <2>1. result' = result
    BY <1>3 DEF Work, Receive, BulkCreateProfiles, CreateProfile, Exit
  <2> QED
    BY <1>1, <1>3, <2>1, WorkerMoves
<1>4. ASSUME ~Tally(w), UNCHANGED <<table, stored>>
      PROVE  UNCHANGED Ledger!vars
  BY <1>1, <1>2, <1>3, <1>4 DEF Ledger!vars
<1>5. ASSUME ~Tally(w), worker[w].step \in Busy, NEW rows \in SUBSET Hand[w], Insert(rows)
      PROVE  Ledger!Next
  <2>1. Phase = "open" /\ Hand[w] \subseteq OnTheWay
    BY <1>1, <1>5, StillOpen
  <2>2. rows \in SUBSET Positions
    BY <1>1, <2>1, ValidRows DEF Disjointly
  <2>3. /\ table' = table \cup {RowName[p] : p \in rows}
        /\ \E new \in SUBSET rows :
             /\ stored' = stored \cup new
             /\ {RowName[p] : p \in new} = {RowName[p] : p \in rows} \ table
             /\ \A p, q \in new : RowName[p] = RowName[q] => p = q
    BY <1>1, <1>5, <2>2, InsertStores
  <2>4. Ledger!Store(rows)
    BY <1>1, <1>2, <1>3, <1>5, <2>1, <2>3 DEF Ledger!Store
  <2>5. rows \in SUBSET OnTheWay
    BY <2>1
  <2> QED
    BY <2>4, <2>5 DEF Ledger!Next
<1>6. CASE Receive(w) \/ Exit(w)
  <2>1. ~Tally(w) /\ UNCHANGED <<table, stored>>
    BY <1>6 DEF Receive, Exit, Tally
  <2> QED
    BY <1>4, <2>1
<1>7. CASE BulkCreateProfiles(w)
  <2>1. ~Tally(w) /\ worker[w].step = "bulk"
    BY <1>7 DEF BulkCreateProfiles, Tally
  <2>2. UNCHANGED <<table, stored>> \/ Insert(Range(Profiles(worker[w].chunk)))
    BY <1>7 DEF BulkCreateProfiles
  <2>3. Hand[w] = Range(Profiles(worker[w].chunk)) /\ worker[w].step \in Busy
    BY <2>1 DEF Hand, Busy, Rows
  <2> QED
    BY <1>4, <1>5, <2>1, <2>2, <2>3
<1>8. CASE CreateProfile(w)
  <2>1. ~Tally(w) /\ worker[w].step = "rows"
    BY <1>8 DEF CreateProfile, Tally
  <2>2. PICK p : p = Profiles(worker[w].chunk)[worker[w].next]
    OBVIOUS
  <2>3. UNCHANGED <<table, stored>> \/ Insert({p})
    BY <1>8, <2>2 DEF CreateProfile
  <2>4. worker[w].step \in Busy /\ Hand[w] = Rows(worker[w].chunk)
    BY <2>1 DEF Hand, Busy
  <2>5. p \in Hand[w]
    BY <2>1, <2>2, <2>4, InHand DEF Inv, WorkersOK, Busy
  <2>6. {p} \in SUBSET Hand[w]
    BY <2>5
  <2> QED
    BY <1>4, <1>5, <2>1, <2>3, <2>4, <2>6
<1>9. CASE Tally(w)
  <2>1. worker[w].step = "tally" /\ result' = Adds(w) /\ UNCHANGED <<table, stored>>
    BY <1>9 DEF Tally
  <2>2. worker[w].step \in Busy /\ worker[w] \in WorkerState
    BY <1>1, <2>1 DEF Busy, TypeOK
  <2>3. Phase = "open" /\ Hand[w] \subseteq OnTheWay
    BY <1>1, <2>2, StillOpen
  <2>4. OnTheWay' = OnTheWay \ Hand[w]
    BY <1>1, <1>9, WorkerMoves
  <2>5. PICK c : c = worker[w].chunk
    OBVIOUS
  <2>6. Hand[w] = Rows(c) /\ Sendable(c) /\ Distinct(Profiles(c))
    BY <1>1, <2>2, <2>5 DEF Hand, Inv, ChunksOK, DistinctOK
  <2>7. PICK n, m : n = worker[w].inserted /\ m = Total(worker[w].reasons)
    OBVIOUS
  <2>8. n \in Nat /\ m \in Nat
    <3>1. n \in Nat /\ worker[w].reasons \in Counts
      BY <2>2, <2>7 DEF WorkerState
    <3> QED
      BY <2>7, <3>1, ReasonsAdd
  <2>9. Cardinality(Hand[w]) = n + m
    BY <1>1, <2>1, <2>5, <2>6, <2>7, ChunkLength DEF CountsOK
  <2>10. database # "lossy" => Cardinality(stored \cap Hand[w]) <= n
    BY <1>1, <2>7 DEF Covered
  <2>11. /\ result'.total = result.total /\ result'.inserted = result.inserted + n
         /\ result'.skipped = result.skipped + m
    BY <1>1, <2>1, <2>2, <2>7, ResultCounts
  <2>12. PICK rows : rows = Hand[w]
    OBVIOUS
  <2>13. n \in 0..Cardinality(rows) /\ Cardinality(rows) - n = m
    BY <2>8, <2>9, <2>12
  <2>14. Ledger!Settle(rows)
    <3>1. database # "lossy" => Cardinality(stored \cap rows) <= n
      BY <2>10, <2>12
    <3>2. result'.skipped = result.skipped + (Cardinality(rows) - n)
      BY <2>11, <2>13
    <3>4. \E count \in 0..Cardinality(rows) :
            /\ database # "lossy" => Cardinality(stored \cap rows) <= count
            /\ result'.inserted = result.inserted + count
            /\ result'.skipped = result.skipped + (Cardinality(rows) - count)
      BY <2>11, <2>13, <3>1, <3>2
    <3>5. OnTheWay' = OnTheWay \ rows
      BY <2>4, <2>12
    <3>6. UNCHANGED <<RowName, database, Read, stored, table, Phase, result.total>>
      BY <1>1, <1>2, <2>1, <2>11
    <3>7. (database # "lossy")' = (database # "lossy")
      BY <1>1
    <3> QED
      BY <2>3, <3>4, <3>5, <3>6, <3>7, LedgerCardinality DEF Ledger!Settle
  <2>15. rows \in SUBSET OnTheWay
    BY <2>3, <2>12
  <2> QED
    BY <2>14, <2>15 DEF Ledger!Next
<1> QED
  BY <1>6, <1>7, <1>8, <1>9 DEF Work

LEMMA OthersLedger ==
    ASSUME NEW n \in Others, OtherInserts(n) \/ OtherDeletes(n)
    PROVE  Ledger!Next
<1>1. UNCHANGED <<file, header, database, pos, buffer, size, channel, closed, step, worker, result,
                  stored>>
  BY DEF OtherInserts, OtherDeletes
<1>2. \A c : Rows(c)' = Rows(c)
  BY <1>1 DEF Rows, Profiles
<1>3. OnTheWay' = OnTheWay
  BY <1>1, <1>2 DEF OnTheWay, Batch, InChannel, WithWorkers
<1>4. UNCHANGED <<RowName, Read, Phase>>
  BY <1>1 DEF RowName, Positions, Read, Phase
<1>5. n \in Names /\ table' \in {table \cup {n}, table \ {n}}
  BY ConstantsAssumption DEF OtherInserts, OtherDeletes
<1>6. Ledger!OthersWrite(n)
  BY <1>1, <1>3, <1>4, <1>5 DEF Ledger!OthersWrite
<1> QED
  BY <1>5, <1>6 DEF Ledger!Next

LEMMA LedgerStutters ==
    ASSUME UNCHANGED vars
    PROVE  UNCHANGED Ledger!vars
<1>1. UNCHANGED <<file, header, database, pos, buffer, size, channel, closed, step, worker, result,
                  table, stored>>
  BY DEF vars
<1>2. \A c : Rows(c)' = Rows(c)
  BY <1>1 DEF Rows, Profiles
<1>3. OnTheWay' = OnTheWay
  BY <1>1, <1>2 DEF OnTheWay, Batch, InChannel, WithWorkers
<1> QED
  BY <1>1, <1>3 DEF RowName, Positions, Read, Phase, Ledger!vars

LEMMA LedgerStep ==
    ASSUME Inv, Count, [Next]_vars
    PROVE  [Ledger!Next]_Ledger!vars
<1>1. CASE Process
  BY <1>1, ReaderLedger DEF Count
<1>2. CASE \E w \in Workers : Work(w)
  BY <1>2, WorkerLedger
<1>3. CASE \E n \in Others : OtherInserts(n) \/ OtherDeletes(n)
  BY <1>3, OthersLedger
<1>4. CASE UNCHANGED vars
  BY <1>4, LedgerStutters
<1> QED
  BY <1>1, <1>2, <1>3, <1>4 DEF Next

(* ProcessCSV and its workers keep the ledger of ImportLedger: what they   *)
(* do at once amounts to rows taken up, stored and settled one set at a    *)
(* time, each once.                                                        *)
THEOREM Refinement == Spec => ImplementsLedger
<1>1. Init => Ledger!Init
  BY LedgerStart
<1>2. Inv /\ Count /\ [Next]_vars => [Ledger!Next]_Ledger!vars
  BY LedgerStep
<1> QED
  BY <1>1, <1>2, Invariant, CountInvariant, PTL DEF Spec, ImplementsLedger, Ledger!Spec
=============================================================================
