--------------------------- MODULE RateLimiterProofs ---------------------------
(* Proofs about RateLimiter, for every number of clients, limit and window. *)
EXTENDS RateLimiter, TLAPS

(* Requests admitted in the window of an entry.                            *)
AdmittedIn(e) == IF e.count <= MaxRequests THEN e.count ELSE MaxRequests

(* Arrivals are logged in the order of the clock.                          *)
Chronological(k) ==
    /\ \A i \in 1 .. Len(log[k]) : log[k][i] <= now
    /\ \A i, j \in 1 .. Len(log[k]) : i <= j => log[k][i] <= log[k][j]

(* O holds the positions in the log of k at which a window opened: each    *)
(* window admitted at most MaxRequests, and opened after the one before it *)
(* was over.                                                               *)
Openings(k, O) ==
    /\ O \subseteq 1 .. Len(log[k])
    /\ \A i \in 1 .. Len(log[k]) : \E j \in O : j <= i /\ i < j + MaxRequests
    /\ \A i, j \in O : i < j => log[k][i] + Window < log[k][j]

(* The entry of k belongs to the last window that opened; without an entry *)
(* every window is over.                                                   *)
Current(k, O) ==
    IF clients[k] = None THEN \A j \in O : log[k][j] + Window < now
    ELSE \E j \in O :
            /\ \A i \in O : i <= j
            /\ clients[k].resetAt = log[k][j] + Window
            /\ Len(log[k]) = j + AdmittedIn(clients[k]) - 1

Windowed(k) ==
    \E O \in SUBSET (1 .. Len(log[k])) : Openings(k, O) /\ Current(k, O)

IInv == TypeOK /\ \A k \in Keys : Chronological(k) /\ Windowed(k)

-----------------------------------------------------------------------------
LEMMA WindowTyping == MaxRequests \in Nat \ {0} /\ Window \in Nat
  BY ConstantsAssumption

LEMMA InitInv == Init => IInv
<1> SUFFICES ASSUME Init PROVE IInv
  OBVIOUS
<1>1. TypeOK
  BY DEF Init, TypeOK
<1>2. ASSUME NEW k \in Keys PROVE Chronological(k) /\ Windowed(k)
  <2>1. Len(log[k]) = 0 /\ clients[k] = None
    BY DEF Init
  <2>2. Chronological(k)
    BY <2>1 DEF Chronological
  <2>3. Openings(k, {}) /\ Current(k, {})
    BY <2>1 DEF Openings, Current
  <2> QED
    BY <2>2, <2>3 DEF Windowed
<1> QED
  BY <1>1, <1>2 DEF IInv

LEMMA TypeStep == TypeOK /\ [Next]_vars => TypeOK'
<1> SUFFICES ASSUME TypeOK, [Next]_vars PROVE TypeOK'
  OBVIOUS
<1> USE WindowTyping
<1>1. ASSUME NEW k \in Keys, Opens(k) PROVE TypeOK'
  <2>1. [count |-> 1, resetAt |-> now + Window] \in Entry
    BY DEF TypeOK, Entry
  <2>2. clients' \in [Keys -> Entry \cup {None}] /\ now' \in Nat
    BY <1>1, <2>1 DEF TypeOK, Opens
  <2>3. log' \in [Keys -> Seq(Nat)]
    BY <1>1 DEF TypeOK, Opens
  <2>4. ASSUME NEW i \in Keys, clients'[i] # None
        PROVE clients'[i].count > 0 /\ clients'[i].resetAt <= now' + Window
    BY <1>1, <2>4 DEF TypeOK, Opens
  <2> QED
    BY <2>2, <2>3, <2>4 DEF TypeOK
<1>2. ASSUME NEW k \in Keys, Counted(k)
      PROVE /\ clients' \in [Keys -> Entry \cup {None}] /\ now' \in Nat
            /\ \A i \in Keys : clients'[i] # None =>
                    clients'[i].count > 0 /\ clients'[i].resetAt <= now' + Window
  <2>1. clients[k] \in Entry
    BY <1>2 DEF TypeOK, Counted
  <2>2. /\ clients' = [clients EXCEPT ![k] = [clients[k] EXCEPT !.count = clients[k].count + 1]]
        /\ now' = now
    BY <1>2 DEF Counted
  <2>3. /\ [clients[k] EXCEPT !.count = clients[k].count + 1] \in Entry
        /\ [clients[k] EXCEPT !.count = clients[k].count + 1].count = clients[k].count + 1
        /\ [clients[k] EXCEPT !.count = clients[k].count + 1].resetAt = clients[k].resetAt
    BY <2>1 DEF Entry
  <2>4. clients[k].count \in Nat
    BY <2>1 DEF Entry
  <2>5. clients' \in [Keys -> Entry \cup {None}] /\ now' \in Nat
    BY <2>2, <2>3 DEF TypeOK
  <2>6. ASSUME NEW i \in Keys, clients'[i] # None
        PROVE clients'[i].count > 0 /\ clients'[i].resetAt <= now' + Window
    <3>1. CASE i = k
      BY <1>2, <2>2, <2>3, <2>4, <3>1 DEF TypeOK, Counted
    <3>2. CASE i # k
      BY <2>2, <2>6, <3>2 DEF TypeOK
    <3> QED
      BY <3>1, <3>2
  <2> QED
    BY <2>5, <2>6
<1>3. ASSUME NEW k \in Keys, Admitted(k) PROVE TypeOK'
  <2>1. log' \in [Keys -> Seq(Nat)]
    BY <1>3 DEF TypeOK, Admitted
  <2> QED
    BY <1>2, <1>3, <2>1 DEF TypeOK, Admitted
<1>4. ASSUME NEW k \in Keys, Refused(k) PROVE TypeOK'
  BY <1>2, <1>4 DEF TypeOK, Refused
<1>5. CASE Sweep
  <2>1. clients' \in [Keys -> Entry \cup {None}]
    BY <1>5 DEF TypeOK, Sweep
  <2>2. \A k \in Keys : clients'[k] # None => clients'[k] = clients[k]
    BY <1>5 DEF Sweep
  <2> QED
    BY <1>5, <2>1, <2>2 DEF TypeOK, Sweep
<1>6. CASE Tick
  <2>1. ASSUME NEW k \in Keys, clients[k] # None PROVE clients[k].resetAt \in Nat
    BY <2>1 DEF TypeOK, Entry
  <2> QED
    BY <1>6, <2>1 DEF TypeOK, Tick
<1>7. CASE UNCHANGED vars
  BY <1>7 DEF TypeOK, vars
<1> QED
  BY <1>1, <1>3, <1>4, <1>5, <1>6, <1>7 DEF Next

-----------------------------------------------------------------------------
(* One lemma per action: what it does to the windows of a client.          *)

LEMMA LogTyping ==
    ASSUME TypeOK, NEW k \in Keys
    PROVE  /\ now \in Nat /\ log[k] \in Seq(Nat) /\ Len(log[k]) \in Nat
           /\ \A i \in 1 .. Len(log[k]) : log[k][i] \in Nat
           /\ clients[k] # None =>
                clients[k].count \in Nat \ {0} /\ clients[k].resetAt \in Nat
  BY DEF TypeOK, Entry

(* What Append does to the log.                                            *)
LEMMA Appended ==
    ASSUME NEW s \in Seq(Nat), NEW x \in Nat
    PROVE  /\ Len(Append(s, x)) = Len(s) + 1
           /\ Append(s, x)[Len(s) + 1] = x
           /\ \A i \in 1 .. Len(s) : Append(s, x)[i] = s[i]
  OBVIOUS

LEMMA Unmoved ==
    ASSUME NEW k \in Keys, Chronological(k), Windowed(k),
           clients'[k] = clients[k], log'[k] = log[k], now' = now
    PROVE  Chronological(k)' /\ Windowed(k)'
  BY DEF Chronological, Windowed, Openings, Current, AdmittedIn

LEMMA ArrivalLogged ==
    ASSUME TypeOK, NEW k \in Keys, Chronological(k), now' = now,
           log'[k] = Append(log[k], now)
    PROVE  Chronological(k)'
<1>1. /\ Len(log'[k]) = Len(log[k]) + 1 /\ log'[k][Len(log[k]) + 1] = now
      /\ \A i \in 1 .. Len(log[k]) : log'[k][i] = log[k][i]
  BY LogTyping, Appended
<1>2. 1 .. Len(log'[k]) = (1 .. Len(log[k])) \cup {Len(log[k]) + 1}
  BY <1>1, LogTyping
<1>3. \A i \in 1 .. Len(log'[k]) : log'[k][i] <= now
  BY <1>1, <1>2, LogTyping DEF Chronological
<1>4. ASSUME NEW i \in 1 .. Len(log'[k]), NEW j \in 1 .. Len(log'[k]), i <= j
      PROVE log'[k][i] <= log'[k][j]
  <2>1. CASE j = Len(log[k]) + 1
    BY <1>1, <1>3, <2>1
  <2>2. CASE j \in 1 .. Len(log[k])
    <3>1. i \in 1 .. Len(log[k])
      BY <1>4, <2>2, LogTyping
    <3> QED
      BY <1>1, <1>4, <2>2, <3>1 DEF Chronological
  <2> QED
    BY <1>2, <2>1, <2>2
<1> QED
  BY <1>3, <1>4 DEF Chronological

LEMMA OpensStep ==
    ASSUME TypeOK, NEW k \in Keys, Chronological(k), Windowed(k), Opens(k)
    PROVE  Chronological(k)' /\ Windowed(k)'
<1> DEFINE L == Len(log[k])
<1> USE WindowTyping
<1>1. /\ now' = now /\ log'[k] = Append(log[k], now)
      /\ clients'[k] = [count |-> 1, resetAt |-> now + Window]
      /\ clients[k] # None => now > clients[k].resetAt
  BY DEF TypeOK, Opens, Over
<1>2. Chronological(k)'
  BY <1>1, ArrivalLogged
<1>3. PICK O \in SUBSET (1 .. L) : Openings(k, O) /\ Current(k, O)
  BY DEF Windowed
<1>4. \A j \in O : log[k][j] + Window < now
  <2>1. CASE clients[k] = None
    BY <1>3, <2>1 DEF Current
  <2>2. CASE clients[k] # None
    <3>1. PICK j \in O : /\ \A i \in O : i <= j
                         /\ clients[k].resetAt = log[k][j] + Window
      BY <1>3, <2>2 DEF Current
    <3>2. ASSUME NEW i \in O PROVE log[k][i] \in Nat /\ log[k][i] <= log[k][j]
      BY <3>1, LogTyping DEF Chronological
    <3>3. now > log[k][j] + Window /\ now \in Nat /\ log[k][j] \in Nat
      BY <1>1, <2>2, <3>1, LogTyping
    <3> QED
      BY <3>2, <3>3
  <2> QED
    BY <2>1, <2>2
<1>5. /\ L \in Nat /\ Len(log'[k]) = L + 1 /\ log'[k][L + 1] = now
      /\ \A i \in 1 .. L : log'[k][i] = log[k][i]
  BY <1>1, LogTyping, Appended
<1>6. O \cup {L + 1} \in SUBSET (1 .. Len(log'[k]))
  <2>1. 1 .. Len(log'[k]) = (1 .. L) \cup {L + 1}
    BY <1>5
  <2> QED
    BY <2>1
<1> HIDE DEF L
<1> PICK P \in SUBSET (1 .. Len(log'[k])) : P = O \cup {L + 1}
  BY <1>6
<1>7. \A i \in 1 .. Len(log'[k]) : \E j \in P : j <= i /\ i < j + MaxRequests
  <2> SUFFICES ASSUME NEW i \in 1 .. Len(log'[k])
               PROVE \E j \in P : j <= i /\ i < j + MaxRequests
    OBVIOUS
  <2>1. CASE i \in 1 .. L
    BY <1>3, <2>1 DEF Openings, L
  <2>2. CASE i = L + 1
    BY <2>2, <1>5
  <2> QED
    BY <1>5, <2>1, <2>2
<1>8. \A i, j \in P : i < j => log'[k][i] + Window < log'[k][j]
  <2> SUFFICES ASSUME NEW i \in P, NEW j \in P, i < j
               PROVE log'[k][i] + Window < log'[k][j]
    OBVIOUS
  <2>1. i \in O /\ i \in 1 .. L
    BY <1>5
  <2>2. CASE j \in O
    BY <1>3, <1>5, <2>1, <2>2 DEF Openings, L
  <2>3. CASE j = L + 1
    BY <1>4, <1>5, <2>1, <2>3
  <2> QED
    BY <2>2, <2>3
<1>9. Openings(k, P)'
  BY <1>6, <1>7, <1>8 DEF Openings
<1>10. Current(k, P)'
  <2>1. AdmittedIn(clients'[k]) = 1
    BY <1>1 DEF AdmittedIn
  <2>2. /\ L + 1 \in P /\ \A i \in P : i <= L + 1
        /\ clients'[k].resetAt = log'[k][L + 1] + Window
        /\ Len(log'[k]) = L + 1 + AdmittedIn(clients'[k]) - 1
    BY <1>1, <1>5, <2>1
  <2>3. clients'[k] # None
    <3>1. clients'[k] \in Entry
      BY <1>1, LogTyping DEF Entry
    <3> QED
      BY <3>1, NoneAssumption
  <2> QED
    BY <2>2, <2>3 DEF Current
<1> QED
  BY <1>2, <1>6, <1>9, <1>10 DEF Windowed

(* What Counted does to the entry of its client.                           *)
LEMMA CountedEntry ==
    ASSUME TypeOK, NEW k \in Keys, Counted(k)
    PROVE  /\ clients[k] # None /\ now' = now
           /\ clients[k].count \in Nat \ {0} /\ clients[k].resetAt \in Nat
           /\ now <= clients[k].resetAt
           /\ clients'[k] # None
           /\ clients'[k].count = clients[k].count + 1
           /\ clients'[k].resetAt = clients[k].resetAt
           /\ \A i \in Keys \ {k} : clients'[i] = clients[i]
<1>1. /\ clients[k] # None /\ now' = now /\ ~(now > clients[k].resetAt)
      /\ clients' = [clients EXCEPT ![k].count = clients[k].count + 1]
  BY DEF Counted, Over
<1>2. clients[k] \in Entry /\ clients \in [Keys -> Entry \cup {None}]
  BY <1>1 DEF TypeOK
<1>3. clients'[k] = [clients[k] EXCEPT !.count = clients[k].count + 1]
  BY <1>1, <1>2
<1>4. /\ clients'[k].count = clients[k].count + 1
      /\ clients'[k].resetAt = clients[k].resetAt
  BY <1>2, <1>3 DEF Entry
<1>5. clients'[k] \in Entry
  BY <1>2, <1>3 DEF Entry
<1>6. clients'[k] # None
  BY <1>5, NoneAssumption
<1>7. now <= clients[k].resetAt
  BY <1>1, LogTyping
<1> QED
  BY <1>1, <1>2, <1>4, <1>6, <1>7, LogTyping

LEMMA AdmittedStep ==
    ASSUME TypeOK, NEW k \in Keys, Chronological(k), Windowed(k), Admitted(k)
    PROVE  Chronological(k)' /\ Windowed(k)'
<1> USE WindowTyping
<1>1. /\ Counted(k) /\ clients[k].count + 1 <= MaxRequests
      /\ log'[k] = Append(log[k], now)
  BY DEF TypeOK, Admitted
<1>2. Chronological(k)'
  BY <1>1, CountedEntry, ArrivalLogged
<1>3. PICK O \in SUBSET (1 .. Len(log[k])) : Openings(k, O) /\ Current(k, O)
  BY DEF Windowed
<1>4. PICK j \in O : /\ \A i \in O : i <= j
                     /\ clients[k].resetAt = log[k][j] + Window
                     /\ Len(log[k]) = j + clients[k].count - 1
  BY <1>1, <1>3, CountedEntry DEF Current, AdmittedIn
<1>5. /\ Len(log[k]) \in Nat /\ Len(log'[k]) = Len(log[k]) + 1
      /\ \A i \in 1 .. Len(log[k]) : log'[k][i] = log[k][i]
  BY <1>1, LogTyping, Appended
<1>6. O \in SUBSET (1 .. Len(log'[k]))
  BY <1>5
<1>7. \A i \in 1 .. Len(log'[k]) : \E p \in O : p <= i /\ i < p + MaxRequests
  <2> SUFFICES ASSUME NEW i \in 1 .. Len(log'[k])
               PROVE \E p \in O : p <= i /\ i < p + MaxRequests
    OBVIOUS
  <2>1. CASE i \in 1 .. Len(log[k])
    BY <1>3, <2>1 DEF Openings
  <2>2. CASE i = Len(log[k]) + 1
    <3>1. clients[k].count \in Nat \ {0}
      BY <1>1, CountedEntry
    <3>2. j \in Nat
      BY <1>5
    <3>3. i = j + clients[k].count
      BY <1>4, <1>5, <2>2, <3>1, <3>2
    <3>4. j <= i /\ i < j + MaxRequests
      BY <1>1, <3>1, <3>2, <3>3
    <3> QED
      BY <3>4
  <2> QED
    BY <1>5, <2>1, <2>2
<1>8. Openings(k, O)'
  BY <1>3, <1>5, <1>6, <1>7 DEF Openings
<1>9. Current(k, O)'
  <2>1. AdmittedIn(clients'[k]) = clients[k].count + 1
    BY <1>1, CountedEntry DEF AdmittedIn
  <2>2. Len(log'[k]) = j + AdmittedIn(clients'[k]) - 1
    BY <1>4, <1>5, <2>1, <1>1, CountedEntry
  <2>3. clients'[k].resetAt = log'[k][j] + Window
    BY <1>1, <1>4, <1>5, CountedEntry
  <2> QED
    BY <1>1, <1>4, <2>2, <2>3, CountedEntry DEF Current
<1> QED
  BY <1>2, <1>6, <1>8, <1>9 DEF Windowed

LEMMA RefusedStep ==
    ASSUME TypeOK, NEW k \in Keys, Chronological(k), Windowed(k), Refused(k)
    PROVE  Chronological(k)' /\ Windowed(k)'
<1> USE WindowTyping
<1>1. Counted(k) /\ clients[k].count + 1 > MaxRequests /\ log' = log
  BY DEF Refused
<1>2. Chronological(k)'
  BY <1>1, CountedEntry DEF Chronological
<1>3. PICK O \in SUBSET (1 .. Len(log[k])) : Openings(k, O) /\ Current(k, O)
  BY DEF Windowed
<1>4. AdmittedIn(clients'[k]) = AdmittedIn(clients[k])
  BY <1>1, CountedEntry DEF AdmittedIn
<1>5. Openings(k, O)'
  BY <1>1, <1>3 DEF Openings
<1>6. Current(k, O)'
  BY <1>1, <1>3, <1>4, CountedEntry DEF Current
<1> QED
  BY <1>1, <1>2, <1>5, <1>6 DEF Windowed

LEMMA SweepStep ==
    ASSUME TypeOK, NEW k \in Keys, Chronological(k), Windowed(k), Sweep
    PROVE  Chronological(k)' /\ Windowed(k)'
<1>1. now' = now /\ log' = log
  BY DEF Sweep
<1>2. CASE clients'[k] = clients[k]
  BY <1>1, <1>2, Unmoved
<1>3. CASE clients'[k] # clients[k]
  <2>1. /\ clients'[k] = None /\ clients[k] # None
        /\ now > clients[k].resetAt
    BY <1>3 DEF Sweep, Over
  <2>2. PICK O \in SUBSET (1 .. Len(log[k])) : Openings(k, O) /\ Current(k, O)
    BY DEF Windowed
  <2>3. PICK j \in O : /\ \A i \in O : i <= j
                       /\ clients[k].resetAt = log[k][j] + Window
    BY <2>1, <2>2 DEF Current
  <2>4. ASSUME NEW i \in O PROVE log[k][i] \in Nat /\ log[k][i] <= log[k][j]
    BY <2>3, LogTyping DEF Chronological
  <2>5. now > log[k][j] + Window /\ now \in Nat /\ log[k][j] \in Nat
    BY <2>1, <2>3, LogTyping
  <2>6. \A i \in O : log[k][i] + Window < now
    BY <2>4, <2>5, WindowTyping
  <2>7. Current(k, O)'
    BY <1>1, <2>1, <2>6 DEF Current
  <2>8. Chronological(k)' /\ Openings(k, O)'
    BY <1>1, <2>2 DEF Chronological, Openings
  <2> QED
    BY <1>1, <2>7, <2>8 DEF Windowed
<1> QED
  BY <1>2, <1>3

LEMMA TickStep ==
    ASSUME TypeOK, NEW k \in Keys, Chronological(k), Windowed(k), Tick
    PROVE  Chronological(k)' /\ Windowed(k)'
<1>1. now' = now + 1 /\ log' = log /\ clients' = clients
  BY DEF Tick
<1>2. Chronological(k)'
  <2>1. \A i \in 1 .. Len(log[k]) : log[k][i] <= now + 1
    BY LogTyping DEF Chronological
  <2> QED
    BY <1>1, <2>1 DEF Chronological
<1>3. PICK O \in SUBSET (1 .. Len(log[k])) : Openings(k, O) /\ Current(k, O)
  BY DEF Windowed
<1>4. Openings(k, O)'
  BY <1>1, <1>3 DEF Openings
<1>5. Current(k, O)'
  <2>1. CASE clients[k] # None
    BY <1>1, <1>3, <2>1 DEF Current, AdmittedIn
  <2>2. CASE clients[k] = None
    <3>1. \A j \in O : log[k][j] \in Nat /\ log[k][j] + Window < now
      BY <1>3, <2>2, LogTyping DEF Current
    <3>2. \A j \in O : log[k][j] + Window < now + 1
      BY <3>1, LogTyping, WindowTyping
    <3> QED
      BY <1>1, <2>2, <3>2 DEF Current
  <2> QED
    BY <2>1, <2>2
<1> QED
  BY <1>1, <1>2, <1>4, <1>5 DEF Windowed

LEMMA StepInv == IInv /\ [Next]_vars => IInv'
<1> SUFFICES ASSUME IInv, [Next]_vars PROVE IInv'
  OBVIOUS
<1>1. TypeOK /\ TypeOK' /\ \A k \in Keys : Chronological(k) /\ Windowed(k)
  BY TypeStep DEF IInv
<1>2. ASSUME NEW k \in Keys PROVE Chronological(k)' /\ Windowed(k)'
  <2>1. ASSUME NEW x \in Keys, Opens(x) PROVE Chronological(k)' /\ Windowed(k)'
    <3>1. CASE x = k
      BY <1>1, <2>1, <3>1, OpensStep
    <3>2. CASE x # k
      <4>1. clients'[k] = clients[k] /\ log'[k] = log[k] /\ now' = now
        BY <1>1, <2>1, <3>2 DEF Opens, TypeOK
      <4> QED
        BY <1>1, <4>1, Unmoved
    <3> QED
      BY <3>1, <3>2
  <2>2. ASSUME NEW x \in Keys, Admitted(x) PROVE Chronological(k)' /\ Windowed(k)'
    <3>1. CASE x = k
      BY <1>1, <2>2, <3>1, AdmittedStep
    <3>2. CASE x # k
      <4>1. log'[k] = log[k] /\ Counted(x)
        BY <1>1, <2>2, <3>2 DEF Admitted, TypeOK
      <4>2. clients'[k] = clients[k] /\ now' = now
        BY <1>1, <3>2, <4>1, CountedEntry
      <4> QED
        BY <1>1, <4>1, <4>2, Unmoved
    <3> QED
      BY <3>1, <3>2
  <2>3. ASSUME NEW x \in Keys, Refused(x) PROVE Chronological(k)' /\ Windowed(k)'
    <3>1. CASE x = k
      BY <1>1, <2>3, <3>1, RefusedStep
    <3>2. CASE x # k
      <4>1. log'[k] = log[k] /\ Counted(x)
        BY <2>3 DEF Refused
      <4>2. clients'[k] = clients[k] /\ now' = now
        BY <1>1, <3>2, <4>1, CountedEntry
      <4> QED
        BY <1>1, <4>1, <4>2, Unmoved
    <3> QED
      BY <3>1, <3>2
  <2>4. CASE Sweep
    BY <1>1, <2>4, SweepStep
  <2>5. CASE Tick
    BY <1>1, <2>5, TickStep
  <2>6. CASE UNCHANGED vars
    BY <1>1, <2>6, Unmoved DEF vars
  <2> QED
    BY <2>1, <2>2, <2>3, <2>4, <2>5, <2>6 DEF Next
<1> QED
  BY <1>1, <1>2 DEF IInv

-----------------------------------------------------------------------------
(* In every behaviour the log of a client is divided into windows that     *)
(* admit at most MaxRequests each, and the map entry describes the last.   *)
THEOREM Invariance == Spec => []IInv
  BY InitInv, StepInv, PTL DEF Spec

(* The map and the log stay within their types.                            *)
THEOREM TypeCorrect == Spec => []TypeOK
<1>1. IInv => TypeOK
  BY DEF IInv
<1> QED
  BY <1>1, Invariance, PTL

(* No client ever gets 2 * MaxRequests + 1 requests through within a       *)
(* window's length, whenever windows open and the sweeper runs.            *)
THEOREM BurstsAreBounded == Spec => []SlidingBound
<1>1. IInv => SlidingBound
  <2> SUFFICES ASSUME IInv, NEW k \in Keys,
                      NEW i \in 1 .. Len(log[k]) - 2 * MaxRequests
               PROVE  log[k][i + 2 * MaxRequests] - log[k][i] > Window
    BY DEF SlidingBound
  <2> USE WindowTyping
  <2>1. Len(log[k]) \in Nat /\ \A p \in 1 .. Len(log[k]) : log[k][p] \in Nat
    BY LogTyping DEF IInv
  <2>2. PICK O \in SUBSET (1 .. Len(log[k])) : Openings(k, O)
    BY DEF IInv, Windowed
  <2>3. /\ i \in 1 .. Len(log[k]) /\ i + MaxRequests \in 1 .. Len(log[k])
        /\ i + 2 * MaxRequests \in 1 .. Len(log[k])
    BY <2>1
  <2>4. PICK p \in O : p <= i + MaxRequests /\ i + MaxRequests < p + MaxRequests
    BY <2>2, <2>3 DEF Openings
  <2>5. PICK q \in O : /\ q <= i + 2 * MaxRequests
                       /\ i + 2 * MaxRequests < q + MaxRequests
    BY <2>2, <2>3 DEF Openings
  <2>6. i <= p /\ p < q /\ p \in 1 .. Len(log[k]) /\ q \in 1 .. Len(log[k])
    BY <2>2, <2>4, <2>5
  <2>7. log[k][p] + Window < log[k][q]
    BY <2>2, <2>6 DEF Openings
  <2>8. /\ log[k][i] <= log[k][p]
        /\ log[k][q] <= log[k][i + 2 * MaxRequests]
    BY <2>3, <2>5, <2>6 DEF IInv, Chronological
  <2>9. /\ log[k][i] \in Nat /\ log[k][p] \in Nat /\ log[k][q] \in Nat
        /\ log[k][i + 2 * MaxRequests] \in Nat
    BY <2>1, <2>3, <2>6
  <2>10. \A a, b, c, d \in Nat : a <= b /\ b + Window < c /\ c <= d => d - a > Window
    OBVIOUS
  <2> HIDE DEF SlidingBound
  <2> QED
    BY <2>7, <2>8, <2>9, <2>10
<1> QED
  BY <1>1, Invariance, PTL

(* A client is only turned away when the limit was used up within the last *)
(* window: its refused requests never prolong its exclusion.               *)
THEOREM RefusalsAreJustified == Spec => RefusedOnlyWhenFull
<1> DEFINE Justified(k) == /\ Len(log[k]) >= MaxRequests
                           /\ now - log[k][Len(log[k]) - MaxRequests + 1] <= Window
<1>1. ASSUME IInv, NEW k \in Keys, Refused(k) PROVE Justified(k)
  <2> USE WindowTyping
  <2>1. /\ TypeOK /\ Counted(k) /\ clients[k].count + 1 > MaxRequests
    BY <1>1 DEF IInv, Refused
  <2>2. PICK O \in SUBSET (1 .. Len(log[k])) : Openings(k, O) /\ Current(k, O)
    BY <1>1 DEF IInv, Windowed
  <2>3. AdmittedIn(clients[k]) = MaxRequests
    BY <2>1, CountedEntry DEF AdmittedIn
  <2>4. PICK j \in O : /\ clients[k].resetAt = log[k][j] + Window
                       /\ Len(log[k]) = j + MaxRequests - 1
    BY <2>1, <2>2, <2>3, CountedEntry DEF Current
  <2>5. j \in 1 .. Len(log[k]) /\ log[k][j] \in Nat /\ now \in Nat
    BY <2>1, LogTyping
  <2>6. now <= log[k][j] + Window
    BY <2>1, <2>4, CountedEntry
  <2>7. Len(log[k]) - MaxRequests + 1 = j /\ Len(log[k]) >= MaxRequests
    BY <2>4, <2>5
  <2> QED
    BY <2>5, <2>6, <2>7
<1>2. IInv /\ [Next]_vars => [\A k \in Keys : Refused(k) => Justified(k)]_vars
  BY <1>1
<1> QED
  BY <1>2, Invariance, PTL DEF Spec, RefusedOnlyWhenFull

-----------------------------------------------------------------------------
(* The refinement of FixedWindow.                                          *)

LEMMA InitRefines == Init => Abstract!Init
  BY DEF Init, Abstract!Init, OpenWindow

(* The window a client sees.                                               *)
View(k) ==
    \/ OpenWindow(k) = None /\ (clients[k] # None => now > clients[k].resetAt)
    \/ /\ clients[k] # None /\ now <= clients[k].resetAt
       /\ OpenWindow(k) = [until |-> clients[k].resetAt,
                           admitted |-> AdmittedIn(clients[k])]
       /\ OpenWindow(k) # None

LEMMA Viewed == TypeOK => \A k \in Keys : View(k)
<1> SUFFICES ASSUME TypeOK, NEW k \in Keys PROVE View(k)
  OBVIOUS
<1>1. CASE clients[k] = None \/ Over(now, clients[k])
  BY <1>1 DEF OpenWindow, Over, View
<1>2. CASE ~(clients[k] = None \/ Over(now, clients[k]))
  <2>1. OpenWindow(k) = [until |-> clients[k].resetAt,
                         admitted |-> AdmittedIn(clients[k])]
    BY <1>2 DEF OpenWindow, AdmittedIn
  <2>2. AdmittedIn(clients[k]) \in Nat /\ clients[k].resetAt \in Nat
    BY <1>2, LogTyping, WindowTyping DEF AdmittedIn
  <2>3. OpenWindow(k) # None
    BY <2>1, <2>2, NoneAssumption
  <2>4. now <= clients[k].resetAt
    BY <1>2, LogTyping DEF Over
  <2> QED
    BY <1>2, <2>1, <2>3, <2>4 DEF View
<1> QED
  BY <1>1, <1>2

Views == \A k \in Keys : View(k)

LEMMA ViewedNext == TypeOK' => \A k \in Keys : View(k)'
<1>1. TypeOK => Views
  BY Viewed DEF Views
<1>2. TypeOK' => Views'
  BY <1>1, PTL
<1> QED
  BY <1>2 DEF Views

(* The windows that FixedWindow sees.                                      *)
Seen == [k \in Keys |-> OpenWindow(k)]

LEMMA StepRefines == TypeOK /\ TypeOK' /\ [Next]_vars => [Abstract!Next]_(Abstract!vars)
<1> SUFFICES ASSUME TypeOK, TypeOK', [Next]_vars
             PROVE  [Abstract!Next]_(Abstract!vars)
  OBVIOUS
<1> USE WindowTyping
<1>1. \A k \in Keys : View(k) /\ View(k)'
  BY Viewed, ViewedNext
<1>2. /\ Seen = [k \in Keys |-> OpenWindow(k)]
      /\ Seen' = [k \in Keys |-> OpenWindow(k)']
  BY DEF Seen
<1>3. ASSUME NEW k \in Keys, now' = now, clients'[k] = clients[k]
      PROVE  Seen'[k] = Seen[k]
  BY <1>2, <1>3 DEF OpenWindow
<1>4. ASSUME NEW k \in Keys, Opens(k) PROVE Abstract!Admit(k)
  <2>1. now' = now /\ clients'[k] = [count |-> 1, resetAt |-> now + Window]
    BY <1>4 DEF Opens, TypeOK
  <2>2. Seen[k] = None
    BY <1>1, <1>2, <1>4, LogTyping DEF View, Opens, Over
  <2>3. Seen'[k] = [until |-> now + Window, admitted |-> 1]
    <3>1. now \in Nat /\ clients'[k] \in Entry
      BY <2>1, LogTyping DEF Entry
    <3>2. clients'[k] # None
      BY <3>1, NoneAssumption
    <3>3. AdmittedIn(clients'[k]) = 1 /\ clients'[k].resetAt = now + Window
      BY <2>1 DEF AdmittedIn
    <3>4. OpenWindow(k)' = [until |-> now + Window, admitted |-> 1]
      BY <1>1, <2>1, <3>1, <3>2, <3>3 DEF View
    <3> QED
      BY <1>2, <3>4
  <2>4. \A i \in Keys \ {k} : Seen'[i] = Seen[i]
    BY <1>3, <1>4, <2>1 DEF Opens, TypeOK
  <2>5. Seen' = [Seen EXCEPT ![k] = [until |-> now + Window, admitted |-> 1]]
    BY <1>2, <2>3, <2>4
  <2> QED
    BY <2>1, <2>2, <2>5 DEF Abstract!Admit, Seen
<1>5. ASSUME NEW k \in Keys, Counted(k)
      PROVE  /\ now' = now
             /\ Seen[k] = [until |-> clients[k].resetAt, admitted |-> AdmittedIn(clients[k])]
             /\ Seen[k] # None
             /\ Seen'[k] = [until |-> clients[k].resetAt, admitted |-> AdmittedIn(clients'[k])]
             /\ \A i \in Keys \ {k} : Seen'[i] = Seen[i]
  <2>1. View(k) /\ View(k)' /\ now \in Nat
    BY <1>1, LogTyping
  <2> QED
    BY <1>2, <1>3, <1>5, <2>1, CountedEntry DEF View
<1>6. ASSUME NEW k \in Keys, Admitted(k) PROVE Abstract!Admit(k)
  <2>1. Counted(k) /\ clients[k].count + 1 <= MaxRequests
    BY <1>6 DEF Admitted
  <2>2. /\ AdmittedIn(clients[k]) = clients[k].count
        /\ AdmittedIn(clients'[k]) = clients[k].count + 1
    BY <2>1, CountedEntry DEF AdmittedIn
  <2> DEFINE e == clients[k]
  <2>3. /\ Seen[k] # None /\ now' = now
        /\ Seen[k] = [until |-> e.resetAt, admitted |-> e.count]
        /\ Seen'[k] = [until |-> e.resetAt, admitted |-> e.count + 1]
    BY <1>5, <2>1, <2>2
  <2>4. e.count \in Nat /\ e.count < MaxRequests
    BY <2>1, CountedEntry
  <2> HIDE DEF e
  <2>5. Seen[k].admitted < MaxRequests
    BY <2>3, <2>4
  <2>6. Seen'[k] = [Seen[k] EXCEPT !.admitted = Seen[k].admitted + 1]
    BY <2>3
  <2>7. Seen' = [Seen EXCEPT ![k].admitted = Seen[k].admitted + 1]
    BY <1>2, <1>5, <2>1, <2>6
  <2> QED
    BY <2>3, <2>5, <2>7 DEF Abstract!Admit, Seen
<1>7. ASSUME NEW k \in Keys, Refused(k) PROVE UNCHANGED Abstract!vars
  <2>1. Counted(k) /\ clients[k].count + 1 > MaxRequests
    BY <1>7 DEF Refused
  <2>2. AdmittedIn(clients'[k]) = AdmittedIn(clients[k])
    BY <2>1, CountedEntry DEF AdmittedIn
  <2>3. Seen' = Seen /\ now' = now
    BY <1>2, <1>5, <2>1, <2>2
  <2> QED
    BY <2>3 DEF Abstract!vars, Seen
<1>8. CASE Sweep
  <2>1. ASSUME NEW k \in Keys PROVE OpenWindow(k)' = OpenWindow(k)
    BY <1>8, <2>1 DEF Sweep, OpenWindow
  <2>2. Seen' = Seen /\ now' = now
    BY <1>2, <1>8, <2>1 DEF Sweep
  <2> QED
    BY <2>2 DEF Abstract!vars, Seen
<1>9. CASE Tick
  <2>1. now' = now + 1 /\ clients' = clients
    BY <1>9 DEF Tick
  <2>2. ASSUME NEW k \in Keys
        PROVE  OpenWindow(k)' = IF OpenWindow(k) # None /\ now + 1 > OpenWindow(k).until
                                THEN None ELSE OpenWindow(k)
    <3>1. View(k) /\ View(k)' /\ now \in Nat
      BY <1>1, LogTyping
    <3>2. clients[k] # None => clients[k].resetAt \in Nat
      BY LogTyping
    <3> QED
      BY <2>1, <3>1, <3>2 DEF View
  <2>3. Seen' = [k \in Keys |-> IF Seen[k] # None /\ now + 1 > Seen[k].until
                                THEN None ELSE Seen[k]]
    BY <1>2, <2>2
  <2> QED
    BY <2>1, <2>3 DEF Abstract!Tick, Abstract!Next, Seen
<1>10. CASE UNCHANGED vars
  <2>1. Seen' = Seen /\ now' = now
    BY <1>2, <1>3, <1>10 DEF vars
  <2> QED
    BY <2>1 DEF Abstract!vars, Seen
<1> QED
  BY <1>4, <1>6, <1>7, <1>8, <1>9, <1>10 DEF Next, Abstract!Next

(* Seen by its clients, the limiter is a fixed window: sweeping, stale     *)
(* entries and counted refusals make no difference.                        *)
THEOREM Refinement == Spec => ImplementsFixedWindow
<1>1. Spec => Abstract!Init /\ [][Abstract!Next]_(Abstract!vars)
  BY InitRefines, StepRefines, TypeCorrect, PTL DEF Spec
<1> QED
  BY <1>1 DEF ImplementsFixedWindow, Abstract!Spec
=============================================================================
