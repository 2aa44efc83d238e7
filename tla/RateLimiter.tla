------------------------------ MODULE RateLimiter ------------------------------
(* The rate-limiting middleware (internal/middleware/rateLimit.go): one    *)
(* RateLimiter, of which the routes have three (/auth, /api and /api/v1),  *)
(* each with a map and a sweeper goroutine of its own.  The mutex makes a  *)
(* decision, and a sweep, one step; the clock is read under it.            *)
EXTENDS Integers, Sequences

CONSTANTS
    Keys,         \* results of resolveKey: users or client addresses
    MaxRequests,  \* requests admitted per window
    Window,       \* windowSeconds
    MaxNow,       \* bound on the clock
    MaxCount,     \* bound on the requests counted in a window
    None          \* no entry in the map

ASSUME ConstantsAssumption ==
    /\ MaxRequests \in Nat \ {0} /\ Window \in Nat
    /\ MaxNow \in Nat /\ MaxCount \in Nat

Entry == [count : Nat, resetAt : Nat]

(* None is no record, neither here nor in FixedWindow.                     *)
ASSUME NoneAssumption == None \notin Entry \cup [until : Nat, admitted : Nat]

VARIABLES
    now,      \* the clock
    clients,  \* the map of the limiter
    (* History, read by the properties only: *)
    log       \* per key, when its admitted requests arrived

vars == <<now, clients, log>>

-----------------------------------------------------------------------------
OverAt(t, e) == t >= e.resetAt
(* time.Time.After is strict: at resetAt the window is still open.         *)
Over(t, e) == t > e.resetAt

OpensUncounted(k) ==
    /\ clients[k] # None => Over(now, clients[k])
    /\ clients' = [clients EXCEPT ![k] = [count |-> 0, resetAt |-> now + Window]]
    /\ log' = [log EXCEPT ![k] = Append(@, now)]
    /\ UNCHANGED now
(* The first request of a window.                                          *)
Opens(k) ==
    /\ clients[k] # None => Over(now, clients[k])
    /\ clients' = [clients EXCEPT ![k] = [count |-> 1, resetAt |-> now + Window]]
    /\ log' = [log EXCEPT ![k] = Append(@, now)]
    /\ UNCHANGED now

(* Another request of an open window: counted, then admitted or refused.   *)
Counted(k) ==
    /\ clients[k] # None /\ ~Over(now, clients[k])
    /\ clients[k].count < MaxCount
    /\ clients' = [clients EXCEPT ![k].count = @ + 1]
    /\ UNCHANGED now

Admitted(k) ==
    /\ Counted(k)
    /\ clients[k].count + 1 <= MaxRequests
    /\ log' = [log EXCEPT ![k] = Append(@, now)]

RefusedAndProlonged(k) ==
    /\ clients[k] # None /\ ~Over(now, clients[k])
    /\ clients[k].count < MaxCount
    /\ clients[k].count + 1 > MaxRequests
    /\ clients' = [clients EXCEPT ![k] = [count |-> @.count + 1, resetAt |-> now + Window]]
    /\ UNCHANGED <<now, log>>
Refused(k) ==
    /\ Counted(k)
    /\ clients[k].count + 1 > MaxRequests
    /\ UNCHANGED log

SweepInverted ==
    /\ clients' = [k \in Keys |-> IF clients[k] # None /\ ~Over(now, clients[k])
                                  THEN None ELSE clients[k]]
    /\ UNCHANGED <<now, log>>
(* The sweeper, once a minute: forget the clients whose window is over.    *)
Sweep ==
    /\ clients' = [k \in Keys |-> IF clients[k] # None /\ Over(now, clients[k])
                                  THEN None ELSE clients[k]]
    /\ UNCHANGED <<now, log>>

Tick ==
    /\ now < MaxNow
    /\ now' = now + 1
    /\ UNCHANGED <<clients, log>>

Init ==
    /\ now = 0
    /\ clients = [k \in Keys |-> None]
    /\ log = [k \in Keys |-> << >>]

Next ==
    \/ \E k \in Keys : Opens(k) \/ Admitted(k) \/ Refused(k)
    \/ Sweep
    \/ Tick

Spec == Init /\ [][Next]_vars

-----------------------------------------------------------------------------
(* Properties                                                              *)

(* The map holds counters and times, and a window never ends more than a   *)
(* window's length from now.                                               *)
TypeOK ==
    /\ now \in Nat
    /\ clients \in [Keys -> Entry \cup {None}]
    /\ \A k \in Keys : clients[k] # None =>
            clients[k].count > 0 /\ clients[k].resetAt <= now + Window
    /\ log \in [Keys -> Seq(Nat)]

(* Between two windows a client may get through twice what one allows, but *)
(* never more, whenever the sweeper runs: 2 * MaxRequests + 1 admissions   *)
(* take longer than a window.                                              *)
SlidingBound ==
    \A k \in Keys : \A i \in 1 .. Len(log[k]) - 2 * MaxRequests :
        log[k][i + 2 * MaxRequests] - log[k][i] > Window

(* A client is refused only if MaxRequests of its requests were admitted   *)
(* no longer ago than a window: refusals do not count against it.          *)
RefusedOnlyWhenFull ==
    [][ \A k \in Keys : Refused(k) =>
          /\ Len(log[k]) >= MaxRequests
          /\ now - log[k][Len(log[k]) - MaxRequests + 1] <= Window ]_vars

(* The window that a client of FixedWindow would see.                      *)
OpenWindow(k) ==
    IF clients[k] = None \/ Over(now, clients[k]) THEN None
    ELSE [until |-> clients[k].resetAt,
          admitted |-> IF clients[k].count <= MaxRequests THEN clients[k].count
                                                          ELSE MaxRequests]

Abstract == INSTANCE FixedWindow WITH window <- [k \in Keys |-> OpenWindow(k)]

(* Nobody can tell the sweeper, the stale entries and the counting of      *)
(* refusals from a fixed window.                                           *)
ImplementsFixedWindow == Abstract!Spec
=============================================================================
