------------------------------ MODULE FixedWindow ------------------------------
(* What a fixed-window rate limiter promises: a client's first request     *)
(* opens a window, at most MaxRequests are admitted in it, and it closes   *)
(* by itself once it is over.  A refused request leaves no trace.          *)
EXTENDS Integers

CONSTANTS
    Keys,         \* clients
    MaxRequests,  \* requests admitted per window
    Window,       \* length of a window
    None          \* no open window

VARIABLES
    now,
    window        \* per client, its open window

vars == <<now, window>>

Admit(k) ==
    /\ \/ /\ window[k] = None
          /\ window' = [window EXCEPT ![k] = [until |-> now + Window, admitted |-> 1]]
       \/ /\ window[k] # None
          /\ window[k].admitted < MaxRequests
          /\ window' = [window EXCEPT ![k].admitted = @ + 1]
    /\ UNCHANGED now

Tick ==
    /\ now' = now + 1
    /\ window' = [k \in Keys |-> IF window[k] # None /\ now + 1 > window[k].until
                                 THEN None ELSE window[k]]

Init == now = 0 /\ window = [k \in Keys |-> None]

Next == (\E k \in Keys : Admit(k)) \/ Tick

Spec == Init /\ [][Next]_vars
=============================================================================
