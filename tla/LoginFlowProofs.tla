---------------------------- MODULE LoginFlowProofs ----------------------------
(* Theorems about LoginFlow, for every number of clients, attempts, codes, *)
(* callbacks and tokens.                                                   *)
EXTENDS LoginFlow, TLAPS

-----------------------------------------------------------------------------
(* The inductive invariant: what ties cookies, entries, callbacks and      *)
(* codes to the attempt, and the attempt to the client that began it.      *)

(* The cookies of a browser are those of one attempt, which it began.      *)
CookiesPaired ==
    \A b \in Browsers :
        jar[b].state # None =>
            /\ jar[b].verifier = jar[b].state
            /\ began[jar[b].state] = b

(* An entry has the verifier of its state, and the CLI that set it.        *)
EntriesPaired ==
    \A a \in Attempts :
        store[a] # None => store[a].verifier = a /\ began[a] = store[a].redirect

(* GitHub issues codes for attempts that somebody began.                   *)
CodesBegun == \A code \in Codes : granted[code] # None => began[granted[code]] # None

(* A callback goes back to the client that began the attempt.              *)
CallbacksPaired ==
    \A h \in Handlers :
        handler[h] # Idle =>
            /\ granted[handler[h].code] # None
            /\ began[granted[handler[h].code]] = Recipient(h)
            /\ handler[h].step = "delete" => handler[h].redirect # None

(* What a client holds has been issued.                                    *)
HeldIssued ==
    /\ \A b \in Browsers : jar[b].rt # None => sessions[jar[b].rt] # "none"
    /\ \A c \in Clis : held[c] # None => sessions[held[c]] # "none"

(* A state that was given up has been begun, and is in no store or jar.    *)
UsedIsGone ==
    \A a \in used :
        /\ began[a] # None /\ store[a] = None
        /\ \A b \in Browsers : jar[b].state # a

IInv ==
    /\ TypeOK
    /\ CookiesPaired /\ EntriesPaired /\ CodesBegun /\ CallbacksPaired
    /\ ExchangesMatch
    /\ HeldIssued /\ TokensReachInitiator
    /\ UsedIsGone /\ StatesAreUsedOnce

-----------------------------------------------------------------------------
(* Types                                                                   *)

LEMMA NoneIsNothing ==
    /\ None \notin Browsers /\ None \notin Clis /\ None \notin Attempts
    /\ None \notin Codes /\ None \notin Tokens
    /\ Browsers \cap Clis = {}
BY ConstantsAssumption DEF Clients

LEMMA JarTypes ==
    ASSUME TypeOK, NEW b \in Browsers
    PROVE  /\ jar[b] \in Jar
           /\ jar[b].state \in Attempts \cup {None}
           /\ jar[b].verifier \in Attempts \cup {None}
           /\ jar[b].rt \in Tokens \cup {None}
BY DEF TypeOK, Jar

(* A callback in progress is typed; Idle is none.                          *)
LEMMA CallbackTypes ==
    ASSUME TypeOK, NEW h \in Handlers, handler[h].step # "idle"
    PROVE  /\ handler[h] \in Callback
           /\ handler[h] # Idle
           /\ handler[h].browser \in Browsers
           /\ handler[h].code \in Codes
           /\ handler[h].verifier \in Attempts
           /\ handler[h].redirect \in Clis \cup {None}
<1>1. handler[h] # Idle
    BY DEF Idle
<1>2. handler[h] \in Callback
    BY <1>1 DEF TypeOK
<1>. QED  BY <1>1, <1>2 DEF Callback

LEMMA ClearedType ==
    ASSUME TypeOK, NEW b \in Browsers
    PROVE  CookiesCleared(b) \in [Browsers -> Jar]
<1>1. [jar[b] EXCEPT !.state = None, !.verifier = None] \in Jar
    BY JarTypes DEF Jar
<1>. QED  BY <1>1 DEF TypeOK, CookiesCleared

(* The record that Arrive stores is a callback.                            *)
LEMMA ArriveType ==
    ASSUME TypeOK, NEW h \in Handlers, NEW b \in Browsers, NEW code \in Codes,
           NEW verifier \in Attempts, NEW redirect \in Clis \cup {None},
           NEW step \in {"delete", "exchange"},
           Arrive(h, b, code, verifier, redirect, step)
    PROVE  handler' \in [Handlers -> Callback \cup {Idle}]
<1>1. [step |-> step, browser |-> b, code |-> code, verifier |-> verifier,
       redirect |-> redirect, late |-> granted[code] \in used] \in Callback
    BY DEF Callback
<1>. QED  BY <1>1 DEF TypeOK, Arrive

LEMMA AdvanceType ==
    ASSUME TypeOK, NEW h \in Handlers, handler[h].step # "idle",
           NEW step \in {"delete", "exchange", "issue"},
           handler' = [handler EXCEPT ![h].step = step]
    PROVE  handler' \in [Handlers -> Callback \cup {Idle}]
<1>1. handler[h] \in Callback
    BY CallbackTypes
<1>2. [handler[h] EXCEPT !.step = step] \in Callback
    BY <1>1 DEF Callback
<1>. QED  BY <1>2 DEF TypeOK

LEMMA IdleAgainType ==
    ASSUME TypeOK, NEW h \in Handlers, handler' = [handler EXCEPT ![h] = Idle]
    PROVE  handler' \in [Handlers -> Callback \cup {Idle}]
BY DEF TypeOK

LEMMA TypeStep == TypeOK /\ CallbacksPaired /\ [Next]_vars => TypeOK'
<1> SUFFICES ASSUME TypeOK, CallbacksPaired, [Next]_vars PROVE TypeOK'
    OBVIOUS
<1>1. ASSUME NEW b \in Browsers, NEW a \in Attempts, WebLogin(b, a) PROVE TypeOK'
    <2>. [jar[b] EXCEPT !.state = a, !.verifier = a] \in Jar
        BY JarTypes DEF Jar
    <2>1. jar' \in [Browsers -> Jar]
        BY <1>1 DEF TypeOK, WebLogin
    <2>2. began' \in [Attempts -> Clients \cup {None}]
        BY <1>1 DEF TypeOK, WebLogin, Clients
    <2>. QED  BY <1>1, <2>1, <2>2 DEF TypeOK, WebLogin
<1>2. ASSUME NEW c \in Clis, NEW a \in Attempts, CliLogin(c, a) PROVE TypeOK'
    <2>1. store' \in [Attempts -> CLISession \cup {None}]
        BY <1>2 DEF TypeOK, CliLogin, CLISession
    <2>2. began' \in [Attempts -> Clients \cup {None}]
        BY <1>2 DEF TypeOK, CliLogin, Clients
    <2>. QED  BY <1>2, <2>1, <2>2 DEF TypeOK, CliLogin
<1>3. ASSUME NEW a \in Attempts, NEW code \in Codes, Authorize(a, code) PROVE TypeOK'
    BY <1>3 DEF TypeOK, Authorize
<1>4. ASSUME NEW a \in Attempts, EntryExpires(a) PROVE TypeOK'
    <2>1. store[a] \in CLISession
        BY <1>4 DEF TypeOK, EntryExpires, Found
    <2>2. [store[a] EXCEPT !.expired = TRUE] \in CLISession
        BY <2>1 DEF CLISession
    <2>3. store' \in [Attempts -> CLISession \cup {None}]
        BY <1>4, <2>2 DEF TypeOK, EntryExpires
    <2>. QED  BY <1>4, <2>3 DEF TypeOK, EntryExpires
<1>5. ASSUME NEW h \in Handlers, NEW b \in Browsers, NEW code \in Codes,
             CliCallback(h, b, code)
      PROVE  TypeOK'
    <2>1. granted[code] \in Attempts
        BY <1>5 DEF TypeOK, CliCallback
    <2>2. store[granted[code]] \in CLISession
        BY <1>5, <2>1 DEF TypeOK, CliCallback, Found
    <2>3. handler' \in [Handlers -> Callback \cup {Idle}]
        BY <1>5, <2>2, ArriveType DEF CliCallback, CLISession
    <2>. QED  BY <1>5, <2>3 DEF TypeOK, CliCallback
<1>6. ASSUME NEW h \in Handlers, NEW b \in Browsers, NEW code \in Codes,
             WebCallback(h, b, code)
      PROVE  TypeOK'
    <2>1. store' \in [Attempts -> CLISession \cup {None}]
        BY <1>6 DEF TypeOK, WebCallback
    <2>2. handler' \in [Handlers -> Callback \cup {Idle}]
        <3>1. CASE StateMatches(b, granted[code]) /\ jar[b].verifier # None
            <4>1. jar[b].verifier \in Attempts
                BY <3>1, JarTypes
            <4>. QED  BY <1>6, <3>1, <4>1, ArriveType DEF WebCallback
        <3>2. CASE ~(StateMatches(b, granted[code]) /\ jar[b].verifier # None)
            BY <1>6, <3>2 DEF TypeOK, WebCallback
        <3>. QED  BY <3>1, <3>2
    <2>. QED  BY <1>6, <2>1, <2>2 DEF TypeOK, WebCallback
<1>7. ASSUME NEW h \in Handlers, handler[h].step # "idle"
      PROVE  granted[handler[h].code] \in Attempts
    BY <1>7, CallbackTypes DEF TypeOK, CallbacksPaired
<1>8. ASSUME NEW h \in Handlers, DeleteEntry(h) PROVE TypeOK'
    <2>1. handler[h].step # "idle" /\ granted[handler[h].code] \in Attempts
        BY <1>7, <1>8 DEF DeleteEntry
    <2>2. handler' \in [Handlers -> Callback \cup {Idle}]
        BY <1>8, <2>1, AdvanceType DEF DeleteEntry
    <2>3. store' \in [Attempts -> CLISession \cup {None}] /\ used' \subseteq Attempts
        BY <1>8, <2>1 DEF TypeOK, DeleteEntry
    <2>. QED  BY <1>8, <2>2, <2>3 DEF TypeOK, DeleteEntry
<1>9. ASSUME NEW h \in Handlers, Exchange(h) PROVE TypeOK'
    <2>1. handler[h].step # "idle" /\ handler[h].code \in Codes
        BY <1>9, CallbackTypes DEF Exchange
    <2>2. handler' \in [Handlers -> Callback \cup {Idle}]
        BY <1>9, <2>1, AdvanceType DEF Exchange
    <2>. QED  BY <1>9, <2>1, <2>2 DEF TypeOK, Exchange
<1>10. ASSUME NEW h \in Handlers, CallbackFails(h) PROVE TypeOK'
    <2>1. handler[h].step # "idle" /\ granted[handler[h].code] \in Attempts
        BY <1>7, <1>10 DEF CallbackFails
    <2>2. handler[h].browser \in Browsers
        BY <2>1, CallbackTypes
    <2>3. handler' \in [Handlers -> Callback \cup {Idle}]
        BY <1>10, IdleAgainType DEF CallbackFails
    <2>4. jar' \in [Browsers -> Jar] /\ used' \subseteq Attempts
        BY <1>10, <2>1, <2>2, ClearedType DEF TypeOK, CallbackFails
    <2>. QED  BY <1>10, <2>3, <2>4 DEF TypeOK, CallbackFails
<1>11. ASSUME NEW h \in Handlers, Issue(h) PROVE TypeOK'
    <2>1. /\ handler[h].step # "idle"
          /\ granted[handler[h].code] \in Attempts
          /\ began[granted[handler[h].code]] \in Clients \cup {None}
        BY <1>7, <1>11 DEF TypeOK, Issue
    <2>2. handler' \in [Handlers -> Callback \cup {Idle}]
        BY <1>11, IdleAgainType DEF Issue
    <2>3. PICK t \in Tokens :
            /\ sessions' = [sessions EXCEPT ![t] = "live"]
            /\ origin' = [origin EXCEPT ![t] = began[granted[handler[h].code]]]
            /\ \/ /\ Recipient(h) \in Browsers
                  /\ jar' = [CookiesCleared(Recipient(h)) EXCEPT ![Recipient(h)].rt = t]
                  /\ used' = used \cup {granted[handler[h].code]}
                  /\ UNCHANGED held
               \/ /\ Recipient(h) \in Clis
                  /\ held' = [held EXCEPT ![Recipient(h)] = t]
                  /\ UNCHANGED <<jar, used>>
               \/ UNCHANGED <<jar, held, used>>
        BY <1>11 DEF Issue
    <2>4. /\ sessions' \in [Tokens -> {"none", "live", "revoked"}]
          /\ origin' \in [Tokens -> Clients \cup {None}]
          /\ held' \in [Clis -> Tokens \cup {None}]
          /\ used' \subseteq Attempts
        BY <2>1, <2>3 DEF TypeOK
    <2>5. jar' \in [Browsers -> Jar]
        <3>1. ASSUME Recipient(h) \in Browsers
              PROVE  [CookiesCleared(Recipient(h)) EXCEPT ![Recipient(h)].rt = t]
                        \in [Browsers -> Jar]
            BY <3>1, ClearedType DEF Jar
        <3>. QED  BY <2>3, <3>1 DEF TypeOK
    <2>. QED  BY <1>11, <2>2, <2>4, <2>5 DEF TypeOK, Issue
<1>12. ASSUME NEW t \in Tokens, Reuse(t) \/ \E n \in Tokens : Rotate(t, n)
       PROVE  /\ sessions' \in [Tokens -> {"none", "live", "revoked"}]
              /\ origin' \in [Tokens -> Clients \cup {None}]
    BY <1>12 DEF TypeOK, Reuse, Rotate
<1>13. ASSUME NEW b \in Browsers, WebRefresh(b) PROVE TypeOK'
    <2>1. jar[b].rt \in Tokens
        BY <1>13, JarTypes DEF WebRefresh
    <2>. QED  BY <1>12, <1>13, <2>1 DEF TypeOK, WebRefresh
<1>14. ASSUME NEW b \in Browsers, WebLogout(b) PROVE TypeOK'
    <2>1. jar' \in [Browsers -> Jar]
        BY <1>14 DEF TypeOK, WebLogout, Jar
    <2>2. sessions' \in [Tokens -> {"none", "live", "revoked"}]
        BY <1>14 DEF TypeOK, WebLogout
    <2>. QED  BY <1>14, <2>1, <2>2 DEF TypeOK, WebLogout
<1>15. ASSUME NEW b \in Browsers, CookiesLapse(b) PROVE TypeOK'
    BY <1>15, ClearedType DEF TypeOK, CookiesLapse
<1>16. ASSUME NEW c \in Clis, CliRefresh(c) PROVE TypeOK'
    <2>1. held[c] \in Tokens
        BY <1>16 DEF TypeOK, CliRefresh
    <2>2. held' \in [Clis -> Tokens \cup {None}]
        BY <1>16 DEF TypeOK, CliRefresh
    <2>. QED  BY <1>12, <1>16, <2>1, <2>2 DEF TypeOK, CliRefresh
<1>17. ASSUME NEW c \in Clis, CliLogout(c) PROVE TypeOK'
    BY <1>17 DEF TypeOK, CliLogout
<1>18. CASE Restart
    BY <1>18 DEF TypeOK, Restart, NoEntry
<1>19. CASE UNCHANGED vars
    BY <1>19 DEF TypeOK, vars
<1>. QED
    BY <1>1, <1>2, <1>3, <1>4, <1>5, <1>6, <1>8, <1>9, <1>10, <1>11, <1>13, <1>14,
       <1>15, <1>16, <1>17, <1>18, <1>19 DEF Next

-----------------------------------------------------------------------------
(* What a step may do to each variable                                     *)

(* An attempt belongs to one client for good.                              *)
LEMMA BeganStep ==
    ASSUME TypeOK, [Next]_vars, NEW a \in Attempts, began[a] # None
    PROVE  began'[a] = began[a]
<1>1. ASSUME NEW b \in Browsers, NEW x \in Attempts, WebLogin(b, x)
      PROVE  began'[a] = began[a]
    BY <1>1 DEF TypeOK, WebLogin
<1>2. ASSUME NEW c \in Clis, NEW x \in Attempts, CliLogin(c, x)
      PROVE  began'[a] = began[a]
    BY <1>2 DEF TypeOK, CliLogin
<1>. QED
    BY <1>1, <1>2 DEF Next, vars, Authorize, EntryExpires, CliCallback, WebCallback,
       DeleteEntry, Exchange, CallbackFails, Issue, WebRefresh, WebLogout, CookiesLapse,
       CliRefresh, CliLogout, Restart

(* GitHub issues a code once, for an attempt that was begun.               *)
LEMMA GrantedStep ==
    ASSUME TypeOK, [Next]_vars, NEW code \in Codes
    PROVE  \/ granted'[code] = granted[code]
           \/ /\ granted[code] = None
              /\ granted'[code] \in Attempts
              /\ began[granted'[code]] # None
<1>1. ASSUME NEW a \in Attempts, NEW k \in Codes, Authorize(a, k)
      PROVE  \/ granted'[code] = granted[code]
             \/ /\ granted[code] = None
                /\ granted'[code] \in Attempts
                /\ began[granted'[code]] # None
    BY <1>1 DEF TypeOK, Authorize
<1>. QED
    BY <1>1 DEF Next, vars, WebLogin, CliLogin, EntryExpires, CliCallback, WebCallback,
       DeleteEntry, Exchange, CallbackFails, Issue, WebRefresh, WebLogout, CookiesLapse,
       CliRefresh, CliLogout, Restart

(* Only GitHubLogin puts a state in a jar.                                 *)
LEMMA JarStep ==
    ASSUME TypeOK, [Next]_vars, NEW b \in Browsers
    PROVE  \/ jar'[b].state = None
           \/ jar'[b].state = jar[b].state /\ jar'[b].verifier = jar[b].verifier
           \/ \E a \in Attempts :
                WebLogin(b, a) /\ jar'[b].state = a /\ jar'[b].verifier = a
<1> DEFINE Kept == \/ jar'[b].state = None
                   \/ jar'[b].state = jar[b].state /\ jar'[b].verifier = jar[b].verifier
<1>1. jar[b] \in Jar
    BY JarTypes
<1>2. ASSUME NEW x \in Browsers, NEW a \in Attempts, WebLogin(x, a)
      PROVE  Kept \/ (WebLogin(b, a) /\ jar'[b].state = a /\ jar'[b].verifier = a)
    BY <1>1, <1>2 DEF TypeOK, WebLogin, Jar
<1>3. ASSUME NEW x \in Browsers, jar' = CookiesCleared(x)
      PROVE  Kept
    BY <1>1, <1>3 DEF TypeOK, CookiesCleared, Jar
<1>4. ASSUME NEW h \in Handlers, CallbackFails(h) PROVE Kept
    <2>1. handler[h].browser \in Browsers
        BY <1>4, CallbackTypes DEF CallbackFails
    <2>. QED  BY <1>3, <1>4, <2>1 DEF CallbackFails
<1>5. ASSUME NEW h \in Handlers, Issue(h) PROVE Kept
    <2>1. CASE UNCHANGED jar
        BY <2>1
    <2>2. ASSUME NEW x \in Browsers, NEW t \in Tokens,
                 jar' = [CookiesCleared(x) EXCEPT ![x].rt = t]
          PROVE  Kept
        <3>1. CookiesCleared(x) \in [Browsers -> Jar]
            BY ClearedType
        <3>2. /\ jar'[b].state = CookiesCleared(x)[b].state
              /\ jar'[b].verifier = CookiesCleared(x)[b].verifier
            BY <2>2, <3>1 DEF Jar
        <3>3. \/ CookiesCleared(x)[b].state = None
              \/ CookiesCleared(x)[b] = jar[b]
            BY <1>1 DEF TypeOK, CookiesCleared, Jar
        <3>. QED  BY <3>2, <3>3
    <2>. QED  BY <1>5, <2>1, <2>2 DEF Issue
<1>6. ASSUME NEW x \in Browsers, WebLogout(x) PROVE Kept
    BY <1>1, <1>6 DEF TypeOK, WebLogout, Jar
<1>7. ASSUME NEW x \in Browsers, CookiesLapse(x) PROVE Kept
    BY <1>3, <1>7 DEF CookiesLapse
<1>. QED
    BY <1>2, <1>4, <1>5, <1>6, <1>7 DEF Next, vars, CliLogin, Authorize, EntryExpires,
       CliCallback, WebCallback, DeleteEntry, Exchange, WebRefresh, CliRefresh, CliLogout,
       Restart

(* Only GitHubLogin puts an entry into the store.                          *)
LEMMA StoreStep ==
    ASSUME TypeOK, CallbacksPaired, [Next]_vars, NEW a \in Attempts, store'[a] # None
    PROVE  \/ /\ store[a] # None
              /\ store'[a].verifier = store[a].verifier
              /\ store'[a].redirect = store[a].redirect
           \/ /\ store'[a].verifier = a
              /\ began'[a] = store'[a].redirect
              /\ store'[a].redirect \in Clis
              /\ a \notin used'
<1> DEFINE Kept == /\ store[a] # None
                   /\ store'[a].verifier = store[a].verifier
                   /\ store'[a].redirect = store[a].redirect
<1>1. ASSUME NEW c \in Clis, NEW x \in Attempts, CliLogin(c, x)
      PROVE  \/ Kept
             \/ /\ store'[a].verifier = a
                /\ began'[a] = store'[a].redirect
                /\ store'[a].redirect \in Clis
                /\ a \notin used'
    BY <1>1 DEF TypeOK, CliLogin
<1>2. ASSUME NEW x \in Attempts, EntryExpires(x) PROVE Kept
    <2>1. store[a] # None
        BY <1>2 DEF TypeOK, EntryExpires, Found
    <2>2. store[a] \in CLISession
        BY <2>1 DEF TypeOK
    <2>. QED  BY <1>2, <2>1, <2>2 DEF TypeOK, EntryExpires, CLISession
<1>3. ASSUME NEW h \in Handlers, NEW b \in Browsers, NEW code \in Codes,
             WebCallback(h, b, code)
      PROVE  Kept
    BY <1>3 DEF TypeOK, WebCallback
<1>4. ASSUME NEW h \in Handlers, DeleteEntry(h) PROVE Kept
    BY <1>4 DEF TypeOK, DeleteEntry
<1>5. CASE Restart
    BY <1>5 DEF Restart, NoEntry
<1>6. CASE UNCHANGED store
    BY <1>6
<1>. QED
    BY <1>1, <1>2, <1>3, <1>4, <1>5, <1>6 DEF Next, vars, WebLogin, Authorize, CliCallback,
       Exchange, CallbackFails, Issue, WebRefresh, WebLogout, CookiesLapse, CliRefresh,
       CliLogout

(* A callback in progress has been before, and only moved on, or arrives.  *)
Arrives(h) ==
    \E b \in Browsers, code \in Codes : CliCallback(h, b, code) \/ WebCallback(h, b, code)

MovesOn(h) ==
    /\ handler[h] # Idle
    /\ handler'[h].step = "delete" => handler[h].step = "delete"
    /\ handler'[h].browser = handler[h].browser
    /\ handler'[h].code = handler[h].code
    /\ handler'[h].verifier = handler[h].verifier
    /\ handler'[h].redirect = handler[h].redirect
    /\ handler'[h].late = handler[h].late

LEMMA HandlerStep ==
    ASSUME TypeOK, [Next]_vars, NEW h \in Handlers, handler'[h] # Idle
    PROVE  MovesOn(h) \/ Arrives(h)
<1>1. ASSUME handler'[h] = handler[h] PROVE MovesOn(h)
    BY <1>1 DEF MovesOn
<1>2. ASSUME NEW x \in Handlers, NEW step \in {"exchange", "issue"},
             handler[x].step # "idle", handler' = [handler EXCEPT ![x].step = step]
      PROVE  MovesOn(h)
    <2>1. CASE x = h
        <3>1. handler[h] \in Callback /\ handler[h] # Idle
            BY <1>2, <2>1, CallbackTypes
        <3>2. handler'[h] = [handler[h] EXCEPT !.step = step]
            BY <1>2, <2>1 DEF TypeOK
        <3>3. handler'[h].step # "delete"
            BY <1>2, <3>1, <3>2 DEF Callback
        <3>4. /\ handler'[h].browser = handler[h].browser
              /\ handler'[h].code = handler[h].code
              /\ handler'[h].verifier = handler[h].verifier
              /\ handler'[h].redirect = handler[h].redirect
              /\ handler'[h].late = handler[h].late
            BY <3>1, <3>2 DEF Callback
        <3>. QED  BY <3>1, <3>3, <3>4 DEF MovesOn
    <2>2. CASE x # h
        <3>1. handler'[h] = handler[h]
            BY <1>2, <2>2 DEF TypeOK
        <3>. QED  BY <1>1, <3>1
    <2>. QED  BY <2>1, <2>2
<1>3. ASSUME NEW x \in Handlers, DeleteEntry(x) \/ Exchange(x) PROVE MovesOn(h)
    BY <1>2, <1>3 DEF DeleteEntry, Exchange
<1>4. ASSUME NEW x \in Handlers, CallbackFails(x) \/ Issue(x)
      PROVE  handler'[h] = handler[h]
    BY <1>4 DEF TypeOK, CallbackFails, Issue
<1>5. ASSUME NEW x \in Handlers, NEW b \in Browsers, NEW code \in Codes,
             CliCallback(x, b, code) \/ WebCallback(x, b, code)
      PROVE  handler'[h] = handler[h] \/ Arrives(h)
    BY <1>5 DEF TypeOK, CliCallback, WebCallback, Arrive, Arrives
<1>6. CASE Restart
    BY <1>6 DEF Restart
<1>. QED
    BY <1>1, <1>3, <1>4, <1>5, <1>6 DEF Next, vars, WebLogin, CliLogin, Authorize,
       EntryExpires, WebRefresh, WebLogout, CookiesLapse, CliRefresh, CliLogout

(* A token is issued once, to one client.                                  *)
LEMMA IssuedStep ==
    ASSUME TypeOK, [Next]_vars, NEW t \in Tokens, sessions[t] # "none"
    PROVE  sessions'[t] # "none" /\ origin'[t] = origin[t]
<1> DEFINE Stays == sessions'[t] # "none" /\ origin'[t] = origin[t]
<1>1. ASSUME NEW h \in Handlers, Issue(h) PROVE Stays
    BY <1>1 DEF TypeOK, Issue
<1>2. ASSUME NEW x \in Tokens, Reuse(x) \/ \E n \in Tokens : Rotate(x, n) PROVE Stays
    BY <1>2 DEF TypeOK, Reuse, Rotate
<1>3. ASSUME NEW b \in Browsers, WebRefresh(b) PROVE Stays
    BY <1>2, <1>3, JarTypes DEF WebRefresh
<1>4. ASSUME NEW c \in Clis, CliRefresh(c) PROVE Stays
    <2>1. held[c] \in Tokens
        BY <1>4 DEF TypeOK, CliRefresh
    <2>. QED  BY <1>2, <1>4, <2>1 DEF CliRefresh
<1>5. ASSUME NEW b \in Browsers, WebLogout(b) PROVE Stays
    BY <1>5 DEF TypeOK, WebLogout
<1>6. ASSUME NEW c \in Clis, CliLogout(c) PROVE Stays
    BY <1>6 DEF TypeOK, CliLogout
<1>. QED
    BY <1>1, <1>3, <1>4, <1>5, <1>6 DEF Next, vars, WebLogin, CliLogin, Authorize,
       EntryExpires, CliCallback, WebCallback, DeleteEntry, Exchange, CallbackFails,
       CookiesLapse, Restart

-----------------------------------------------------------------------------
(* Invariance, one conjunct at a time                                      *)

LEMMA CookiesPairedStep ==
    ASSUME IInv, [Next]_vars
    PROVE  CookiesPaired'
<1> SUFFICES ASSUME NEW b \in Browsers, jar'[b].state # None
             PROVE  jar'[b].verifier = jar'[b].state /\ began'[jar'[b].state] = b
    BY DEF CookiesPaired
<1>1. TypeOK
    BY DEF IInv
<1>2. CASE jar'[b].state = jar[b].state /\ jar'[b].verifier = jar[b].verifier
    <2>1. /\ jar[b].state \in Attempts
          /\ jar[b].verifier = jar[b].state
          /\ began[jar[b].state] = b
        BY <1>1, <1>2, JarTypes DEF IInv, CookiesPaired
    <2>2. began'[jar[b].state] = b
        BY <1>1, <2>1, BeganStep, NoneIsNothing
    <2>. QED  BY <1>2, <2>1, <2>2
<1>3. ASSUME NEW a \in Attempts, WebLogin(b, a),
             jar'[b].state = a, jar'[b].verifier = a
      PROVE  jar'[b].verifier = jar'[b].state /\ began'[jar'[b].state] = b
    BY <1>1, <1>3 DEF TypeOK, WebLogin
<1>. QED
    BY <1>1, <1>2, <1>3, JarStep

LEMMA EntriesPairedStep ==
    ASSUME IInv, [Next]_vars
    PROVE  EntriesPaired'
<1> SUFFICES ASSUME NEW a \in Attempts, store'[a] # None
             PROVE  store'[a].verifier = a /\ began'[a] = store'[a].redirect
    BY DEF EntriesPaired
<1>1. TypeOK /\ CallbacksPaired
    BY DEF IInv
<1>2. ASSUME store[a] # None,
             store'[a].verifier = store[a].verifier,
             store'[a].redirect = store[a].redirect
      PROVE  store'[a].verifier = a /\ began'[a] = store'[a].redirect
    <2>1. store[a].verifier = a /\ began[a] = store[a].redirect
        BY <1>2 DEF IInv, EntriesPaired
    <2>2. store[a] \in CLISession
        BY <1>1, <1>2 DEF TypeOK
    <2>3. began[a] # None
        BY <2>1, <2>2, NoneIsNothing DEF CLISession
    <2>. QED  BY <1>1, <1>2, <2>1, <2>3, BeganStep
<1>. QED
    BY <1>1, <1>2, StoreStep

LEMMA CodesBegunStep ==
    ASSUME IInv, [Next]_vars
    PROVE  CodesBegun'
<1> SUFFICES ASSUME NEW code \in Codes, granted'[code] # None
             PROVE  began'[granted'[code]] # None
    BY DEF CodesBegun
<1>1. TypeOK
    BY DEF IInv
<1>2. granted'[code] \in Attempts /\ began[granted'[code]] # None
    BY <1>1, GrantedStep DEF IInv, TypeOK, CodesBegun
<1>. QED
    BY <1>1, <1>2, BeganStep

(* A callback that arrives is that of an attempt whose client will get the *)
(* answer, with the verifier of the attempt, and its state is in use.      *)
LEMMA ArrivesPaired ==
    ASSUME IInv, [Next]_vars, NEW h \in Handlers, Arrives(h), handler'[h] # Idle
    PROVE  /\ handler'[h].code \in Codes
           /\ granted[handler'[h].code] # None
           /\ began[granted[handler'[h].code]] = Recipient(h)'
           /\ handler'[h].step = "delete" => handler'[h].redirect # None
           /\ handler'[h].verifier = granted[handler'[h].code]
           /\ ~handler'[h].late
<1>1. TypeOK /\ CookiesPaired /\ EntriesPaired /\ UsedIsGone
    BY DEF IInv
<1>2. ASSUME NEW b \in Browsers, NEW code \in Codes, CliCallback(h, b, code)
      PROVE  /\ handler'[h].code = code
             /\ granted[code] # None
             /\ began[granted[code]] = Recipient(h)'
             /\ handler'[h].redirect # None
             /\ handler'[h].verifier = granted[code]
             /\ ~handler'[h].late
    <2> DEFINE a == granted[code]
    <2>1. a \in Attempts /\ store[a] # None
        BY <1>1, <1>2 DEF TypeOK, CliCallback, Found
    <2>2. store[a] \in CLISession
        BY <1>1, <2>1 DEF TypeOK
    <2>3. store[a].redirect \in Clis
        BY <2>2 DEF CLISession
    <2>4. store[a].verifier = a /\ began[a] = store[a].redirect
        BY <1>1, <2>1 DEF EntriesPaired
    <2>5. a \notin used
        BY <1>1, <2>1 DEF UsedIsGone
    <2>6. handler'[h] = [step |-> "delete", browser |-> b, code |-> code,
                         verifier |-> store[a].verifier,
                         redirect |-> store[a].redirect, late |-> a \in used]
        BY <1>1, <1>2 DEF TypeOK, CliCallback, Arrive
    <2>7. /\ handler'[h].code = code
          /\ handler'[h].verifier = store[a].verifier
          /\ handler'[h].redirect = store[a].redirect
        BY <2>6
    <2>8. handler'[h].late = (a \in used)
        BY <2>6
    <2>9. Recipient(h)' = store[a].redirect /\ handler'[h].redirect # None
        BY <2>3, <2>7, NoneIsNothing DEF Recipient
    <2>. QED  BY <1>2, <2>4, <2>5, <2>7, <2>8, <2>9 DEF CliCallback
<1>3. ASSUME NEW b \in Browsers, NEW code \in Codes, WebCallback(h, b, code)
      PROVE  /\ handler'[h].code = code
             /\ granted[code] # None
             /\ began[granted[code]] = Recipient(h)'
             /\ handler'[h].step # "delete"
             /\ handler'[h].verifier = granted[code]
             /\ ~handler'[h].late
    <2> DEFINE a == granted[code]
    <2>1. a \in Attempts /\ handler[h] = Idle
        BY <1>1, <1>3 DEF TypeOK, WebCallback
    <2>2. StateMatches(b, a) /\ jar[b].verifier # None
        BY <1>3, <2>1 DEF WebCallback
    <2>3. jar[b].state = a /\ jar[b].verifier = a /\ began[a] = b
        BY <1>1, <2>1, <2>2, NoneIsNothing DEF StateMatches, CookiesPaired
    <2>4. a \notin used
        BY <1>1, <2>3 DEF UsedIsGone
    <2>5. handler'[h] = [step |-> "exchange", browser |-> b, code |-> code,
                         verifier |-> jar[b].verifier,
                         redirect |-> None, late |-> a \in used]
        BY <1>1, <1>3, <2>2 DEF TypeOK, WebCallback, Arrive
    <2>6. /\ handler'[h].code = code
          /\ handler'[h].step = "exchange"
          /\ handler'[h].browser = b
          /\ handler'[h].verifier = jar[b].verifier
          /\ handler'[h].redirect = None
        BY <2>5
    <2>7. handler'[h].late = (a \in used)
        BY <2>5
    <2>8. Recipient(h)' = b
        BY <2>6 DEF Recipient
    <2>. QED  BY <1>3, <2>3, <2>4, <2>6, <2>7, <2>8 DEF WebCallback
<1>. QED
    BY <1>2, <1>3 DEF Arrives

LEMMA CallbacksStep ==
    ASSUME IInv, [Next]_vars
    PROVE  CallbacksPaired' /\ ExchangesMatch' /\ StatesAreUsedOnce'
<1> SUFFICES ASSUME NEW h \in Handlers, handler'[h] # Idle
             PROVE  /\ granted'[handler'[h].code] # None
                    /\ began'[granted'[handler'[h].code]] = Recipient(h)'
                    /\ handler'[h].step = "delete" => handler'[h].redirect # None
                    /\ handler'[h].verifier = granted'[handler'[h].code]
                    /\ ~handler'[h].late
    BY DEF CallbacksPaired, ExchangesMatch, StatesAreUsedOnce
<1>1. TypeOK /\ CodesBegun
    BY DEF IInv
<1>2. /\ handler'[h].code \in Codes
      /\ granted[handler'[h].code] # None
      /\ began[granted[handler'[h].code]] = Recipient(h)'
      /\ handler'[h].step = "delete" => handler'[h].redirect # None
      /\ handler'[h].verifier = granted[handler'[h].code]
      /\ ~handler'[h].late
    <2>1. CASE MovesOn(h)
        <3>1. handler[h] \in Callback
            BY <1>1, <2>1 DEF TypeOK, MovesOn
        <3>2. Recipient(h)' = Recipient(h)
            BY <2>1 DEF MovesOn, Recipient
        <3>3. /\ granted[handler[h].code] # None
              /\ began[granted[handler[h].code]] = Recipient(h)
              /\ handler[h].step = "delete" => handler[h].redirect # None
              /\ handler[h].verifier = granted[handler[h].code]
              /\ ~handler[h].late
            BY <2>1 DEF MovesOn, IInv, CallbacksPaired, ExchangesMatch, StatesAreUsedOnce
        <3>. QED  BY <2>1, <3>1, <3>2, <3>3 DEF MovesOn, Callback
    <2>2. CASE Arrives(h)
        BY <2>2, ArrivesPaired
    <2>. QED  BY <1>1, <2>1, <2>2, HandlerStep
<1>3. granted'[handler'[h].code] = granted[handler'[h].code]
    BY <1>1, <1>2, GrantedStep
<1>4. /\ granted[handler'[h].code] \in Attempts
      /\ began[granted[handler'[h].code]] # None
    BY <1>1, <1>2 DEF TypeOK, CodesBegun
<1>5. began'[granted[handler'[h].code]] = began[granted[handler'[h].code]]
    BY <1>1, <1>4, BeganStep
<1>. QED
    BY <1>2, <1>3, <1>5

(* Only a callback gives up a state: by deleting the entry of a CLI, or    *)
(* with the answer to the browser that began the attempt.                  *)
LEMMA UsedStep ==
    ASSUME TypeOK, [Next]_vars, NEW a \in used', a \notin used
    PROVE  \E h \in Handlers :
            /\ handler[h].step # "idle"
            /\ a = granted[handler[h].code]
            /\ \/ DeleteEntry(h)
               \/ /\ Recipient(h) \in Browsers
                  /\ jar'[Recipient(h)].state = None
                  /\ UNCHANGED store
<1> DEFINE GivenUp(h) ==
            /\ handler[h].step # "idle"
            /\ a = granted[handler[h].code]
            /\ \/ DeleteEntry(h)
               \/ /\ Recipient(h) \in Browsers
                  /\ jar'[Recipient(h)].state = None
                  /\ UNCHANGED store
<1>1. ASSUME NEW h \in Handlers, DeleteEntry(h) PROVE GivenUp(h)
    BY <1>1 DEF DeleteEntry
<1>2. ASSUME NEW b \in Browsers PROVE CookiesCleared(b)[b].state = None
    BY JarTypes DEF TypeOK, CookiesCleared, Jar
<1>3. ASSUME NEW h \in Handlers, CallbackFails(h) PROVE GivenUp(h)
    <2>1. /\ handler[h].redirect = None
          /\ jar' = CookiesCleared(handler[h].browser)
          /\ a = granted[handler[h].code]
        BY <1>3 DEF CallbackFails
    <2>2. handler[h].browser \in Browsers
        BY <1>3, CallbackTypes DEF CallbackFails
    <2>3. Recipient(h) = handler[h].browser
        BY <2>1 DEF Recipient
    <2>. QED  BY <1>2, <1>3, <2>1, <2>2, <2>3 DEF CallbackFails
<1>4. ASSUME NEW h \in Handlers, Issue(h) PROVE GivenUp(h)
    <2>1. PICK t \in Tokens :
            /\ Recipient(h) \in Browsers
            /\ jar' = [CookiesCleared(Recipient(h)) EXCEPT ![Recipient(h)].rt = t]
            /\ a = granted[handler[h].code]
        BY <1>4 DEF Issue
    <2>2. CookiesCleared(Recipient(h)) \in [Browsers -> Jar]
        BY <2>1, ClearedType
    <2>3. jar'[Recipient(h)].state = CookiesCleared(Recipient(h))[Recipient(h)].state
        BY <2>1, <2>2 DEF Jar
    <2>. QED  BY <1>2, <1>4, <2>1, <2>3 DEF Issue
<1>. QED
    BY <1>1, <1>3, <1>4 DEF Next, vars, WebLogin, CliLogin, Authorize, EntryExpires,
       CliCallback, WebCallback, Exchange, WebRefresh, WebLogout, CookiesLapse,
       CliRefresh, CliLogout, Restart

LEMMA UsedIsGoneStep ==
    ASSUME IInv, TypeOK', [Next]_vars
    PROVE  UsedIsGone'
<1> SUFFICES ASSUME NEW a \in used'
             PROVE  /\ began'[a] # None /\ store'[a] = None
                    /\ \A b \in Browsers : jar'[b].state # a
    BY DEF UsedIsGone
<1>1. /\ TypeOK /\ CookiesPaired /\ EntriesPaired /\ CodesBegun /\ CallbacksPaired
      /\ a \in Attempts
    BY DEF IInv, TypeOK
<1>2. CASE a \in used
    <2>1. /\ began[a] # None /\ store[a] = None
          /\ \A b \in Browsers : jar[b].state # a
        BY <1>2 DEF IInv, UsedIsGone
    <2>2. began'[a] # None
        BY <1>1, <2>1, BeganStep
    <2>3. store'[a] = None
        BY <1>1, <2>1, StoreStep
    <2>4. ASSUME NEW b \in Browsers PROVE jar'[b].state # a
        <3>1. ASSUME NEW x \in Attempts, WebLogin(b, x) PROVE x # a
            BY <2>1, <3>1 DEF WebLogin
        <3>. QED  BY <1>1, <2>1, <3>1, JarStep, NoneIsNothing
    <2>. QED  BY <2>2, <2>3, <2>4
<1>3. CASE a \notin used
    <2>1. PICK h \in Handlers :
            /\ handler[h].step # "idle"
            /\ a = granted[handler[h].code]
            /\ \/ DeleteEntry(h)
               \/ /\ Recipient(h) \in Browsers
                  /\ jar'[Recipient(h)].state = None
                  /\ UNCHANGED store
        BY <1>1, <1>3, UsedStep
    <2>2. /\ handler[h] # Idle /\ handler[h].code \in Codes
          /\ handler[h].redirect \in Clis \cup {None}
          /\ handler[h].browser \in Browsers
        BY <1>1, <2>1, CallbackTypes
    <2>3. /\ began[a] = Recipient(h)
          /\ handler[h].step = "delete" => handler[h].redirect # None
        BY <1>1, <2>1, <2>2 DEF CallbacksPaired
    <2>4. began[a] # None
        BY <1>1, <2>1, <2>2, NoneIsNothing DEF CodesBegun
    <2>5. began'[a] = began[a]
        BY <1>1, <2>4, BeganStep
    <2>6. CASE DeleteEntry(h)
        <3>1. store'[a] = None /\ UNCHANGED jar
            BY <1>1, <2>1, <2>6 DEF TypeOK, DeleteEntry
        <3>2. began[a] \in Clis
            BY <2>2, <2>3, <2>6 DEF DeleteEntry, Recipient
        <3>3. ASSUME NEW b \in Browsers PROVE jar[b].state # a
            BY <1>1, <3>2, NoneIsNothing DEF CookiesPaired
        <3>. QED  BY <2>4, <2>5, <3>1, <3>3
    <2>7. CASE /\ Recipient(h) \in Browsers
               /\ jar'[Recipient(h)].state = None
               /\ UNCHANGED store
        <3>1. store[a] = None
            <4>1. ASSUME store[a] # None PROVE FALSE
                <5>1. store[a] \in CLISession
                    BY <1>1, <4>1 DEF TypeOK
                <5>2. began[a] \in Clis
                    BY <1>1, <4>1, <5>1 DEF EntriesPaired, CLISession
                <5>. QED  BY <2>3, <2>7, <5>2, NoneIsNothing
            <4>. QED  BY <4>1
        <3>2. ASSUME NEW b \in Browsers PROVE jar'[b].state # a
            <4>1. CookiesPaired'
                BY CookiesPairedStep
            <4>2. ASSUME jar'[b].state = a PROVE b = Recipient(h)
                BY <1>1, <2>3, <2>5, <4>1, <4>2, NoneIsNothing DEF CookiesPaired
            <4>. QED  BY <1>1, <2>7, <4>2, NoneIsNothing
        <3>. QED  BY <2>4, <2>5, <2>7, <3>1, <3>2
    <2>. QED  BY <2>1, <2>6, <2>7
<1>. QED
    BY <1>2, <1>3

(* A client that gets hold of a token gets it from its own login, or for   *)
(* one of its tokens.                                                      *)
LEMMA BrowserGets ==
    ASSUME IInv, [Next]_vars, NEW b \in Browsers, jar'[b].rt # None
    PROVE  \/ jar'[b].rt = jar[b].rt
           \/ /\ jar'[b].rt \in Tokens
              /\ sessions'[jar'[b].rt] # "none"
              /\ origin'[jar'[b].rt] = b
<1> DEFINE Gets == \/ jar'[b].rt = jar[b].rt
                   \/ /\ jar'[b].rt \in Tokens
                      /\ sessions'[jar'[b].rt] # "none"
                      /\ origin'[jar'[b].rt] = b
<1>1. TypeOK /\ jar[b] \in Jar
    BY JarTypes DEF IInv
<1>2. ASSUME NEW x \in Browsers, NEW a \in Attempts, WebLogin(x, a) PROVE Gets
    BY <1>1, <1>2 DEF TypeOK, WebLogin, Jar
<1>3. ASSUME NEW x \in Browsers PROVE CookiesCleared(x)[b].rt = jar[b].rt
    BY <1>1 DEF TypeOK, CookiesCleared, Jar
<1>4. ASSUME NEW h \in Handlers, CallbackFails(h) PROVE Gets
    <2>1. handler[h].browser \in Browsers
        BY <1>1, <1>4, CallbackTypes DEF CallbackFails
    <2>. QED  BY <1>3, <1>4, <2>1 DEF CallbackFails
<1>5. ASSUME NEW h \in Handlers, Issue(h) PROVE Gets
    <2>1. began[granted[handler[h].code]] = Recipient(h)
        BY <1>1, <1>5, CallbackTypes DEF IInv, CallbacksPaired, Issue
    <2>2. CASE UNCHANGED jar
        BY <2>2
    <2>3. ASSUME NEW t \in Tokens, Recipient(h) \in Browsers,
                 sessions' = [sessions EXCEPT ![t] = "live"],
                 origin' = [origin EXCEPT ![t] = began[granted[handler[h].code]]],
                 jar' = [CookiesCleared(Recipient(h)) EXCEPT ![Recipient(h)].rt = t]
          PROVE  Gets
        <3>1. CookiesCleared(Recipient(h)) \in [Browsers -> Jar]
            BY <1>1, <2>3, ClearedType
        <3>2. CASE b = Recipient(h)
            <4>1. jar'[b].rt = t
                BY <2>3, <3>1, <3>2 DEF Jar
            <4>. QED  BY <1>1, <2>1, <2>3, <3>2, <4>1 DEF TypeOK
        <3>3. CASE b # Recipient(h)
            BY <1>3, <2>3, <3>1, <3>3 DEF Jar
        <3>. QED  BY <3>2, <3>3
    <2>. QED  BY <1>5, <2>2, <2>3 DEF Issue
<1>6. ASSUME NEW x \in Browsers, WebLogout(x) PROVE Gets
    BY <1>1, <1>6 DEF TypeOK, WebLogout, Jar
<1>7. ASSUME NEW x \in Browsers, CookiesLapse(x) PROVE Gets
    BY <1>3, <1>7 DEF CookiesLapse
<1>. QED
    BY <1>2, <1>4, <1>5, <1>6, <1>7 DEF Next, vars, CliLogin, Authorize, EntryExpires,
       CliCallback, WebCallback, DeleteEntry, Exchange, WebRefresh, CliRefresh, CliLogout,
       Restart

LEMMA CliGets ==
    ASSUME IInv, [Next]_vars, NEW c \in Clis, held'[c] # None
    PROVE  \/ held'[c] = held[c]
           \/ /\ held'[c] \in Tokens
              /\ sessions'[held'[c]] # "none"
              /\ origin'[held'[c]] = c
<1> DEFINE Gets == \/ held'[c] = held[c]
                   \/ /\ held'[c] \in Tokens
                      /\ sessions'[held'[c]] # "none"
                      /\ origin'[held'[c]] = c
<1>1. TypeOK
    BY DEF IInv
<1>2. ASSUME NEW h \in Handlers, Issue(h) PROVE Gets
    <2>1. began[granted[handler[h].code]] = Recipient(h)
        BY <1>1, <1>2, CallbackTypes DEF IInv, CallbacksPaired, Issue
    <2>2. CASE UNCHANGED held
        BY <2>2
    <2>3. ASSUME NEW t \in Tokens, Recipient(h) \in Clis,
                 sessions' = [sessions EXCEPT ![t] = "live"],
                 origin' = [origin EXCEPT ![t] = began[granted[handler[h].code]]],
                 held' = [held EXCEPT ![Recipient(h)] = t]
          PROVE  Gets
        BY <1>1, <2>1, <2>3 DEF TypeOK
    <2>. QED  BY <1>2, <2>2, <2>3 DEF Issue
<1>3. ASSUME NEW x \in Clis, CliRefresh(x) PROVE Gets
    <2>1. held[x] \in Tokens /\ origin[held[x]] = x
        BY <1>1, <1>3 DEF TypeOK, CliRefresh, IInv, TokensReachInitiator
    <2>. QED  BY <1>1, <1>3, <2>1 DEF TypeOK, CliRefresh, Rotate
<1>4. ASSUME NEW x \in Clis, CliLogout(x) PROVE Gets
    BY <1>1, <1>4 DEF TypeOK, CliLogout
<1>. QED
    BY <1>2, <1>3, <1>4 DEF Next, vars, WebLogin, CliLogin, Authorize, EntryExpires,
       CliCallback, WebCallback, DeleteEntry, Exchange, CallbackFails, WebRefresh,
       WebLogout, CookiesLapse, Restart

LEMMA HeldStep ==
    ASSUME IInv, [Next]_vars
    PROVE  HeldIssued' /\ TokensReachInitiator'
<1>1. TypeOK
    BY DEF IInv
<1>2. ASSUME NEW b \in Browsers, jar'[b].rt # None
      PROVE  sessions'[jar'[b].rt] # "none" /\ origin'[jar'[b].rt] = b
    <2>1. CASE jar'[b].rt = jar[b].rt
        <3>1. /\ jar[b].rt \in Tokens
              /\ sessions[jar[b].rt] # "none"
              /\ origin[jar[b].rt] = b
            BY <1>1, <1>2, <2>1, JarTypes DEF IInv, HeldIssued, TokensReachInitiator
        <3>. QED  BY <1>1, <2>1, <3>1, IssuedStep
    <2>. QED  BY <1>2, <2>1, BrowserGets
<1>3. ASSUME NEW c \in Clis, held'[c] # None
      PROVE  sessions'[held'[c]] # "none" /\ origin'[held'[c]] = c
    <2>1. CASE held'[c] = held[c]
        <3>1. /\ held[c] \in Tokens
              /\ sessions[held[c]] # "none"
              /\ origin[held[c]] = c
            BY <1>1, <1>3, <2>1 DEF TypeOK, IInv, HeldIssued, TokensReachInitiator
        <3>. QED  BY <1>1, <2>1, <3>1, IssuedStep
    <2>. QED  BY <1>3, <2>1, CliGets
<1>. QED
    BY <1>2, <1>3 DEF HeldIssued, TokensReachInitiator

-----------------------------------------------------------------------------
(* Theorems                                                                *)

LEMMA InitInv == Init => IInv
<1> SUFFICES ASSUME Init PROVE IInv
    OBVIOUS
<1>1. TypeOK
    BY DEF Init, TypeOK, Jar, NoEntry
<1>2. CookiesPaired /\ HeldIssued /\ TokensReachInitiator
    BY DEF Init, CookiesPaired, HeldIssued, TokensReachInitiator
<1>3. EntriesPaired /\ CodesBegun /\ UsedIsGone
    BY DEF Init, NoEntry, EntriesPaired, CodesBegun, UsedIsGone
<1>4. CallbacksPaired /\ ExchangesMatch /\ StatesAreUsedOnce
    BY DEF Init, CallbacksPaired, ExchangesMatch, StatesAreUsedOnce
<1>. QED
    BY <1>1, <1>2, <1>3, <1>4 DEF IInv

LEMMA InvStep == IInv /\ [Next]_vars => IInv'
<1> SUFFICES ASSUME IInv, [Next]_vars PROVE IInv'
    OBVIOUS
<1>1. TypeOK'
    BY TypeStep DEF IInv
<1>. QED
    BY <1>1, CookiesPairedStep, EntriesPairedStep, CodesBegunStep, CallbacksStep,
       HeldStep, UsedIsGoneStep DEF IInv

(* IInv holds throughout.                                                  *)
THEOREM Invariance == Spec => []IInv
<1>. QED  BY InitInv, InvStep, PTL DEF Spec

(* Cookies, entries, callbacks and sessions keep their types.              *)
THEOREM TypeCorrect == Spec => []TypeOK
<1>1. IInv => TypeOK
    BY DEF IInv
<1>. QED  BY <1>1, Invariance, PTL

(* A code meets the verifier of its own attempt, for any number of tabs,   *)
(* CLIs and callbacks at once (GitHubCallback).                            *)
THEOREM CodesMeetTheirVerifier == Spec => []ExchangesMatch
<1>1. IInv => ExchangesMatch
    BY DEF IInv
<1>. QED  BY <1>1, Invariance, PTL

(* Nobody gets tokens of somebody else's login (GitHubCallback,            *)
(* RefreshToken).                                                          *)
THEOREM TokensStayWithTheirClient == Spec => []TokensReachInitiator
<1>1. IInv => TokensReachInitiator
    BY DEF IInv
<1>. QED  BY <1>1, Invariance, PTL

(* No callback that arrives with a state that was given up gets past the   *)
(* store and the cookies (CLIStore.Get, GitHubCallback).                   *)
THEOREM UsedStatesAreRefused == Spec => []StatesAreUsedOnce
<1>1. IInv => StatesAreUsedOnce
    BY DEF IInv
<1>. QED  BY <1>1, Invariance, PTL
=============================================================================
