------------------------------- MODULE LoginFlow -------------------------------
(* Logging in with GitHub, from a browser and from the CLI: GitHubLogin,   *)
(* GitHubCallback, RefreshToken and Logout (internal/handler/http/         *)
(* auth_handler.go), the CLIStore (cli_handler.go), the cookie jars of     *)
(* browsers and the credentials that CLIs keep.                            *)
(*                                                                         *)
(* An attempt is one state with the verifier drawn along with it.  GitHub  *)
(* and the clients are external.  All clients belong to one user, and a    *)
(* rotation is one step: TokenService takes it apart.                      *)
EXTENDS Naturals

CONSTANTS
    Browsers, Clis,  \* the clients
    Attempts,        \* values of state, and of the verifier that goes with it
    Codes,           \* authorization codes that GitHub issues
    Handlers,        \* goroutines that serve callbacks
    Tokens,          \* refresh tokens
    Faults,          \* may statements and exchanges fail, or answers be lost?
    MaxBoots,        \* bound on the number of process starts
    None             \* no value

Clients == Browsers \cup Clis

ASSUME ConstantsAssumption ==
    /\ Browsers \cap Clis = {}
    /\ Faults \in BOOLEAN /\ MaxBoots \in Nat
    /\ None \notin Clients \cup Attempts \cup Codes \cup Tokens

VARIABLES
    jar,       \* the cookies of each browser
    held,      \* ~/.insighta/credentials.json of each CLI
    store,     \* CLIStore.sessions, by state
    handler,   \* the callbacks in progress
    sessions,  \* table sessions, by token
    granted,   \* GitHub: the attempt that a code was issued for
    spent,     \* GitHub: codes exchanged
    boots,     \* how often the process has started
    (* History, read by the properties only, except that nobody begins     *)
    (* somebody else's attempt:                                            *)
    began,     \* the client that began an attempt
    used,      \* attempts whose state the server, or the browser, gave up
    origin     \* the client whose login a session goes back to

vars == <<jar, held, store, handler, sessions, granted, spent, boots,
          began, used, origin>>

Jar == [state : Attempts \cup {None},     \* oauth_state
        verifier : Attempts \cup {None},  \* code_verifier
        rt : Tokens \cup {None}]

(* expired: set more than ten minutes ago.                                 *)
CLISession == [verifier : Attempts, redirect : Clis, expired : BOOLEAN]
NoEntry == [a \in Attempts |-> None]

Idle == [step |-> "idle", browser |-> None, code |-> None, verifier |-> None,
         redirect |-> None, late |-> FALSE]

(* browser: whose cookies the request carries, and whose the answer sets;  *)
(* redirect: the CLI to answer to, None in the web flow; late: the state   *)
(* had been given up before the request arrived.                           *)
Callback == [step : {"delete", "exchange", "issue"}, browser : Browsers, code : Codes,
             verifier : Attempts, redirect : Clis \cup {None}, late : BOOLEAN]

-----------------------------------------------------------------------------
(* GET /auth/github                                                        *)

WebLogin(b, a) ==
    /\ began[a] = None
    /\ began' = [began EXCEPT ![a] = b]
    /\ jar' = [jar EXCEPT ![b] = [@ EXCEPT !.state = a, !.verifier = a]]
    /\ UNCHANGED <<held, store, handler, sessions, granted, spent, boots, used, origin>>

(* The CLI drew the state.  Reloading the page in the browser sets it again.*)
CliLogin(c, a) ==
    /\ began[a] \in {None, c}
    /\ began' = [began EXCEPT ![a] = c]
    /\ store' = [store EXCEPT ![a] = [verifier |-> a, redirect |-> c, expired |-> FALSE]]
    /\ used' = used \ {a}
    /\ UNCHANGED <<jar, held, handler, sessions, granted, spent, boots, origin>>

(* GitHub: the user approves, or has approved before and is sent back with *)
(* another code.                                                           *)
Authorize(a, code) ==
    /\ began[a] # None /\ granted[code] = None
    /\ granted' = [granted EXCEPT ![code] = a]
    /\ UNCHANGED <<jar, held, store, handler, sessions, spent, boots, began, used, origin>>

-----------------------------------------------------------------------------
(* GET /auth/github/callback                                               *)

Found(a) == store[a] # None /\ ~store[a].expired

ArriveWithoutVerifier(h, b, code, verifier, redirect, step) ==
    handler' = [handler EXCEPT ![h] =
        [step |-> step, browser |-> b, code |-> code, verifier |-> None,
         redirect |-> redirect, late |-> granted[code] \in used]]
Arrive(h, b, code, verifier, redirect, step) ==
    handler' = [handler EXCEPT ![h] =
        [step |-> step, browser |-> b, code |-> code, verifier |-> verifier,
         redirect |-> redirect, late |-> granted[code] \in used]]

(* CLIStore.Get finds the state.                                           *)
CliCallback(h, b, code) ==
    /\ handler[h] = Idle /\ granted[code] # None
    /\ LET a == granted[code]
       IN  /\ Found(a)
           /\ Arrive(h, b, code, store[a].verifier, store[a].redirect, "delete")
    /\ UNCHANGED <<jar, held, store, sessions, granted, spent, boots, began, used, origin>>

AnyState(b, a) == jar[b].state # None
StateMatches(b, a) == jar[b].state = a

(* CLIStore.Get does not, or deletes it since it expired: what counts are  *)
(* the cookies.  Without them, or with those of another attempt, the       *)
(* answer is an error, which changes nothing but the store.                *)
WebCallback(h, b, code) ==
    /\ handler[h] = Idle /\ granted[code] # None
    /\ LET a == granted[code]
       IN  /\ ~Found(a)
           /\ store' = [store EXCEPT ![a] = None]
           /\ IF StateMatches(b, a) /\ jar[b].verifier # None
              THEN Arrive(h, b, code, jar[b].verifier, None, "exchange")
              ELSE UNCHANGED handler
    /\ UNCHANGED <<jar, held, sessions, granted, spent, boots, began, used, origin>>

KeepEntry(h) ==
    /\ handler[h].step = "delete"
    /\ used' = used \cup {granted[handler[h].code]}
    /\ handler' = [handler EXCEPT ![h].step = "exchange"]
    /\ UNCHANGED <<jar, held, store, sessions, granted, spent, boots, began, origin>>
(* CLIStore.Delete, which locks again: the state may have been deleted, or *)
(* set anew, since Get.                                                    *)
DeleteEntry(h) ==
    /\ handler[h].step = "delete"
    /\ store' = [store EXCEPT ![granted[handler[h].code]] = None]
    /\ used' = used \cup {granted[handler[h].code]}
    /\ handler' = [handler EXCEPT ![h].step = "exchange"]
    /\ UNCHANGED <<jar, held, sessions, granted, spent, boots, began, origin>>

(* The answer to a callback of the web flow, of a failed one too, deletes  *)
(* both cookies: those that the browser holds by then.                     *)
CookiesCleared(b) == [jar EXCEPT ![b] = [@ EXCEPT !.state = None, !.verifier = None]]

(* GitHub wants an unused code and the verifier of its challenge.          *)
Accepted(h) ==
    handler[h].code \notin spent /\ handler[h].verifier = granted[handler[h].code]

Exchange(h) ==
    /\ handler[h].step = "exchange" /\ Accepted(h)
    /\ spent' = spent \cup {handler[h].code}
    /\ handler' = [handler EXCEPT ![h].step = "issue"]
    /\ UNCHANGED <<jar, held, store, sessions, granted, boots, began, used, origin>>

(* The answer is an error, and may be lost.                                *)
CallbackFails(h) ==
    /\ \/ handler[h].step = "exchange" /\ ~Accepted(h)
       \/ handler[h].step \in {"exchange", "issue"} /\ Faults
    /\ handler' = [handler EXCEPT ![h] = Idle]
    /\ \/ /\ handler[h].redirect = None
          /\ jar' = CookiesCleared(handler[h].browser)
          /\ used' = used \cup {granted[handler[h].code]}
       \/ /\ handler[h].redirect # None \/ Faults
          /\ UNCHANGED <<jar, used>>
    /\ UNCHANGED <<held, store, sessions, granted, spent, boots, began, origin>>

RecipientInBrowser(h) == handler[h].browser
(* Whom the tokens are for: a CLI gets them in a redirect.                 *)
Recipient(h) ==
    IF handler[h].redirect = None THEN handler[h].browser ELSE handler[h].redirect

(* User, token pair, and the answer, which may be lost.                    *)
Issue(h) ==
    /\ handler[h].step = "issue"
    /\ \E t \in Tokens :
        /\ sessions[t] = "none"
        /\ sessions' = [sessions EXCEPT ![t] = "live"]
        /\ origin' = [origin EXCEPT ![t] = began[granted[handler[h].code]]]
        /\ \/ /\ Recipient(h) \in Browsers
              /\ jar' = [CookiesCleared(Recipient(h)) EXCEPT ![Recipient(h)].rt = t]
              /\ used' = used \cup {granted[handler[h].code]}
              /\ UNCHANGED held
           \/ /\ Recipient(h) \in Clis
              /\ held' = [held EXCEPT ![Recipient(h)] = t]
              /\ UNCHANGED <<jar, used>>
           \/ /\ Faults
              /\ UNCHANGED <<jar, held, used>>
    /\ handler' = [handler EXCEPT ![h] = Idle]
    /\ UNCHANGED <<store, granted, spent, boots, began>>

-----------------------------------------------------------------------------
(* POST /auth/refresh and POST /auth/logout                                *)

(* n takes the place of t, or t is refused and takes all sessions of its   *)
(* user with it.                                                           *)
Rotate(t, n) ==
    /\ sessions[t] = "live" /\ sessions[n] = "none"
    /\ sessions' = [sessions EXCEPT ![t] = "revoked", ![n] = "live"]
    /\ origin' = [origin EXCEPT ![n] = origin[t]]

Reuse(t) ==
    /\ sessions[t] = "revoked"
    /\ sessions' = [s \in Tokens |-> IF sessions[s] = "none" THEN "none" ELSE "revoked"]
    /\ UNCHANGED origin

(* RefreshToken sets the cookies after Respond has written the header:     *)
(* they are not sent, and the browser keeps the token it presented.        *)
WebRefresh(b) ==
    /\ jar[b].rt # None
    /\ (\E n \in Tokens : Rotate(jar[b].rt, n)) \/ Reuse(jar[b].rt)
    /\ UNCHANGED <<jar, held, store, handler, granted, spent, boots, began, used>>

(* The CLI reads the new token in the body, unless the answer is lost.     *)
CliRefresh(c) ==
    /\ held[c] # None
    /\ \/ \E n \in Tokens :
            /\ Rotate(held[c], n)
            /\ \/ held' = [held EXCEPT ![c] = n]
               \/ Faults /\ UNCHANGED held
       \/ Reuse(held[c]) /\ UNCHANGED held
    /\ UNCHANGED <<jar, store, handler, granted, spent, boots, began, used>>

(* The cookies that should delete the others lack Secure, which browsers   *)
(* want with SameSite=None: they may be ignored.                           *)
WebLogout(b) ==
    /\ jar[b].rt # None
    /\ sessions' = [sessions EXCEPT ![jar[b].rt] = "revoked"]
    /\ jar' \in {jar, [jar EXCEPT ![b].rt = None]}
    /\ UNCHANGED <<held, store, handler, granted, spent, boots, began, used, origin>>

(* An error of the statement is ignored: the CLI is told it is logged out. *)
CliLogout(c) ==
    /\ held[c] # None
    /\ \/ sessions' = [sessions EXCEPT ![held[c]] = "revoked"]
       \/ Faults /\ UNCHANGED sessions
    /\ held' = [held EXCEPT ![c] = None]
    /\ UNCHANGED <<jar, store, handler, granted, spent, boots, began, used, origin>>

-----------------------------------------------------------------------------
(* Time and restarts                                                       *)

(* MaxAge of both cookies, five minutes, is over.                          *)
CookiesLapse(b) ==
    /\ jar[b].state # None
    /\ jar' = CookiesCleared(b)
    /\ UNCHANGED <<held, store, handler, sessions, granted, spent, boots,
                   began, used, origin>>

EntryExpires(a) ==
    /\ Found(a)
    /\ store' = [store EXCEPT ![a].expired = TRUE]
    /\ UNCHANGED <<jar, held, handler, sessions, granted, spent, boots,
                   began, used, origin>>

(* The CLIStore is in memory.                                              *)
Restart ==
    /\ boots < MaxBoots
    /\ boots' = boots + 1
    /\ store' = NoEntry
    /\ handler' = [h \in Handlers |-> Idle]
    /\ UNCHANGED <<jar, held, sessions, granted, spent, began, used, origin>>

-----------------------------------------------------------------------------
Init ==
    /\ jar = [b \in Browsers |-> [state |-> None, verifier |-> None, rt |-> None]]
    /\ held = [c \in Clis |-> None]
    /\ store = NoEntry
    /\ handler = [h \in Handlers |-> Idle]
    /\ sessions = [t \in Tokens |-> "none"]
    /\ granted = [code \in Codes |-> None]
    /\ spent = {}
    /\ boots = 1
    /\ began = [a \in Attempts |-> None]
    /\ used = {}
    /\ origin = [t \in Tokens |-> None]

Next ==
    \/ \E a \in Attempts :
        \/ \E b \in Browsers : WebLogin(b, a)
        \/ \E c \in Clis : CliLogin(c, a)
        \/ \E code \in Codes : Authorize(a, code)
        \/ EntryExpires(a)
    \/ \E h \in Handlers :
        \/ \E b \in Browsers, code \in Codes :
            CliCallback(h, b, code) \/ WebCallback(h, b, code)
        \/ DeleteEntry(h)
        \/ Exchange(h)
        \/ CallbackFails(h)
        \/ Issue(h)
    \/ \E b \in Browsers : WebRefresh(b) \/ WebLogout(b) \/ CookiesLapse(b)
    \/ \E c \in Clis : CliRefresh(c) \/ CliLogout(c)
    \/ Restart

Spec == Init /\ [][Next]_vars

-----------------------------------------------------------------------------
(* Properties                                                              *)

(* Cookies, entries, callbacks and sessions keep their types.              *)
TypeOK ==
    /\ jar \in [Browsers -> Jar]
    /\ held \in [Clis -> Tokens \cup {None}]
    /\ store \in [Attempts -> CLISession \cup {None}]
    /\ handler \in [Handlers -> Callback \cup {Idle}]
    /\ sessions \in [Tokens -> {"none", "live", "revoked"}]
    /\ granted \in [Codes -> Attempts \cup {None}]
    /\ spent \subseteq Codes
    /\ boots \in Nat
    /\ began \in [Attempts -> Clients \cup {None}]
    /\ used \subseteq Attempts
    /\ origin \in [Tokens -> Clients \cup {None}]

(* However logins overlap (two tabs, a tab and a CLI, a reloaded callback),*)
(* a code is exchanged with the verifier of the very attempt it was issued *)
(* for, never with one that another attempt left in the jar or the store.  *)
ExchangesMatch ==
    \A h \in Handlers :
        handler[h] # Idle => handler[h].verifier = granted[handler[h].code]

(* A client holds only tokens of a login that it began itself, and of      *)
(* rotations of these: callbacks and refreshes never mix clients up.       *)
TokensReachInitiator ==
    /\ \A b \in Browsers : jar[b].rt # None => origin[jar[b].rt] = b
    /\ \A c \in Clis : held[c] # None => origin[held[c]] = c

(* A state logs in once: after the store has deleted it, or the answer     *)
(* that deletes its cookies has arrived, no callback with it gets as far   *)
(* as GitHub.  Only callbacks that overlap can log in twice.               *)
StatesAreUsedOnce == \A h \in Handlers : handler[h] # Idle => ~handler[h].late

(* README.md, Authentication Flow: "Web: tokens stored in HTTP-only        *)
(* cookies"; "To refresh: `POST /auth/refresh` with `refresh_token` in     *)
(* body or `rt` cookie."  While the login of a browser has a live session, *)
(* its cookie is one that it can refresh with (RefreshToken).              *)
CookieCanRefresh ==
    \A b \in Browsers : jar[b].rt # None =>
        \A t \in Tokens :
            sessions[t] = "live" /\ origin[t] = b => sessions[jar[b].rt] = "live"
=============================================================================
