------------------------------ MODULE LoginGuard ------------------------------
(***************************************************************************)
(* app/checkin.py, cas_login: every login to the school, with what guards  *)
(* it.  A login waits at a gate for its turn, is refused during a pause    *)
(* and while its student, user or address cools down, and goes out         *)
(* through a proxy of app/exits.py.  When the school freezes the proxy's   *)
(* address or the proxy cannot be reached, another one is tried once.      *)
(* csu/cas.py and csu/zhxg.py give the order of the exchanges with the     *)
(* school; what the school answers is a choice.                            *)
(*                                                                         *)
(* All of this state is in memory.  Times are not kept: whatever ends by   *)
(* the clock may end at any moment, and the sliding windows _attempt_gap   *)
(* and _global_attempts may be full or not at any moment.                  *)
(***************************************************************************)
EXTENDS Integers, FiniteSets

CONSTANTS
  Threads,      \* requests and the tick, each with a login at a time
  Requests,     \* the logins that are asked for
  Keys,         \* what failures are counted for: "u:<student>", "id:<user>", "ip:<address>"
  NoRequest,
  ExitCount,    \* outbound_proxies are 1..ExitCount
  Gate,         \* cas_concurrency
  FailMax,      \* cred_fail_max, cred_fail_max_user or cred_fail_max_ip of each key
  MaxCaptcha    \* MAX_CAPTCHA_ATTEMPTS

Exits == 1..ExitCount

\* A request: its keys, whether its entry is one of USER_ENTRIES, whether it brings the
\* cookie of an earlier login, and whether it has a password.
RequestTypes == [keys : SUBSET Keys, user : BOOLEAN, cookie : BOOLEAN, password : BOOLEAN]

ASSUME RequestAssumption == Requests \subseteq RequestTypes /\ NoRequest \notin Requests
ASSUME LimitAssumption ==
  /\ ExitCount \in Nat \ {0} /\ Gate \in Nat \ {0}
  /\ MaxCaptcha \in Nat \ {0} /\ FailMax \in [Keys -> Nat \ {0}]

VARIABLES
  pc,
  req,       \* the request of a login
  exit,      \* client.exit
  cookie,    \* client.has_login_cookie()
  checked,   \* password_login_checked
  failover,  \* failover_retry
  tries,     \* the captcha attempt, 0 when none is asked for
  paused,    \* _login_paused_until is ahead
  fails,     \* FailureCooldown._fails of the three guards
  blocked,   \* the keys of FailureCooldown._until
  frozen,    \* the exits in _frozen_until
  nextExit,  \* _next_index
  late,      \* history: failures counted for a key since its cooldown began,
  sent       \* and passwords sent to the school since the pause began

vars == <<pc, req, exit, cookie, checked, failover, tries, paused, fails, blocked,
          frozen, nextExit, late, sent>>
client == <<req, exit, cookie, checked, failover, tries>>
guards == <<fails, blocked, late>>
pause == <<paused, sent>>
rotation == <<frozen, nextExit>>

Inside == {"pass", "page", "form", "captcha", "answer", "exchange", "down", "switch"}
PCs == {"idle", "gate"} \cup Inside

TypeOK ==
  /\ pc \in [Threads -> PCs] /\ req \in [Threads -> Requests \cup {NoRequest}]
  /\ exit \in [Threads -> Exits]
  /\ cookie \in [Threads -> BOOLEAN] /\ checked \in [Threads -> BOOLEAN]
  /\ failover \in [Threads -> BOOLEAN] /\ tries \in [Threads -> 0..MaxCaptcha]
  /\ paused \in BOOLEAN
  /\ fails \in [Keys -> Nat] /\ \A k \in Keys : fails[k] < FailMax[k]
  /\ blocked \subseteq Keys
  /\ frozen \subseteq Exits /\ nextExit \in Exits
  /\ late \in [Keys -> Nat] /\ sent \in Nat
  /\ \A t \in Threads : (req[t] = NoRequest) <=> pc[t] = "idle"
  /\ Cardinality({t \in Threads : pc[t] \in Inside}) <= Gate

Init ==
  /\ pc = [t \in Threads |-> "idle"] /\ req = [t \in Threads |-> NoRequest]
  /\ exit = [t \in Threads |-> 1] /\ cookie = [t \in Threads |-> FALSE]
  /\ checked = [t \in Threads |-> FALSE] /\ failover = [t \in Threads |-> FALSE]
  /\ tries = [t \in Threads |-> 0]
  /\ paused = FALSE /\ fails = [k \in Keys |-> 0] /\ blocked = {}
  /\ frozen = {} /\ nextExit = 1
  /\ late = [k \in Keys |-> 0] /\ sent = 0

Goto(t, l) == pc' = [pc EXCEPT ![t] = l]
Set(f, t, v) == [f EXCEPT ![t] = v]

\* cas_login returns or raises; the gate is free for another login.
Leave(t) ==
  /\ Goto(t, "idle") /\ req' = Set(req, t, NoRequest)
  /\ exit' = Set(exit, t, 1) /\ cookie' = Set(cookie, t, FALSE)
  /\ checked' = Set(checked, t, FALSE) /\ failover' = Set(failover, t, FALSE)
  /\ tries' = Set(tries, t, 0)
Stay(t, l) == Goto(t, l) /\ UNCHANGED client
-----------------------------------------------------------------------------
(* exits.py: the proxies take turns. *)

Ahead(x) == (x - nextExit + ExitCount) % ExitCount

\* _select when the exits in bad cool down: the healthy one next in turn, else the first.
Selected(x, bad) ==
  IF bad = Exits THEN x = 1 /\ UNCHANGED nextExit
  ELSE /\ x \in Exits \ bad /\ \A y \in Exits \ bad : Ahead(x) <= Ahead(y)
       /\ nextExit' = (x % ExitCount) + 1

\* Mutant: the guards are looked at before the wait at the gate.
BeginChecked(t) ==
  /\ pc[t] = "idle" /\ Goto(t, "gate")
  /\ \E r \in Requests, x \in Exits :
       /\ ~paused /\ r.keys \cap blocked = {} /\ Selected(x, frozen)
       /\ req' = Set(req, t, r) /\ cookie' = Set(cookie, t, r.cookie) /\ exit' = Set(exit, t, x)
  /\ checked' = Set(checked, t, TRUE)
  /\ UNCHANGED <<failover, tries, pause, guards, frozen>>

\* build_client or verify_login: the client takes an exit before it waits at the gate.
Begin(t) ==
  /\ pc[t] = "idle" /\ Goto(t, "gate")
  /\ \E r \in Requests, x \in Exits :
       /\ Selected(x, frozen)
       /\ req' = Set(req, t, r) /\ cookie' = Set(cookie, t, r.cookie) /\ exit' = Set(exit, t, x)
  /\ UNCHANGED <<checked, failover, tries, pause, guards, frozen>>

\* Mutant: what was checked in the first pass is not checked in the second.
AgainUnchecked(t, x) ==
  /\ Goto(t, "pass") /\ exit' = Set(exit, t, x) /\ failover' = Set(failover, t, TRUE)
  /\ tries' = Set(tries, t, 0)
  /\ UNCHANGED <<req, cookie, checked>>

\* The loop of cas_login once more, through exit x.
Again(t, x) ==
  /\ Goto(t, "pass") /\ exit' = Set(exit, t, x) /\ failover' = Set(failover, t, TRUE)
  /\ checked' = Set(checked, t, FALSE) /\ tries' = Set(tries, t, 0)
  /\ UNCHANGED <<req, cookie>>

\* mark_frozen, after which another exit is tried, once, or all logins pause.
Frozen(t) ==
  LET bad == frozen \cup {exit[t]}
  IN  /\ frozen' = bad /\ UNCHANGED guards
      /\ \/ /\ bad = Exits
            /\ paused' = TRUE /\ sent' = IF paused THEN sent ELSE 0
            /\ Leave(t) /\ UNCHANGED nextExit
         \/ /\ bad # Exits /\ UNCHANGED pause
            /\ \E x \in Exits : Selected(x, bad) /\ IF failover[t] THEN Leave(t) ELSE Again(t, x)

\* _fail_exit: the proxy does not answer.  mark_unreachable takes no turn.
Unreachable(t) ==
  /\ frozen' = frozen \cup {exit[t]} /\ Stay(t, "down")
  /\ UNCHANGED <<pause, guards, nextExit>>

\* exits.available
Down(t) ==
  /\ pc[t] = "down"
  /\ IF frozen = Exits \/ failover[t] THEN Leave(t) ELSE Stay(t, "switch")
  /\ UNCHANGED <<pause, guards, rotation>>

\* switch_exit takes the next exit by a call of its own: others may have cooled down.
Switch(t) ==
  /\ pc[t] = "switch"
  /\ \E x \in Exits : Selected(x, frozen) /\ Again(t, x)
  /\ UNCHANGED <<pause, guards, frozen>>

\* What any exchange with the school may come to.  The last is an error that says
\* nothing about the password.
Trouble(t) ==
  \/ Unreachable(t)
  \/ Leave(t) /\ UNCHANGED <<pause, guards, rotation>>
TroubleOrFrozen(t) == Trouble(t) \/ Frozen(t)
-----------------------------------------------------------------------------
(* cas_login, in the order of its exchanges. *)

\* Mutant: one too many.
GateOpenLate == Cardinality({t \in Threads : pc[t] \in Inside}) <= Gate

GateOpen == Cardinality({t \in Threads : pc[t] \in Inside}) < Gate

Enter(t) ==
  /\ pc[t] = "gate" /\ GateOpen
  /\ Stay(t, "pass") /\ UNCHANGED <<pause, guards, rotation>>

\* No pause, and no key of the login cools down.
Allowed(t) == ~paused /\ req[t].keys \cap blocked = {}

\* before_password_login, unless it has been passed in this pass of the loop.  It
\* refuses users' entries that follow one another too fast, but not a second try.
Check(t, l) ==
  /\ \/ checked[t] /\ Stay(t, l)
     \/ /\ ~checked[t] /\ Allowed(t)
        /\ Goto(t, l) /\ checked' = Set(checked, t, TRUE)
        /\ UNCHANGED <<req, exit, cookie, failover, tries>>
     \/ /\ ~checked[t] /\ (Allowed(t) => req[t].user /\ ~failover[t])
        /\ Leave(t)
  /\ UNCHANGED <<pause, guards, rotation>>

\* The top of the loop.  A login with a cookie may do without the password.
Pass(t) ==
  /\ pc[t] = "pass"
  /\ \/ ~cookie[t] /\ Check(t, "page")
     \/ cookie[t] /\ Stay(t, "page") /\ UNCHANGED <<pause, guards, rotation>>

\* The login page: the school lets the cookie in, or shows the form.
Page(t) ==
  /\ pc[t] = "page"
  /\ \/ TroubleOrFrozen(t)
     \/ cookie[t] /\ Stay(t, "exchange") /\ UNCHANGED <<pause, guards, rotation>>
     \/ req[t].password /\ Check(t, "form")

\* before_password_submit, which may refuse, then the password goes out.
Send(t) ==
  /\ \/ Stay(t, "answer") /\ sent' = IF paused THEN sent + 1 ELSE sent
     \/ Leave(t) /\ UNCHANGED sent
  /\ UNCHANGED <<paused, guards, rotation>>

\* _needs_captcha, which takes an error for a no.
Form(t) ==
  /\ pc[t] = "form"
  /\ \/ Send(t)
     \/ /\ Goto(t, "captcha") /\ tries' = Set(tries, t, 1)
        /\ UNCHANGED <<req, exit, cookie, checked, failover, pause, guards, rotation>>

\* One round of _login_with_captcha: the page again, its image, what is read from it.
Captcha(t) == pc[t] = "captcha" /\ (TroubleOrFrozen(t) \/ Send(t))

\* FailureCooldown.record_failure for each key of the login.
RecordFailure(t) ==
  LET hit == {k \in req[t].keys : fails[k] + 1 >= FailMax[k]}
  IN  /\ fails' = [k \in Keys |->
                     IF k \in hit THEN 0 ELSE IF k \in req[t].keys THEN fails[k] + 1 ELSE fails[k]]
      /\ blocked' = blocked \cup hit
      /\ late' = [k \in Keys |-> IF k \notin req[t].keys THEN late[k]
                                 ELSE IF k \in blocked THEN late[k] + 1
                                 ELSE 0]

\* The school's answer to the password.
Answer(t) ==
  /\ pc[t] = "answer"
  /\ \/ TroubleOrFrozen(t)
     \/ /\ tries[t] \in 1..MaxCaptcha - 1
        /\ Goto(t, "captcha") /\ tries' = Set(tries, t, tries[t] + 1)
        /\ UNCHANGED <<req, exit, cookie, checked, failover, pause, guards, rotation>>
     \/ RecordFailure(t) /\ Leave(t) /\ UNCHANGED <<pause, rotation>>
     \/ /\ Goto(t, "exchange") /\ cookie' = Set(cookie, t, TRUE)
        /\ UNCHANGED <<req, exit, checked, failover, tries, pause, guards, rotation>>

\* _exchange_callback, and the login is a success.
Exchange(t) ==
  /\ pc[t] = "exchange"
  /\ \/ Trouble(t)
     \/ /\ fails' = [k \in Keys |-> IF k \in req[t].keys THEN 0 ELSE fails[k]]
        /\ blocked' = blocked \ req[t].keys
        /\ late' = [k \in Keys |-> IF k \in req[t].keys THEN 0 ELSE late[k]]
        /\ Leave(t) /\ UNCHANGED <<pause, rotation>>
-----------------------------------------------------------------------------
(* The clock. *)

Unblock == \E k \in blocked :
  /\ blocked' = blocked \ {k} /\ late' = [late EXCEPT ![k] = 0]
  /\ UNCHANGED <<pc, client, fails, pause, rotation>>
Forget == \E k \in Keys :
  /\ fails[k] > 0 /\ fails' = [fails EXCEPT ![k] = 0]
  /\ UNCHANGED <<pc, client, blocked, late, pause, rotation>>
Resume ==
  /\ paused /\ paused' = FALSE /\ sent' = 0
  /\ UNCHANGED <<pc, client, guards, rotation>>
Thaw == \E x \in frozen :
  /\ frozen' = frozen \ {x}
  /\ UNCHANGED <<pc, client, guards, pause, nextExit>>

LoginStep(t) ==
  Down(t) \/ Switch(t) \/ Pass(t) \/ Page(t) \/ Form(t) \/ Captcha(t) \/ Answer(t) \/ Exchange(t)
Clock == Unblock \/ Forget \/ Resume \/ Thaw
Next == (\E t \in Threads : Begin(t) \/ Enter(t) \/ LoginStep(t)) \/ Clock

Spec == Init /\ [][Next]_vars
-----------------------------------------------------------------------------
(* Properties. *)

\* Failures that are counted for a key while it cools down come from logins that
\* passed the check before: at most one each of the others at the gate.
CooldownHolds == \A k \in Keys : late[k] < Gate

\* A pause holds back all passwords but those of the logins that were past the check
\* when it began, and each of these sends no more than the captcha loop makes it.
PauseHolds == sent <= MaxCaptcha * (Gate - 1)
=============================================================================
