------------------------------ MODULE WdaClient ------------------------------
(***************************************************************************)
(* The WebDriverAgent client shared by clones                              *)
(* (crates/quadcontrol-ios/src/wda.rs).                                    *)
(*                                                                         *)
(* The session's supervisor creates the WDA session, configures it and, at *)
(* the end, deletes it.  In between, GUI commands and polls call through   *)
(* clones of the same client.  WDA holds one session; another client, or a *)
(* restart of WDA, takes it away, and a call that is answered "404 invalid *)
(* session" re-creates it and retries once.                                *)
(*                                                                         *)
(* An HTTP call is one step: the phone serves it, or does not, and the     *)
(* answer, an error or a timeout comes back.                               *)
(***************************************************************************)
EXTENDS Naturals

CONSTANTS
  Caller,      \* threads of the GUI, each holding a clone
  Supervisor,  \* the session's own thread
  SettlePolls, \* looks wake's loop repeats within UNLOCK_SETTLE_BUDGET
  MaxSessions  \* bound: sessions WDA is ever asked to make

NoThread == "none"

ASSUME ClientAssumption ==
  /\ Supervisor \notin Caller /\ NoThread \notin Caller \cup {Supervisor}
  /\ SettlePolls \in Nat /\ MaxSessions \in Nat

Thread == Caller \cup {Supervisor}
NoSession == 0
SessionId == 0..MaxSessions

VARIABLES
  wda,       \* the phone: its session if a clone made it, else NoSession
  made,      \* the phone: sessions the clones made so far
  tuned,     \* the phone: its session has our MJPEG settings
  locked,    \* the phone's screen lock
  sid,       \* Client.session_id
  mjpeg,     \* Client.mjpeg is Some
  recreate,  \* the holder of Client.recreate_lock
  pc,        \* per thread: where it is
  op,        \* per thread: the operation; the supervisor's stays when done
  result,    \* per thread: how its last operation ended
  call,      \* per operation: which of its calls
  session,   \* per operation: the session id it holds
  element,   \* per operation: the session its element was found in
  polls,     \* per operation: looks left in wake's loop
  typed,     \* history, per operation: its text is in its element
  unlocked,  \* history, per operation: the screen was unlocked meanwhile
  losses,    \* history, per call: sessions lost under it; 2 is two or more
  untuned    \* history: a replay of the settings failed

phoneVars == <<wda, made, tuned, locked>>
clientVars == <<sid, mjpeg, recreate>>
placeVars == <<pc, op, result>>
historyVars == <<typed, unlocked, losses>>
localVars == <<call, session, element, polls, historyVars>>
vars == <<phoneVars, clientVars, placeVars, localVars, untuned>>

(* start_session reached client.create_session(); no clone exists yet.     *)
Init ==
  /\ wda = NoSession /\ made = 0 /\ tuned = FALSE /\ locked \in BOOLEAN
  /\ sid = NoSession /\ mjpeg = FALSE /\ recreate = NoThread
  /\ pc = [t \in Thread |-> IF t = Supervisor THEN "post" ELSE "idle"]
  /\ op = [t \in Thread |-> IF t = Supervisor THEN "create" ELSE "none"]
  /\ result = [t \in Thread |-> "none"]
  /\ call = [t \in Thread |-> "none"]
  /\ session = [t \in Thread |-> NoSession]
  /\ element = [t \in Thread |-> NoSession]
  /\ polls = [t \in Thread |-> 0]
  /\ typed = [t \in Thread |-> FALSE]
  /\ unlocked = [t \in Thread |-> FALSE]
  /\ losses = [t \in Thread |-> 0]
  /\ untuned = FALSE

(* The client is in Shared.client: create and configure succeeded.         *)
Published ==
  /\ op[Supervisor] = "configure" /\ pc[Supervisor] = "idle"
  /\ result[Supervisor] = "ok"

-----------------------------------------------------------------------------
(* Moving a thread along, starting and ending its operation.               *)
Goto(t, place) == pc' = [pc EXCEPT ![t] = place] /\ UNCHANGED <<op, result>>

Begin(t, o, first) ==
  /\ pc[t] = "idle"
  /\ pc' = [pc EXCEPT ![t] = "read"]
  /\ op' = [op EXCEPT ![t] = o]
  /\ result' = [result EXCEPT ![t] = "none"]
  /\ call' = [call EXCEPT ![t] = first]
  /\ unlocked' = [unlocked EXCEPT ![t] = ~locked]
  /\ UNCHANGED <<phoneVars, sid, recreate, session, element, polls, typed,
                 losses, untuned>>

(* The operation's result; its locals go out of scope.                     *)
End(t, code) ==
  /\ pc' = [pc EXCEPT ![t] = "idle"]
  /\ op' = [op EXCEPT ![t] = IF t = Supervisor THEN @ ELSE "none"]
  /\ result' = [result EXCEPT ![t] = code]
  /\ call' = [call EXCEPT ![t] = "none"]
  /\ session' = [session EXCEPT ![t] = NoSession]
  /\ element' = [element EXCEPT ![t] = NoSession]
  /\ polls' = [polls EXCEPT ![t] = 0]
  /\ typed' = [typed EXCEPT ![t] = FALSE]
  /\ unlocked' = [unlocked EXCEPT ![t] = FALSE]

Finish(t, code) == End(t, code) /\ losses' = [losses EXCEPT ![t] = 0]

(* Returning from recreate_session_unless_replaced unlocks the mutex.      *)
Release(t) == recreate' = IF recreate = t THEN NoThread ELSE recreate

(* The session every running call counts on has gone.                      *)
Upto2(n) == IF n > 2 THEN 2 ELSE n
Lost == [t \in Thread |-> IF pc[t] = "idle" THEN 0 ELSE Upto2(losses[t] + 1)]

(* "poll" stands for window_size, locked, active_app and home; "tap" for   *)
(* tap, swipe and activate_app, which ask locked() first.                  *)
Start(t) ==
  /\ Published
  /\ \/ Begin(t, "poll", "send")
     \/ \E o \in {"tap", "text", "wake"} : Begin(t, o, "locked")
  /\ UNCHANGED mjpeg

Configure ==
  /\ op[Supervisor] = "create" /\ result[Supervisor] = "ok"
  /\ mjpeg' = TRUE
  /\ Begin(Supervisor, "configure", "send")

(* shutdown: the supervisor takes the client back and deletes the session. *)
Delete ==
  /\ Published
  /\ Begin(Supervisor, "delete", "send")
  /\ UNCHANGED mjpeg

-----------------------------------------------------------------------------
(* session_call.                                                           *)

(* session(): the id the call goes to.  From here on losses counts the     *)
(* sessions that ended, this one and the ones made after it.               *)
ReadSession(t) ==
  /\ pc[t] = "read"
  /\ session' = [session EXCEPT ![t] = sid]
  /\ losses' = [losses EXCEPT ![t] =
                 Upto2(made - sid + (IF wda = NoSession THEN 1 ELSE 0))]
  /\ Goto(t, "request")
  /\ UNCHANGED <<phoneVars, clientVars, call, element, polls, typed, unlocked,
                 untuned>>

(* The operation goes on with its next session_call.                       *)
Continue(t, c) ==
  /\ Goto(t, "read")
  /\ call' = [call EXCEPT ![t] = c]
  /\ UNCHANGED <<session, element, polls, historyVars>>

AnswerLocked(t) ==
  /\ call[t] = "locked"
  /\ \/ locked /\ op[t] # "wake" /\ Finish(t, "device_locked")
     \/ ~locked /\ op[t] = "tap" /\ Continue(t, "send")
     \/ ~locked /\ op[t] = "text" /\ Continue(t, "element")
     \/ ~locked /\ op[t] = "wake" /\ Finish(t, "ok")
     \/ locked /\ op[t] = "wake" /\ Goto(t, "unlock") /\ UNCHANGED localVars
  /\ UNCHANGED tuned

AnswerSend(t) ==
  /\ call[t] = "send"
  /\ Finish(t, "ok")
  /\ tuned' = (tuned \/ op[t] = "configure")

(* element/active: the focused element, or "nosuchelement".                *)
AnswerElement(t) ==
  /\ call[t] = "element"
  /\ \/ /\ element' = [element EXCEPT ![t] = session[t]]
        /\ Goto(t, "write")
        /\ UNCHANGED <<call, session, polls, historyVars>>
     \/ Finish(t, "no_active_element")
  /\ UNCHANGED tuned

(* wake asks locked() after an unlock that failed.                         *)
AnswerVerdict(t) ==
  /\ call[t] = "verdict"
  /\ Finish(t, IF locked THEN "device_locked" ELSE "ok")
  /\ UNCHANGED tuned

(* ... and polls it after one that succeeded, until a deadline.            *)
AnswerSettle(t) ==
  /\ call[t] = "settle"
  /\ \/ ~locked /\ Finish(t, "ok")
     \/ locked /\ polls[t] = 0 /\ Finish(t, "device_locked")
     \/ /\ locked /\ polls[t] > 0
        /\ polls' = [polls EXCEPT ![t] = @ - 1]
        /\ Goto(t, "read") /\ UNCHANGED <<call, session, element, historyVars>>
  /\ UNCHANGED tuned

Answer(t) ==
  \/ AnswerLocked(t) \/ AnswerSend(t) \/ AnswerElement(t)
  \/ AnswerVerdict(t) \/ AnswerSettle(t)

(* The request meets its session and is answered.                          *)
Served(t) ==
  /\ pc[t] \in {"request", "retry"} /\ op[t] # "delete"
  /\ session[t] = wda
  /\ Answer(t)
  /\ UNCHANGED <<wda, made, locked, clientVars, untuned>>

(* An error other than an invalid session; the phone may have served it.   *)
Broken(t) ==
  /\ pc[t] \in {"request", "retry"} /\ op[t] # "delete"
  /\ Finish(t, "wda_session_failed")
  /\ tuned' \in {tuned, tuned \/ (op[t] = "configure" /\ session[t] = wda)}
  /\ UNCHANGED <<wda, made, locked, clientVars, untuned>>

(* 404 invalid session: re-create, unless this was the retry, whose error  *)
(* is a wda_session_failed with that text.                                 *)
Invalid(t) ==
  /\ op[t] # "delete" /\ session[t] # wda
  /\ \/ pc[t] = "request" /\ Goto(t, "lock") /\ UNCHANGED localVars
     \/ pc[t] = "retry" /\ Finish(t, "session_gone")
  /\ UNCHANGED <<phoneVars, clientVars, untuned>>

-----------------------------------------------------------------------------
(* recreate_session_unless_replaced.                                       *)

(* Seeded fault: re-creations are not serialised.                          *)
LockFreely(t) ==
  /\ pc[t] = "lock"
  /\ Goto(t, "recheck")
  /\ UNCHANGED <<phoneVars, clientVars, localVars, untuned>>

Lock(t) ==
  /\ pc[t] = "lock" /\ recreate = NoThread
  /\ recreate' = t
  /\ Goto(t, "recheck")
  /\ UNCHANGED <<phoneVars, sid, mjpeg, localVars, untuned>>

(* Seeded fault: the stale id is not compared.                             *)
RecheckNever(t) ==
  /\ pc[t] = "recheck"
  /\ Goto(t, "post") /\ UNCHANGED recreate
  /\ UNCHANGED <<phoneVars, sid, mjpeg, localVars, untuned>>

Recheck(t) ==
  /\ pc[t] = "recheck"
  /\ \/ sid = session[t] /\ Goto(t, "post") /\ UNCHANGED recreate
     \/ sid # session[t] /\ Goto(t, "reread") /\ Release(t)
  /\ UNCHANGED <<phoneVars, sid, mjpeg, localVars, untuned>>

(* create_session's POST /session; the answer may get lost.                *)
Post(t) ==
  /\ pc[t] = "post"
  /\ \/ /\ made < MaxSessions
        /\ made' = made + 1 /\ wda' = made + 1 /\ tuned' = FALSE
        /\ \/ /\ session' = [session EXCEPT ![t] = made + 1]
              /\ Goto(t, "store")
              /\ UNCHANGED <<recreate, call, element, polls, historyVars>>
           \/ Finish(t, "wda_session_failed") /\ Release(t)
     \/ /\ Finish(t, "wda_session_failed") /\ Release(t)
        /\ UNCHANGED <<made, wda, tuned>>
  /\ UNCHANGED <<locked, sid, mjpeg, untuned>>

(* Seeded fault: the settings are not replayed.                            *)
StoreOnly(t) ==
  /\ pc[t] = "store"
  /\ sid' = session[t]
  /\ \/ op[t] = "create" /\ Finish(t, "ok") /\ UNCHANGED recreate
     \/ /\ op[t] # "create"
        /\ Goto(t, "reread") /\ Release(t) /\ UNCHANGED localVars
  /\ UNCHANGED <<phoneVars, mjpeg, untuned>>

(* The id is stored.  In recreate_session mjpeg is always known: configure *)
(* sets it before its own call, and everybody else comes later.            *)
Store(t) ==
  /\ pc[t] = "store"
  /\ sid' = session[t]
  /\ \/ op[t] = "create" /\ Finish(t, "ok")
     \/ op[t] # "create" /\ mjpeg /\ Goto(t, "replay") /\ UNCHANGED localVars
  /\ UNCHANGED <<phoneVars, mjpeg, recreate, untuned>>

(* configure_mjpeg_once, which never re-creates.                           *)
Replay(t) ==
  /\ pc[t] = "replay"
  /\ Release(t)
  /\ \/ /\ sid = wda
        /\ tuned' = TRUE /\ Goto(t, "reread") /\ UNCHANGED <<localVars, untuned>>
     \/ /\ tuned' \in {tuned, tuned \/ sid = wda}
        /\ untuned' = TRUE
        /\ Finish(t, "wda_session_failed")
  /\ UNCHANGED <<wda, made, locked, sid, mjpeg>>

(* Seeded fault: the retry goes to the session of the first try.           *)
RereadStale(t) ==
  /\ pc[t] = "reread"
  /\ Goto(t, "retry")
  /\ UNCHANGED <<phoneVars, clientVars, localVars, untuned>>

Reread(t) ==
  /\ pc[t] = "reread"
  /\ session' = [session EXCEPT ![t] = sid]
  /\ Goto(t, "retry")
  /\ UNCHANGED <<phoneVars, clientVars, call, element, polls, historyVars, untuned>>

-----------------------------------------------------------------------------
(* The calls that are not session_calls.                                   *)

(* The screen lock changes; running operations may see it open.            *)
SetLocked(value) ==
  /\ locked' = value
  /\ unlocked' = [t \in Thread |-> unlocked[t] \/ (pc[t] # "idle" /\ ~value)]

(* Seeded fault: an answer of 200 is taken for the effect.                 *)
UnlockTrusted(t) ==
  /\ pc[t] = "unlock"
  /\ \/ sid = wda /\ Finish(t, "ok") /\ UNCHANGED locked
     \/ \E value \in {locked, locked /\ sid # wda} :
          /\ SetLocked(value)
          /\ Goto(t, "read")
          /\ call' = [call EXCEPT ![t] = "verdict"]
          /\ UNCHANGED <<polls, session, element, typed, losses>>
  /\ UNCHANGED <<wda, made, tuned, clientVars, untuned>>

(* wake: POST unlock, in the session of the moment.  A phone with a        *)
(* passcode answers 500 and stays locked; an answer of 200 may precede the *)
(* effect, or be all there is.                                             *)
Unlock(t) ==
  /\ pc[t] = "unlock"
  /\ \E value \in {locked, locked /\ sid # wda} : SetLocked(value)
  /\ \/ /\ sid = wda
        /\ call' = [call EXCEPT ![t] = "settle"]
        /\ polls' = [polls EXCEPT ![t] = SettlePolls]
     \/ call' = [call EXCEPT ![t] = "verdict"] /\ UNCHANGED polls
  /\ Goto(t, "read")
  /\ UNCHANGED <<wda, made, tuned, clientVars, session, element, typed, losses,
                 untuned>>

(* send_text reads the session id once more for what follows.              *)
ReadForText(t) ==
  /\ pc[t] = "write"
  /\ session' = [session EXCEPT ![t] = sid]
  /\ Goto(t, "value")
  /\ UNCHANGED <<phoneVars, clientVars, call, element, polls, historyVars, untuned>>

(* POST element/{e}/value: 200 whether or not the text arrived.            *)
Value(t) ==
  /\ pc[t] = "value"
  /\ \/ /\ session[t] = wda
        /\ typed' \in {typed, [typed EXCEPT ![t] = TRUE]}
        /\ Goto(t, "readback")
        /\ UNCHANGED <<call, session, element, polls, unlocked, losses>>
     \/ Finish(t, "wda_session_failed")
  /\ UNCHANGED <<phoneVars, clientVars, untuned>>

(* GET attribute/value: empty for a secure field, whatever arrived.        *)
ReadBack(t) ==
  /\ pc[t] = "readback"
  /\ \/ session[t] = wda /\ typed[t] /\ Finish(t, "ok")
     \/ session[t] = wda /\ Finish(t, "text_unconfirmed")
     \/ Finish(t, "wda_session_failed")
  /\ UNCHANGED <<phoneVars, clientVars, untuned>>

(* delete_session: the answer is ignored.                                  *)
DeleteSession ==
  /\ op[Supervisor] = "delete" /\ pc[Supervisor] = "request"
  /\ End(Supervisor, "ok")
  /\ \/ /\ session[Supervisor] = wda
        /\ wda' = NoSession /\ tuned' = FALSE
        /\ losses' = [Lost EXCEPT ![Supervisor] = 0]
     \/ losses' = [losses EXCEPT ![Supervisor] = 0] /\ UNCHANGED <<wda, tuned>>
  /\ UNCHANGED <<made, locked, clientVars, untuned>>

-----------------------------------------------------------------------------
(* The phone.                                                              *)

(* Another client posts a session, or WDA restarts.                        *)
Lose ==
  /\ wda # NoSession
  /\ wda' = NoSession /\ tuned' = FALSE /\ losses' = Lost
  /\ UNCHANGED <<made, locked, clientVars, placeVars, call, session, element,
                 polls, typed, unlocked, untuned>>

TurnLock ==
  /\ SetLocked(~locked)
  /\ UNCHANGED <<wda, made, tuned, clientVars, placeVars, call, session, element,
                 polls, typed, losses, untuned>>

-----------------------------------------------------------------------------
Recreation(t) == Recheck(t) \/ Post(t) \/ Store(t) \/ Replay(t) \/ Reread(t)

Step(t) ==
  \/ ReadSession(t) \/ Served(t) \/ Broken(t) \/ Invalid(t) \/ Recreation(t)
  \/ Unlock(t) \/ ReadForText(t) \/ Value(t) \/ ReadBack(t)

Next ==
  \/ \E t \in Thread : Step(t) \/ Lock(t)
  \/ \E t \in Caller : Start(t)
  \/ Configure \/ Delete \/ DeleteSession
  \/ Lose \/ TurnLock

Spec == Init /\ [][Next]_vars

-----------------------------------------------------------------------------
Recreating == {"recheck", "post", "store", "replay"}
Place == Recreating \cup {"idle", "read", "request", "lock", "reread", "retry",
                          "unlock", "write", "value", "readback"}
Operation == {"none", "create", "configure", "delete", "poll", "tap", "text", "wake"}

(* The shape of the state (wda.rs:64-72).                                  *)
TypeOK ==
  /\ wda \in SessionId /\ made \in SessionId /\ sid \in SessionId
  /\ tuned \in BOOLEAN /\ locked \in BOOLEAN /\ mjpeg \in BOOLEAN
  /\ recreate \in Thread \cup {NoThread}
  /\ pc \in [Thread -> Place] /\ op \in [Thread -> Operation]
  /\ call \in [Thread -> {"none", "locked", "send", "element", "verdict",
                          "settle"}]
  /\ session \in [Thread -> SessionId] /\ element \in [Thread -> SessionId]
  /\ polls \in [Thread -> 0..SettlePolls]
  /\ result \in [Thread -> {"none", "ok", "wda_session_failed", "session_gone",
       "device_locked", "no_active_element", "text_unconfirmed"}]
  /\ typed \in [Thread -> BOOLEAN] /\ unlocked \in [Thread -> BOOLEAN]
  /\ losses \in [Thread -> 0..2] /\ untuned \in BOOLEAN

(* No clone makes a session while the one they share still lives: WDA      *)
(* keeps the last one only, so that would take it from the others          *)
(* (wda.rs:125-130, the comment on recreate_session_unless_replaced).      *)
NoSelfEviction == [][made' # made => sid = NoSession \/ sid # wda]_vars

(* What makes it so, inductively: ids are handed out in order and never    *)
(* come back; who re-creates holds the mutex (135-142), but for the first  *)
(* session, made before there are clones (session.rs:488); the id it found *)
(* stale stays dead and, once compared, stays the shared one.              *)
Ids ==
  /\ made \in Nat /\ wda \in 0..made /\ sid \in 0..made
  /\ session \in [Thread -> 0..made]
  /\ pc \in [Thread -> Place] /\ op \in [Thread -> Operation]

FirstIsAlone ==
  /\ \A t \in Thread : op[t] = "create" => t = Supervisor
  /\ op[Supervisor] = "create" =>
       /\ \A c \in Caller : pc[c] = "idle"
       /\ pc[Supervisor] \in {"post", "store", "idle"}
       /\ pc[Supervisor] # "idle" => sid = NoSession /\ recreate = NoThread

HolderRecreates ==
  \A t \in Thread : pc[t] \in Recreating /\ op[t] # "create" => recreate = t

StaleIsDead ==
  \A t \in Thread :
    /\ pc[t] \in {"lock", "recheck", "post"} =>
         session[t] = NoSession \/ session[t] # wda
    /\ pc[t] = "post" => sid = NoSession \/ sid = session[t]

RecreateInv == Ids /\ FirstIsAlone /\ HolderRecreates /\ StaleIsDead

(* A call that lost its session once is healed: the only calls that end in *)
(* the 404 they are meant to survive lost it twice, whatever other clones  *)
(* re-create meanwhile (wda.rs:56-60, 106-124).                            *)
OneLossIsHealed ==
  [][\A t \in Thread :
       pc[t] # "idle" /\ result'[t] = "session_gone" => losses[t] = 2]_vars

(* While nobody is re-creating, the session the clones share has the MJPEG *)
(* settings of the start, unless a replay of them failed (wda.rs:144-156,  *)
(* 185-193).                                                               *)
SettingsSurvive ==
  /\ op[Supervisor] = "delete" \/ Published
  /\ recreate = NoThread /\ sid = wda /\ wda # NoSession /\ ~untuned
  => tuned

(* What these rest on.  An operation makes its own calls only, shows no    *)
(* result before its end, and has seen the screen unlocked whenever it is. *)
CallsFit ==
  \A t \in Thread :
    /\ call[t] = "send" => op[t] \in {"poll", "tap", "configure", "delete"}
    /\ call[t] = "element" => op[t] = "text"
    /\ call[t] \in {"verdict", "settle"} \/ pc[t] = "unlock" => op[t] = "wake"
    /\ pc[t] \in {"write", "value", "readback"} => op[t] = "text"
    /\ pc[t] # "idle" => result[t] = "none"

UnlockIsSeen ==
  \A c \in Caller : pc[c] # "idle" =>
    /\ ~locked => unlocked[c]
    /\ op[c] = "tap" /\ call[c] = "send" => unlocked[c]

(* Only the last session made can live; the shared id never goes back, so  *)
(* whoever read it holds no later one but the one it has yet to store.     *)
SharedIdGrows ==
  /\ wda \in {NoSession, made}
  /\ op[Supervisor] # "create" \/ result[Supervisor] = "ok" => sid # NoSession
  /\ \A t \in Thread :
       IF pc[t] = "store" THEN sid < session[t] ELSE session[t] =< sid

(* A call that holds a dead id lost a session, and when the id it will     *)
(* retry with is dead as well it lost two.                                 *)
LossesAreCounted ==
  \A t \in Thread : op[t] # "create" =>
    /\ pc[t] \in {"request", "lock", "recheck", "post", "retry"}
         => session[t] # NoSession
    /\ pc[t] \in {"request", "lock", "recheck", "post"} /\ session[t] # wda
         => losses[t] >= 1
    /\ pc[t] \in {"request", "lock", "recheck"} /\ session[t] < sid /\ sid # wda
         => losses[t] = 2
    /\ pc[t] \in {"store", "replay", "reread", "retry"} => losses[t] >= 1
    /\ pc[t] \in {"store", "retry"} /\ session[t] # wda => losses[t] = 2
    /\ pc[t] \in {"replay", "reread"} /\ sid # wda => losses[t] = 2
    /\ pc[t] \in {"request", "lock", "recheck", "reread"} =>
         \A u \in Thread : pc[u] = "store" /\ session[u] # wda => losses[t] = 2

TunedUnlessReplaying ==
  /\ op[Supervisor] = "delete" \/ Published
  /\ sid = wda /\ wda # NoSession /\ ~untuned
  /\ \A t \in Thread : pc[t] # "replay"
  => tuned

(* All of it: the inductive invariant of the client, with RecreateInv.     *)
ClientInv ==
  /\ TypeOK /\ SettingsSurvive /\ CallsFit /\ UnlockIsSeen
  /\ SharedIdGrows /\ LossesAreCounted /\ TunedUnlessReplaying

(* A result of ok rests on what was seen of the phone, not on an answer of *)
(* 200: a tap or a wake saw the screen unlocked since it began, a text was *)
(* found in its element (wda.rs:6-11).                                     *)
OkIsVerified ==
  [][\A t \in Caller : pc[t] # "idle" /\ result'[t] = "ok" =>
       /\ op[t] \in {"tap", "wake"} => unlocked[t]
       /\ op[t] = "text" => typed[t]]_vars
=============================================================================
