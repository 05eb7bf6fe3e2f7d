--------------------------- MODULE WdaClientProofs ---------------------------
(***************************************************************************)
(* Proofs about WdaClient, for any set of callers, any number of sessions  *)
(* and of looks: re-creating a session never takes a live one from the     *)
(* other clones, one loss is healed, the settings survive it, and a result *)
(* of ok was verified.                                                     *)
(***************************************************************************)
EXTENDS WdaClient, TLAPS

(* Most steps are quiet for the invariant: thread t goes to a place where  *)
(* it neither waits for nor does a re-creation, with op o and session x;   *)
(* no id is made or stored, the session may end, and t may unlock.         *)
Elsewhere == Place \ (Recreating \cup {"lock"})

Quiet(t, p, o, x) ==
  /\ pc' = [pc EXCEPT ![t] = p]
  /\ op' = [op EXCEPT ![t] = o]
  /\ session' = [session EXCEPT ![t] = x]
  /\ sid' = sid /\ made' = made /\ wda' \in {wda, NoSession}
  /\ recreate' = recreate \/ (recreate = t /\ recreate' = NoThread)

(* While the first session is made only the supervisor moves, to its end.  *)
Waits(t, p, o) ==
  /\ o = "create" => op[t] = "create"
  /\ op[Supervisor] = "create" => t = Supervisor /\ (o = "create" => p = "idle")

LEMMA QuietKeepsInv ==
  ASSUME RecreateInv, NEW t \in Thread, NEW p \in Elsewhere, NEW o \in Operation,
         NEW x \in 0..made, Quiet(t, p, o, x), Waits(t, p, o)
  PROVE  RecreateInv'
<1> USE DEF RecreateInv
<1>1. Ids'
  BY DEF Ids, Quiet, Elsewhere, NoSession
<1>2. FirstIsAlone'
  <2>1. \A u \in Thread : op'[u] = "create" => u = Supervisor
    BY DEF Ids, Quiet, Waits, FirstIsAlone
  <2>2. ASSUME op'[Supervisor] = "create"
        PROVE  /\ \A c \in Caller : pc'[c] = "idle"
               /\ pc'[Supervisor] = "idle"
    <3>1. Supervisor \in Thread /\ Caller \subseteq Thread
      BY DEF Thread
    <3>2. op[Supervisor] = "create"
      BY <2>2, <3>1 DEF Quiet, Waits, Ids, Operation
    <3>3. t = Supervisor /\ o = "create" /\ p = "idle"
      BY <2>2, <3>1, <3>2 DEF Quiet, Waits, Ids
    <3> QED
      BY <3>1, <3>2, <3>3, ClientAssumption DEF Quiet, Ids, FirstIsAlone
  <2> QED
    BY <2>1, <2>2 DEF FirstIsAlone
<1>3. HolderRecreates'
  BY ClientAssumption DEF Ids, Quiet, HolderRecreates, Elsewhere, Thread
<1>4. StaleIsDead'
  BY DEF Ids, Quiet, StaleIsDead, Elsewhere, Recreating, NoSession
<1> QED
  BY <1>1, <1>2, <1>3, <1>4

(* The helpers, as far as the invariant sees them.                         *)
LEMMA GotoIs ==
  ASSUME Ids, NEW t \in Thread, NEW p, Goto(t, p)
  PROVE  pc' = [pc EXCEPT ![t] = p] /\ op' = op /\ op' = [op EXCEPT ![t] = op[t]]
BY DEF Goto, Ids

LEMMA EndIs ==
  ASSUME Ids, NEW t \in Thread, NEW code, End(t, code)
  PROVE  \E o \in Operation :
           /\ pc' = [pc EXCEPT ![t] = "idle"]
           /\ op' = [op EXCEPT ![t] = o]
           /\ session' = [session EXCEPT ![t] = NoSession]
           /\ o = "create" => op[t] = "create"
BY DEF End, Ids, Operation

(* A thread at work is not a caller while the first session is made.       *)
LEMMA AtWork ==
  ASSUME RecreateInv, NEW t \in Thread, pc[t] # "idle"
  PROVE  /\ op[t] = "create" => t = Supervisor /\ pc[t] \in {"post", "store"}
         /\ op[Supervisor] = "create" => t = Supervisor
BY DEF RecreateInv, FirstIsAlone, Thread

(* An operation that ends, its session perhaps gone, its mutex given back. *)
LEMMA EndKeepsInv ==
  ASSUME RecreateInv, NEW t \in Thread, pc[t] # "idle", NEW code, End(t, code),
         sid' = sid, made' = made, wda' \in {wda, NoSession},
         recreate' = recreate \/ (recreate = t /\ recreate' = NoThread)
  PROVE  RecreateInv'
<1>1. PICK o \in Operation :
        /\ pc' = [pc EXCEPT ![t] = "idle"]
        /\ op' = [op EXCEPT ![t] = o]
        /\ session' = [session EXCEPT ![t] = NoSession]
        /\ o = "create" => op[t] = "create"
  BY EndIs DEF RecreateInv
<1>2. Quiet(t, "idle", o, NoSession) /\ Waits(t, "idle", o)
  BY <1>1, AtWork DEF Quiet, Waits
<1>3. "idle" \in Elsewhere /\ NoSession \in 0..made
  BY DEF Elsewhere, Place, Recreating, NoSession, RecreateInv, Ids
<1> QED
  BY <1>2, <1>3, QuietKeepsInv

(* A thread that moves on quietly within its operation.                    *)
LEMMA GotoKeepsInv ==
  ASSUME RecreateInv, NEW t \in Thread, pc[t] # "idle", op[t] # "create",
         NEW p \in Elsewhere, Goto(t, p), NEW x \in 0..made,
         session' = [session EXCEPT ![t] = x],
         sid' = sid, made' = made, wda' = wda,
         recreate' = recreate \/ (recreate = t /\ recreate' = NoThread)
  PROVE  RecreateInv'
<1>1. op[t] \in Operation
  BY DEF RecreateInv, Ids
<1>2. Quiet(t, p, op[t], x) /\ Waits(t, p, op[t])
  BY GotoIs, AtWork DEF Quiet, Waits, RecreateInv
<1> QED
  BY <1>1, <1>2, QuietKeepsInv
-----------------------------------------------------------------------------
(* The two reads of the shared id and the places a call goes on from.      *)
LEMMA Places ==
  /\ {"idle", "read", "request", "reread", "retry", "unlock", "write", "value",
      "readback"} \subseteq Elsewhere
  /\ Elsewhere \subseteq Place
BY DEF Elsewhere, Place, Recreating

LEMMA IdsInRange ==
  ASSUME RecreateInv, NEW t \in Thread
  PROVE  /\ session[t] \in 0..made /\ sid \in 0..made
         /\ session = [session EXCEPT ![t] = session[t]]
BY DEF RecreateInv, Ids

(* An operation begins: a call of a clone, configure or delete.            *)
LEMMA BeginKeepsInv ==
  ASSUME RecreateInv, NEW t \in Thread, NEW o \in Operation \ {"create"},
         NEW first, Begin(t, o, first),
         op[Supervisor] = "create" => t = Supervisor
  PROVE  RecreateInv'
<1>1. Quiet(t, "read", o, session[t]) /\ Waits(t, "read", o)
  BY IdsInRange DEF Begin, Quiet, Waits, phoneVars
<1> QED
  BY <1>1, IdsInRange, Places, QuietKeepsInv

(* An answer either ends the operation or lets it go on elsewhere.         *)
LEMMA AnswerIs ==
  ASSUME NEW t, Answer(t)
  PROVE  \/ \E code : End(t, code)
         \/ /\ UNCHANGED session
            /\ \E p \in {"read", "unlock", "write"} : Goto(t, p)
<1>1. CASE AnswerLocked(t)
  BY <1>1 DEF AnswerLocked, Finish, Continue, localVars
<1>2. CASE AnswerSend(t)
  BY <1>2 DEF AnswerSend, Finish
<1>3. CASE AnswerElement(t)
  BY <1>3 DEF AnswerElement, Finish
<1>4. CASE AnswerVerdict(t)
  BY <1>4 DEF AnswerVerdict, Finish
<1>5. CASE AnswerSettle(t)
  BY <1>5 DEF AnswerSettle, Finish
<1> QED
  BY <1>1, <1>2, <1>3, <1>4, <1>5 DEF Answer

(* The steps of a call outside the re-creation.                            *)
LEMMA CallKeepsInv ==
  ASSUME RecreateInv, NEW t \in Thread,
         \/ ReadSession(t) \/ Served(t) \/ Broken(t) \/ Unlock(t)
         \/ ReadForText(t) \/ Value(t) \/ ReadBack(t)
  PROVE  RecreateInv'
<1>1. CASE ReadSession(t)
  <2>1. /\ pc[t] = "read" /\ Goto(t, "request")
        /\ session' = [session EXCEPT ![t] = sid]
        /\ UNCHANGED <<sid, made, wda, recreate>>
    BY <1>1 DEF ReadSession, phoneVars, clientVars
  <2>2. op[t] # "create"
    BY <2>1, AtWork
  <2> QED
    BY <2>1, <2>2, IdsInRange, Places, GotoKeepsInv
<1>2. CASE Served(t)
  <2>1. /\ pc[t] \in {"request", "retry"} /\ Answer(t)
        /\ UNCHANGED <<sid, made, wda, recreate>>
    BY <1>2 DEF Served, clientVars
  <2>2. op[t] # "create"
    BY <2>1, AtWork
  <2>3. CASE \E code : End(t, code)
    BY <2>1, <2>3, EndKeepsInv
  <2>4. ASSUME UNCHANGED session, NEW p \in {"read", "unlock", "write"}, Goto(t, p)
        PROVE  RecreateInv'
    BY <2>1, <2>2, <2>4, IdsInRange, Places, GotoKeepsInv
  <2> QED
    BY <2>1, <2>3, <2>4, AnswerIs
<1>3. CASE Broken(t)
  BY <1>3, EndKeepsInv DEF Broken, Finish, clientVars
<1>4. CASE Unlock(t)
  <2>1. /\ pc[t] = "unlock" /\ Goto(t, "read")
        /\ UNCHANGED <<sid, made, wda, recreate, session>>
    BY <1>4 DEF Unlock, clientVars
  <2>2. op[t] # "create"
    BY <2>1, AtWork
  <2> QED
    BY <2>1, <2>2, IdsInRange, Places, GotoKeepsInv
<1>5. CASE ReadForText(t)
  <2>1. /\ pc[t] = "write" /\ Goto(t, "value")
        /\ session' = [session EXCEPT ![t] = sid]
        /\ UNCHANGED <<sid, made, wda, recreate>>
    BY <1>5 DEF ReadForText, phoneVars, clientVars
  <2>2. op[t] # "create"
    BY <2>1, AtWork
  <2> QED
    BY <2>1, <2>2, IdsInRange, Places, GotoKeepsInv
<1>6. CASE Value(t)
  <2>1. pc[t] = "value" /\ UNCHANGED <<sid, made, wda, recreate>>
    BY <1>6 DEF Value, phoneVars, clientVars
  <2>2. op[t] # "create"
    BY <2>1, AtWork
  <2>3. CASE End(t, "wda_session_failed")
    BY <2>1, <2>3, EndKeepsInv
  <2>4. CASE Goto(t, "readback") /\ UNCHANGED session
    BY <2>1, <2>2, <2>4, IdsInRange, Places, GotoKeepsInv
  <2> QED
    BY <1>6, <2>3, <2>4 DEF Value, Finish
<1>7. CASE ReadBack(t)
  <2>1. pc[t] = "readback" /\ UNCHANGED <<sid, made, wda, recreate>>
    BY <1>7 DEF ReadBack, phoneVars, clientVars
  <2>2. \E code : End(t, code)
    BY <1>7 DEF ReadBack, Finish
  <2> QED
    BY <2>1, <2>2, EndKeepsInv
<1> QED
  BY <1>1, <1>2, <1>3, <1>4, <1>5, <1>6, <1>7

-----------------------------------------------------------------------------
(* 404: the id is dead when t goes to re-create, and is never live again.  *)
LEMMA InvalidKeepsInv ==
  ASSUME RecreateInv, NEW t \in Thread, Invalid(t)
  PROVE  RecreateInv'
<1>1. UNCHANGED <<sid, made, wda, recreate>> /\ session[t] # wda
  BY DEF Invalid, phoneVars, clientVars
<1>2. CASE pc[t] = "retry" /\ End(t, "session_gone")
  BY <1>1, <1>2, EndKeepsInv
<1>3. CASE pc[t] = "request" /\ Goto(t, "lock") /\ UNCHANGED session
  <2>1. pc' = [pc EXCEPT ![t] = "lock"] /\ op' = op /\ op[t] # "create"
    BY <1>3, AtWork, GotoIs DEF RecreateInv
  <2>2. Ids'
    BY <1>1, <1>3, <2>1 DEF RecreateInv, Ids, Place
  <2>3. FirstIsAlone'
    BY <1>1, <1>3, <2>1, AtWork DEF RecreateInv, Ids, FirstIsAlone, Thread
  <2>4. HolderRecreates'
    BY <1>1, <1>3, <2>1 DEF RecreateInv, Ids, HolderRecreates, Recreating
  <2>5. StaleIsDead'
    BY <1>1, <1>3, <2>1 DEF RecreateInv, Ids, StaleIsDead
  <2> QED
    BY <2>2, <2>3, <2>4, <2>5 DEF RecreateInv
<1> QED
  BY <1>2, <1>3 DEF Invalid, Finish, localVars

(* The mutex goes to one thread, and nobody else is re-creating then.      *)
LEMMA LockKeepsInv ==
  ASSUME RecreateInv, NEW t \in Thread, Lock(t)
  PROVE  RecreateInv'
<1>1. /\ UNCHANGED <<sid, made, wda, session>> /\ recreate = NoThread
      /\ recreate' = t /\ pc[t] = "lock"
      /\ pc' = [pc EXCEPT ![t] = "recheck"] /\ op' = op /\ op[t] # "create"
  BY AtWork, GotoIs DEF Lock, phoneVars, localVars, RecreateInv
<1>2. Ids'
  BY <1>1 DEF RecreateInv, Ids, Place, Recreating
<1>3. FirstIsAlone'
  BY <1>1, AtWork DEF RecreateInv, Ids, FirstIsAlone, Thread
<1>4. HolderRecreates'
  <2> SUFFICES ASSUME NEW u \in Thread, pc'[u] \in Recreating, op'[u] # "create"
               PROVE  recreate' = u
    BY DEF HolderRecreates
  <2>1. CASE u = t
    BY <1>1, <2>1
  <2>2. CASE u # t
    <3>1. recreate = u
      BY <1>1, <2>2 DEF RecreateInv, Ids, HolderRecreates
    <3> QED
      BY <3>1, <1>1, ClientAssumption DEF Thread
  <2> QED
    BY <2>1, <2>2
<1>5. StaleIsDead'
  BY <1>1 DEF RecreateInv, Ids, StaleIsDead
<1> QED
  BY <1>2, <1>3, <1>4, <1>5 DEF RecreateInv

(* The stale id is still the shared one, or somebody replaced it.          *)
LEMMA RecheckKeepsInv ==
  ASSUME RecreateInv, NEW t \in Thread, Recheck(t)
  PROVE  RecreateInv'
<1>1. /\ UNCHANGED <<sid, made, wda, session>> /\ pc[t] = "recheck"
      /\ op[t] # "create"
  BY AtWork DEF Recheck, phoneVars, localVars
<1>2. CASE Goto(t, "reread") /\ Release(t)
  BY <1>1, <1>2, IdsInRange, Places, GotoKeepsInv DEF Release
<1>3. CASE sid = session[t] /\ Goto(t, "post") /\ UNCHANGED recreate
  <2>1. pc' = [pc EXCEPT ![t] = "post"] /\ op' = op
    BY <1>3, GotoIs DEF RecreateInv
  <2>2. Ids'
    BY <1>1, <1>3, <2>1 DEF RecreateInv, Ids, Place, Recreating
  <2>3. FirstIsAlone'
    BY <1>1, <1>3, <2>1, AtWork DEF RecreateInv, Ids, FirstIsAlone, Thread
  <2>4. HolderRecreates'
    BY <1>1, <1>3, <2>1 DEF RecreateInv, Ids, HolderRecreates, Recreating
  <2>5. StaleIsDead'
    BY <1>1, <1>3, <2>1 DEF RecreateInv, Ids, StaleIsDead
  <2> QED
    BY <2>2, <2>3, <2>4, <2>5 DEF RecreateInv
<1> QED
  BY <1>2, <1>3 DEF Recheck

(* A session is made, answered or not: its id is new, so nothing that was  *)
(* stale becomes live.                                                     *)
LEMMA PostKeepsInv ==
  ASSUME RecreateInv, NEW t \in Thread, Post(t)
  PROVE  RecreateInv'
<1>1. UNCHANGED sid /\ pc[t] = "post"
  BY DEF Post
<1>2. CASE /\ End(t, "wda_session_failed") /\ Release(t)
           /\ UNCHANGED <<made, wda>>
  BY <1>1, <1>2, EndKeepsInv DEF Release
<1>3. CASE /\ made' = made + 1 /\ wda' = made + 1
           /\ session' = [session EXCEPT ![t] = made + 1]
           /\ Goto(t, "store") /\ UNCHANGED recreate
  <2>1. pc' = [pc EXCEPT ![t] = "store"] /\ op' = op
    BY <1>3, GotoIs DEF RecreateInv
  <2>2. Ids'
    BY <1>1, <1>3, <2>1 DEF RecreateInv, Ids, Place, Recreating
  <2>3. FirstIsAlone'
    BY <1>1, <1>3, <2>1, AtWork DEF RecreateInv, Ids, FirstIsAlone, Thread
  <2>4. HolderRecreates'
    BY <1>1, <1>3, <2>1 DEF RecreateInv, Ids, HolderRecreates, Recreating
  <2>5. StaleIsDead'
    BY <1>1, <1>3, <2>1 DEF RecreateInv, Ids, StaleIsDead
  <2> QED
    BY <2>2, <2>3, <2>4, <2>5 DEF RecreateInv
<1>4. CASE /\ made' = made + 1 /\ wda' = made + 1
           /\ End(t, "wda_session_failed") /\ Release(t)
  <2>1. PICK o \in Operation :
          /\ pc' = [pc EXCEPT ![t] = "idle"]
          /\ op' = [op EXCEPT ![t] = o]
          /\ session' = [session EXCEPT ![t] = NoSession]
          /\ o = "create" => op[t] = "create"
    BY <1>4, EndIs DEF RecreateInv
  <2>2. Ids'
    BY <1>1, <1>4, <2>1 DEF RecreateInv, Ids, Place, NoSession
  <2>3. FirstIsAlone'
    <3>1. op[Supervisor] = "create" => t = Supervisor
      BY <1>1, AtWork
    <3>2. \A u \in Thread : op'[u] = "create" => op[u] = "create"
      BY <2>1 DEF RecreateInv, Ids
    <3>3. op[Supervisor] = "create" => \A u \in Thread : pc'[u] = "idle"
      BY <3>1, <2>1 DEF RecreateInv, Ids, FirstIsAlone, Thread
    <3> QED
      BY <3>2, <3>3 DEF RecreateInv, FirstIsAlone, Thread
  <2>4. HolderRecreates'
    <3> SUFFICES ASSUME NEW u \in Thread, pc'[u] \in Recreating, op'[u] # "create"
                 PROVE  recreate' = u
      BY DEF HolderRecreates
    <3>1. u # t
      BY <2>1 DEF RecreateInv, Ids, Recreating
    <3>2. recreate = u
      BY <3>1, <2>1 DEF RecreateInv, Ids, HolderRecreates
    <3> QED
      BY <3>1, <3>2, <1>4 DEF Release
  <2>5. StaleIsDead'
    <3> SUFFICES ASSUME NEW u \in Thread, pc'[u] \in {"lock", "recheck", "post"}
                 PROVE  /\ session'[u] = NoSession \/ session'[u] # wda'
                        /\ pc'[u] = "post" => sid' = NoSession \/ sid' = session'[u]
      BY DEF StaleIsDead
    <3>1. u # t /\ pc'[u] = pc[u] /\ session'[u] = session[u]
      BY <2>1 DEF RecreateInv, Ids
    <3> QED
      BY <3>1, <1>1, <1>4 DEF RecreateInv, Ids, StaleIsDead
  <2> QED
    BY <2>2, <2>3, <2>4, <2>5 DEF RecreateInv
<1> QED
  BY <1>2, <1>3, <1>4 DEF Post, Finish

(* The new id is shared: whoever else stands at its POST would hold the    *)
(* mutex too, so nobody does.                                              *)
LEMMA StoreKeepsInv ==
  ASSUME RecreateInv, NEW t \in Thread, Store(t)
  PROVE  RecreateInv'
<1>1. /\ UNCHANGED <<made, wda, recreate>> /\ sid' = session[t]
      /\ pc[t] = "store"
  BY DEF Store, phoneVars
<1>2. CASE op[t] = "create" /\ End(t, "ok")
  <2>1. t = Supervisor /\ \A c \in Caller : pc[c] = "idle"
    BY <1>2 DEF RecreateInv, FirstIsAlone, Thread
  <2>2. PICK o \in Operation :
          /\ pc' = [pc EXCEPT ![t] = "idle"]
          /\ op' = [op EXCEPT ![t] = o]
          /\ session' = [session EXCEPT ![t] = NoSession]
          /\ o = "create" => op[t] = "create"
    BY <1>2, EndIs DEF RecreateInv
  <2>3. \A u \in Thread : pc'[u] = "idle"
    BY <2>1, <2>2 DEF RecreateInv, Ids, Thread
  <2>4. Ids'
    BY <1>1, <2>2 DEF RecreateInv, Ids, Place, NoSession
  <2>5. FirstIsAlone'
    BY <2>1, <2>2, <2>3 DEF RecreateInv, Ids, FirstIsAlone, Thread
  <2>6. HolderRecreates' /\ StaleIsDead'
    BY <2>3 DEF HolderRecreates, StaleIsDead, Recreating
  <2> QED
    BY <2>4, <2>5, <2>6 DEF RecreateInv
<1>3. CASE op[t] # "create" /\ Goto(t, "replay") /\ UNCHANGED session
  <2>1. pc' = [pc EXCEPT ![t] = "replay"] /\ op' = op /\ recreate = t
    BY <1>1, <1>3, GotoIs DEF RecreateInv, HolderRecreates, Recreating
  <2>2. op[Supervisor] # "create"
    BY <1>1, <1>3, AtWork
  <2>3. \A u \in Thread : pc'[u] # "post"
    BY <2>1, <2>2 DEF RecreateInv, Ids, FirstIsAlone, HolderRecreates,
       Recreating, Thread
  <2>4. Ids'
    BY <1>1, <1>3, <2>1 DEF RecreateInv, Ids, Place, Recreating
  <2>5. FirstIsAlone'
    BY <2>1, <2>2 DEF RecreateInv, FirstIsAlone
  <2>6. HolderRecreates'
    BY <1>1, <2>1 DEF RecreateInv, Ids, HolderRecreates, Recreating
  <2>7. StaleIsDead'
    BY <1>1, <1>3, <2>1, <2>3 DEF RecreateInv, Ids, StaleIsDead
  <2> QED
    BY <2>4, <2>5, <2>6, <2>7 DEF RecreateInv
<1> QED
  BY <1>2, <1>3 DEF Store, Finish, localVars

(* The settings are replayed, or not; the mutex is free again either way.  *)
LEMMA ReplayKeepsInv ==
  ASSUME RecreateInv, NEW t \in Thread, Replay(t) \/ Reread(t)
  PROVE  RecreateInv'
<1>1. CASE Replay(t)
  <2>1. /\ UNCHANGED <<sid, made, wda>> /\ pc[t] = "replay" /\ op[t] # "create"
        /\ recreate' = recreate \/ (recreate = t /\ recreate' = NoThread)
    BY <1>1, AtWork DEF Replay, Release
  <2>2. CASE End(t, "wda_session_failed")
    BY <2>1, <2>2, EndKeepsInv
  <2>3. CASE Goto(t, "reread") /\ UNCHANGED session
    BY <2>1, <2>3, IdsInRange, Places, GotoKeepsInv
  <2> QED
    BY <1>1, <2>2, <2>3 DEF Replay, Finish, localVars
<1>2. CASE Reread(t)
  <2>1. /\ pc[t] = "reread" /\ Goto(t, "retry")
        /\ session' = [session EXCEPT ![t] = sid]
        /\ UNCHANGED <<sid, made, wda, recreate>>
    BY <1>2 DEF Reread, phoneVars, clientVars
  <2>2. op[t] # "create"
    BY <2>1, AtWork
  <2> QED
    BY <2>1, <2>2, IdsInRange, Places, GotoKeepsInv
<1> QED
  BY <1>1, <1>2

-----------------------------------------------------------------------------
(* The first session is about to be made; no caller runs.                  *)
LEMMA InitInv == Init => RecreateInv
<1> SUFFICES ASSUME Init PROVE RecreateInv
  OBVIOUS
<1>1. Ids
  BY DEF Init, Ids, Place, Recreating, Operation, NoSession
<1>2. FirstIsAlone
  BY ClientAssumption DEF Init, FirstIsAlone, Thread
<1>3. HolderRecreates
  BY DEF Init, HolderRecreates, Recreating
<1>4. StaleIsDead
  BY DEF Init, StaleIsDead
<1> QED
  BY <1>1, <1>2, <1>3, <1>4 DEF RecreateInv

(* Every step keeps the invariant.                                         *)
LEMMA StepInv == RecreateInv /\ [Next]_vars => RecreateInv'
<1> SUFFICES ASSUME RecreateInv, [Next]_vars PROVE RecreateInv'
  OBVIOUS
<1> USE DEF Thread
<1>1. ASSUME NEW t \in Thread, Step(t) PROVE RecreateInv'
  BY <1>1, CallKeepsInv, InvalidKeepsInv, RecheckKeepsInv, PostKeepsInv,
     StoreKeepsInv, ReplayKeepsInv DEF Step, Recreation
<1>2. ASSUME NEW t \in Thread, Lock(t) PROVE RecreateInv'
  BY <1>2, LockKeepsInv
<1>3. ASSUME NEW t \in Caller, Start(t) PROVE RecreateInv'
  <2>1. op[Supervisor] # "create" /\ t \in Thread
    BY <1>3 DEF Start, Published
  <2>2. CASE Begin(t, "poll", "send")
    BY <2>1, <2>2, BeginKeepsInv DEF Operation
  <2>3. ASSUME NEW o \in {"tap", "text", "wake"}, Begin(t, o, "locked")
        PROVE  RecreateInv'
    BY <2>1, <2>3, BeginKeepsInv DEF Operation
  <2> QED
    BY <1>3, <2>2, <2>3 DEF Start
<1>4. CASE Configure
  BY <1>4, BeginKeepsInv DEF Configure, Operation
<1>5. CASE Delete
  BY <1>5, BeginKeepsInv DEF Delete, Operation
<1>6. CASE DeleteSession
  BY <1>6, EndKeepsInv DEF DeleteSession, clientVars
<1>7. CASE Lose
  <2>1. /\ UNCHANGED <<sid, made, recreate, pc, op, session>> /\ wda' = NoSession
    BY <1>7 DEF Lose, clientVars, placeVars
  <2>2. Ids'
    BY <2>1 DEF RecreateInv, Ids, NoSession
  <2>3. FirstIsAlone' /\ HolderRecreates' /\ StaleIsDead'
    BY <2>1 DEF RecreateInv, FirstIsAlone, HolderRecreates, StaleIsDead
  <2> QED
    BY <2>2, <2>3 DEF RecreateInv
<1>8. CASE UNCHANGED <<sid, made, wda, recreate, pc, op, session>>
  BY <1>8 DEF RecreateInv, Ids, FirstIsAlone, HolderRecreates, StaleIsDead
<1>9. CASE TurnLock
  BY <1>8, <1>9 DEF TurnLock, clientVars, placeVars
<1>10. CASE UNCHANGED vars
  BY <1>8, <1>10 DEF vars, phoneVars, clientVars, placeVars, localVars
<1> QED
  BY <1>1, <1>2, <1>3, <1>4, <1>5, <1>6, <1>7, <1>9, <1>10 DEF Next

(* The invariant of re-creation: ids in order, one thread at a time, and a *)
(* stale id that stays stale (wda.rs recreate_session_unless_replaced).    *)
THEOREM RecreateInvariant == Spec => []RecreateInv
BY InitInv, StepInv, PTL DEF Spec

(* Only the POST of create_session makes a session.                        *)
LEMMA OnlyPostMakes ==
  ASSUME [Next]_vars, made' # made
  PROVE  \E t \in Thread : Post(t)
<1>1. ASSUME NEW t \in Thread, Step(t) PROVE Post(t)
  BY <1>1 DEF Step, Recreation, ReadSession, Served, Broken, Invalid, Recheck,
     Store, Replay, Reread, Unlock, ReadForText, Value, ReadBack, phoneVars
<1>2. ASSUME NEW t \in Thread, Lock(t) PROVE FALSE
  BY <1>2 DEF Lock, phoneVars
<1>3. ASSUME NEW t \in Caller, Start(t) PROVE FALSE
  BY <1>3 DEF Start, Begin, phoneVars
<1>4. CASE Configure \/ Delete \/ DeleteSession \/ Lose \/ TurnLock
  BY <1>4 DEF Configure, Delete, Begin, DeleteSession, Lose, TurnLock, phoneVars
<1>5. CASE UNCHANGED vars
  BY <1>5 DEF vars, phoneVars
<1> QED
  BY <1>1, <1>2, <1>3, <1>4, <1>5 DEF Next

(* No clone makes a session while the shared one lives, however many       *)
(* callers meet the same loss (wda.rs recreate_session_unless_replaced).   *)
THEOREM NoSelfEvictionHolds == Spec => NoSelfEviction
<1>1. RecreateInv /\ [Next]_vars
        => [made' # made => sid = NoSession \/ sid # wda]_vars
  <2> SUFFICES ASSUME RecreateInv, [Next]_vars, made' # made
               PROVE  sid = NoSession \/ sid # wda
    OBVIOUS
  <2>1. PICK t \in Thread : Post(t)
    BY OnlyPostMakes
  <2>2. pc[t] = "post"
    BY <2>1 DEF Post
  <2> QED
    BY <2>2 DEF RecreateInv, StaleIsDead
<1> QED
  BY <1>1, RecreateInvariant, PTL DEF Spec, NoSelfEviction
-----------------------------------------------------------------------------
(* The shape of the state, in three parts: places, locals and the rest.    *)
Result == {"none", "ok", "wda_session_failed", "session_gone", "device_locked",
           "no_active_element", "text_unconfirmed"}
Call == {"none", "locked", "send", "element", "verdict", "settle"}

PlaceType ==
  /\ pc \in [Thread -> Place] /\ op \in [Thread -> Operation]
  /\ result \in [Thread -> Result]

LocalType ==
  /\ call \in [Thread -> Call] /\ session \in [Thread -> SessionId]
  /\ element \in [Thread -> SessionId] /\ polls \in [Thread -> 0..SettlePolls]
  /\ typed \in [Thread -> BOOLEAN] /\ unlocked \in [Thread -> BOOLEAN]
  /\ losses \in [Thread -> 0..2]

SharedType ==
  /\ wda \in SessionId /\ made \in SessionId /\ sid \in SessionId
  /\ tuned \in BOOLEAN /\ locked \in BOOLEAN /\ mjpeg \in BOOLEAN
  /\ recreate \in Thread \cup {NoThread} /\ untuned \in BOOLEAN

LEMMA TypeParts == TypeOK <=> PlaceType /\ LocalType /\ SharedType
BY DEF TypeOK, PlaceType, LocalType, SharedType, Result, Call

LEMMA TypePartsNext == TypeOK' <=> PlaceType' /\ LocalType' /\ SharedType'
BY DEF TypeOK, PlaceType, LocalType, SharedType, Result, Call

LEMMA GotoType ==
  ASSUME PlaceType, NEW t \in Thread, NEW p \in Place, Goto(t, p)
  PROVE  PlaceType'
BY DEF PlaceType, Goto

LEMMA BeginType ==
  ASSUME TypeOK, NEW t \in Thread, NEW o \in Operation, NEW first \in Call,
         Begin(t, o, first), mjpeg' \in BOOLEAN
  PROVE  TypeOK'
<1> USE TypeParts
<1>1. PlaceType'
  BY DEF Begin, PlaceType, Place, Recreating, Result
<1>2. LocalType'
  BY DEF Begin, LocalType, SharedType
<1>3. SharedType'
  BY DEF Begin, SharedType, phoneVars
<1> QED
  BY <1>1, <1>2, <1>3, TypePartsNext

(* An operation that ends, with losses for it or for everybody.            *)
LEMMA EndType ==
  ASSUME PlaceType, LocalType, NEW t \in Thread, NEW code \in Result, End(t, code),
         losses' \in [Thread -> 0..2]
  PROVE  PlaceType' /\ LocalType'
<1>1. PlaceType'
  BY DEF End, PlaceType, Place, Operation
<1>2. NoSession \in SessionId /\ 0 \in 0..SettlePolls
  BY ClientAssumption DEF NoSession, SessionId
<1>3. LocalType'
  BY <1>2 DEF End, LocalType, Call
<1> QED
  BY <1>1, <1>3

LEMMA FinishType ==
  ASSUME PlaceType, LocalType, NEW t \in Thread, NEW code \in Result, Finish(t, code)
  PROVE  PlaceType' /\ LocalType'
<1>1. End(t, code) /\ losses' \in [Thread -> 0..2]
  BY DEF Finish, LocalType
<1> QED
  BY <1>1, EndType

LEMMA LostType == LocalType => Lost \in [Thread -> 0..2]
BY DEF LocalType, Lost, Upto2

(* What an answer leaves of the types.                                     *)
LEMMA AnswerType ==
  ASSUME TypeOK, NEW t \in Thread, Answer(t)
  PROVE  PlaceType' /\ LocalType' /\ tuned' \in BOOLEAN
<1> USE TypeParts
<1>0. {"read", "unlock", "write"} \subseteq Place
  BY DEF Place
<1>6. tuned' \in BOOLEAN
  BY DEF Answer, AnswerLocked, AnswerSend, AnswerElement, AnswerVerdict,
     AnswerSettle, SharedType
<1> SUFFICES PlaceType' /\ LocalType'
  BY <1>6
<1>1. CASE AnswerLocked(t)
  <2>1. CASE Finish(t, "device_locked") \/ Finish(t, "ok")
    BY <2>1, FinishType DEF Result
  <2>2. ASSUME NEW c \in {"send", "element"}, Continue(t, c)
        PROVE  PlaceType' /\ LocalType'
    BY <1>0, <2>2, GotoType DEF Continue, LocalType, historyVars, Call
  <2>3. CASE Goto(t, "unlock") /\ UNCHANGED localVars
    BY <1>0, <2>3, GotoType DEF LocalType, localVars, historyVars
  <2> QED
    BY <1>1, <2>1, <2>2, <2>3 DEF AnswerLocked
<1>2. CASE AnswerSend(t)
  BY <1>2, FinishType DEF AnswerSend, Result
<1>3. CASE AnswerElement(t)
  <2>1. CASE Finish(t, "no_active_element")
    BY <2>1, FinishType DEF Result
  <2>2. CASE /\ element' = [element EXCEPT ![t] = session[t]] /\ Goto(t, "write")
             /\ UNCHANGED <<call, session, polls, historyVars>>
    BY <1>0, <2>2, GotoType DEF LocalType, historyVars
  <2> QED
    BY <1>3, <2>1, <2>2 DEF AnswerElement
<1>4. CASE AnswerVerdict(t)
  BY <1>4, FinishType DEF AnswerVerdict, Result
<1>5. CASE AnswerSettle(t)
  <2>1. CASE Finish(t, "ok") \/ Finish(t, "device_locked")
    BY <2>1, FinishType DEF Result
  <2>2. CASE /\ polls[t] > 0 /\ polls' = [polls EXCEPT ![t] = @ - 1]
             /\ Goto(t, "read") /\ UNCHANGED <<call, session, element, historyVars>>
    <3>1. polls' \in [Thread -> 0..SettlePolls]
      BY <2>2, ClientAssumption DEF LocalType
    <3> QED
      BY <1>0, <2>2, <3>1, GotoType DEF LocalType, historyVars
  <2> QED
    BY <1>5, <2>1, <2>2 DEF AnswerSettle
<1> QED
  BY <1>1, <1>2, <1>3, <1>4, <1>5 DEF Answer

(* Every step keeps the shape of the state.                                *)
LEMMA StepType ==
  ASSUME TypeOK, RecreateInv, [Next]_vars
  PROVE  TypeOK'
<1> USE TypeParts, TypePartsNext
<1>0. Place = {"recheck", "post", "store", "replay", "idle", "read", "request",
               "lock", "reread", "retry", "unlock", "write", "value", "readback"}
  BY DEF Place, Recreating
<1>1. ASSUME NEW t \in Thread, Step(t) PROVE TypeOK'
  <2>1. CASE ReadSession(t)
    <3>1. losses' \in [Thread -> 0..2]
      BY <2>1 DEF ReadSession, RecreateInv, Ids, LocalType, Upto2
    <3> QED
      BY <1>0, <2>1, <3>1, GotoType DEF ReadSession, LocalType, SharedType, phoneVars,
         clientVars
  <2>2. CASE Served(t)
    <3>1. PlaceType' /\ LocalType' /\ tuned' \in BOOLEAN
      BY <2>2, AnswerType DEF Served
    <3> QED
      BY <2>2, <3>1 DEF Served, SharedType, clientVars
  <2>3. CASE Broken(t)
    <3>1. PlaceType' /\ LocalType'
      BY <2>3, FinishType DEF Broken, Result
    <3> QED
      BY <2>3, <3>1 DEF Broken, SharedType, clientVars
  <2>4. CASE Invalid(t)
    <3>1. CASE Finish(t, "session_gone")
      BY <2>4, <3>1, FinishType DEF Invalid, Result, SharedType, phoneVars, clientVars
    <3>2. CASE Goto(t, "lock") /\ UNCHANGED localVars
      BY <1>0, <2>4, <3>2, GotoType DEF Invalid, LocalType, SharedType, phoneVars,
         clientVars, localVars, historyVars
    <3> QED
      BY <2>4, <3>1, <3>2 DEF Invalid
  <2>5. CASE Recheck(t)
    BY <1>0, <2>5, GotoType DEF Recheck, Release, LocalType, SharedType, phoneVars,
       localVars, historyVars
  <2>6. CASE Post(t)
    <3>1. CASE Finish(t, "wda_session_failed") /\ Release(t)
      <4>1. PlaceType' /\ LocalType'
        BY <3>1, FinishType DEF Result
      <4>2. recreate' \in Thread \cup {NoThread}
        BY <3>1 DEF Release, SharedType
      <4>3. CASE UNCHANGED <<made, wda, tuned>>
        BY <2>6, <4>1, <4>2, <4>3 DEF Post, SharedType
      <4>4. CASE /\ made < MaxSessions /\ made' = made + 1 /\ wda' = made + 1
                 /\ tuned' = FALSE
        <5>1. made + 1 \in SessionId
          BY <4>4, ClientAssumption DEF SharedType, SessionId
        <5> QED
          BY <2>6, <4>1, <4>2, <4>4, <5>1 DEF Post, SharedType
      <4> QED
        BY <2>6, <4>3, <4>4 DEF Post
    <3>2. CASE /\ made < MaxSessions /\ made' = made + 1 /\ wda' = made + 1
               /\ tuned' = FALSE /\ session' = [session EXCEPT ![t] = made + 1]
               /\ Goto(t, "store")
               /\ UNCHANGED <<recreate, call, element, polls, historyVars>>
      <4>1. made + 1 \in SessionId
        BY <3>2, ClientAssumption DEF SharedType, SessionId
      <4>2. LocalType' /\ SharedType'
        BY <2>6, <3>2, <4>1 DEF Post, LocalType, SharedType, historyVars
      <4> QED
        BY <1>0, <3>2, <4>2, GotoType
    <3> QED
      BY <2>6, <3>1, <3>2 DEF Post
  <2>7. CASE Store(t)
    <3>1. SharedType'
      BY <2>7 DEF Store, SharedType, LocalType, phoneVars
    <3>2. CASE Finish(t, "ok")
      BY <3>1, <3>2, FinishType DEF Result
    <3>3. CASE Goto(t, "replay") /\ UNCHANGED localVars
      BY <1>0, <3>1, <3>3, GotoType DEF LocalType, localVars, historyVars
    <3> QED
      BY <2>7, <3>2, <3>3 DEF Store
  <2>8. CASE Replay(t)
    <3>1. SharedType'
      BY <2>8 DEF Replay, Release, SharedType
    <3>2. CASE Finish(t, "wda_session_failed")
      BY <3>1, <3>2, FinishType DEF Result
    <3>3. CASE Goto(t, "reread") /\ UNCHANGED localVars
      BY <1>0, <3>1, <3>3, GotoType DEF LocalType, localVars, historyVars
    <3> QED
      BY <2>8, <3>2, <3>3 DEF Replay
  <2>9. CASE Reread(t)
    BY <1>0, <2>9, GotoType DEF Reread, LocalType, SharedType, phoneVars, clientVars,
       historyVars
  <2>10. CASE Unlock(t)
    <3>1. LocalType'
      BY <2>10, ClientAssumption DEF Unlock, SetLocked, LocalType, SharedType, Call
    <3>2. SharedType'
      BY <2>10 DEF Unlock, SetLocked, SharedType, clientVars
    <3> QED
      BY <1>0, <2>10, <3>1, <3>2, GotoType DEF Unlock
  <2>11. CASE ReadForText(t)
    BY <1>0, <2>11, GotoType DEF ReadForText, LocalType, SharedType, phoneVars,
       clientVars, historyVars
  <2>12. CASE Value(t)
    <3>1. SharedType'
      BY <2>12 DEF Value, SharedType, phoneVars, clientVars
    <3>2. CASE Finish(t, "wda_session_failed")
      BY <3>1, <3>2, FinishType DEF Result
    <3>3. CASE /\ typed' \in {typed, [typed EXCEPT ![t] = TRUE]} /\ Goto(t, "readback")
               /\ UNCHANGED <<call, session, element, polls, unlocked, losses>>
      BY <1>0, <3>1, <3>3, GotoType DEF LocalType
    <3> QED
      BY <2>12, <3>2, <3>3 DEF Value
  <2>13. CASE ReadBack(t)
    <3>1. \E code \in Result : Finish(t, code)
      BY <2>13 DEF ReadBack, Result
    <3> QED
      BY <2>13, <3>1, FinishType DEF ReadBack, SharedType, phoneVars, clientVars
  <2> QED
    BY <1>1, <2>1, <2>2, <2>3, <2>4, <2>5, <2>6, <2>7, <2>8, <2>9, <2>10, <2>11,
       <2>12, <2>13 DEF Step, Recreation
<1>2. ASSUME NEW t \in Thread, Lock(t) PROVE TypeOK'
  BY <1>0, <1>2, GotoType DEF Lock, LocalType, SharedType, phoneVars, localVars,
     historyVars
<1>3. ASSUME NEW t \in Caller, Start(t) PROVE TypeOK'
  <2>1. t \in Thread /\ mjpeg' \in BOOLEAN
    BY <1>3 DEF Thread, Start, SharedType
  <2>2. \E o \in Operation, first \in Call : Begin(t, o, first)
    BY <1>3 DEF Start, Operation, Call
  <2> QED
    BY <2>1, <2>2, BeginType
<1>4. CASE Configure \/ Delete
  <2>1. Supervisor \in Thread /\ mjpeg' \in BOOLEAN
    BY <1>4 DEF Thread, Configure, Delete, SharedType
  <2>2. \E o \in Operation, first \in Call : Begin(Supervisor, o, first)
    BY <1>4 DEF Configure, Delete, Operation, Call
  <2> QED
    BY <2>1, <2>2, BeginType
<1>5. CASE DeleteSession
  <2>1. Supervisor \in Thread /\ NoSession \in SessionId
    BY ClientAssumption DEF Thread, NoSession, SessionId
  <2>2. SharedType'
    BY <1>5, <2>1 DEF DeleteSession, SharedType, clientVars
  <2>3. losses' \in [Thread -> 0..2]
    BY <1>5, LostType DEF DeleteSession, LocalType
  <2> QED
    BY <1>5, <2>1, <2>2, <2>3, EndType DEF DeleteSession, Result
<1>6. CASE Lose
  <2>1. NoSession \in SessionId
    BY ClientAssumption DEF NoSession, SessionId
  <2> QED
    BY <1>6, <2>1, LostType DEF Lose, PlaceType, LocalType, SharedType, clientVars,
       placeVars
<1>7. CASE TurnLock
  BY <1>7 DEF TurnLock, SetLocked, PlaceType, LocalType, SharedType, clientVars,
     placeVars
<1>8. CASE UNCHANGED vars
  BY <1>8 DEF vars, phoneVars, clientVars, placeVars, localVars, historyVars,
     PlaceType, LocalType, SharedType
<1> QED
  BY <1>1, <1>2, <1>3, <1>4, <1>5, <1>6, <1>7, <1>8 DEF Next

-----------------------------------------------------------------------------
(* An operation's calls are its own, and what it saw of the screen lock.   *)

(* Thread t is left at place p with operation o, call c and result r.      *)
Fitting(p, o, c, r) ==
  /\ c = "send" => o \in {"poll", "tap", "configure", "delete"}
  /\ c = "element" => o = "text"
  /\ c \in {"verdict", "settle"} \/ p = "unlock" => o = "wake"
  /\ p \in {"write", "value", "readback"} => o = "text"
  /\ p # "idle" => r = "none"

LEMMA OneMoves ==
  ASSUME TypeOK, CallsFit, NEW t \in Thread, NEW p, NEW o, NEW c, NEW r,
         pc' = [pc EXCEPT ![t] = p], op' = [op EXCEPT ![t] = o],
         call' = [call EXCEPT ![t] = c], result' = [result EXCEPT ![t] = r],
         Fitting(p, o, c, r)
  PROVE  CallsFit'
<1> SUFFICES ASSUME NEW u \in Thread
             PROVE  Fitting(pc'[u], op'[u], call'[u], result'[u])
  BY DEF CallsFit, Fitting
<1>1. CASE u = t
  BY <1>1 DEF TypeOK
<1>2. CASE u # t
  <2>1. pc'[u] = pc[u] /\ op'[u] = op[u] /\ call'[u] = call[u] /\ result'[u] = result[u]
    BY <1>2 DEF TypeOK
  <2> QED
    BY <2>1 DEF CallsFit, Fitting
<1> QED
  BY <1>1, <1>2

LEMMA EndFits ==
  ASSUME TypeOK, CallsFit, UnlockIsSeen, NEW t \in Thread, NEW code, End(t, code),
         locked' = locked
  PROVE  CallsFit' /\ UnlockIsSeen'
<1>1. CallsFit'
  <2>1. Fitting("idle", op'[t], "none", code)
    BY DEF Fitting
  <2>2. op' = [op EXCEPT ![t] = op'[t]]
    BY DEF End, TypeOK
  <2> QED
    BY <2>1, <2>2, OneMoves DEF End
<1>2. UnlockIsSeen'
  BY DEF End, UnlockIsSeen, TypeOK, Thread
<1> QED
  BY <1>1, <1>2

(* A thread goes on to place p with call c, having seen no more.           *)
LEMMA GotoFits ==
  ASSUME TypeOK, CallsFit, UnlockIsSeen, NEW t \in Thread, pc[t] # "idle",
         NEW p, Goto(t, p), NEW c, call' = [call EXCEPT ![t] = c],
         Fitting(p, op[t], c, "none"), UNCHANGED <<locked, unlocked>>,
         c = "send" => call[t] = "send" \/ ~locked
  PROVE  CallsFit' /\ UnlockIsSeen'
<1>1. CallsFit'
  <2>1. result[t] = "none"
    BY DEF CallsFit
  <2>2. op' = [op EXCEPT ![t] = op[t]] /\ result' = [result EXCEPT ![t] = "none"]
    BY <2>1 DEF Goto, TypeOK
  <2> QED
    BY <2>2, OneMoves DEF Goto
<1>2. UnlockIsSeen'
  BY DEF Goto, UnlockIsSeen, TypeOK, Thread
<1> QED
  BY <1>1, <1>2

LEMMA StayFits ==
  ASSUME TypeOK, CallsFit, UnlockIsSeen, NEW t \in Thread, pc[t] # "idle",
         NEW p \in Place \ {"unlock", "write", "value", "readback"}, Goto(t, p),
         UNCHANGED <<call, locked, unlocked>>
  PROVE  CallsFit' /\ UnlockIsSeen'
<1>1. call' = [call EXCEPT ![t] = call[t]]
  BY DEF TypeOK
<1>2. Fitting(p, op[t], call[t], "none")
  BY DEF CallsFit, Fitting
<1> QED
  BY <1>1, <1>2, GotoFits

LEMMA BeginFits ==
  ASSUME TypeOK, CallsFit, UnlockIsSeen, NEW t \in Thread, NEW o, NEW first,
         Begin(t, o, first), Fitting("read", o, first, "none"),
         o = "tap" => first # "send"
  PROVE  CallsFit' /\ UnlockIsSeen'
<1>1. CallsFit'
  BY OneMoves DEF Begin
<1>2. UnlockIsSeen'
  BY DEF Begin, UnlockIsSeen, TypeOK, Thread, phoneVars
<1> QED
  BY <1>1, <1>2

LEMMA AnswerFits ==
  ASSUME TypeOK, CallsFit, UnlockIsSeen, NEW t \in Thread, pc[t] # "idle",
         Answer(t), locked' = locked
  PROVE  CallsFit' /\ UnlockIsSeen'
<1>0. {"read", "unlock", "write"} \subseteq Place
  BY DEF Place
<1>1. ASSUME NEW code, Finish(t, code) PROVE CallsFit' /\ UnlockIsSeen'
  BY <1>1, EndFits DEF Finish
<1>2. CASE AnswerLocked(t)
  <2>1. CASE ~locked /\ op[t] = "tap" /\ Continue(t, "send")
    <3>1. Fitting("read", op[t], "send", "none")
      BY <2>1 DEF Fitting
    <3> QED
      BY <2>1, <3>1, GotoFits DEF Continue, historyVars
  <2>2. CASE op[t] = "text" /\ Continue(t, "element")
    <3>1. Fitting("read", op[t], "element", "none")
      BY <2>2 DEF Fitting
    <3> QED
      BY <2>2, <3>1, GotoFits DEF Continue, historyVars
  <2>3. CASE op[t] = "wake" /\ Goto(t, "unlock") /\ UNCHANGED localVars
    <3>1. Fitting("unlock", op[t], "locked", "none")
      BY <2>3 DEF Fitting
    <3>2. call' = [call EXCEPT ![t] = "locked"]
      BY <1>2, <2>3 DEF AnswerLocked, TypeOK, localVars
    <3> QED
      BY <2>3, <3>1, <3>2, GotoFits DEF localVars, historyVars
  <2> QED
    BY <1>1, <1>2, <2>1, <2>2, <2>3 DEF AnswerLocked
<1>3. CASE AnswerElement(t)
  <2>1. CASE /\ Goto(t, "write") /\ UNCHANGED <<call, session, polls, historyVars>>
    <3>1. call' = [call EXCEPT ![t] = "element"]
      BY <1>3, <2>1 DEF AnswerElement, TypeOK
    <3>2. Fitting("write", op[t], "element", "none")
      BY <1>3 DEF AnswerElement, CallsFit, Fitting
    <3> QED
      BY <2>1, <3>1, <3>2, GotoFits DEF historyVars
  <2> QED
    BY <1>1, <1>3, <2>1 DEF AnswerElement
<1>4. CASE AnswerSettle(t)
  BY <1>0, <1>1, <1>4, StayFits DEF AnswerSettle, historyVars
<1>5. CASE AnswerSend(t) \/ AnswerVerdict(t)
  BY <1>1, <1>5 DEF AnswerSend, AnswerVerdict
<1> QED
  BY <1>2, <1>3, <1>4, <1>5 DEF Answer

(* The screen lock moves under everybody.                                  *)
LEMMA SetLockedSeen ==
  ASSUME TypeOK, UnlockIsSeen, NEW value, SetLocked(value), UNCHANGED op,
         \A c \in Caller : /\ pc'[c] # "idle" => pc[c] # "idle"
                           /\ call'[c] = "send" => call[c] = "send"
  PROVE  UnlockIsSeen'
<1> SUFFICES ASSUME NEW c \in Caller, pc'[c] # "idle"
             PROVE  /\ ~locked' => unlocked'[c]
                    /\ op'[c] = "tap" /\ call'[c] = "send" => unlocked'[c]
  BY DEF UnlockIsSeen
<1>1. c \in Thread /\ pc[c] # "idle"
  BY DEF Thread
<1>2. unlocked'[c] = (unlocked[c] \/ (pc[c] # "idle" /\ ~value)) /\ locked' = value
  BY <1>1, Zenon DEF SetLocked
<1>3. op[c] = "tap" /\ call[c] = "send" => unlocked[c]
  BY <1>1 DEF UnlockIsSeen
<1> QED
  BY <1>1, <1>2, <1>3, Zenon

LEMMA StepFits ==
  ASSUME TypeOK, CallsFit, UnlockIsSeen, [Next]_vars
  PROVE  CallsFit' /\ UnlockIsSeen'
<1>0. Place = {"recheck", "post", "store", "replay", "idle", "read", "request",
               "lock", "reread", "retry", "unlock", "write", "value", "readback"}
  BY DEF Place, Recreating
<1>1. ASSUME NEW t \in Thread, Step(t) PROVE CallsFit' /\ UnlockIsSeen'
  <2>0. ASSUME NEW code, Finish(t, code), locked' = locked
        PROVE  CallsFit' /\ UnlockIsSeen'
    BY <2>0, EndFits DEF Finish
  <2>1. CASE ReadSession(t)
    BY <1>0, <2>1, StayFits DEF ReadSession, phoneVars
  <2>2. CASE Served(t)
    BY <2>2, AnswerFits DEF Served
  <2>3. CASE Broken(t) \/ ReadBack(t)
    BY <2>0, <2>3 DEF Broken, ReadBack, phoneVars
  <2>4. CASE Invalid(t)
    BY <1>0, <2>0, <2>4, StayFits DEF Invalid, phoneVars, localVars, historyVars
  <2>5. CASE Recheck(t)
    BY <1>0, <2>5, StayFits DEF Recheck, phoneVars, localVars, historyVars
  <2>6. CASE Post(t)
    BY <1>0, <2>0, <2>6, StayFits DEF Post, historyVars
  <2>7. CASE Store(t)
    BY <1>0, <2>0, <2>7, StayFits DEF Store, phoneVars, localVars, historyVars
  <2>8. CASE Replay(t)
    BY <1>0, <2>0, <2>8, StayFits DEF Replay, localVars, historyVars
  <2>9. CASE Reread(t)
    BY <1>0, <2>9, StayFits DEF Reread, phoneVars, historyVars
  <2>10. CASE Unlock(t)
    <3>1. PICK c \in {"settle", "verdict"} : call' = [call EXCEPT ![t] = c]
      BY <2>10 DEF Unlock
    <3>2. op[t] = "wake" /\ result[t] = "none" /\ Goto(t, "read")
      BY <2>10 DEF Unlock, CallsFit
    <3>3. Fitting("read", "wake", c, "none")
      BY DEF Fitting
    <3>4. /\ op' = [op EXCEPT ![t] = "wake"] /\ result' = [result EXCEPT ![t] = "none"]
          /\ pc' = [pc EXCEPT ![t] = "read"] /\ op' = op
      BY <3>2 DEF Goto, TypeOK
    <3>5. CallsFit'
      BY <3>1, <3>3, <3>4, OneMoves
    <3>6. \A u \in Caller : /\ pc'[u] # "idle" => pc[u] # "idle"
                            /\ call'[u] = "send" => call[u] = "send"
      BY <2>10, <3>1, <3>4 DEF Unlock, TypeOK, Thread
    <3>7. UnlockIsSeen'
      BY <2>10, <3>4, <3>6, SetLockedSeen DEF Unlock
    <3> QED
      BY <3>5, <3>7
  <2>11. CASE ReadForText(t)
    <3>1. Fitting("value", op[t], call[t], "none") /\ call' = [call EXCEPT ![t] = call[t]]
      BY <2>11 DEF ReadForText, CallsFit, Fitting, TypeOK
    <3> QED
      BY <2>11, <3>1, GotoFits DEF ReadForText, phoneVars, historyVars
  <2>12. CASE Value(t)
    <3>1. CASE Goto(t, "readback") /\ UNCHANGED <<call, unlocked>>
      <4>1. /\ Fitting("readback", op[t], call[t], "none")
            /\ call' = [call EXCEPT ![t] = call[t]]
        BY <2>12, <3>1 DEF Value, CallsFit, Fitting, TypeOK
      <4> QED
        BY <2>12, <3>1, <4>1, GotoFits DEF Value, phoneVars
    <3> QED
      BY <2>0, <2>12, <3>1 DEF Value, phoneVars
  <2> QED
    BY <1>1, <2>1, <2>2, <2>3, <2>4, <2>5, <2>6, <2>7, <2>8, <2>9, <2>10, <2>11,
       <2>12 DEF Step, Recreation
<1>2. ASSUME NEW t \in Thread, Lock(t) PROVE CallsFit' /\ UnlockIsSeen'
  BY <1>0, <1>2, StayFits DEF Lock, phoneVars, localVars, historyVars
<1>3. ASSUME NEW t \in Caller, Start(t) PROVE CallsFit' /\ UnlockIsSeen'
  <2>1. t \in Thread
    BY DEF Thread
  <2>2. CASE Begin(t, "poll", "send")
    BY <2>1, <2>2, BeginFits DEF Fitting
  <2>3. ASSUME NEW o \in {"tap", "text", "wake"}, Begin(t, o, "locked")
        PROVE  CallsFit' /\ UnlockIsSeen'
    BY <2>1, <2>3, BeginFits DEF Fitting
  <2> QED
    BY <1>3, <2>2, <2>3 DEF Start
<1>4. CASE Configure \/ Delete
  BY <1>4, BeginFits DEF Configure, Delete, Fitting, Thread
<1>5. CASE DeleteSession
  BY <1>5, EndFits DEF DeleteSession, Thread
<1>6. CASE TurnLock
  <2>1. CallsFit'
    BY <1>6 DEF TurnLock, CallsFit, placeVars
  <2>2. UnlockIsSeen'
    BY <1>6, SetLockedSeen DEF TurnLock, placeVars
  <2> QED
    BY <2>1, <2>2
<1>7. CASE UNCHANGED <<pc, op, result, call, locked, unlocked>>
  BY <1>7 DEF CallsFit, UnlockIsSeen
<1>8. CASE Lose \/ UNCHANGED vars
  BY <1>7, <1>8 DEF Lose, vars, phoneVars, placeVars, localVars, historyVars
<1> QED
  BY <1>1, <1>2, <1>3, <1>4, <1>5, <1>6, <1>8 DEF Next

-----------------------------------------------------------------------------
(* The shared id only grows.  A step of t that stores nothing and leaves   *)
(* t with an id no later than the shared one keeps it so.                  *)
LEMMA QuietGrows ==
  ASSUME TypeOK, SharedIdGrows, NEW t \in Thread, NEW p, p # "store",
         NEW x \in SessionId, x =< sid, pc' = [pc EXCEPT ![t] = p],
         session' = [session EXCEPT ![t] = x],
         UNCHANGED <<sid, made>>, wda' \in {wda, NoSession},
         op'[Supervisor] # "create" \/ result'[Supervisor] = "ok"
           => op[Supervisor] # "create" \/ result[Supervisor] = "ok"
  PROVE  SharedIdGrows'
BY DEF SharedIdGrows, TypeOK

(* Whoever is at work outside the first create_session runs after it.      *)
LEMMA AfterFirst ==
  ASSUME RecreateInv, SharedIdGrows, NEW t \in Thread, pc[t] # "idle",
         op[t] # "create"
  PROVE  op[Supervisor] # "create" /\ sid # NoSession
BY AtWork DEF SharedIdGrows

LEMMA EndGrows ==
  ASSUME TypeOK, RecreateInv, SharedIdGrows, NEW t \in Thread, pc[t] # "idle",
         NEW code, End(t, code), code # "ok" \/ op[t] # "create",
         UNCHANGED <<sid, made>>, wda' \in {wda, NoSession}
  PROVE  SharedIdGrows'
<1>1. NoSession \in SessionId /\ NoSession =< sid
  BY ClientAssumption DEF NoSession, SessionId, TypeOK
<1>2. op'[Supervisor] # "create" \/ result'[Supervisor] = "ok"
        => op[Supervisor] # "create" \/ result[Supervisor] = "ok"
  BY AfterFirst DEF End, TypeOK, Thread
<1> QED
  BY <1>1, <1>2, QuietGrows DEF End

LEMMA GotoGrows ==
  ASSUME TypeOK, SharedIdGrows, NEW t \in Thread, NEW p, p # "store", Goto(t, p),
         UNCHANGED <<sid, made, wda>>,
         session' = [session EXCEPT ![t] = sid]
           \/ (UNCHANGED session /\ pc[t] # "store")
  PROVE  SharedIdGrows'
<1>1. CASE session' = [session EXCEPT ![t] = sid]
  <2>1. sid =< sid /\ sid \in SessionId
    BY DEF TypeOK, SessionId
  <2> QED
    BY <1>1, <2>1, QuietGrows DEF Goto
<1>2. CASE UNCHANGED session /\ pc[t] # "store"
  <2>1. session[t] =< sid /\ session[t] \in SessionId
    BY <1>2 DEF SharedIdGrows, TypeOK
  <2>2. session' = [session EXCEPT ![t] = session[t]]
    BY <1>2 DEF TypeOK
  <2> QED
    BY <2>1, <2>2, QuietGrows DEF Goto
<1> QED
  BY <1>1, <1>2

(* One thread at a time is at the POST or at the id it has to store.       *)
LEMMA OneRecreates ==
  ASSUME RecreateInv, NEW t \in Thread, NEW u \in Thread,
         pc[t] \in Recreating, pc[u] \in Recreating
  PROVE  t = u
<1>1. CASE op[t] = "create" \/ op[u] = "create"
  BY <1>1 DEF RecreateInv, FirstIsAlone, Thread, Recreating
<1>2. CASE op[t] # "create" /\ op[u] # "create"
  BY <1>2 DEF RecreateInv, HolderRecreates
<1> QED
  BY <1>1, <1>2

LEMMA StepGrows ==
  ASSUME TypeOK, RecreateInv, SharedIdGrows, [Next]_vars
  PROVE  SharedIdGrows'
<1>1. ASSUME NEW t \in Thread, Step(t) PROVE SharedIdGrows'
  <2>0. ASSUME NEW code, Finish(t, code), pc[t] # "idle", UNCHANGED <<sid, made, wda>>,
               code # "ok" \/ op[t] # "create"
        PROVE  SharedIdGrows'
    BY <2>0, EndGrows DEF Finish
  <2>1. CASE ReadSession(t)
    BY <2>1, GotoGrows DEF ReadSession, phoneVars, clientVars
  <2>2. CASE Served(t)
    <3>1. pc[t] \in {"request", "retry"} /\ UNCHANGED <<sid, made, wda>> /\ Answer(t)
      BY <2>2 DEF Served, clientVars
    <3>2. op[t] # "create"
      BY <3>1, AtWork
    <3>3. CASE \E code : End(t, code)
      BY <3>1, <3>2, <3>3, EndGrows
    <3>4. CASE UNCHANGED session /\ \E p \in {"read", "unlock", "write"} : Goto(t, p)
      BY <3>1, <3>4, GotoGrows
    <3> QED
      BY <3>1, <3>3, <3>4, AnswerIs
  <2>3. CASE Broken(t)
    BY <2>0, <2>3 DEF Broken, clientVars
  <2>4. CASE Invalid(t)
    <3>1. UNCHANGED <<sid, made, wda>>
      BY <2>4 DEF Invalid, phoneVars, clientVars
    <3> QED
      BY <2>0, <2>4, <3>1, GotoGrows DEF Invalid, localVars
  <2>5. CASE Recheck(t)
    BY <2>5, GotoGrows DEF Recheck, phoneVars, localVars
  <2>6. CASE Post(t)
    <3>1. CASE Finish(t, "wda_session_failed") /\ UNCHANGED <<made, wda>>
      BY <2>0, <2>6, <3>1 DEF Post
    <3>2. CASE Finish(t, "wda_session_failed") /\ made' = made + 1 /\ wda' = made + 1
      <4>1. /\ pc' = [pc EXCEPT ![t] = "idle"]
            /\ session' = [session EXCEPT ![t] = NoSession] /\ sid' = sid
        BY <2>6, <3>2 DEF Post, Finish, End
      <4>2. \A u \in Thread :
              IF pc'[u] = "store" THEN sid' < session'[u] ELSE session'[u] =< sid'
        BY <4>1 DEF TypeOK, SharedIdGrows, NoSession, SessionId
      <4>3. op'[Supervisor] # "create" \/ result'[Supervisor] = "ok"
              => op[Supervisor] # "create" \/ result[Supervisor] = "ok"
        BY <3>2 DEF Finish, End, TypeOK, Thread
      <4> QED
        BY <3>2, <4>1, <4>2, <4>3 DEF SharedIdGrows
    <3>3. CASE /\ made' = made + 1 /\ wda' = made + 1
               /\ session' = [session EXCEPT ![t] = made + 1] /\ Goto(t, "store")
      <4>1. sid' = sid /\ sid < made + 1 /\ UNCHANGED <<op, result>>
            /\ pc' = [pc EXCEPT ![t] = "store"]
        BY <2>6, <3>3 DEF Post, RecreateInv, Ids, Goto
      <4>2. \A u \in Thread :
              IF pc'[u] = "store" THEN sid' < session'[u] ELSE session'[u] =< sid'
        BY <3>3, <4>1 DEF TypeOK, SharedIdGrows
      <4> QED
        BY <3>3, <4>1, <4>2 DEF SharedIdGrows
    <3> QED
      BY <2>6, <3>1, <3>2, <3>3 DEF Post
  <2>7. CASE Store(t)
    <3>1. /\ pc[t] = "store" /\ sid' = session[t] /\ sid < session[t]
          /\ session[t] \in SessionId /\ sid \in SessionId
          /\ UNCHANGED <<made, wda>>
      BY <2>7 DEF Store, SharedIdGrows, TypeOK, phoneVars
    <3>2. sid' # NoSession
      BY <3>1 DEF NoSession, SessionId
    <3>3. PICK p \in {"idle", "replay"}, x \in {NoSession, session[t]} :
            pc' = [pc EXCEPT ![t] = p] /\ session' = [session EXCEPT ![t] = x]
      BY <2>7 DEF Store, Finish, End, Goto, localVars, TypeOK
    <3>4. \A u \in Thread : u # t => pc[u] # "store"
      BY <3>1, OneRecreates DEF Recreating
    <3>5. \A u \in Thread : pc'[u] # "store" /\ session'[u] =< sid'
      <4> SUFFICES ASSUME NEW u \in Thread
                   PROVE  pc'[u] # "store" /\ session'[u] =< sid'
        OBVIOUS
      <4>1. CASE u = t
        BY <3>1, <3>3, <4>1 DEF TypeOK, NoSession, SessionId
      <4>2. CASE u # t
        <5>1. pc'[u] # "store" /\ session'[u] = session[u] /\ session[u] =< sid
          BY <3>3, <3>4, <4>2 DEF TypeOK, SharedIdGrows
        <5> QED
          BY <3>1, <5>1 DEF TypeOK, SessionId
      <4> QED
        BY <4>1, <4>2
    <3> QED
      BY <3>1, <3>2, <3>5 DEF SharedIdGrows
  <2>8. CASE Replay(t)
    BY <2>0, <2>8, GotoGrows DEF Replay, localVars
  <2>9. CASE Reread(t)
    BY <2>9, GotoGrows DEF Reread, phoneVars, clientVars
  <2>10. CASE Unlock(t)
    BY <2>10, GotoGrows DEF Unlock, clientVars
  <2>11. CASE ReadForText(t)
    BY <2>11, GotoGrows DEF ReadForText, phoneVars, clientVars
  <2>12. CASE Value(t)
    BY <2>0, <2>12, GotoGrows DEF Value, phoneVars, clientVars
  <2>13. CASE ReadBack(t)
    <3>1. op[t] # "create"
      BY <2>13, AtWork DEF ReadBack
    <3> QED
      BY <2>0, <2>13, <3>1 DEF ReadBack, phoneVars, clientVars
  <2> QED
    BY <1>1, <2>1, <2>2, <2>3, <2>4, <2>5, <2>6, <2>7, <2>8, <2>9, <2>10, <2>11,
       <2>12, <2>13 DEF Step, Recreation
<1>2. ASSUME NEW t \in Thread, Lock(t) PROVE SharedIdGrows'
  BY <1>2, GotoGrows DEF Lock, phoneVars, localVars
<1>3. ASSUME NEW t \in Thread, NEW o, NEW first, Begin(t, o, first),
             op[Supervisor] # "create" \/ result[Supervisor] = "ok"
      PROVE  SharedIdGrows'
  <2>1. session[t] =< sid /\ session[t] \in SessionId
    BY <1>3 DEF Begin, SharedIdGrows, TypeOK
  <2>2. session' = [session EXCEPT ![t] = session[t]]
    BY <1>3 DEF Begin, TypeOK
  <2> QED
    BY <1>3, <2>1, <2>2, QuietGrows DEF Begin, phoneVars
<1>4. ASSUME NEW t \in Caller, Start(t) PROVE SharedIdGrows'
  BY <1>3, <1>4 DEF Start, Published, Thread
<1>5. CASE Configure \/ Delete
  BY <1>3, <1>5 DEF Configure, Delete, Published, Thread
<1>6. CASE DeleteSession
  BY <1>6, EndGrows DEF DeleteSession, clientVars, Thread
<1>7. CASE Lose
  BY <1>7 DEF Lose, SharedIdGrows, clientVars, placeVars
<1>8. CASE TurnLock
  BY <1>8 DEF TurnLock, SharedIdGrows, clientVars, placeVars
<1>9. CASE UNCHANGED vars
  BY <1>9 DEF vars, SharedIdGrows, phoneVars, clientVars, placeVars, localVars
<1> QED
  BY <1>1, <1>2, <1>4, <1>5, <1>6, <1>7, <1>8, <1>9 DEF Next

-----------------------------------------------------------------------------
(* What the count of a call at place p, with id x, owes.                   *)
Owes(p, x, n) ==
  /\ p \in {"request", "lock", "recheck", "post", "retry"} => x # NoSession
  /\ p \in {"request", "lock", "recheck", "post"} /\ x # wda => n >= 1
  /\ p \in {"request", "lock", "recheck"} /\ x < sid /\ sid # wda => n = 2
  /\ p \in {"store", "replay", "reread", "retry"} => n >= 1
  /\ p \in {"store", "retry"} /\ x # wda => n = 2
  /\ p \in {"replay", "reread"} /\ sid # wda => n = 2
  /\ p \in {"request", "lock", "recheck", "reread"} =>
       \A u \in Thread : pc[u] = "store" /\ session[u] # wda => n = 2

LEMMA CountIs ==
  /\ LossesAreCounted <=>
       \A t \in Thread : op[t] # "create" => Owes(pc[t], session[t], losses[t])
  /\ LossesAreCounted' <=>
       \A t \in Thread : op'[t] # "create" => Owes(pc[t], session[t], losses[t])'
BY DEF LossesAreCounted, Owes

(* A place that owes nothing.                                              *)
Free == {"idle", "read", "unlock", "write", "value", "readback"}

LEMMA FreeOwesNothing ==
  ASSUME NEW p \in Free, NEW x, NEW n
  PROVE  Owes(p, x, n) /\ p # "store"
BY DEF Free, Owes

(* One thread moves, sessions and the shared id do not.                    *)
LEMMA OwnMove ==
  ASSUME TypeOK, LossesAreCounted, NEW t \in Thread, NEW p, NEW o, NEW x, NEW n,
         UNCHANGED <<wda, sid>>, p # "store",
         pc' = [pc EXCEPT ![t] = p], op' = [op EXCEPT ![t] = o],
         session' = [session EXCEPT ![t] = x], losses' = [losses EXCEPT ![t] = n],
         o # "create" => Owes(p, x, n)
  PROVE  LossesAreCounted'
<1> SUFFICES ASSUME NEW u \in Thread, op'[u] # "create"
             PROVE  Owes(pc[u], session[u], losses[u])'
  BY CountIs
<1>1. \A v \in Thread : pc'[v] = "store" => pc[v] = "store" /\ session'[v] = session[v]
  BY DEF TypeOK
<1>2. CASE u = t
  <2>1. pc'[u] = p /\ op'[u] = o /\ session'[u] = x /\ losses'[u] = n
    BY <1>2 DEF TypeOK
  <2> QED
    BY <1>1, <2>1 DEF Owes
<1>3. CASE u # t
  <2>1. /\ pc'[u] = pc[u] /\ op'[u] = op[u] /\ session'[u] = session[u]
        /\ losses'[u] = losses[u]
    BY <1>3 DEF TypeOK
  <2>2. Owes(pc[u], session[u], losses[u])
    BY <2>1, CountIs
  <2> QED
    BY <1>1, <2>1, <2>2 DEF Owes
<1> QED
  BY <1>2, <1>3

LEMMA EndCounts ==
  ASSUME TypeOK, LossesAreCounted, NEW t \in Thread, NEW code, Finish(t, code),
         UNCHANGED <<wda, sid>>
  PROVE  LossesAreCounted'
<1>1. op' = [op EXCEPT ![t] = op'[t]]
  BY DEF Finish, End, TypeOK
<1>2. Owes("idle", NoSession, 0) /\ "idle" # "store"
  BY FreeOwesNothing DEF Free
<1> QED
  BY <1>1, <1>2, OwnMove DEF Finish, End

LEMMA GotoCounts ==
  ASSUME TypeOK, LossesAreCounted, NEW t \in Thread, NEW p, p # "store", Goto(t, p),
         NEW x, session' = [session EXCEPT ![t] = x], UNCHANGED <<wda, sid, losses>>,
         Owes(p, x, losses[t])
  PROVE  LossesAreCounted'
<1>1. op' = [op EXCEPT ![t] = op[t]] /\ losses' = [losses EXCEPT ![t] = losses[t]]
  BY DEF Goto, TypeOK
<1> QED
  BY <1>1, OwnMove DEF Goto

(* A thread that goes on to a free place keeps its id and count.           *)
LEMMA FreeCounts ==
  ASSUME TypeOK, LossesAreCounted, NEW t \in Thread, NEW p \in Free, Goto(t, p),
         UNCHANGED <<wda, sid, losses, session>>
  PROVE  LossesAreCounted'
<1>1. session' = [session EXCEPT ![t] = session[t]]
  BY DEF TypeOK
<1> QED
  BY <1>1, FreeOwesNothing, GotoCounts

LEMMA BeginCounts ==
  ASSUME TypeOK, LossesAreCounted, NEW t \in Thread, NEW o, NEW first,
         Begin(t, o, first)
  PROVE  LossesAreCounted'
<1>1. /\ session' = [session EXCEPT ![t] = session[t]]
      /\ losses' = [losses EXCEPT ![t] = losses[t]]
  BY DEF Begin, TypeOK
<1>2. Owes("read", session[t], losses[t]) /\ "read" # "store"
  BY FreeOwesNothing DEF Free
<1>3. /\ UNCHANGED <<wda, sid>> /\ pc' = [pc EXCEPT ![t] = "read"]
      /\ op' = [op EXCEPT ![t] = o]
  BY DEF Begin, phoneVars
<1> QED
  BY <1>1, <1>2, <1>3, OwnMove

LEMMA AnswerCounts ==
  ASSUME TypeOK, LossesAreCounted, NEW t \in Thread, Answer(t), UNCHANGED <<wda, sid>>
  PROVE  LossesAreCounted'
<1>1. \/ \E code : Finish(t, code)
      \/ /\ UNCHANGED <<session, losses>>
         /\ \E p \in {"read", "unlock", "write"} : Goto(t, p)
  <2>1. CASE AnswerLocked(t)
    BY <2>1 DEF AnswerLocked, Continue, localVars, historyVars
  <2>2. CASE AnswerSend(t)
    BY <2>2 DEF AnswerSend
  <2>3. CASE AnswerElement(t)
    BY <2>3 DEF AnswerElement, historyVars
  <2>4. CASE AnswerVerdict(t)
    BY <2>4 DEF AnswerVerdict
  <2>5. CASE AnswerSettle(t)
    BY <2>5 DEF AnswerSettle, historyVars
  <2> QED
    BY <2>1, <2>2, <2>3, <2>4, <2>5 DEF Answer
<1> QED
  BY <1>1, EndCounts, FreeCounts DEF Free

(* The session goes: a call that counted on it counts one more.            *)
LEMMA LossCounts ==
  ASSUME TypeOK, RecreateInv, SharedIdGrows, LossesAreCounted,
         wda # NoSession, wda' = NoSession, sid' = sid, NEW u \in Thread,
         op[u] # "create", pc'[u] = pc[u], session'[u] = session[u],
         losses'[u] = Lost[u],
         \A v \in Thread : pc'[v] = "store"
            => pc[v] = "store" /\ session'[v] = session[v]
  PROVE  Owes(pc[u], session[u], losses[u])'
<1>1. Owes(pc[u], session[u], losses[u])
  BY CountIs
<1>2. CASE pc[u] \in Free
  BY <1>2, FreeOwesNothing DEF Owes, Free
<1>3. CASE pc[u] \notin Free
  <2>1. losses'[u] = Upto2(losses[u] + 1) /\ losses[u] \in 0..2
    BY <1>3 DEF Lost, Free, TypeOK
  <2>2. /\ losses'[u] >= 1 /\ losses'[u] \in 0..2
        /\ losses[u] >= 1 => losses'[u] = 2
    BY <2>1 DEF Upto2
  <2>3. wda = made /\ sid \in 0..made /\ made \in Nat /\ session[u] \in 0..made
    BY DEF SharedIdGrows, RecreateInv, Ids
  <2>4. ASSUME NEW v \in Thread, pc[v] = "store", session'[v] = session[v],
               pc[u] \in {"request", "lock", "recheck", "reread"}
        PROVE  losses'[u] = 2
    <3>1. CASE session[v] # wda
      BY <1>1, <2>2, <2>4, <3>1 DEF Owes
    <3>2. CASE session[v] = wda /\ pc[u] # "reread"
      <4>1. session[u] =< sid /\ sid < session[v]
        BY <2>4 DEF SharedIdGrows
      <4>2. session[u] # wda
        BY <2>3, <3>2, <4>1
      <4> QED
        BY <1>1, <2>2, <2>4, <3>2, <4>2 DEF Owes
    <3>3. CASE pc[u] = "reread"
      BY <1>1, <2>2, <3>3 DEF Owes
    <3> QED
      BY <3>1, <3>2, <3>3
  <2>5. pc[u] \in {"request", "lock", "recheck"} /\ session[u] < sid => losses'[u] = 2
    BY <1>1, <2>2, <2>3 DEF Owes
  <2> QED
    BY <1>1, <2>2, <2>4, <2>5 DEF Owes
<1> QED
  BY <1>2, <1>3

(* A new session is made by t: nobody else's id lived, or is to be stored. *)
LEMMA PostCounts ==
  ASSUME TypeOK, RecreateInv, SharedIdGrows, LossesAreCounted, NEW t \in Thread,
         pc[t] = "post", wda' = made + 1, sid' = sid, NEW u \in Thread, u # t,
         op[u] # "create", pc'[u] = pc[u], session'[u] = session[u],
         losses'[u] = losses[u],
         \A v \in Thread : pc'[v] = "store" /\ v # t => pc[v] = "store",
         pc'[t] = "store" => session'[t] = wda'
  PROVE  Owes(pc[u], session[u], losses[u])'
<1>1. Owes(pc[u], session[u], losses[u])
  BY CountIs
<1>2. CASE op[t] = "create" \/ pc[u] = "idle"
  <2>1. pc[u] = "idle"
    BY <1>2 DEF RecreateInv, FirstIsAlone, Thread
  <2> QED
    BY <2>1 DEF Owes
<1>3. CASE op[t] # "create" /\ pc[u] # "idle"
  <2>1. \A v \in Thread : pc[v] \in Recreating => v = t
    BY OneRecreates DEF Recreating
  <2>2. \A v \in Thread : pc'[v] = "store" => session'[v] = wda'
    BY <2>1 DEF Recreating
  <2>3. sid # NoSession /\ session[t] # NoSession
    BY <1>3, AfterFirst DEF LossesAreCounted
  <2>4. sid # wda
    BY <2>3 DEF RecreateInv, StaleIsDead
  <2>5. wda \in {NoSession, made} /\ session[u] =< sid
    BY <2>1 DEF SharedIdGrows, Recreating
  <2>6. made \in Nat /\ sid \in 0..made /\ session[u] \in 0..made
    BY DEF RecreateInv, Ids
  <2>7. session[u] # NoSession => session[u] # wda
    BY <2>4, <2>5, <2>6
  <2>8. pc[u] \notin {"post", "store", "replay"}
    BY <2>1 DEF Recreating
  <2> QED
    BY <1>1, <2>2, <2>4, <2>7, <2>8 DEF Owes
<1> QED
  BY <1>2, <1>3

LEMMA StepCounts ==
  ASSUME TypeOK, RecreateInv, SharedIdGrows, LossesAreCounted, [Next]_vars
  PROVE  LossesAreCounted'
<1>1. ASSUME NEW t \in Thread, Step(t) PROVE LossesAreCounted'
  <2>0. op[t] # "create" => Owes(pc[t], session[t], losses[t])
    BY CountIs
  <2>00. session = [session EXCEPT ![t] = session[t]]
    BY DEF TypeOK
  <2>1. CASE ReadSession(t)
    <3>1. /\ pc[t] = "read" /\ UNCHANGED <<wda, sid>>
          /\ pc' = [pc EXCEPT ![t] = "request"] /\ op' = [op EXCEPT ![t] = op[t]]
          /\ session' = [session EXCEPT ![t] = sid]
      BY <2>1 DEF ReadSession, Goto, TypeOK, phoneVars, clientVars
    <3> DEFINE n == Upto2(made - sid + (IF wda = NoSession THEN 1 ELSE 0))
    <3>2. losses' = [losses EXCEPT ![t] = n]
      BY <2>1 DEF ReadSession
    <3>3. sid # NoSession
      BY <3>1, AtWork, AfterFirst
    <3>4. /\ made \in Nat /\ sid \in 0..made /\ wda \in {NoSession, made}
          /\ session \in [Thread -> 0..made]
      BY DEF RecreateInv, Ids, SharedIdGrows
    <3>5. sid # wda => n >= 1
      BY <3>4 DEF Upto2
    <3>6. ASSUME NEW v \in Thread, pc[v] = "store", session[v] # wda
          PROVE  n = 2
      <4>1. sid < session[v] /\ session[v] \in 0..made
        BY <3>4, <3>6 DEF SharedIdGrows
      <4> QED
        BY <3>4, <3>6, <4>1 DEF Upto2, NoSession
    <3>7. Owes("request", sid, n)
      BY <3>3, <3>4, <3>5, <3>6 DEF Owes
    <3> HIDE DEF n
    <3> QED
      BY <3>1, <3>2, <3>7, OwnMove
  <2>2. CASE Served(t)
    BY <2>2, AnswerCounts DEF Served, clientVars
  <2>3. CASE Broken(t)
    BY <2>3, EndCounts DEF Broken, clientVars
  <2>4. CASE Invalid(t)
    <3>1. UNCHANGED <<wda, sid>>
      BY <2>4 DEF Invalid, phoneVars, clientVars
    <3>2. CASE pc[t] = "request" /\ Goto(t, "lock") /\ UNCHANGED localVars
      <4>1. op[t] # "create"
        BY <3>2, AtWork
      <4>2. Owes("lock", session[t], losses[t]) /\ "lock" # "store"
        BY <2>0, <3>2, <4>1 DEF Owes
      <4>3. UNCHANGED <<session, losses>>
        BY <3>2 DEF localVars, historyVars
      <4> QED
        BY <2>00, <3>1, <3>2, <4>2, <4>3, GotoCounts
    <3> QED
      BY <2>4, <3>1, <3>2, EndCounts DEF Invalid
  <2>5. CASE Recheck(t)
    <3>1. pc[t] = "recheck" /\ UNCHANGED <<wda, sid, session, losses>> /\ op[t] # "create"
      BY <2>5, AtWork DEF Recheck, phoneVars, localVars, historyVars
    <3>2. CASE Goto(t, "post")
      <4>1. Owes("post", session[t], losses[t]) /\ "post" # "store"
        BY <2>0, <3>1 DEF Owes
      <4> QED
        BY <2>00, <3>1, <3>2, <4>1, GotoCounts
    <3>3. CASE sid # session[t] /\ Goto(t, "reread")
      <4>1. session[t] # NoSession /\ session[t] # wda
        BY <2>0, <3>1 DEF Owes, RecreateInv, StaleIsDead
      <4>2. session[t] < sid
        BY <3>1, <3>3 DEF SharedIdGrows, TypeOK, SessionId
      <4>3. Owes("reread", session[t], losses[t]) /\ "reread" # "store"
        BY <2>0, <3>1, <4>1, <4>2 DEF Owes
      <4> QED
        BY <2>00, <3>1, <3>3, <4>3, GotoCounts
    <3> QED
      BY <2>5, <3>2, <3>3 DEF Recheck
  <2>6. CASE Post(t)
    <3>1. pc[t] = "post" /\ UNCHANGED sid
      BY <2>6 DEF Post
    <3>2. CASE UNCHANGED <<made, wda>>
      BY <2>6, <3>1, <3>2, EndCounts DEF Post, RecreateInv, Ids
    <3>3. CASE made' = made + 1 /\ wda' = made + 1
      <4>1. PICK p \in {"idle", "store"} :
              /\ pc' = [pc EXCEPT ![t] = p] /\ op' = [op EXCEPT ![t] = op'[t]]
              /\ session' = [session EXCEPT ![t] = session'[t]]
              /\ losses' = [losses EXCEPT ![t] = losses'[t]]
              /\ p = "store" => /\ session'[t] = wda' /\ op'[t] = op[t]
                                /\ losses'[t] = losses[t]
        BY <2>6, <3>1, <3>3 DEF Post, Finish, End, Goto, TypeOK, historyVars
      <4> SUFFICES ASSUME NEW u \in Thread, op'[u] # "create"
                   PROVE  Owes(pc[u], session[u], losses[u])'
        BY CountIs
      <4>2. CASE u = t /\ p = "idle"
        <5>1. pc'[u] = "idle"
          BY <4>1, <4>2 DEF TypeOK
        <5> QED
          BY <5>1 DEF Owes
      <4>3. CASE u = t /\ p = "store"
        <5>1. pc'[u] = "store" /\ session'[u] = wda' /\ losses'[u] = losses[t]
              /\ op[t] # "create"
          BY <4>1, <4>3 DEF TypeOK
        <5>2. losses[t] >= 1
          BY <2>0, <3>1, <5>1 DEF Owes, RecreateInv, StaleIsDead
        <5> QED
          BY <5>1, <5>2 DEF Owes
      <4>4. CASE u # t
        <5>1. /\ pc'[u] = pc[u] /\ op'[u] = op[u] /\ session'[u] = session[u]
              /\ losses'[u] = losses[u]
          BY <4>1, <4>4 DEF TypeOK
        <5>2. \A v \in Thread : pc'[v] = "store" /\ v # t => pc[v] = "store"
          BY <4>1 DEF TypeOK
        <5>3. pc'[t] = "store" => session'[t] = wda'
          BY <4>1 DEF TypeOK
        <5> QED
          BY <3>1, <3>3, <4>4, <5>1, <5>2, <5>3, PostCounts
      <4> QED
        BY <4>2, <4>3, <4>4
    <3> QED
      BY <2>6, <3>2, <3>3 DEF Post
  <2>7. CASE Store(t)
    <3>1. pc[t] = "store" /\ sid' = session[t] /\ UNCHANGED wda
      BY <2>7 DEF Store, phoneVars
    <3>2. \A v \in Thread : v # t => pc[v] \notin Recreating
      BY <3>1, OneRecreates DEF Recreating
    <3>3. CASE op[t] = "create" /\ Finish(t, "ok")
      <4>1. \A u \in Thread : u # t => pc[u] = "idle"
        BY <3>3 DEF RecreateInv, FirstIsAlone, Thread
      <4>2. \A u \in Thread : pc'[u] = "idle"
        BY <3>3, <4>1 DEF Finish, End, TypeOK
      <4> QED
        BY <4>2, CountIs DEF Owes
    <3>4. CASE op[t] # "create" /\ Goto(t, "replay") /\ UNCHANGED localVars
      <4>1. /\ pc' = [pc EXCEPT ![t] = "replay"]
            /\ UNCHANGED <<op, session, losses>>
        BY <3>4 DEF Goto, localVars, historyVars
      <4> SUFFICES ASSUME NEW u \in Thread, op[u] # "create"
                   PROVE  Owes(pc[u], session[u], losses[u])'
        BY <4>1, CountIs
      <4>2. Owes(pc[u], session[u], losses[u])
        BY CountIs
      <4>3. \A v \in Thread : pc'[v] # "store"
        BY <3>2, <4>1 DEF TypeOK, Recreating
      <4>4. CASE u = t
        <5>1. pc'[u] = "replay"
          BY <4>1, <4>4 DEF TypeOK
        <5> QED
          BY <3>1, <4>1, <4>2, <4>4, <5>1 DEF Owes
      <4>5. CASE u # t
        <5>1. pc'[u] = pc[u] /\ pc[u] \notin {"store", "replay"}
          BY <3>2, <4>1, <4>5 DEF TypeOK, Recreating
        <5>2. pc[u] \in {"request", "lock", "recheck", "reread"} /\ sid' # wda
                => losses[u] = 2
          BY <3>1, <4>2 DEF Owes
        <5> QED
          BY <3>1, <4>1, <4>2, <4>3, <5>1, <5>2 DEF Owes
      <4> QED
        BY <4>4, <4>5
    <3> QED
      BY <2>7, <3>3, <3>4 DEF Store
  <2>8. CASE Replay(t)
    <3>1. pc[t] = "replay" /\ UNCHANGED <<wda, sid>> /\ op[t] # "create"
      BY <2>8, AtWork DEF Replay
    <3>2. CASE Goto(t, "reread") /\ UNCHANGED localVars
      <4>1. \A v \in Thread : pc[v] # "store"
        BY <3>1, OneRecreates DEF Recreating
      <4>2. Owes("reread", session[t], losses[t]) /\ "reread" # "store"
        BY <2>0, <3>1, <4>1 DEF Owes
      <4>3. UNCHANGED <<session, losses>>
        BY <3>2 DEF localVars, historyVars
      <4> QED
        BY <2>00, <3>1, <3>2, <4>2, <4>3, GotoCounts
    <3> QED
      BY <2>8, <3>1, <3>2, EndCounts DEF Replay
  <2>9. CASE Reread(t)
    <3>1. /\ pc[t] = "reread" /\ UNCHANGED <<wda, sid, losses>> /\ op[t] # "create"
          /\ session' = [session EXCEPT ![t] = sid] /\ Goto(t, "retry")
      BY <2>9, AtWork DEF Reread, phoneVars, clientVars, historyVars
    <3>2. sid # NoSession
      BY <3>1, AfterFirst
    <3>3. Owes("retry", sid, losses[t]) /\ "retry" # "store"
      BY <2>0, <3>1, <3>2 DEF Owes
    <3> QED
      BY <3>1, <3>3, GotoCounts
  <2>10. CASE Unlock(t)
    BY <2>10, FreeCounts DEF Unlock, clientVars, Free
  <2>11. CASE ReadForText(t)
    <3>1. Owes("value", sid, losses[t]) /\ "value" # "store"
      BY FreeOwesNothing DEF Free
    <3> QED
      BY <2>11, <3>1, GotoCounts DEF ReadForText, phoneVars, clientVars, historyVars
  <2>12. CASE Value(t)
    BY <2>12, FreeCounts, EndCounts DEF Value, phoneVars, clientVars, Free
  <2>13. CASE ReadBack(t)
    BY <2>13, EndCounts DEF ReadBack, phoneVars, clientVars
  <2> QED
    BY <1>1, <2>1, <2>2, <2>3, <2>4, <2>5, <2>6, <2>7, <2>8, <2>9, <2>10, <2>11,
       <2>12, <2>13 DEF Step, Recreation
<1>2. ASSUME NEW t \in Thread, Lock(t) PROVE LossesAreCounted'
  <2>1. /\ pc[t] = "lock" /\ UNCHANGED <<wda, sid, session, losses>>
        /\ op[t] # "create" /\ Goto(t, "recheck")
    BY <1>2, AtWork DEF Lock, phoneVars, localVars, historyVars
  <2>2. Owes("recheck", session[t], losses[t]) /\ "recheck" # "store"
    BY <2>1, CountIs DEF Owes
  <2>3. session' = [session EXCEPT ![t] = session[t]]
    BY <2>1 DEF TypeOK
  <2> QED
    BY <2>1, <2>2, <2>3, GotoCounts
<1>3. ASSUME NEW t \in Caller, Start(t) PROVE LossesAreCounted'
  BY <1>3, BeginCounts DEF Start, Thread
<1>4. CASE Configure \/ Delete
  BY <1>4, BeginCounts DEF Configure, Delete, Thread
<1>5. CASE DeleteSession
  <2>0. Supervisor \in Thread
    BY DEF Thread
  <2>1. CASE losses' = [losses EXCEPT ![Supervisor] = 0] /\ UNCHANGED <<wda, tuned>>
    BY <1>5, <2>0, <2>1, EndCounts DEF DeleteSession, Finish, clientVars
  <2>2. CASE /\ session[Supervisor] = wda /\ wda' = NoSession
             /\ losses' = [Lost EXCEPT ![Supervisor] = 0]
    <3>1. /\ pc' = [pc EXCEPT ![Supervisor] = "idle"] /\ sid' = sid
          /\ session' = [session EXCEPT ![Supervisor] = NoSession]
          /\ op' = [op EXCEPT ![Supervisor] = op'[Supervisor]]
      BY <1>5, <2>0 DEF DeleteSession, End, TypeOK, clientVars
    <3>2. wda # NoSession
      BY <1>5, <2>0, <2>2 DEF DeleteSession, LossesAreCounted
    <3> SUFFICES ASSUME NEW u \in Thread, op'[u] # "create"
                 PROVE  Owes(pc[u], session[u], losses[u])'
      BY CountIs
    <3>3. CASE u = Supervisor
      <4>1. pc'[u] = "idle"
        BY <2>0, <3>1, <3>3 DEF TypeOK
      <4> QED
        BY <4>1 DEF Owes
    <3>4. CASE u # Supervisor
      <4>1. /\ pc'[u] = pc[u] /\ op'[u] = op[u] /\ session'[u] = session[u]
            /\ losses'[u] = Lost[u]
        BY <2>0, <2>2, <3>1, <3>4 DEF TypeOK, Lost
      <4>2. \A v \in Thread : pc'[v] = "store"
              => pc[v] = "store" /\ session'[v] = session[v]
        BY <2>0, <3>1 DEF TypeOK
      <4> QED
        BY <2>2, <3>1, <3>2, <4>1, <4>2, LossCounts
    <3> QED
      BY <3>3, <3>4
  <2> QED
    BY <1>5, <2>1, <2>2 DEF DeleteSession
<1>6. CASE Lose
  <2>1. /\ wda # NoSession /\ wda' = NoSession /\ losses' = Lost
        /\ UNCHANGED <<sid, pc, op, session>>
    BY <1>6 DEF Lose, clientVars, placeVars
  <2> QED
    BY <2>1, LossCounts, CountIs
<1>7. CASE UNCHANGED <<wda, sid, pc, op, session, losses>>
  BY <1>7 DEF LossesAreCounted
<1>8. CASE TurnLock \/ UNCHANGED vars
  BY <1>7, <1>8 DEF TurnLock, vars, phoneVars, clientVars, placeVars, localVars,
     historyVars
<1> QED
  BY <1>1, <1>2, <1>3, <1>4, <1>5, <1>6, <1>8 DEF Next

-----------------------------------------------------------------------------
(* The settings.  The client is configured: published, or taken back.      *)
Configured == op[Supervisor] = "delete" \/ Published

(* A thread that does not replay moves, and the session stays: what was    *)
(* tuned is, and whoever publishes the client has tuned it.                *)
LEMMA StaysTuned ==
  ASSUME TypeOK, TunedUnlessReplaying, NEW t \in Thread, pc[t] # "replay",
         NEW p, pc' = [pc EXCEPT ![t] = p], UNCHANGED <<wda, sid, untuned>>,
         tuned => tuned', Configured' => Configured \/ tuned'
  PROVE  TunedUnlessReplaying'
<1>1. (\A u \in Thread : pc'[u] # "replay") => \A u \in Thread : pc[u] # "replay"
  BY DEF TypeOK
<1> QED
  BY <1>1 DEF TunedUnlessReplaying, Configured

LEMMA EndTuned ==
  ASSUME TypeOK, TunedUnlessReplaying, NEW t \in Thread,
         pc[t] \notin {"idle", "replay"}, NEW code, End(t, code),
         UNCHANGED <<wda, sid, untuned>>, tuned => tuned',
         code = "ok" /\ op[t] = "configure" => tuned'
  PROVE  TunedUnlessReplaying'
<1>1. Configured' => Configured \/ tuned'
  BY DEF Configured, Published, End, TypeOK, Thread
<1> QED
  BY <1>1, StaysTuned DEF End

LEMMA GotoTuned ==
  ASSUME TypeOK, TunedUnlessReplaying, NEW t \in Thread, pc[t] # "replay",
         NEW p, p # "idle", Goto(t, p), UNCHANGED <<wda, sid, untuned>>,
         tuned => tuned'
  PROVE  TunedUnlessReplaying'
<1>1. Configured' => Configured
  BY DEF Configured, Published, Goto, TypeOK, Thread
<1> QED
  BY <1>1, StaysTuned DEF Goto

LEMMA AnswerTuned ==
  ASSUME TypeOK, CallsFit, TunedUnlessReplaying, NEW t \in Thread,
         pc[t] \notin {"idle", "replay"}, Answer(t), UNCHANGED <<wda, sid, untuned>>
  PROVE  TunedUnlessReplaying'
<1>1. tuned => tuned'
  BY DEF Answer, AnswerLocked, AnswerSend, AnswerElement, AnswerVerdict, AnswerSettle
<1>2. ASSUME NEW code, Finish(t, code), code = "ok" /\ op[t] = "configure" => tuned'
      PROVE  TunedUnlessReplaying'
  BY <1>1, <1>2, EndTuned DEF Finish
<1>3. ASSUME NEW p, p # "idle", Goto(t, p) PROVE TunedUnlessReplaying'
  BY <1>1, <1>3, GotoTuned
<1>4. CASE AnswerLocked(t)
  BY <1>2, <1>3, <1>4 DEF AnswerLocked, Continue
<1>5. CASE AnswerSend(t)
  BY <1>2, <1>5 DEF AnswerSend
<1>6. CASE AnswerElement(t)
  BY <1>2, <1>3, <1>6 DEF AnswerElement
<1>7. CASE AnswerVerdict(t) \/ AnswerSettle(t)
  <2>1. op[t] = "wake"
    BY <1>7 DEF AnswerVerdict, AnswerSettle, CallsFit
  <2> QED
    BY <1>2, <1>3, <1>7, <2>1 DEF AnswerVerdict, AnswerSettle
<1> QED
  BY <1>4, <1>5, <1>6, <1>7 DEF Answer

LEMMA StepTuned ==
  ASSUME TypeOK, RecreateInv, CallsFit, TunedUnlessReplaying, [Next]_vars
  PROVE  TunedUnlessReplaying'
<1>0. ASSUME wda' = NoSession PROVE TunedUnlessReplaying'
  BY <1>0 DEF TunedUnlessReplaying
<1>1. ASSUME NEW t \in Thread, Step(t) PROVE TunedUnlessReplaying'
  <2>0. ASSUME NEW code, Finish(t, code), pc[t] \notin {"idle", "replay"},
               UNCHANGED <<wda, sid, untuned>>, tuned => tuned',
               code = "ok" => op[t] # "configure"
        PROVE  TunedUnlessReplaying'
    BY <2>0, EndTuned DEF Finish
  <2>1. CASE ReadSession(t)
    BY <2>1, GotoTuned DEF ReadSession, phoneVars, clientVars
  <2>2. CASE Served(t)
    BY <2>2, AnswerTuned DEF Served, clientVars
  <2>3. CASE Broken(t)
    <3>1. tuned => tuned'
      BY <2>3, Zenon DEF Broken
    <3> QED
      BY <2>0, <2>3, <3>1 DEF Broken, clientVars
  <2>4. CASE Invalid(t)
    BY <2>0, <2>4, GotoTuned DEF Invalid, phoneVars, clientVars
  <2>5. CASE Recheck(t)
    BY <2>5, GotoTuned DEF Recheck, phoneVars
  <2>6. CASE Post(t)
    <3>1. CASE wda' = made + 1
      <4>1. sid' # wda'
        BY <2>6, <3>1 DEF Post, RecreateInv, Ids
      <4> QED
        BY <4>1 DEF TunedUnlessReplaying
    <3> QED
      BY <2>0, <2>6, <3>1 DEF Post
  <2>7. CASE Store(t)
    <3>1. CASE op[t] = "create" /\ Finish(t, "ok")
      <4>1. t = Supervisor
        BY <3>1 DEF RecreateInv, FirstIsAlone
      <4>2. op'[Supervisor] = "create"
        BY <3>1, <4>1 DEF Finish, End, TypeOK
      <4> QED
        BY <4>2 DEF TunedUnlessReplaying, Published
    <3>2. CASE Goto(t, "replay")
      <4>1. pc'[t] = "replay"
        BY <3>2 DEF Goto, TypeOK
      <4> QED
        BY <4>1 DEF TunedUnlessReplaying
    <3> QED
      BY <2>7, <3>1, <3>2 DEF Store
  <2>8. CASE Replay(t)
    BY <2>8 DEF Replay, TunedUnlessReplaying
  <2>9. CASE Reread(t)
    BY <2>9, GotoTuned DEF Reread, phoneVars, clientVars
  <2>10. CASE Unlock(t)
    BY <2>10, GotoTuned DEF Unlock, clientVars
  <2>11. CASE ReadForText(t)
    BY <2>11, GotoTuned DEF ReadForText, phoneVars, clientVars
  <2>12. CASE Value(t)
    BY <2>0, <2>12, GotoTuned DEF Value, phoneVars, clientVars
  <2>13. CASE ReadBack(t)
    <3>1. op[t] = "text"
      BY <2>13 DEF ReadBack, CallsFit
    <3> QED
      BY <2>0, <2>13, <3>1 DEF ReadBack, phoneVars, clientVars
  <2> QED
    BY <1>1, <2>1, <2>2, <2>3, <2>4, <2>5, <2>6, <2>7, <2>8, <2>9, <2>10, <2>11,
       <2>12, <2>13 DEF Step, Recreation
<1>2. ASSUME NEW t \in Thread, Lock(t) PROVE TunedUnlessReplaying'
  BY <1>2, GotoTuned DEF Lock, phoneVars
<1>3. ASSUME NEW t \in Thread, NEW o, NEW first, Begin(t, o, first),
             o = "delete" => Published
      PROVE  TunedUnlessReplaying'
  <2>1. Configured' => Configured
    BY <1>3 DEF Configured, Published, Begin, TypeOK, Thread
  <2> QED
    BY <1>3, <2>1, StaysTuned DEF Begin, phoneVars
<1>4. ASSUME NEW t \in Caller, Start(t) PROVE TunedUnlessReplaying'
  BY <1>3, <1>4 DEF Start, Thread
<1>5. CASE Configure \/ Delete
  BY <1>3, <1>5 DEF Configure, Delete, Thread
<1>6. CASE DeleteSession
  BY <1>0, <1>6, EndTuned DEF DeleteSession, clientVars, Thread
<1>7. CASE Lose
  BY <1>0, <1>7 DEF Lose
<1>8. CASE TurnLock
  BY <1>8 DEF TurnLock, TunedUnlessReplaying, Published, clientVars, placeVars
<1>9. CASE UNCHANGED vars
  BY <1>9 DEF vars, TunedUnlessReplaying, Published, phoneVars, clientVars, placeVars
<1> QED
  BY <1>1, <1>2, <1>4, <1>5, <1>6, <1>7, <1>8, <1>9 DEF Next

-----------------------------------------------------------------------------
(* The whole: the invariant of re-creation and that of the client.         *)
IInv == RecreateInv /\ ClientInv

(* While nobody holds the mutex nobody replays.                            *)
LEMMA SettingsFollow == RecreateInv /\ TunedUnlessReplaying => SettingsSurvive
<1> SUFFICES ASSUME RecreateInv, TunedUnlessReplaying, recreate = NoThread
             PROVE  SettingsSurvive
  BY DEF SettingsSurvive
<1>1. ASSUME NEW t \in Thread, pc[t] = "replay" PROVE FALSE
  <2>1. recreate = t
    BY <1>1, AtWork DEF RecreateInv, HolderRecreates, Recreating
  <2> QED
    BY <2>1, ClientAssumption DEF Thread
<1> QED
  BY <1>1 DEF TunedUnlessReplaying, SettingsSurvive

LEMMA InitClient == Init => IInv
<1> SUFFICES ASSUME Init PROVE IInv
  OBVIOUS
<1>1. RecreateInv
  BY InitInv
<1>2. TypeOK
  <2>1. 0 \in SessionId /\ 0 \in 0..SettlePolls
    BY ClientAssumption DEF SessionId
  <2>2. PlaceType
    BY DEF Init, PlaceType, Place, Recreating, Operation, Result
  <2>3. LocalType
    BY <2>1 DEF Init, LocalType, Call, NoSession
  <2>4. SharedType
    BY <2>1 DEF Init, SharedType, NoSession
  <2> QED
    BY <2>2, <2>3, <2>4, TypeParts
<1>3. CallsFit
  BY DEF Init, CallsFit
<1>4. UnlockIsSeen
  BY ClientAssumption DEF Init, UnlockIsSeen, Thread
<1>5. SharedIdGrows
  <2>1. op[Supervisor] = "create" /\ result[Supervisor] = "none"
    BY DEF Init, Thread
  <2>2. \A t \in Thread : pc[t] # "store" /\ session[t] = 0 /\ sid = 0
    BY DEF Init, NoSession
  <2> QED
    BY <2>1, <2>2 DEF Init, SharedIdGrows
<1>6. LossesAreCounted
  BY DEF Init, LossesAreCounted
<1>7. TunedUnlessReplaying
  BY DEF Init, TunedUnlessReplaying
<1> QED
  BY <1>1, <1>2, <1>3, <1>4, <1>5, <1>6, <1>7, SettingsFollow DEF IInv, ClientInv

LEMMA StepClient == IInv /\ [Next]_vars => IInv'
<1> SUFFICES ASSUME IInv, [Next]_vars PROVE IInv'
  OBVIOUS
<1>1. RecreateInv'
  BY StepInv DEF IInv
<1>2. TypeOK'
  BY StepType DEF IInv, ClientInv
<1>3. CallsFit' /\ UnlockIsSeen'
  BY StepFits DEF IInv, ClientInv
<1>4. SharedIdGrows'
  BY StepGrows DEF IInv, ClientInv
<1>5. LossesAreCounted'
  BY StepCounts DEF IInv, ClientInv
<1>6. TunedUnlessReplaying'
  BY StepTuned DEF IInv, ClientInv
<1>7. SettingsSurvive'
  BY <1>1, <1>6, SettingsFollow, PTL
<1> QED
  BY <1>1, <1>2, <1>3, <1>4, <1>5, <1>6, <1>7 DEF IInv, ClientInv

LEMMA ClientInductive == Spec => []IInv
BY InitClient, StepClient, PTL DEF Spec

(* While nobody re-creates, the shared session has the MJPEG settings of   *)
(* the start unless a replay failed, and what that rests on (wda.rs        *)
(* recreate_session, configure_mjpeg_once).                                *)
THEOREM ClientInvHolds == Spec => []ClientInv
<1>1. IInv => ClientInv
  BY DEF IInv
<1> QED
  BY <1>1, ClientInductive, PTL

(* A result appears by a step of its own thread.                           *)
LEMMA ResultIsOwn ==
  ASSUME TypeOK, [Next]_vars, NEW t \in Thread, pc[t] # "idle", result'[t] # result[t]
  PROVE  Step(t) \/ (t = Supervisor /\ DeleteSession)
<1>1. ASSUME NEW u \in Thread, Step(u), u # t PROVE FALSE
  <2>1. result'[t] = result[t]
    BY <1>1 DEF Step, Recreation, ReadSession, Served, Answer, AnswerLocked,
       AnswerSend, AnswerElement, AnswerVerdict, AnswerSettle, Continue, Broken,
       Invalid, Recheck, Post, Store, Replay, Reread, Unlock, ReadForText, Value,
       ReadBack, Finish, End, Goto, TypeOK
  <2> QED
    BY <2>1
<1>2. ASSUME NEW u \in Thread, Lock(u) PROVE FALSE
  BY <1>2 DEF Lock, Goto
<1>3. ASSUME NEW u \in Thread, NEW o, NEW first, Begin(u, o, first) PROVE FALSE
  BY <1>3 DEF Begin, TypeOK
<1>4. ASSUME NEW u \in Caller, Start(u) PROVE FALSE
  BY <1>3, <1>4 DEF Start, Thread
<1>5. CASE Configure \/ Delete
  BY <1>3, <1>5 DEF Configure, Delete, Thread
<1>6. CASE DeleteSession
  BY <1>6 DEF DeleteSession, End, TypeOK, Thread
<1>7. CASE Lose \/ TurnLock \/ UNCHANGED vars
  BY <1>7 DEF Lose, TurnLock, vars, placeVars
<1> QED
  BY <1>1, <1>2, <1>4, <1>5, <1>6, <1>7 DEF Next

(* The two results the properties are about, and where they come from.     *)
LEMMA WhoseResult ==
  ASSUME TypeOK, NEW t \in Thread, Step(t), result[t] = "none",
         result'[t] \in {"session_gone", "ok"}
  PROVE  \/ result'[t] = "session_gone" /\ Invalid(t) /\ pc[t] = "retry"
         \/ result'[t] = "ok" /\ (Served(t) \/ Store(t) \/ ReadBack(t))
<1>1. ASSUME NEW code, Finish(t, code) PROVE result'[t] = code
  BY <1>1 DEF Finish, End, TypeOK
<1>2. ASSUME NEW p, Goto(t, p) PROVE result'[t] = "none"
  BY <1>2 DEF Goto
<1>3. CASE Served(t) \/ ReadBack(t)
  <2>1. result'[t] # "session_gone"
    <3>1. CASE Served(t)
      BY <1>1, <1>2, <3>1 DEF Served, Answer, AnswerLocked, AnswerSend, AnswerElement,
         AnswerVerdict, AnswerSettle, Continue
    <3>2. CASE ReadBack(t)
      BY <1>1, <3>2 DEF ReadBack
    <3> QED
      BY <1>3, <3>1, <3>2
  <2> QED
    BY <1>3, <2>1
<1>4. CASE Invalid(t) \/ Store(t)
  BY <1>1, <1>2, <1>4 DEF Invalid, Store
<1>5. CASE ReadSession(t) \/ Broken(t) \/ Recheck(t) \/ Post(t) \/ Replay(t) \/ Reread(t)
  BY <1>1, <1>2, <1>5 DEF ReadSession, Broken, Recheck, Post, Replay, Reread
<1>6. CASE Unlock(t) \/ ReadForText(t) \/ Value(t)
  BY <1>1, <1>2, <1>6 DEF Unlock, ReadForText, Value
<1> QED
  BY <1>3, <1>4, <1>5, <1>6 DEF Step, Recreation

(* A call that ends in the 404 it is meant to survive lost its session     *)
(* twice, whatever other clones re-create meanwhile (wda.rs session_call). *)
THEOREM OneLossIsHealedHolds == Spec => OneLossIsHealed
<1>1. IInv /\ [Next]_vars
        => [\A t \in Thread :
              pc[t] # "idle" /\ result'[t] = "session_gone" => losses[t] = 2]_vars
  <2> SUFFICES ASSUME IInv, [Next]_vars, NEW t \in Thread, pc[t] # "idle",
                      result'[t] = "session_gone"
               PROVE  losses[t] = 2
    OBVIOUS
  <2> USE DEF IInv, ClientInv
  <2>1. result[t] = "none"
    BY DEF CallsFit
  <2>2. Step(t) \/ (t = Supervisor /\ DeleteSession)
    BY <2>1, ResultIsOwn
  <2>3. CASE t = Supervisor /\ DeleteSession
    BY <2>3 DEF DeleteSession, End, TypeOK
  <2>4. CASE Step(t)
    <3>1. Invalid(t) /\ pc[t] = "retry"
      BY <2>1, <2>4, WhoseResult
    <3>2. op[t] # "create" /\ session[t] # wda
      BY <3>1, AtWork DEF Invalid
    <3> QED
      BY <3>1, <3>2 DEF LossesAreCounted
  <2> QED
    BY <2>2, <2>3, <2>4
<1> QED
  BY <1>1, ClientInductive, PTL DEF Spec, OneLossIsHealed

(* A result of ok rests on what was seen of the phone: an unlocked screen, *)
(* a text in its element (wda.rs wake, tap, send_text).                    *)
THEOREM OkIsVerifiedHolds == Spec => OkIsVerified
<1>1. IInv /\ [Next]_vars
        => [\A t \in Caller : pc[t] # "idle" /\ result'[t] = "ok" =>
              /\ op[t] \in {"tap", "wake"} => unlocked[t]
              /\ op[t] = "text" => typed[t]]_vars
  <2> SUFFICES ASSUME IInv, [Next]_vars, NEW t \in Caller, pc[t] # "idle",
                      result'[t] = "ok"
               PROVE  /\ op[t] \in {"tap", "wake"} => unlocked[t]
                      /\ op[t] = "text" => typed[t]
    OBVIOUS
  <2> USE DEF IInv, ClientInv
  <2>0. t \in Thread /\ t # Supervisor
    BY ClientAssumption DEF Thread
  <2>1. result[t] = "none"
    BY <2>0 DEF CallsFit
  <2>2. Step(t)
    BY <2>0, <2>1, ResultIsOwn
  <2>3. Served(t) \/ Store(t) \/ ReadBack(t)
    BY <2>0, <2>1, <2>2, WhoseResult
  <2>4. ASSUME NEW code, Finish(t, code) PROVE code = "ok"
    BY <2>0, <2>4 DEF Finish, End, TypeOK
  <2>5. ASSUME NEW p, Goto(t, p) PROVE FALSE
    BY <2>1, <2>5 DEF Goto
  <2>6. ~locked => unlocked[t]
    BY DEF UnlockIsSeen
  <2>7. CASE Served(t)
    <3>1. CASE AnswerLocked(t)
      BY <2>4, <2>5, <2>6, <3>1 DEF AnswerLocked, Continue
    <3>2. CASE AnswerSend(t)
      BY <2>0, <3>2 DEF AnswerSend, CallsFit, UnlockIsSeen
    <3>3. CASE AnswerElement(t)
      BY <2>4, <2>5, <3>3 DEF AnswerElement
    <3>4. CASE AnswerVerdict(t) \/ AnswerSettle(t)
      <4>1. op[t] = "wake"
        BY <2>0, <3>4 DEF AnswerVerdict, AnswerSettle, CallsFit
      <4>2. ~locked
        BY <2>4, <2>5, <3>4 DEF AnswerVerdict, AnswerSettle
      <4> QED
        BY <2>6, <4>1, <4>2
    <3> QED
      BY <2>7, <3>1, <3>2, <3>3, <3>4 DEF Served, Answer
  <2>8. CASE Store(t)
    BY <2>0, <2>5, <2>8 DEF Store, RecreateInv, FirstIsAlone
  <2>9. CASE ReadBack(t)
    <3>1. op[t] = "text"
      BY <2>0, <2>9 DEF ReadBack, CallsFit
    <3>2. typed[t]
      BY <2>4, <2>9 DEF ReadBack
    <3> QED
      BY <3>1, <3>2
  <2> QED
    BY <2>3, <2>7, <2>8, <2>9
<1> QED
  BY <1>1, ClientInductive, PTL DEF Spec, OkIsVerified
=============================================================================
