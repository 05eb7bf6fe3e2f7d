--------------------------- MODULE GuiShutdownProofs ---------------------------
(***************************************************************************)
(* The pairing store and the Android sessions keep their invariants        *)
(* whatever the rest of the GUI does, for any number of phones, of calls   *)
(* in flight, of sessions and of generations; and the exit, for any        *)
(* budgets that nest, waits for its clean-up and brings down what it took. *)
(***************************************************************************)
EXTENDS GuiShutdown, TLAPS

-----------------------------------------------------------------------------
(* The Android sessions: one lemma per operation, for any set of phones    *)
(* and of calls and any number of sessions.                                *)

LEMMA AndroidInitInv == AndroidInit => AndroidInv
<1> SUFFICES ASSUME AndroidInit PROVE AndroidInv
  OBVIOUS
<1> USE AndroidAssumption DEF AndroidInit
<1>1. AndroidTypeOK
  BY DEF AndroidTypeOK, CallRec, SessionRec, IdleCall, NoSession, Sid
<1>2. \A i \in Sid : sess[i] = NoSession
  OBVIOUS
<1>3. \A i \in Sid : SessionShape(sess[i])
  BY <1>2 DEF SessionShape, NoSession
<1>4. IdsAreOwn
  BY <1>2 DEF IdsAreOwn, IdleCall, NoSession
<1>5. LiveIsReachable
  BY <1>2 DEF LiveIsReachable, NoSession
<1> QED BY <1>1, <1>3, <1>4, <1>5 DEF AndroidInv

(* A step that only rewrites the record of one spawned session keeps the   *)
(* invariant if the new record is well shaped, is of the same phone, and   *)
(* neither brings scrcpy back nor takes a stop from a live one.            *)
LEMMA SessionStepInv ==
  ASSUME AndroidInv, NEW i \in Sid, NEW r \in SessionRec,
         sess' = [sess EXCEPT ![i] = r],
         UNCHANGED <<sessions, next_sid, scall, handles>>,
         SessionShape(r),
         sess[i].pc # "none", r.pc # "none", r.serial = sess[i].serial,
         r.alive /\ r.status # "failed" =>
           sess[i].alive /\ sess[i].status # "failed" /\ (sess[i].stop => r.stop)
  PROVE  AndroidInv'
<1> USE DEF AndroidInv
<1>1. AndroidTypeOK'
  BY DEF AndroidTypeOK
<1>2. sess \in [Sid -> SessionRec]
  BY DEF AndroidTypeOK
<1>3. \A j \in Sid : sess'[j] = IF j = i THEN r ELSE sess[j]
  BY <1>2
<1>4. (\A j \in Sid : SessionShape(sess[j]))'
  BY <1>3 DEF SessionShape
<1>5. \A j \in Sid : sess'[j].serial = sess[j].serial
                     /\ (sess'[j].pc = "none" <=> sess[j].pc = "none")
  BY <1>3
<1>6. \A c \in StartCall : scall[c].pc # "idle" => scall[c].id \in Sid
  BY AndroidAssumption DEF IdsAreOwn, AndroidTypeOK, Sid
<1>7. \A d \in Serial : sessions[d] # 0 => sessions[d] \in Sid
  BY DEF AndroidTypeOK, Sid
<1>8. IdsAreOwn'
  BY <1>5, <1>6, <1>7 DEF IdsAreOwn
<1>9. LiveIsReachable'
  BY <1>3, <1>5 DEF LiveIsReachable, InHand
<1> QED BY <1>1, <1>4, <1>8, <1>9

(* A step that changes nothing of the sessions.                            *)
LEMMA AndroidQuiet ==
  ASSUME AndroidInv, UNCHANGED androidVars
  PROVE  AndroidInv'
  BY DEF AndroidInv, androidVars, AndroidTypeOK, IdsAreOwn, LiveIsReachable, InHand

(* A step that changes no record but in stop, which it may raise, and age. *)
LEMMA StopsRaisedInv ==
  ASSUME AndroidInv,
         sess' \in [Sid -> SessionRec],
         \A i \in Sid : /\ sess'[i].pc = sess[i].pc /\ sess'[i].serial = sess[i].serial
                        /\ sess'[i].alive = sess[i].alive
                        /\ sess'[i].status = sess[i].status
                        /\ sess'[i].done = sess[i].done
                        /\ sess[i].stop => sess'[i].stop,
         UNCHANGED <<sessions, next_sid, scall, handles>>
  PROVE  AndroidInv'
<1> USE DEF AndroidInv
<1>1. AndroidTypeOK'
  BY DEF AndroidTypeOK
<1>2. (\A j \in Sid : SessionShape(sess[j]))'
  <2> SUFFICES ASSUME NEW j \in Sid PROVE SessionShape(sess'[j])
    OBVIOUS
  <2>1. SessionShape(sess[j])
    OBVIOUS
  <2> QED BY <2>1 DEF SessionShape
<1>3. \A c \in StartCall : scall[c].pc # "idle" => scall[c].id \in Sid
  BY AndroidAssumption DEF IdsAreOwn, AndroidTypeOK, Sid
<1>4. \A d \in Serial : sessions[d] # 0 => sessions[d] \in Sid
  BY DEF AndroidTypeOK, Sid
<1>5. IdsAreOwn'
  BY <1>3, <1>4 DEF IdsAreOwn
<1>6. LiveIsReachable'
  BY DEF LiveIsReachable, InHand
<1> QED BY <1>1, <1>2, <1>5, <1>6

(* A step that takes every handle out of the map at once.                  *)
LEMMA DrainedInv ==
  ASSUME AndroidInv,
         handles' = handles \cup ({sessions[d] : d \in Serial} \ {0}),
         sessions' = [d \in Serial |-> 0],
         UNCHANGED <<next_sid, scall, sess>>
  PROVE  AndroidInv'
<1> USE DEF AndroidInv
<1>1. \A d \in Serial : sessions[d] # 0 => sessions[d] \in Sid
  BY DEF AndroidTypeOK, Sid
<1>2. AndroidTypeOK'
  BY AndroidAssumption, <1>1 DEF AndroidTypeOK
<1>3. (\A j \in Sid : SessionShape(sess[j]))'
  OBVIOUS
<1>4. IdsAreOwn'
  BY DEF IdsAreOwn
<1>5. LiveIsReachable'
  <2> SUFFICES ASSUME NEW i \in Sid, sess[i].alive, sess[i].status # "failed"
               PROVE  InHand(i) \/ i \in handles' \/ sess[i].stop
    BY DEF LiveIsReachable, InHand
  <2>1. sess[i].serial \in Serial /\ i # 0
    BY DEF SessionShape, Sid
  <2> QED BY <2>1 DEF LiveIsReachable
<1> QED BY <1>2, <1>3, <1>4, <1>5

(* A phone that is not held has no live session under it but a failed one. *)
LEMMA NotHeldIsGone ==
  ASSUME AndroidInv, NEW d \in Serial, ~Held(d), sessions[d] # 0
  PROVE  ~sess[sessions[d]].alive \/ sess[sessions[d]].status = "failed"
<1>1. sessions[d] \in Sid
  BY DEF AndroidInv, AndroidTypeOK, Sid
<1>2. sess[sessions[d]] \in SessionRec /\ SessionShape(sess[sessions[d]])
  BY <1>1 DEF AndroidInv, AndroidTypeOK
<1>3. sess[sessions[d]].pc # "none"
  BY DEF AndroidInv, IdsAreOwn
<1> QED BY <1>2, <1>3 DEF Held, SessionShape, SessionRec

LEMMA StartCheckInv ==
  ASSUME AndroidInv, NEW c \in StartCall, NEW d \in Serial, StartCheck(c, d)
  PROVE  AndroidInv'
<1> USE AndroidAssumption DEF AndroidInv
<1>1. next_sid \in Sid /\ next_sid' = next_sid + 1 /\ next_sid \in Nat
  BY DEF StartCheck, AndroidTypeOK, Sid
<1>2. scall \in [StartCall -> CallRec] /\ sessions \in [Serial -> 0..MaxId]
  BY DEF AndroidTypeOK
<1>3. \A e \in StartCall : scall'[e] =
        IF e = c THEN [pc |-> "spawn", serial |-> d, id |-> next_sid] ELSE scall[e]
  BY <1>2 DEF StartCheck
<1>4. \A x \in Serial : sessions'[x] = IF x = d THEN 0 ELSE sessions[x]
  BY <1>2 DEF StartCheck
<1>5. AndroidTypeOK'
  BY <1>1 DEF StartCheck, AndroidTypeOK, CallRec, Sid
<1>6. (\A j \in Sid : SessionShape(sess[j]))'
  BY DEF StartCheck
<1>7. IdsAreOwn'
  <2>1. UNCHANGED sess
    BY DEF StartCheck
  <2>2. \A i \in Sid : i >= next_sid' => sess[i].pc = "none"
    BY <1>1 DEF IdsAreOwn, Sid
  <2>3. \A e \in StartCall : scall'[e].pc # "idle" =>
          /\ scall'[e].id \in 1..(next_sid' - 1)
          /\ scall'[e].serial \in Serial
          /\ scall'[e].pc = "spawn" => sess[scall'[e].id].pc = "none"
          /\ scall'[e].pc = "insert" =>
               sess[scall'[e].id].pc # "none" /\ sess[scall'[e].id].serial = scall'[e].serial
    <3> TAKE e \in StartCall
    <3>1. CASE e = c
      BY <1>1, <1>3, <3>1 DEF IdsAreOwn, Sid
    <3>2. CASE e # c
      BY <1>1, <1>3, <3>2 DEF IdsAreOwn
    <3> QED BY <3>1, <3>2
  <2>4. \A e \in StartCall : scall[e].pc # "idle" => scall[e].id # next_sid
    BY <1>1 DEF IdsAreOwn
  <2>5. \A e, f \in StartCall :
          scall'[e].pc # "idle" /\ scall'[f].pc # "idle" /\ scall'[e].id = scall'[f].id => e = f
    BY <1>3, <2>4 DEF IdsAreOwn
  <2>6. \A x \in Serial : sessions'[x] # 0 =>
          sess[sessions'[x]].pc # "none" /\ sess[sessions'[x]].serial = x
    BY <1>4 DEF IdsAreOwn
  <2> QED BY <2>1, <2>2, <2>3, <2>5, <2>6 DEF IdsAreOwn
<1>8. LiveIsReachable'
  <2> SUFFICES ASSUME NEW i \in Sid, sess[i].alive, sess[i].status # "failed"
               PROVE  \/ sessions'[sess[i].serial] = i
                      \/ InHand(i)'
                      \/ i \in handles
                      \/ sess[i].stop
    BY DEF LiveIsReachable, StartCheck
  <2>1. sess[i].serial \in Serial
    BY DEF SessionShape
  <2>2. InHand(i) => InHand(i)'
    BY <1>3 DEF InHand, StartCheck
  <2>3. i # 0
    BY DEF Sid
  <2>4. sessions[sess[i].serial] = i => sess[i].serial # d
    BY <2>1, <2>3, NotHeldIsGone DEF StartCheck
  <2> QED BY <1>4, <2>1, <2>2, <2>4 DEF LiveIsReachable
<1> QED BY <1>5, <1>6, <1>7, <1>8

LEMMA SpawnSupervisedInv ==
  ASSUME AndroidInv, NEW c \in StartCall, SpawnSupervised(c)
  PROVE  AndroidInv'
<1> DEFINE k == scall[c].id
           r == [NoSession EXCEPT !.serial = scall[c].serial,
                                  !.status = "running", !.pc = "loop", !.alive = TRUE]
<1> USE AndroidAssumption DEF AndroidInv
<1>1. k \in Sid /\ k < next_sid /\ scall[c].serial \in Serial /\ sess[k].pc = "none"
  BY DEF SpawnSupervised, IdsAreOwn, AndroidTypeOK, Sid
<1>2. scall \in [StartCall -> CallRec] /\ sess \in [Sid -> SessionRec]
  BY DEF AndroidTypeOK
<1>3. r \in SessionRec /\ SessionShape(r) /\ r.pc = "loop"
      /\ r.serial = scall[c].serial
  BY <1>1 DEF SessionRec, NoSession, SessionShape
<1>4. \A j \in Sid : sess'[j] = IF j = k THEN r ELSE sess[j]
  BY <1>2 DEF SpawnSupervised
<1> HIDE DEF r
<1>5. \A e \in StartCall : /\ scall'[e].id = scall[e].id
                           /\ scall'[e].serial = scall[e].serial
                           /\ scall'[e].pc = IF e = c THEN "insert" ELSE scall[e].pc
  BY <1>2 DEF SpawnSupervised, CallRec
<1>6. AndroidTypeOK'
  <2>1. sess' \in [Sid -> SessionRec]
    BY <1>2, <1>3 DEF SpawnSupervised, r
  <2>2. scall' \in [StartCall -> CallRec]
    BY <1>2 DEF SpawnSupervised, CallRec
  <2> QED BY <2>1, <2>2 DEF SpawnSupervised, AndroidTypeOK
<1>7. (\A j \in Sid : SessionShape(sess[j]))'
  BY <1>3, <1>4
<1>8. IdsAreOwn'
  <2>1. UNCHANGED <<sessions, next_sid>> /\ scall[c].pc = "spawn"
    BY DEF SpawnSupervised
  <2>2. \A i \in Sid : i >= next_sid => sess'[i].pc = "none"
    BY <1>1, <1>4 DEF IdsAreOwn, AndroidTypeOK, Sid
  <2>3. \A e \in StartCall : scall[e].pc # "idle" =>
          scall[e].id \in Sid /\ (e # c => scall[e].id # k)
    BY <2>1 DEF IdsAreOwn, AndroidTypeOK, Sid
  <2>4. \A x \in Serial : sessions[x] # 0 => sessions[x] \in Sid /\ sessions[x] # k
    BY <1>1 DEF IdsAreOwn, AndroidTypeOK, Sid
  <2>5. \A e \in StartCall : scall'[e].pc # "idle" =>
          /\ scall'[e].id \in 1..(next_sid - 1)
          /\ scall'[e].serial \in Serial
          /\ scall'[e].pc = "spawn" => sess'[scall'[e].id].pc = "none"
          /\ scall'[e].pc = "insert" =>
               sess'[scall'[e].id].pc # "none" /\ sess'[scall'[e].id].serial = scall'[e].serial
    <3> TAKE e \in StartCall
    <3>1. CASE e = c
      BY <1>1, <1>3, <1>4, <1>5, <2>1, <3>1 DEF IdsAreOwn
    <3>2. CASE e # c
      BY <1>4, <1>5, <2>3, <3>2 DEF IdsAreOwn
    <3> QED BY <3>1, <3>2
  <2>6. \A e, f \in StartCall :
          scall'[e].pc # "idle" /\ scall'[f].pc # "idle" /\ scall'[e].id = scall'[f].id => e = f
    BY <1>5, <2>1 DEF IdsAreOwn
  <2>7. \A x \in Serial : sessions[x] # 0 =>
          sess'[sessions[x]].pc # "none" /\ sess'[sessions[x]].serial = x
    BY <1>4, <2>4 DEF IdsAreOwn
  <2> QED BY <2>1, <2>2, <2>5, <2>6, <2>7 DEF IdsAreOwn
<1>9. LiveIsReachable'
  <2> SUFFICES ASSUME NEW i \in Sid, sess'[i].alive, sess'[i].status # "failed"
               PROVE  \/ sessions'[sess'[i].serial] = i
                      \/ InHand(i)'
                      \/ i \in handles'
                      \/ sess'[i].stop
    BY DEF LiveIsReachable
  <2>1. CASE i = k
    BY <1>5, <2>1 DEF InHand
  <2>2. CASE i # k
    <3>1. sess'[i] = sess[i]
      BY <1>4, <2>2
    <3>2. InHand(i) => InHand(i)'
      BY <1>5 DEF InHand
    <3> QED BY <3>1, <3>2 DEF LiveIsReachable, SpawnSupervised
  <2> QED BY <2>1, <2>2
<1> QED BY <1>6, <1>7, <1>8, <1>9

LEMMA SpawnFailsInv ==
  ASSUME AndroidInv, NEW c \in StartCall, SpawnFails(c)
  PROVE  AndroidInv'
<1> USE AndroidAssumption DEF AndroidInv
<1>1. scall \in [StartCall -> CallRec]
  BY DEF AndroidTypeOK
<1>2. \A e \in StartCall : scall'[e] = IF e = c THEN IdleCall ELSE scall[e]
  BY <1>1 DEF SpawnFails
<1>3. AndroidTypeOK'
  BY DEF SpawnFails, AndroidTypeOK, CallRec, IdleCall
<1>4. (\A j \in Sid : SessionShape(sess[j]))'
  BY DEF SpawnFails
<1>5. IdsAreOwn'
  BY <1>2 DEF IdsAreOwn, SpawnFails, IdleCall
<1>6. \A i \in Sid : InHand(i) => InHand(i)'
  BY <1>2 DEF InHand, SpawnFails
<1>7. LiveIsReachable'
  BY <1>6 DEF LiveIsReachable, SpawnFails
<1> QED BY <1>3, <1>4, <1>5, <1>7

(* A stop raised on a session changes nothing else of it.                  *)
LEMMA StopRaisedIs ==
  ASSUME NEW r \in SessionRec
  PROVE  LET q == [r EXCEPT !.stop = TRUE]
         IN  /\ q \in SessionRec /\ q.stop
             /\ q.pc = r.pc /\ q.serial = r.serial /\ q.alive = r.alive
             /\ q.status = r.status /\ q.done = r.done
  BY DEF SessionRec

LEMMA StartInsertInv ==
  ASSUME AndroidInv, NEW c \in StartCall, StartInsert(c)
  PROVE  AndroidInv'
<1> DEFINE k == scall[c].id
           d == scall[c].serial
<1> USE AndroidAssumption DEF AndroidInv
<1>1. /\ k \in Sid /\ k # 0 /\ d \in Serial
      /\ sess[k].pc # "none" /\ sess[k].serial = d
  BY DEF StartInsert, IdsAreOwn, AndroidTypeOK, Sid
<1>2. /\ scall \in [StartCall -> CallRec] /\ sess \in [Sid -> SessionRec]
      /\ sessions \in [Serial -> 0..MaxId]
  BY DEF AndroidTypeOK
<1>3. \A e \in StartCall : scall'[e] = IF e = c THEN IdleCall ELSE scall[e]
  BY <1>2 DEF StartInsert
<1>4. UNCHANGED <<next_sid, handles>>
  BY DEF StartInsert
<1>5. \A i \in Sid : i # k /\ InHand(i) => InHand(i)'
  BY <1>3 DEF InHand
<1>6. scall' \in [StartCall -> CallRec]
  BY <1>2 DEF StartInsert, CallRec, IdleCall
<1>7. \A e \in StartCall : scall[e].pc # "idle" => scall[e].id \in Sid
  BY DEF IdsAreOwn, AndroidTypeOK, Sid
<1>8. CASE Held(d)
  <2>1. sess' = [sess EXCEPT ![k].stop = TRUE] /\ UNCHANGED sessions
    BY <1>8 DEF StartInsert
  <2> DEFINE q == [sess[k] EXCEPT !.stop = TRUE]
  <2>2. /\ q \in SessionRec /\ q.stop
        /\ q.pc = sess[k].pc /\ q.serial = sess[k].serial /\ q.alive = sess[k].alive
        /\ q.status = sess[k].status /\ q.done = sess[k].done
    BY <1>1, <1>2, StopRaisedIs
  <2>3. sess' = [sess EXCEPT ![k] = q]
    BY <1>1, <1>2, <2>1
  <2>4. /\ sess' \in [Sid -> SessionRec]
        /\ \A i \in Sid : sess'[i] = IF i = k THEN q ELSE sess[i]
    <3> HIDE DEF k, d, q, AndroidInv
    <3> QED BY <1>1, <1>2, <2>2, <2>3
  <2>5. \A i \in Sid : /\ sess'[i].pc = sess[i].pc /\ sess'[i].serial = sess[i].serial
                       /\ sess'[i].alive = sess[i].alive /\ sess'[i].status = sess[i].status
                       /\ sess'[i].done = sess[i].done
                       /\ i = k => sess'[i].stop
                       /\ i # k => sess'[i].stop = sess[i].stop
    <3> HIDE DEF k, d, q, AndroidInv
    <3> QED BY <2>2, <2>4
  <2>6. AndroidTypeOK'
    <3>1. next_sid \in 1..(MaxId + 1) /\ handles \in SUBSET Sid
      BY DEF AndroidTypeOK
    <3> HIDE DEF k, d, q, AndroidInv
    <3> QED BY <1>2, <1>4, <1>6, <2>1, <2>4, <3>1 DEF AndroidTypeOK
  <2>7. (\A j \in Sid : SessionShape(sess[j]))'
    <3> SUFFICES ASSUME NEW j \in Sid PROVE SessionShape(sess'[j])
      OBVIOUS
    <3>1. SessionShape(sess[j])
      OBVIOUS
    <3> HIDE DEF k, d, q, AndroidInv
    <3> QED BY <2>5, <3>1 DEF SessionShape
  <2>8. \A x \in Serial : sessions[x] # 0 => sessions[x] \in Sid
    BY <1>2 DEF Sid
  <2>9. IdsAreOwn'
    <3>1. IdsAreOwn
      OBVIOUS
    <3> HIDE DEF k, d, q, AndroidInv
    <3> QED BY <1>3, <1>4, <1>7, <2>1, <2>5, <2>8, <3>1 DEF IdsAreOwn, IdleCall
  <2>10. LiveIsReachable'
    <3> SUFFICES ASSUME NEW i \in Sid, sess'[i].alive, sess'[i].status # "failed"
                 PROVE  \/ sessions'[sess'[i].serial] = i
                        \/ InHand(i)'
                        \/ i \in handles'
                        \/ sess'[i].stop
      BY DEF LiveIsReachable
    <3>1. \/ sessions[sess[i].serial] = i \/ InHand(i)
          \/ i \in handles \/ sess[i].stop
      BY <2>5 DEF LiveIsReachable
    <3> HIDE DEF k, d, q, AndroidInv
    <3>2. CASE i = k
      BY <2>5, <3>2
    <3>3. CASE i # k
      BY <1>4, <1>5, <2>1, <2>5, <3>1, <3>3
    <3> QED BY <3>2, <3>3
  <2> QED BY <2>6, <2>7, <2>9, <2>10
<1>9. CASE ~Held(d)
  <2>1. sessions' = [sessions EXCEPT ![d] = k] /\ UNCHANGED sess
    BY <1>9 DEF StartInsert
  <2>2. \A x \in Serial : sessions'[x] = IF x = d THEN k ELSE sessions[x]
    BY <1>2, <2>1
  <2>3. AndroidTypeOK'
    BY <1>1, <1>2, <1>4, <1>6, <2>1 DEF AndroidTypeOK, Sid
  <2>4. (\A j \in Sid : SessionShape(sess[j]))'
    BY <2>1
  <2>5. IdsAreOwn'
    <3>1. IdsAreOwn
      OBVIOUS
    <3> HIDE DEF k, d, AndroidInv
    <3> QED BY <1>1, <1>3, <1>4, <2>1, <2>2, <3>1 DEF IdsAreOwn, IdleCall
  <2>6. LiveIsReachable'
    <3> SUFFICES ASSUME NEW i \in Sid, sess[i].alive, sess[i].status # "failed"
                 PROVE  \/ sessions'[sess[i].serial] = i
                        \/ InHand(i)'
                        \/ i \in handles
                        \/ sess[i].stop
      BY <1>4, <2>1 DEF LiveIsReachable
    <3>1. CASE i = k
      BY <1>1, <2>2, <3>1
    <3>2. CASE i # k
      <4>1. sess[i].serial \in Serial /\ i # 0
        BY DEF SessionShape, Sid
      <4>2. sessions[sess[i].serial] = i => sess[i].serial # d
        BY <1>9, <4>1, NotHeldIsGone
      <4> QED BY <1>5, <2>2, <3>2, <4>1, <4>2 DEF LiveIsReachable
    <3> QED BY <3>1, <3>2
  <2> QED BY <2>3, <2>4, <2>5, <2>6
<1> QED BY <1>8, <1>9

LEMMA StopSessionInv ==
  ASSUME AndroidInv, NEW d \in Serial, StopSession(d)
  PROVE  AndroidInv'
<1> DEFINE i == sessions[d]
           r == [sess[i] EXCEPT !.stop = TRUE]
<1>1. i \in Sid
  BY DEF StopSession, AndroidInv, AndroidTypeOK, Sid
<1>2. sess[i] \in SessionRec /\ SessionShape(sess[i]) /\ sess[i].pc # "none"
  BY <1>1 DEF StopSession, AndroidInv, AndroidTypeOK, IdsAreOwn
<1>3. r \in SessionRec /\ SessionShape(r) /\ r.pc # "none" /\ r.serial = sess[i].serial
      /\ r.stop /\ r.alive = sess[i].alive /\ r.status = sess[i].status
  BY <1>2 DEF SessionRec, SessionShape
<1>4. sess' = [sess EXCEPT ![i] = r] /\ UNCHANGED <<sessions, next_sid, scall, handles>>
  BY DEF StopSession
<1> HIDE DEF i, r
<1> QED BY <1>1, <1>2, <1>3, <1>4, SessionStepInv

LEMMA ScrcpyExitsInv ==
  ASSUME AndroidInv, NEW i \in Sid, ScrcpyExits(i)
  PROVE  AndroidInv'
<1> DEFINE r == [sess[i] EXCEPT !.alive = FALSE]
<1>1. sess[i] \in SessionRec /\ SessionShape(sess[i]) /\ sess[i].pc # "none"
  BY DEF ScrcpyExits, AndroidInv, AndroidTypeOK, SessionShape
<1>2. r \in SessionRec /\ SessionShape(r) /\ r.pc # "none" /\ r.serial = sess[i].serial
      /\ ~r.alive
  BY <1>1 DEF SessionRec, SessionShape
<1>3. sess' = [sess EXCEPT ![i] = r] /\ UNCHANGED <<sessions, next_sid, scall, handles>>
  BY DEF ScrcpyExits
<1> HIDE DEF r
<1> QED BY <1>1, <1>2, <1>3, SessionStepInv

(* The steps of a supervisor, one record each.                             *)
LEMMA SuperviseInv ==
  ASSUME AndroidInv, NEW i \in Sid, Supervise(i)
  PROVE  AndroidInv'
<1>0. sess[i] \in SessionRec /\ SessionShape(sess[i])
  BY DEF AndroidInv, AndroidTypeOK
<1>1. CASE SeeStop(i)
  <2> DEFINE r == [sess[i] EXCEPT !.status = "stopping", !.pc = "ladder"]
  <2>1. /\ r \in SessionRec /\ SessionShape(r) /\ r.serial = sess[i].serial
        /\ sess[i].pc # "none" /\ r.pc # "none" /\ sess[i].status # "failed"
        /\ r.alive = sess[i].alive /\ r.stop = sess[i].stop
    BY <1>0, <1>1 DEF SeeStop, SessionRec, SessionShape
  <2>2. sess' = [sess EXCEPT ![i] = r] /\ UNCHANGED <<sessions, next_sid, scall, handles>>
    BY <1>1 DEF SeeStop
  <2> HIDE DEF r
  <2> QED BY <2>1, <2>2, SessionStepInv
<1>2. CASE LadderEnds(i)
  <2> DEFINE r == [sess[i] EXCEPT !.alive = FALSE, !.pc = "ended"]
  <2>1. /\ r \in SessionRec /\ SessionShape(r) /\ r.serial = sess[i].serial
        /\ sess[i].pc # "none" /\ r.pc # "none" /\ ~r.alive
    BY <1>0, <1>2 DEF LadderEnds, SessionRec, SessionShape
  <2>2. sess' = [sess EXCEPT ![i] = r] /\ UNCHANGED <<sessions, next_sid, scall, handles>>
    BY <1>2 DEF LadderEnds
  <2> HIDE DEF r
  <2> QED BY <2>1, <2>2, SessionStepInv
<1>3. CASE SeeExit(i)
  <2> DEFINE r == [sess[i] EXCEPT !.pc = "ended"]
  <2>1. /\ r \in SessionRec /\ SessionShape(r) /\ r.serial = sess[i].serial
        /\ sess[i].pc # "none" /\ r.pc # "none" /\ ~r.alive
    BY <1>0, <1>3 DEF SeeExit, SessionRec, SessionShape
  <2>2. sess' = [sess EXCEPT ![i] = r] /\ UNCHANGED <<sessions, next_sid, scall, handles>>
    BY <1>3 DEF SeeExit
  <2> HIDE DEF r
  <2> QED BY <2>1, <2>2, SessionStepInv
<1>4. CASE WaitFails(i)
  <2> DEFINE r == [sess[i] EXCEPT !.status = "failed", !.pc = "send"]
  <2>1. /\ r \in SessionRec /\ SessionShape(r) /\ r.serial = sess[i].serial
        /\ sess[i].pc # "none" /\ r.pc # "none" /\ r.status = "failed"
    BY <1>0, <1>4 DEF WaitFails, SessionRec, SessionShape
  <2>2. sess' = [sess EXCEPT ![i] = r] /\ UNCHANGED <<sessions, next_sid, scall, handles>>
    BY <1>4 DEF WaitFails
  <2> HIDE DEF r
  <2> QED BY <2>1, <2>2, SessionStepInv
<1>5. CASE PublishExit(i)
  <2> DEFINE r == [sess[i] EXCEPT !.status = "exited", !.pc = "send"]
  <2>1. /\ r \in SessionRec /\ SessionShape(r) /\ r.serial = sess[i].serial
        /\ sess[i].pc # "none" /\ r.pc # "none" /\ ~r.alive
    BY <1>0, <1>5 DEF PublishExit, SessionRec, SessionShape
  <2>2. sess' = [sess EXCEPT ![i] = r] /\ UNCHANGED <<sessions, next_sid, scall, handles>>
    BY <1>5 DEF PublishExit
  <2> HIDE DEF r
  <2> QED BY <2>1, <2>2, SessionStepInv
<1>6. CASE SendDone(i)
  <2> DEFINE r == [sess[i] EXCEPT !.done = TRUE, !.pc = "over", !.stop = FALSE, !.age = 0]
  <2>1. /\ r \in SessionRec /\ SessionShape(r) /\ r.serial = sess[i].serial
        /\ sess[i].pc # "none" /\ r.pc # "none" /\ (~r.alive \/ r.status = "failed")
    BY <1>0, <1>6 DEF SendDone, SessionRec, SessionShape
  <2>2. sess' = [sess EXCEPT ![i] = r] /\ UNCHANGED <<sessions, next_sid, scall, handles>>
    BY <1>6 DEF SendDone
  <2> HIDE DEF r
  <2> QED BY <2>1, <2>2, SessionStepInv
<1> QED BY <1>1, <1>2, <1>3, <1>4, <1>5, <1>6 DEF Supervise, SuperviseOwn

(* The end that is shown is an end, by the shape of the records.           *)
LEMMA InvGivesExitedIsGone == AndroidInv => ExitedIsGone
  BY DEF AndroidInv, AndroidTypeOK, SessionRec, SessionShape, ExitedIsGone

-----------------------------------------------------------------------------
(* The pairing store.                                                      *)

LEMMA PairInitInv == PairInit => PairingInv
  BY PairingAssumption
  DEF PairInit, PairingInv, PairTypeOK, GenerationsAreFresh, OneWorker,
      TokenIsOfWorker, Pending, PairingIsActive, Shown, Gen, Outcome, PairKind

(* One lemma per operation of the store.                                   *)
LEMMA TakeGenerationInv ==
  ASSUME PairingInv, NEW c \in PairCall, TakeGeneration(c)
  PROVE  PairingInv'
<1> USE PairingAssumption DEF PairingInv, TakeGeneration
<1>1. PairTypeOK'
  BY DEF PairTypeOK, Gen
<1>2. GenerationsAreFresh'
  BY DEF GenerationsAreFresh, PairTypeOK, Gen
<1>3. OneWorker' /\ TokenIsOfWorker'
  BY DEF OneWorker, TokenIsOfWorker, Pending, PairingIsActive
<1> QED BY <1>1, <1>2, <1>3

LEMMA PairRefusedInv ==
  ASSUME PairingInv, NEW c \in PairCall, PairRefused(c)
  PROVE  PairingInv'
<1> USE PairingAssumption DEF PairingInv, PairRefused
<1>1. PairTypeOK'
  BY DEF PairTypeOK, Gen
<1>2. GenerationsAreFresh'
  BY DEF GenerationsAreFresh, PairTypeOK, Gen
<1>3. OneWorker' /\ TokenIsOfWorker'
  BY DEF OneWorker, TokenIsOfWorker, Pending, PairingIsActive
<1> QED BY <1>1, <1>2, <1>3

LEMMA EnterPairingInv ==
  ASSUME PairingInv, NEW c \in PairCall, EnterPairing(c)
  PROVE  PairingInv'
<1> USE PairingAssumption DEF PairingInv
<1>0. pcall[c] \in Gen
  BY DEF EnterPairing, PairTypeOK, Gen
<1>1. PairTypeOK'
  BY <1>0 DEF EnterPairing, PairTypeOK, Gen, Shown, PairKind
<1>2. GenerationsAreFresh'
  BY <1>0 DEF EnterPairing, GenerationsAreFresh, PairTypeOK, Gen
<1>3. \A g \in Gen : ~Pending(g)
  BY DEF EnterPairing, OneWorker
<1>4. OneWorker'
  BY <1>0, <1>3 DEF EnterPairing, OneWorker, Pending, PairingIsActive, Shown,
                    PairTypeOK, Outcome
<1>5. TokenIsOfWorker'
  BY DEF EnterPairing, TokenIsOfWorker, PairingIsActive, Shown
<1> QED BY <1>1, <1>2, <1>4, <1>5

LEMMA WorkerReturnsInv ==
  ASSUME PairingInv, NEW g \in Gen, WorkerReturns(g)
  PROVE  PairingInv'
<1> USE PairingAssumption DEF PairingInv, WorkerReturns
<1>1. PairTypeOK'
  BY DEF PairTypeOK
<1>2. GenerationsAreFresh'
  BY DEF GenerationsAreFresh, PairTypeOK, Gen
<1>3. OneWorker'
  BY DEF OneWorker, Pending, PairingIsActive, PairTypeOK
<1>4. TokenIsOfWorker'
  BY DEF TokenIsOfWorker, PairingIsActive
<1> QED BY <1>1, <1>2, <1>3, <1>4

LEMMA SetPairingResultInv ==
  ASSUME PairingInv, NEW g \in Gen, SetPairingResult(g)
  PROVE  PairingInv'
<1> USE PairingAssumption DEF PairingInv
<1>0. /\ PairingIsActive /\ pstate.gen = g /\ PairingGeneration = g
      /\ pstate' \in {Shown("idle", 0), Shown("succeeded", g), Shown("failed", g)}
      /\ token' = 0
  <2>1. PairingIsActive /\ pstate.gen = g
    BY DEF SetPairingResult, OneWorker, Pending
  <2>2. PairingGeneration = g
    BY <2>1 DEF PairingGeneration, PairingIsActive
  <2> QED BY <2>1, <2>2 DEF SetPairingResult
<1>1. PairTypeOK'
  BY <1>0 DEF SetPairingResult, PairTypeOK, Shown, PairKind, Gen
<1>2. GenerationsAreFresh'
  BY DEF SetPairingResult, GenerationsAreFresh, PairTypeOK, Gen
<1>3. ~PairingIsActive'
  BY <1>0 DEF PairingIsActive, Shown
<1>4. \A h \in Gen : ~Pending(h)'
  BY <1>0 DEF SetPairingResult, OneWorker, Pending, PairTypeOK, Outcome
<1>5. OneWorker'
  BY <1>3, <1>4 DEF OneWorker
<1>6. TokenIsOfWorker'
  BY <1>0, <1>3 DEF TokenIsOfWorker, PairingIsActive
<1> QED BY <1>1, <1>2, <1>5, <1>6

(* What cancel_pairing and the exit do to the token.                       *)
LEMMA TokenIsActive ==
  ASSUME PairingInv
  PROVE  /\ token # 0 => token \in Gen /\ worker[token] # "none" /\ token = pstate.gen
         /\ PairingIsActive => token = pstate.gen /\ token # 0
<1> USE DEF PairingInv
<1>1. PairingIsActive => token = pstate.gen /\ pstate.gen \in Gen /\ Pending(pstate.gen)
  BY DEF TokenIsOfWorker, OneWorker
<1>2. ~PairingIsActive => token = 0
  BY DEF TokenIsOfWorker
<1> QED BY <1>1, <1>2 DEF Pending, Gen, Outcome

LEMMA CancelPairingInv ==
  ASSUME PairingInv, CancelPairing
  PROVE  PairingInv'
<1> USE PairingAssumption, TokenIsActive DEF PairingInv
<1>0. PairingIsActive /\ PairingIsActive'
  BY DEF CancelPairing, PairingIsActive, Shown
<1>1. PairTypeOK'
  BY DEF CancelPairing, PairTypeOK, Shown, PairKind
<1>2. GenerationsAreFresh'
  BY DEF CancelPairing, GenerationsAreFresh, PairTypeOK, Gen
<1>3. OneWorker'
  BY <1>0 DEF CancelPairing, OneWorker, Pending, Shown
<1>4. TokenIsOfWorker'
  BY <1>0 DEF CancelPairing, TokenIsOfWorker, Shown
<1> QED BY <1>1, <1>2, <1>3, <1>4

LEMMA PairNextInv ==
  ASSUME PairingInv, PairNext
  PROVE  PairingInv'
BY TakeGenerationInv, PairRefusedInv, EnterPairingInv, WorkerReturnsInv,
   SetPairingResultInv, CancelPairingInv DEF PairNext

LEMMA PairQuiet ==
  ASSUME PairingInv, UNCHANGED pairVars
  PROVE  PairingInv'
BY DEF pairVars, PairingInv, PairTypeOK, GenerationsAreFresh, OneWorker,
       TokenIsOfWorker, Pending, PairingIsActive

(* The exit raises the token and leaves the state alone.                   *)
LEMMA CancelWorkerInv ==
  ASSUME PairingInv, NEW t \in Thread, CancelWorker(t)
  PROVE  PairingInv'
<1> USE PairingAssumption, TokenIsActive DEF PairingInv, CancelWorker
<1>1. PairTypeOK'
  BY DEF PairTypeOK
<1>2. GenerationsAreFresh'
  BY DEF GenerationsAreFresh, PairTypeOK, Gen
<1>3. OneWorker' /\ TokenIsOfWorker'
  BY DEF OneWorker, TokenIsOfWorker, Pending, PairingIsActive
<1> QED BY <1>1, <1>2, <1>3

LEMMA PairingStep ==
  ASSUME PairingInv, [Next]_vars
  PROVE  PairingInv'
<1>1. CASE Pairing
  BY <1>1, PairNextInv DEF Pairing
<1>2. CASE AndroidCommand
  BY <1>2, PairQuiet DEF AndroidCommand, pairVars
<1>3. CASE \E i \in Sid : Supervisor(i) \/ Scrcpy(i)
  BY <1>3, PairQuiet DEF Supervisor, Scrcpy, pairVars
<1>4. CASE BeginShutdown \/ ExitEvent \/ ProcessEnds \/ Tick
  BY <1>4, PairQuiet DEF BeginShutdown, ExitEvent, ProcessEnds, Tick, pairVars
<1>5. CASE \E t \in Thread : Reclaim(t)
  <2> PICK t \in Thread : Reclaim(t)
    BY <1>5
  <2>1. CASE CancelWorker(t)
    BY <2>1, CancelWorkerInv
  <2>2. CASE Drain(t) \/ RequestStops(t) \/ AwaitDone(t) \/ SessionsDown(t) \/ PairingDown(t)
    BY <2>2, PairQuiet DEF Drain, RequestStops, AwaitDone, SessionsDown,
                           PairingDown, pairVars
  <2> QED BY <2>1, <2>2 DEF Reclaim
<1>6. CASE UNCHANGED vars
  BY <1>6, PairQuiet DEF vars
<1> QED BY <1>1, <1>2, <1>3, <1>4, <1>5, <1>6 DEF Next

(* Whatever calls, workers, cancels and the exit do and in which order,    *)
(* one pairing worker runs at a time, the state shown is its state and the *)
(* token held is the one it looks at (set_pairing_result, cancel_pairing,  *)
(* reclaim_sessions).                                                      *)
THEOREM PairingInvariant == Spec => []PairingInv
<1>1. Init => PairingInv
  BY PairInitInv DEF Init
<1>2. PairingInv /\ [Next]_vars => PairingInv'
  BY PairingStep
<1> QED BY <1>1, <1>2, PTL DEF Spec

(* A cancelled attempt leaves its state only by its own worker's return,   *)
(* and then without a trace: no late result is shown and no other attempt  *)
(* takes over (set_pairing_result's first arm).                            *)
THEOREM CancelStandsHolds == Spec => CancelStands
<1> DEFINE A == pstate.kind = "cancelling" =>
                  pstate'.kind = "idle" /\ worker'[pstate.gen] = "none"
<1>1. ASSUME PairingInv, [Next]_vars PROVE [A]_pstate
  <2> SUFFICES ASSUME pstate' # pstate, pstate.kind = "cancelling"
               PROVE  pstate'.kind = "idle" /\ worker'[pstate.gen] = "none"
    OBVIOUS
  <2>1. PairingIsActive
    BY DEF PairingIsActive
  <2>2. CASE Pairing
    <3>1. \E g \in Gen : SetPairingResult(g)
      BY <2>1, <2>2 DEF Pairing, PairNext, TakeGeneration, PairRefused, EnterPairing,
                        WorkerReturns, CancelPairing
    <3>2. PICK g \in Gen : SetPairingResult(g)
      BY <3>1
    <3>3. PairingGeneration = g /\ pstate.gen = g
      BY <3>2, <1>1 DEF SetPairingResult, PairingGeneration, PairingInv, OneWorker,
                        Pending, PairingIsActive
    <3> QED BY <3>2, <3>3, <1>1 DEF SetPairingResult, Shown, PairingInv, PairTypeOK
  <2>3. CASE UNCHANGED pstate
    BY <2>3
  <2>4. Pairing \/ UNCHANGED pstate
    BY <1>1 DEF Next, AndroidCommand, Supervisor, Scrcpy, BeginShutdown, ExitEvent,
                ProcessEnds, Tick, Reclaim, CancelWorker, Drain, RequestStops,
                AwaitDone, SessionsDown, PairingDown, vars, pairVars
  <2> QED BY <2>2, <2>3, <2>4
<1> QED BY <1>1, PairingInvariant, PTL DEF Spec, CancelStands

-----------------------------------------------------------------------------
LEMMA RequestStopsInv ==
  ASSUME AndroidInv, NEW t \in Thread, RequestStops(t)
  PROVE  AndroidInv'
<1>1. sess \in [Sid -> SessionRec]
  BY DEF AndroidInv, AndroidTypeOK
<1>2. sess' = [i \in Sid |-> IF i \in reclaim[t].await /\ ~sess[i].done
                            THEN [sess[i] EXCEPT !.stop = TRUE] ELSE sess[i]]
  BY DEF RequestStops
<1>3. sess' \in [Sid -> SessionRec]
  <2>1. \A i \in Sid : [sess[i] EXCEPT !.stop = TRUE] \in SessionRec
    BY <1>1, StopRaisedIs
  <2> QED BY <1>1, <1>2, <2>1
<1>4. \A i \in Sid : /\ sess'[i].pc = sess[i].pc /\ sess'[i].serial = sess[i].serial
                     /\ sess'[i].alive = sess[i].alive
                     /\ sess'[i].status = sess[i].status
                     /\ sess'[i].done = sess[i].done
                     /\ sess[i].stop => sess'[i].stop
  BY <1>1, <1>2 DEF SessionRec
<1> QED BY <1>3, <1>4, StopsRaisedInv DEF RequestStops

LEMMA TickInv ==
  ASSUME AndroidInv, Tick
  PROVE  AndroidInv'
<1>1. sess \in [Sid -> SessionRec]
  BY DEF AndroidInv, AndroidTypeOK
<1>2. sess' = [i \in Sid |-> IF sess[i].stop /\ ~sess[i].done
                            THEN [sess[i] EXCEPT !.age = @ + 1] ELSE sess[i]]
  BY DEF Tick
<1>3. sess' \in [Sid -> SessionRec]
  <2>1. \A i \in Sid : [sess[i] EXCEPT !.age = @ + 1] \in SessionRec
    BY <1>1 DEF SessionRec
  <2> QED BY <1>1, <1>2, <2>1
<1>4. \A i \in Sid : /\ sess'[i].pc = sess[i].pc /\ sess'[i].serial = sess[i].serial
                     /\ sess'[i].alive = sess[i].alive
                     /\ sess'[i].status = sess[i].status
                     /\ sess'[i].done = sess[i].done
                     /\ sess[i].stop => sess'[i].stop
  BY <1>1, <1>2 DEF SessionRec
<1> QED BY <1>3, <1>4, StopsRaisedInv DEF Tick

LEMMA AndroidStep ==
  ASSUME AndroidInv, [Next]_vars
  PROVE  AndroidInv'
<1>1. CASE AndroidCommand
  BY <1>1, StartCheckInv, SpawnSupervisedInv, SpawnFailsInv, StartInsertInv,
     StopSessionInv DEF AndroidCommand, StartSession
<1>2. CASE \E i \in Sid : Supervisor(i) \/ Scrcpy(i)
  BY <1>2, SuperviseInv, ScrcpyExitsInv DEF Supervisor, Scrcpy
<1>3. CASE \E t \in Thread : Reclaim(t)
  <2> PICK t \in Thread : Reclaim(t)
    BY <1>3
  <2>1. CASE Drain(t)
    BY <2>1, DrainedInv DEF Drain
  <2>2. CASE RequestStops(t)
    BY <2>2, RequestStopsInv
  <2>3. CASE CancelWorker(t) \/ AwaitDone(t) \/ SessionsDown(t) \/ PairingDown(t)
    BY <2>3, AndroidQuiet DEF CancelWorker, AwaitDone, SessionsDown, PairingDown
  <2> QED BY <2>1, <2>2, <2>3 DEF Reclaim
<1>4. CASE Tick
  BY <1>4, TickInv
<1>5. CASE Pairing \/ BeginShutdown \/ ExitEvent \/ ProcessEnds \/ UNCHANGED vars
  BY <1>5, AndroidQuiet DEF Pairing, BeginShutdown, ExitEvent, ProcessEnds, vars
<1> QED BY <1>1, <1>2, <1>3, <1>4, <1>5 DEF Next

LEMMA AndroidInvariant == Spec => []AndroidInv
<1>1. Init => AndroidInv
  BY AndroidInitInv DEF Init
<1>2. AndroidInv /\ [Next]_vars => AndroidInv'
  BY AndroidStep
<1> QED BY <1>1, <1>2, PTL DEF Spec

(* However starts for the same phone, stops, exits of scrcpy and the       *)
(* program's exit interleave, a live scrcpy is in the map under its        *)
(* serial, in the hand of its start call, drained or told to stop, so that *)
(* no phone is controlled by a session nothing can end (start_session's    *)
(* second look, reclaim_sessions' drain).                                  *)
THEOREM LiveIsReachableHolds == Spec => []LiveIsReachable
<1>1. AndroidInv => LiveIsReachable
  BY DEF AndroidInv
<1> QED BY <1>1, AndroidInvariant, PTL

(* A status Exited or a done message is published only after scrcpy is     *)
(* gone, wherever supervise left its loop (supervise, spawn_supervised).   *)
THEOREM ExitedIsGoneHolds == Spec => []ExitedIsGone
<1> QED BY InvGivesExitedIsGone, AndroidInvariant, PTL

-----------------------------------------------------------------------------
(* The exit.  First the threads and the clock, then the sessions that are  *)
(* waited for.                                                             *)
ReclaimRec ==
  [pc : {"idle", "cancel", "drain", "stop", "await", "pairing", "over"},
   await : SUBSET Sid, deadline : 0..(PairBudget + SessionBudget)]

ExitType ==
  /\ started \in BOOLEAN /\ finished \in BOOLEAN /\ gone \in BOOLEAN
  /\ reclaim \in [Thread -> ReclaimRec]
  /\ waiter \in 0..(PairBudget + ExitBudget)
  /\ clock \in 0..(PairBudget + ExitBudget)
  /\ timed_out \in SUBSET Sid

Schedule == ExitType /\ ReclaimIsOnTime /\ ExitWaitsForReclaim

LEMMA BudgetsAreNat ==
  /\ Ladder \in Nat /\ SessionBudget \in Nat /\ PairBudget \in Nat /\ ExitBudget \in Nat
  /\ Ladder < SessionBudget /\ SessionBudget <= PairBudget /\ PairBudget < ExitBudget
BY BudgetAssumption

LEMMA ScheduleInit == Init => Schedule
<1> SUFFICES ASSUME Init PROVE Schedule
  OBVIOUS
<1> USE BudgetsAreNat DEF Init, ExitInit, IdleThread
<1>1. ExitType
  <2>1. started \in BOOLEAN /\ finished \in BOOLEAN /\ gone \in BOOLEAN
    OBVIOUS
  <2>2. IdleThread \in ReclaimRec
    BY DEF ReclaimRec
  <2>3. reclaim \in [Thread -> ReclaimRec]
    BY <2>2
  <2>4. waiter = 0 /\ clock = 0 /\ timed_out = {}
    OBVIOUS
  <2> HIDE DEF Init
  <2> QED BY <2>1, <2>3, <2>4 DEF ExitType
<1>2. \A t \in Thread : reclaim[t].pc = "idle"
  OBVIOUS
<1>3. started = FALSE /\ finished = FALSE /\ clock = 0 /\ waiter = 0 /\ gone = FALSE
  OBVIOUS
<1> HIDE DEF Init
<1>4. ReclaimIsOnTime
  BY <1>2, <1>3 DEF ReclaimIsOnTime
<1>5. ExitWaitsForReclaim
  BY <1>3 DEF ExitWaitsForReclaim
<1> QED BY <1>1, <1>4, <1>5 DEF Schedule

LEMMA ScheduleQuiet ==
  ASSUME Schedule, UNCHANGED exitVars
  PROVE  Schedule'
BY DEF Schedule, ExitType, ReclaimIsOnTime, ExitWaitsForReclaim, exitVars

(* The thread that reclaims goes on to its next call.                      *)
LEMMA ScheduleMove ==
  ASSUME Schedule, NEW t \in Thread, NEW r \in ReclaimRec,
         reclaim' = [reclaim EXCEPT ![t] = r],
         reclaim[t].pc \notin {"idle", "over"}, r.pc \notin {"idle", "over"},
         r.pc \in {"cancel", "drain", "stop"} => clock = 0,
         r.pc = "await" => r.deadline = SessionBudget,
         r.pc = "pairing" => r.deadline = PairBudget,
         timed_out' \in SUBSET Sid,
         UNCHANGED <<started, finished, waiter, clock, gone>>
  PROVE  Schedule'
<1> USE DEF Schedule
<1>1. reclaim \in [Thread -> ReclaimRec]
  BY DEF ExitType
<1>2. \A u \in Thread : reclaim'[u] = IF u = t THEN r ELSE reclaim[u]
  BY <1>1
<1>3. ExitType'
  BY <1>1 DEF ExitType
<1>4. \A u \in Thread : /\ reclaim'[u].pc = "idle" <=> reclaim[u].pc = "idle"
                        /\ reclaim'[u].pc = "over" <=> reclaim[u].pc = "over"
  BY <1>2
<1>5. \A u \in Thread :
        /\ reclaim'[u].pc \in {"cancel", "drain", "stop"} => clock = 0
        /\ reclaim'[u].pc = "await" => reclaim'[u].deadline = SessionBudget
        /\ reclaim'[u].pc = "pairing" => reclaim'[u].deadline = PairBudget
  BY <1>2 DEF ReclaimIsOnTime
<1>6. ReclaimIsOnTime'
  BY <1>4, <1>5 DEF ReclaimIsOnTime
<1>7. ExitWaitsForReclaim'
  BY DEF ExitWaitsForReclaim
<1> QED BY <1>3, <1>6, <1>7

(* The first event, whichever it is, makes one thread of the two begin.    *)
LEMMA ScheduleBegins ==
  ASSUME Schedule, NEW t \in Thread, ~started, started' = TRUE,
         reclaim' = [reclaim EXCEPT ![t].pc = "cancel"],
         UNCHANGED <<finished, waiter, clock, timed_out, gone>>
  PROVE  Schedule'
<1> USE DEF Schedule
<1> DEFINE r == [reclaim[t] EXCEPT !.pc = "cancel"]
<1>1. reclaim \in [Thread -> ReclaimRec] /\ reclaim[t] \in ReclaimRec
  BY DEF ExitType
<1>2. r \in ReclaimRec /\ r.pc = "cancel" /\ reclaim' = [reclaim EXCEPT ![t] = r]
  BY <1>1 DEF ReclaimRec
<1> HIDE DEF r
<1>3. \A u \in Thread : reclaim'[u] = IF u = t THEN r ELSE reclaim[u]
  BY <1>1, <1>2
<1>4. ExitType'
  BY <1>1, <1>2 DEF ExitType
<1>5. \A u \in Thread : reclaim[u].pc = "idle"
  BY DEF ReclaimIsOnTime
<1>6. \A u \in Thread : reclaim'[u].pc = IF u = t THEN "cancel" ELSE "idle"
  BY <1>2, <1>3, <1>5
<1>7. clock = 0 /\ clock <= PairBudget /\ (waiter # 0 => waiter >= ExitBudget)
  BY DEF ReclaimIsOnTime
<1>8. finished = FALSE
  BY <1>5 DEF ReclaimIsOnTime, ExitType
<1>9. ReclaimIsOnTime'
  BY <1>6, <1>7, <1>8 DEF ReclaimIsOnTime
<1>10. ExitWaitsForReclaim'
  BY DEF ExitWaitsForReclaim
<1> QED BY <1>4, <1>9, <1>10

LEMMA ScheduleEvents ==
  ASSUME Schedule, BeginShutdown \/ ExitEvent \/ ProcessEnds
  PROVE  Schedule'
<1> USE BudgetsAreNat DEF Schedule
<1>1. CASE BeginShutdown
  <2>1. "background" \in Thread
    BY DEF Thread
  <2> QED BY <1>1, <2>1, ScheduleBegins DEF BeginShutdown
<1>2. CASE ExitEvent /\ ~started
  <2>1. "event_loop" \in Thread
    BY DEF Thread
  <2> QED BY <1>2, <2>1, ScheduleBegins DEF ExitEvent
<1>3. CASE ExitEvent /\ started
  <2>1. /\ waiter' = clock + ExitBudget /\ started' = started
        /\ UNCHANGED <<reclaim, finished, clock, timed_out, gone>>
    BY <1>3 DEF ExitEvent, ExitType
  <2>2. clock \in 0..PairBudget
    BY DEF ExitType, ReclaimIsOnTime
  <2>3. waiter' \in 0..(PairBudget + ExitBudget) /\ waiter' >= ExitBudget
    BY <2>1, <2>2
  <2>4. ExitType' /\ ExitWaitsForReclaim'
    BY <2>1, <2>3 DEF ExitType, ExitWaitsForReclaim
  <2>5. ReclaimIsOnTime'
    BY <2>1, <2>3 DEF ReclaimIsOnTime
  <2> QED BY <2>4, <2>5
<1>4. CASE ProcessEnds
  <2>1. gone' = TRUE /\ UNCHANGED <<started, finished, reclaim, waiter, clock, timed_out>>
    BY <1>4 DEF ProcessEnds
  <2>2. ~(waiter # 0 /\ clock >= waiter)
    BY DEF ExitType, ReclaimIsOnTime
  <2>3. finished
    BY <1>4, <2>2 DEF ProcessEnds
  <2>4. ExitType'
    BY <2>1 DEF ExitType
  <2>5. ReclaimIsOnTime' /\ ExitWaitsForReclaim'
    BY <2>1, <2>3 DEF ReclaimIsOnTime, ExitWaitsForReclaim
  <2> QED BY <2>4, <2>5
<1> QED BY <1>1, <1>2, <1>3, <1>4

LEMMA ScheduleTick ==
  ASSUME Schedule, Tick
  PROVE  Schedule'
<1> USE BudgetsAreNat DEF Schedule
<1>1. /\ started /\ ~finished /\ NothingDue /\ clock' = clock + 1
      /\ UNCHANGED <<started, finished, reclaim, waiter, timed_out, gone>>
  BY DEF Tick
<1>2. PICK t \in Thread : reclaim[t].pc # "idle"
  BY <1>1 DEF ReclaimIsOnTime
<1>3. reclaim[t].pc \in {"await", "pairing"} /\ clock < reclaim[t].deadline
  <2>1. reclaim[t].pc # "over"
    BY <1>1 DEF ReclaimIsOnTime
  <2> QED BY <1>1, <1>2, <2>1 DEF NothingDue, ExitType, ReclaimRec
<1>4. reclaim[t].deadline <= PairBudget /\ clock \in Nat
  BY <1>3 DEF ReclaimIsOnTime, ExitType
<1>5. clock' \in 0..PairBudget
  BY <1>1, <1>3, <1>4 DEF ReclaimIsOnTime
<1>6. ExitType' /\ ExitWaitsForReclaim'
  BY <1>1, <1>5 DEF ExitType, ExitWaitsForReclaim
<1>7. \A u \in Thread : reclaim[u].pc \notin {"cancel", "drain", "stop"}
  BY <1>1 DEF NothingDue
<1>8. ReclaimIsOnTime'
  BY <1>1, <1>5, <1>7 DEF ReclaimIsOnTime
<1> QED BY <1>6, <1>8

(* A step of the thread that reclaims, other than its last, as the record  *)
(* it leaves.                                                              *)
LEMMA ReclaimMoves ==
  ASSUME AndroidTypeOK, Schedule, NEW t \in Thread,
         CancelWorker(t) \/ Drain(t) \/ RequestStops(t) \/ AwaitDone(t) \/ SessionsDown(t)
  PROVE  \E r \in ReclaimRec :
           /\ reclaim' = [reclaim EXCEPT ![t] = r]
           /\ reclaim[t].pc \notin {"idle", "over"} /\ r.pc \notin {"idle", "over"}
           /\ r.pc \in {"cancel", "drain", "stop"} => clock = 0
           /\ r.pc = "await" => r.deadline = SessionBudget
           /\ r.pc = "pairing" => r.deadline = PairBudget
<1> USE BudgetsAreNat DEF Schedule
<1> DEFINE q == reclaim[t]
<1>1. reclaim \in [Thread -> ReclaimRec] /\ q \in ReclaimRec
  BY DEF ExitType
<1>2. q.pc \in {"cancel", "drain", "stop"} => clock = 0
  BY DEF ReclaimIsOnTime
<1>3. CASE CancelWorker(t)
  <2> DEFINE r == [q EXCEPT !.pc = "drain"]
  <2>1. r \in ReclaimRec /\ r.pc = "drain"
    BY <1>1 DEF ReclaimRec
  <2>2. q.pc = "cancel" /\ reclaim' = [reclaim EXCEPT ![t] = r]
    BY <1>1, <1>3 DEF CancelWorker
  <2> HIDE DEF r
  <2> QED BY <1>2, <2>1, <2>2
<1>4. CASE Drain(t)
  <2> DEFINE taken == {sessions[d] : d \in Serial} \ {0}
             r == [q EXCEPT !.pc = "stop", !.await = taken]
  <2>1. taken \in SUBSET Sid
    BY DEF AndroidTypeOK, Sid
  <2>a. q.pc = "drain" /\ reclaim' = [reclaim EXCEPT ![t].pc = "stop", ![t].await = taken]
    BY <1>4 DEF Drain
  <2> HIDE DEF taken
  <2>2. reclaim' = [reclaim EXCEPT ![t] = r]
    BY <1>1, <2>a
  <2>3. r \in ReclaimRec /\ r.pc = "stop"
    BY <1>1, <2>1 DEF ReclaimRec
  <2> HIDE DEF r
  <2> QED BY <1>2, <2>a, <2>2, <2>3
<1>5. CASE RequestStops(t)
  <2> DEFINE r == [q EXCEPT !.pc = "await", !.deadline = SessionBudget]
  <2>a. SessionBudget \in 0..(PairBudget + SessionBudget)
    OBVIOUS
  <2>1. r \in ReclaimRec /\ r.pc = "await" /\ r.deadline = SessionBudget
    BY <1>1, <2>a DEF ReclaimRec
  <2>2. clock + SessionBudget = SessionBudget
    BY <1>2, <1>5 DEF RequestStops
  <2>3. q.pc = "stop" /\ reclaim' = [reclaim EXCEPT ![t] = r]
    BY <1>1, <1>5, <2>2 DEF RequestStops
  <2> HIDE DEF r
  <2> QED BY <2>1, <2>3
<1>6. CASE AwaitDone(t)
  <2>1. PICK i \in q.await : reclaim' = [reclaim EXCEPT ![t].await = reclaim[t].await \ {i}]
    BY <1>6 DEF AwaitDone
  <2> DEFINE r == [q EXCEPT !.await = q.await \ {i}]
  <2>2. r \in ReclaimRec /\ r.pc = q.pc /\ r.deadline = q.deadline
    BY <1>1 DEF ReclaimRec
  <2>a. q.pc = "await"
    BY <1>6 DEF AwaitDone
  <2>b. reclaim' = [reclaim EXCEPT ![t] = r]
    BY <1>1, <2>1
  <2>3. q.pc = "await" /\ reclaim' = [reclaim EXCEPT ![t] = r]
    BY <2>a, <2>b
  <2>4. q.deadline = SessionBudget
    BY <2>3 DEF ReclaimIsOnTime
  <2> HIDE DEF r
  <2> QED BY <2>2, <2>3, <2>4
<1>7. CASE SessionsDown(t)
  <2> DEFINE r == [q EXCEPT !.pc = "pairing", !.deadline = PairBudget]
  <2>a. PairBudget \in 0..(PairBudget + SessionBudget)
    OBVIOUS
  <2>1. r \in ReclaimRec /\ r.pc = "pairing" /\ r.deadline = PairBudget
    BY <1>1, <2>a DEF ReclaimRec
  <2>2. q.pc = "await" /\ reclaim' = [reclaim EXCEPT ![t] = r]
    BY <1>1, <1>7 DEF SessionsDown
  <2> HIDE DEF r
  <2> QED BY <2>1, <2>2
<1> QED BY <1>3, <1>4, <1>5, <1>6, <1>7

LEMMA SchedulePairingDown ==
  ASSUME Schedule, NEW t \in Thread, PairingDown(t)
  PROVE  Schedule'
<1> USE BudgetsAreNat DEF Schedule
<1> DEFINE r == [IdleThread EXCEPT !.pc = "over"]
<1>1. /\ reclaim[t].pc = "pairing" /\ reclaim' = [reclaim EXCEPT ![t] = r]
      /\ finished' = TRUE /\ clock' = 0 /\ waiter' = 0
      /\ UNCHANGED <<started, timed_out, gone>>
  BY DEF PairingDown
<1>2. r \in ReclaimRec /\ r.pc = "over"
  BY DEF IdleThread, ReclaimRec
<1>3. reclaim \in [Thread -> ReclaimRec]
  BY DEF ExitType
<1> HIDE DEF r
<1>4. \A u \in Thread : reclaim'[u] = IF u = t THEN r ELSE reclaim[u]
  BY <1>1, <1>3
<1>5. ExitType'
  BY <1>1, <1>2, <1>3 DEF ExitType
<1>6. \A u \in Thread : reclaim'[u].pc = IF u = t THEN "over" ELSE "idle"
  BY <1>1, <1>2, <1>4 DEF ReclaimIsOnTime
<1>7. started
  BY <1>1 DEF ReclaimIsOnTime
<1>8. ReclaimIsOnTime'
  BY <1>1, <1>6, <1>7 DEF ReclaimIsOnTime
<1>9. ExitWaitsForReclaim'
  BY <1>1 DEF ExitWaitsForReclaim
<1> QED BY <1>5, <1>8, <1>9

LEMMA ScheduleReclaim ==
  ASSUME AndroidTypeOK, Schedule, NEW t \in Thread, Reclaim(t)
  PROVE  Schedule'
<1>1. CASE PairingDown(t)
  BY <1>1, SchedulePairingDown
<1>2. CASE CancelWorker(t) \/ Drain(t) \/ RequestStops(t) \/ AwaitDone(t) \/ SessionsDown(t)
  <2>1. PICK r \in ReclaimRec :
           /\ reclaim' = [reclaim EXCEPT ![t] = r]
           /\ reclaim[t].pc \notin {"idle", "over"} /\ r.pc \notin {"idle", "over"}
           /\ r.pc \in {"cancel", "drain", "stop"} => clock = 0
           /\ r.pc = "await" => r.deadline = SessionBudget
           /\ r.pc = "pairing" => r.deadline = PairBudget
    BY <1>2, ReclaimMoves
  <2>2. UNCHANGED <<started, finished, waiter, clock, gone>>
    BY <1>2 DEF CancelWorker, Drain, RequestStops, AwaitDone, SessionsDown
  <2>3. timed_out' \in SUBSET Sid
    <3>1. timed_out \in SUBSET Sid /\ reclaim[t].await \in SUBSET Sid
      BY DEF Schedule, ExitType, ReclaimRec
    <3> QED BY <1>2, <3>1 DEF CancelWorker, Drain, RequestStops, AwaitDone, SessionsDown
  <2> QED BY <2>1, <2>2, <2>3, ScheduleMove
<1> QED BY <1>1, <1>2 DEF Reclaim

LEMMA ScheduleStep ==
  ASSUME AndroidTypeOK, Schedule, [Next]_vars
  PROVE  Schedule'
<1>1. CASE Pairing \/ AndroidCommand \/ UNCHANGED vars \/ \E i \in Sid : Supervisor(i) \/ Scrcpy(i)
  BY <1>1, ScheduleQuiet DEF Pairing, AndroidCommand, Supervisor, Scrcpy, vars
<1>2. CASE BeginShutdown \/ ExitEvent \/ ProcessEnds
  BY <1>2, ScheduleEvents
<1>3. CASE \E t \in Thread : Reclaim(t)
  BY <1>3, ScheduleReclaim
<1>4. CASE Tick
  BY <1>4, ScheduleTick
<1> QED BY <1>1, <1>2, <1>3, <1>4 DEF Next

-----------------------------------------------------------------------------
(* The sessions that are waited for.                                       *)
IInv == AndroidInv /\ Schedule /\ AwaitedEndInTime /\ timed_out = {}

LEMMA AwaitedTypes ==
  ASSUME IInv
  PROVE  /\ handles \in SUBSET Sid
         /\ \A t \in Thread : reclaim[t].await \in SUBSET Sid
         /\ sess \in [Sid -> SessionRec]
         /\ reclaim \in [Thread -> ReclaimRec]
         /\ \A i \in Sid : sess[i].done => sess[i].pc = "over"
         /\ clock \in Nat
<1>1. reclaim \in [Thread -> ReclaimRec] /\ clock \in Nat
  BY BudgetsAreNat DEF IInv, Schedule, ExitType
<1>2. \A t \in Thread : reclaim[t].await \in SUBSET Sid
  BY <1>1 DEF ReclaimRec
<1> QED BY <1>1, <1>2 DEF IInv, AndroidInv, AndroidTypeOK, SessionShape

(* A step of a session or of a command takes no stop back, revives nothing *)
(* and leaves the age.                                                     *)
LEMMA AwaitedSession ==
  ASSUME IInv, UNCHANGED <<reclaim, clock, handles>>,
         \A i \in Sid : /\ sess[i].pc # "none" =>
                            /\ sess'[i].pc # "none"
                            /\ sess[i].done => sess'[i].done
                            /\ sess[i].stop => sess'[i].done
                                               \/ (sess'[i].stop /\ sess'[i].age = sess[i].age)
                        /\ sess'[i].age <= Ladder
  PROVE  AwaitedEndInTime'
<1>1. \A t \in Thread : \A i \in reclaim[t].await :
        /\ reclaim[t].pc \in {"stop", "await"} => sess'[i].pc # "none"
        /\ reclaim[t].pc = "await" => sess'[i].done \/ (sess'[i].stop /\ sess'[i].age >= clock)
  <2> SUFFICES ASSUME NEW t \in Thread, NEW i \in reclaim[t].await,
                      reclaim[t].pc \in {"stop", "await"}
               PROVE  /\ sess'[i].pc # "none"
                      /\ reclaim[t].pc = "await" =>
                           sess'[i].done \/ (sess'[i].stop /\ sess'[i].age >= clock)
    OBVIOUS
  <2>1. i \in Sid /\ sess[i].pc # "none"
    BY AwaitedTypes DEF IInv, AwaitedEndInTime
  <2>2. reclaim[t].pc = "await" => sess[i].done \/ (sess[i].stop /\ sess[i].age >= clock)
    BY DEF IInv, AwaitedEndInTime
  <2> QED BY <2>1, <2>2
<1>2. \A i \in handles : sess[i].done => sess'[i].done
  BY AwaitedTypes
<1> QED BY <1>1, <1>2 DEF IInv, AwaitedEndInTime

(* What every rewrite of one session's record does, by its fields.         *)
LEMMA AwaitedRewrite ==
  ASSUME IInv, UNCHANGED <<reclaim, clock, handles>>, NEW i \in Sid,
         \A j \in Sid : j # i => sess'[j] = sess[j],
         sess[i].pc # "none" =>
            /\ sess'[i].pc # "none"
            /\ sess[i].done => sess'[i].done
            /\ sess[i].stop => sess'[i].done
                               \/ (sess'[i].stop /\ sess'[i].age = sess[i].age),
         sess'[i].age \in {0, sess[i].age}
  PROVE  AwaitedEndInTime'
<1>1. \A j \in Sid : sess[j].age <= Ladder
  BY DEF IInv, AwaitedEndInTime
<1>2. sess'[i].age <= Ladder
  BY <1>1, BudgetsAreNat
<1> QED BY <1>1, <1>2, AwaitedSession

LEMMA AwaitedCommand ==
  ASSUME IInv, AndroidCommand
  PROVE  AwaitedEndInTime'
<1>1. UNCHANGED <<reclaim, clock, handles>>
  BY DEF AndroidCommand, StartSession, StartCheck, SpawnSupervised, SpawnFails, StartInsert,
         StopSession, exitVars
<1>2. sess \in [Sid -> SessionRec]
  BY AwaitedTypes
<1>3. CASE UNCHANGED sess
  BY <1>1, <1>3, AwaitedSession DEF IInv, AwaitedEndInTime
<1>4. ASSUME NEW c \in StartCall, SpawnSupervised(c) PROVE AwaitedEndInTime'
  <2>1. scall[c].id \in Sid /\ sess[scall[c].id].pc = "none"
    BY <1>4, AndroidAssumption DEF SpawnSupervised, IInv, AndroidInv, IdsAreOwn, AndroidTypeOK, Sid
  <2>2. sess'[scall[c].id].age = 0
    BY <1>2, <1>4, <2>1 DEF SpawnSupervised, NoSession
  <2>3. \A j \in Sid : j # scall[c].id => sess'[j] = sess[j]
    BY <1>2, <1>4 DEF SpawnSupervised
  <2> QED BY <1>1, <2>1, <2>2, <2>3, AwaitedRewrite
<1>5. ASSUME NEW k \in Sid, sess' = [sess EXCEPT ![k].stop = TRUE] PROVE AwaitedEndInTime'
  <2>1. /\ sess'[k].pc = sess[k].pc /\ sess'[k].done = sess[k].done
        /\ sess'[k].stop = TRUE /\ sess'[k].age = sess[k].age
    BY <1>2, <1>5 DEF SessionRec
  <2>2. \A j \in Sid : j # k => sess'[j] = sess[j]
    BY <1>2, <1>5
  <2> QED BY <1>1, <2>1, <2>2, AwaitedRewrite
<1>6. ASSUME NEW c \in StartCall, StartInsert(c) PROVE AwaitedEndInTime'
  <2>1. scall[c].id \in Sid
    BY <1>6, AndroidAssumption DEF StartInsert, IInv, AndroidInv, IdsAreOwn, AndroidTypeOK, Sid
  <2> QED BY <1>3, <1>5, <1>6, <2>1 DEF StartInsert
<1>7. ASSUME NEW d \in Serial, StopSession(d) PROVE AwaitedEndInTime'
  <2>1. sessions[d] \in Sid
    BY <1>7 DEF StopSession, IInv, AndroidInv, AndroidTypeOK, Sid
  <2> QED BY <1>5, <1>7, <2>1 DEF StopSession
<1> QED BY <1>3, <1>4, <1>6, <1>7 DEF AndroidCommand, StartSession, StartCheck, SpawnFails

LEMMA AwaitedSupervisor ==
  ASSUME IInv, NEW i \in Sid, Supervisor(i) \/ Scrcpy(i)
  PROVE  AwaitedEndInTime'
<1>1. UNCHANGED <<reclaim, clock, handles>>
  BY DEF Supervisor, Supervise, SuperviseOwn, SeeStop, LadderEnds, SeeExit, PublishExit,
         SendDone, WaitFails, Scrcpy, ScrcpyExits, exitVars
<1>2. sess \in [Sid -> SessionRec] /\ sess[i] \in SessionRec
  BY AwaitedTypes
<1>3. \A j \in Sid : j # i => sess'[j] = sess[j]
  BY <1>2 DEF Supervisor, Supervise, SuperviseOwn, SeeStop, LadderEnds, SeeExit, PublishExit,
         SendDone, WaitFails, Scrcpy, ScrcpyExits
<1>4. CASE SendDone(i)
  <2>1. sess'[i].done = TRUE /\ sess'[i].pc = "over" /\ sess'[i].age = 0
    BY <1>2, <1>4 DEF SendDone, SessionRec
  <2> QED BY <1>1, <1>3, <2>1, AwaitedRewrite
<1>5. CASE SeeStop(i) \/ LadderEnds(i) \/ SeeExit(i) \/ PublishExit(i) \/ WaitFails(i)
           \/ ScrcpyExits(i)
  <2>1. /\ sess[i].pc # "none" => sess'[i].pc # "none"
        /\ sess'[i].done = sess[i].done /\ sess'[i].stop = sess[i].stop
        /\ sess'[i].age = sess[i].age
    BY <1>2, <1>5 DEF SeeStop, LadderEnds, SeeExit, PublishExit, WaitFails, ScrcpyExits, SessionRec
  <2> QED BY <1>1, <1>3, <2>1, AwaitedRewrite
<1> QED BY <1>4, <1>5 DEF Supervisor, Supervise, SuperviseOwn, Scrcpy

(* A step of the clean-up that leaves sessions, handles and clock: it may  *)
(* let go of nothing but what is done.                                     *)
LEMMA AwaitedThread ==
  ASSUME IInv, UNCHANGED <<sess, handles, clock>>, NEW t \in Thread,
         \A u \in Thread : u # t => reclaim'[u] = reclaim[u],
         reclaim'[t].pc \in {"stop", "await"} =>
            reclaim[t].pc = reclaim'[t].pc /\ reclaim'[t].await \subseteq reclaim[t].await,
         \A i \in reclaim[t].await :
            reclaim[t].pc \in {"stop", "await"} =>
              \/ sess[i].done
              \/ reclaim'[t].pc \in {"stop", "await"} /\ i \in reclaim'[t].await
  PROVE  AwaitedEndInTime'
<1> USE DEF IInv, AwaitedEndInTime
<1>1. \A u \in Thread : \A i \in reclaim'[u].await :
        /\ reclaim'[u].pc \in {"stop", "await"} => sess[i].pc # "none"
        /\ reclaim'[u].pc = "await" => sess[i].done \/ (sess[i].stop /\ sess[i].age >= clock)
  OBVIOUS
<1>2. \A i \in handles :
        \/ sess[i].done
        \/ \E u \in Thread : reclaim'[u].pc \in {"stop", "await"} /\ i \in reclaim'[u].await
  OBVIOUS
<1> QED BY <1>1, <1>2

(* A session that is waited for when the budget is used up is down: its    *)
(* ladder is shorter.                                                      *)
LEMMA BudgetCoversLadder ==
  ASSUME IInv, NEW t \in Thread, reclaim[t].pc = "await", NEW i \in reclaim[t].await,
         sess[i].done \/ clock >= reclaim[t].deadline
  PROVE  sess[i].done
<1>1. i \in Sid /\ clock \in Nat
  BY AwaitedTypes
<1>2. reclaim[t].deadline = SessionBudget
  BY DEF IInv, Schedule, ReclaimIsOnTime
<1>3. sess[i].done \/ sess[i].age >= clock
  BY DEF IInv, AwaitedEndInTime
<1>4. sess[i].age <= Ladder /\ sess[i].age \in Nat
  BY <1>1, AwaitedTypes DEF IInv, AwaitedEndInTime, SessionRec
<1> QED BY <1>1, <1>2, <1>3, <1>4, BudgetsAreNat

LEMMA AwaitedReclaim ==
  ASSUME IInv, NEW t \in Thread, Reclaim(t)
  PROVE  AwaitedEndInTime' /\ timed_out' = {}
<1>1. reclaim \in [Thread -> ReclaimRec] /\ reclaim[t] \in ReclaimRec
  BY AwaitedTypes
<1>2. \A u \in Thread : u # t => reclaim'[u] = reclaim[u]
  BY <1>1 DEF Reclaim, CancelWorker, Drain, RequestStops, AwaitDone, SessionsDown, PairingDown
<1>3. timed_out = {} /\ AwaitedEndInTime /\ ReclaimIsOnTime
  BY DEF IInv, Schedule
<1>4. CASE CancelWorker(t)
  <2>1. /\ UNCHANGED <<sess, handles, clock, timed_out>> /\ reclaim[t].pc = "cancel"
        /\ reclaim'[t].pc = "drain"
    BY <1>1, <1>4 DEF CancelWorker, androidVars, ReclaimRec
  <2> QED BY <1>2, <1>3, <2>1, AwaitedThread
<1>5. CASE AwaitDone(t)
  <2>1. PICK i \in reclaim[t].await :
          /\ sess[i].done \/ clock >= reclaim[t].deadline
          /\ reclaim' = [reclaim EXCEPT ![t].await = reclaim[t].await \ {i}]
          /\ timed_out' = IF sess[i].done THEN timed_out ELSE timed_out \cup {i}
    BY <1>5 DEF AwaitDone
  <2>2. UNCHANGED <<sess, handles, clock>> /\ reclaim[t].pc = "await"
    BY <1>5 DEF AwaitDone, androidVars
  <2>3. sess[i].done
    BY <2>1, <2>2, BudgetCoversLadder
  <2>4. reclaim'[t].pc = "await" /\ reclaim'[t].await = reclaim[t].await \ {i}
    BY <1>1, <2>1, <2>2 DEF ReclaimRec
  <2>5. AwaitedEndInTime'
    BY <1>2, <2>2, <2>3, <2>4, AwaitedThread
  <2> QED BY <1>3, <2>1, <2>3, <2>5
<1>6. CASE SessionsDown(t)
  <2>1. /\ UNCHANGED <<sess, handles, clock, timed_out>> /\ reclaim[t].await = {}
        /\ reclaim'[t].pc = "pairing"
    BY <1>1, <1>6 DEF SessionsDown, androidVars, ReclaimRec
  <2> QED BY <1>2, <1>3, <2>1, AwaitedThread
<1>7. CASE PairingDown(t)
  <2>1. /\ UNCHANGED <<sess, handles, timed_out>> /\ reclaim[t].pc = "pairing"
        /\ clock' = 0 /\ reclaim'[t].pc = "over"
    BY <1>1, <1>7 DEF PairingDown, androidVars, IdleThread
  <2>2. \A u \in Thread : u # t => reclaim[u].pc = "idle"
    BY <1>3, <2>1 DEF ReclaimIsOnTime
  <2>3. \A u \in Thread : reclaim'[u].pc \in {"idle", "over"} /\ reclaim[u].pc \notin {"stop", "await"}
    BY <1>2, <2>1, <2>2
  <2> QED BY <1>3, <2>1, <2>3 DEF AwaitedEndInTime
<1>8. CASE Drain(t)
  <2> DEFINE taken == {sessions[d] : d \in Serial} \ {0}
  <2>1. /\ handles' = handles \cup taken /\ reclaim[t].pc = "drain"
        /\ reclaim' = [reclaim EXCEPT ![t].pc = "stop", ![t].await = taken]
        /\ UNCHANGED <<sess, clock, timed_out>>
    BY <1>8 DEF Drain
  <2>2. \A i \in taken : sess[i].pc # "none"
    BY DEF IInv, AndroidInv, IdsAreOwn
  <2> HIDE DEF taken
  <2>3. reclaim'[t].pc = "stop" /\ reclaim'[t].await = taken
    BY <1>1, <2>1 DEF ReclaimRec
  <2>4. \A u \in Thread : reclaim[u].pc \notin {"stop", "await"}
    BY <1>3, <2>1 DEF ReclaimIsOnTime
  <2>5. \A i \in handles : sess[i].done
    BY <1>3, <2>4 DEF AwaitedEndInTime
  <2>6. \A u \in Thread : reclaim'[u].pc \in {"stop", "await"} => u = t
    BY <1>2, <2>4
  <2>7. \A u \in Thread : \A i \in reclaim'[u].await :
          /\ reclaim'[u].pc \in {"stop", "await"} => sess[i].pc # "none"
          /\ reclaim'[u].pc # "await"
    BY <2>2, <2>3, <2>6
  <2>8. \A i \in handles' :
          sess[i].done \/ (reclaim'[t].pc \in {"stop", "await"} /\ i \in reclaim'[t].await)
    BY <2>1, <2>3, <2>5
  <2> QED BY <1>3, <2>1, <2>7, <2>8 DEF AwaitedEndInTime
<1>9. CASE RequestStops(t)
  <2>1. /\ reclaim[t].pc = "stop" /\ UNCHANGED <<handles, clock, timed_out>>
        /\ reclaim' = [reclaim EXCEPT ![t].pc = "await", ![t].deadline = clock + SessionBudget]
        /\ sess' = [i \in Sid |-> IF i \in reclaim[t].await /\ ~sess[i].done
                                  THEN [sess[i] EXCEPT !.stop = TRUE] ELSE sess[i]]
    BY <1>9 DEF RequestStops
  <2>2. reclaim'[t].pc = "await" /\ reclaim'[t].await = reclaim[t].await
    BY <1>1, <2>1 DEF ReclaimRec
  <2>3. clock = 0
    BY <1>3, <2>1 DEF ReclaimIsOnTime
  <2>4. \A i \in Sid : /\ sess'[i].pc = sess[i].pc /\ sess'[i].done = sess[i].done
                       /\ sess'[i].age = sess[i].age /\ sess[i].age \in Nat
                       /\ i \in reclaim[t].await => sess[i].done \/ sess'[i].stop
    BY <2>1, AwaitedTypes DEF SessionRec
  <2>5. \A u \in Thread : u # t => reclaim'[u].pc = "idle"
    BY <1>2, <1>3, <2>1 DEF ReclaimIsOnTime
  <2>6. \A i \in reclaim[t].await : i \in Sid /\ sess[i].pc # "none"
    BY <1>3, <2>1, AwaitedTypes DEF AwaitedEndInTime
  <2>7. \A u \in Thread : \A i \in reclaim'[u].await :
          /\ reclaim'[u].pc \in {"stop", "await"} => sess'[i].pc # "none"
          /\ reclaim'[u].pc = "await" => sess'[i].done \/ (sess'[i].stop /\ sess'[i].age >= clock)
    <3> SUFFICES ASSUME NEW u \in Thread, NEW i \in reclaim'[u].await,
                        reclaim'[u].pc \in {"stop", "await"}
                 PROVE  sess'[i].pc # "none" /\ (sess'[i].done \/ (sess'[i].stop /\ sess'[i].age >= clock))
      OBVIOUS
    <3>1. u = t /\ i \in reclaim[t].await
      BY <2>2, <2>5
    <3>2. i \in Sid /\ sess[i].pc # "none"
      BY <2>6, <3>1
    <3> QED BY <2>3, <2>4, <3>1, <3>2
  <2>8. \A i \in handles :
          \/ sess'[i].done
          \/ \E u \in Thread : reclaim'[u].pc \in {"stop", "await"} /\ i \in reclaim'[u].await
    <3> SUFFICES ASSUME NEW i \in handles, ~sess'[i].done
                 PROVE  reclaim'[t].pc \in {"stop", "await"} /\ i \in reclaim'[t].await
      OBVIOUS
    <3>1. ~sess[i].done
      BY <2>4, AwaitedTypes
    <3>2. PICK u \in Thread : reclaim[u].pc \in {"stop", "await"} /\ i \in reclaim[u].await
      BY <1>3, <3>1 DEF AwaitedEndInTime
    <3>3. u = t
      BY <1>3, <2>1, <3>2 DEF ReclaimIsOnTime
    <3> QED BY <2>2, <3>2, <3>3
  <2>9. \A i \in Sid : sess'[i].age <= Ladder
    BY <1>3, <2>4 DEF AwaitedEndInTime
  <2> QED BY <1>3, <2>1, <2>7, <2>8, <2>9 DEF AwaitedEndInTime
<1> QED BY <1>4, <1>5, <1>6, <1>7, <1>8, <1>9 DEF Reclaim

LEMMA AwaitedTick ==
  ASSUME IInv, Tick
  PROVE  AwaitedEndInTime'
<1>1. /\ NothingDue /\ clock' = clock + 1 /\ UNCHANGED <<reclaim, handles>>
      /\ sess' = [i \in Sid |-> IF sess[i].stop /\ ~sess[i].done
                                THEN [sess[i] EXCEPT !.age = sess[i].age + 1] ELSE sess[i]]
  BY DEF Tick
<1>2. \A i \in Sid : /\ sess'[i].pc = sess[i].pc /\ sess'[i].done = sess[i].done
                     /\ sess'[i].stop = sess[i].stop /\ sess[i].age \in Nat
                     /\ sess'[i].age = IF sess[i].stop /\ ~sess[i].done
                                       THEN sess[i].age + 1 ELSE sess[i].age
  BY <1>1, AwaitedTypes DEF SessionRec
<1>3. AwaitedEndInTime /\ clock \in Nat
  BY AwaitedTypes DEF IInv
<1>4. \A i \in Sid : sess'[i].age <= Ladder
  BY <1>1, <1>2, <1>3, BudgetsAreNat DEF NothingDue, AwaitedEndInTime
<1>5. \A t \in Thread : \A i \in reclaim[t].await :
        /\ reclaim[t].pc \in {"stop", "await"} => sess'[i].pc # "none"
        /\ reclaim[t].pc = "await" => sess'[i].done \/ (sess'[i].stop /\ sess'[i].age >= clock')
  <2> SUFFICES ASSUME NEW t \in Thread, NEW i \in reclaim[t].await
               PROVE  /\ reclaim[t].pc \in {"stop", "await"} => sess'[i].pc # "none"
                      /\ reclaim[t].pc = "await" =>
                           sess'[i].done \/ (sess'[i].stop /\ sess'[i].age >= clock')
    OBVIOUS
  <2>1. i \in Sid
    BY AwaitedTypes
  <2>2. /\ reclaim[t].pc \in {"stop", "await"} => sess[i].pc # "none"
        /\ reclaim[t].pc = "await" => sess[i].done \/ (sess[i].stop /\ sess[i].age >= clock)
    BY <1>3 DEF AwaitedEndInTime
  <2> QED BY <1>1, <1>2, <1>3, <2>1, <2>2
<1>6. \A i \in handles : sess'[i].done = sess[i].done
  BY <1>2, AwaitedTypes
<1> QED BY <1>1, <1>3, <1>4, <1>5, <1>6 DEF AwaitedEndInTime

LEMMA AwaitedEvents ==
  ASSUME IInv, BeginShutdown \/ ExitEvent
  PROVE  AwaitedEndInTime'
<1>1. UNCHANGED <<sess, handles, clock>>
  BY DEF BeginShutdown, ExitEvent, androidVars
<1>2. reclaim \in [Thread -> ReclaimRec]
  BY AwaitedTypes
<1>3. CASE UNCHANGED reclaim
  BY <1>1, <1>3 DEF IInv, AwaitedEndInTime
<1>4. ASSUME NEW t \in Thread, ~started, reclaim' = [reclaim EXCEPT ![t].pc = "cancel"]
      PROVE  AwaitedEndInTime'
  <2>1. reclaim[t].pc = "idle"
    BY <1>4 DEF IInv, Schedule, ReclaimIsOnTime
  <2>2. reclaim'[t].pc = "cancel" /\ \A u \in Thread : u # t => reclaim'[u] = reclaim[u]
    BY <1>2, <1>4 DEF ReclaimRec
  <2> QED BY <1>1, <2>1, <2>2, AwaitedThread
<1> QED BY <1>3, <1>4 DEF BeginShutdown, ExitEvent, Thread

LEMMA ShutdownInit == Init => IInv
<1> SUFFICES ASSUME Init PROVE IInv
  OBVIOUS
<1>1. AndroidInv /\ Schedule
  BY AndroidInitInv, ScheduleInit DEF Init
<1>2. timed_out = {}
  BY DEF Init, ExitInit
<1>3. AwaitedEndInTime
  <2>1. (\A t \in Thread : reclaim[t].await = {}) /\ handles = {}
    BY DEF Init, ExitInit, AndroidInit, IdleThread
  <2>2. \A i \in Sid : sess[i].age = 0
    BY DEF Init, AndroidInit, NoSession
  <2> QED BY <2>1, <2>2, BudgetsAreNat DEF AwaitedEndInTime
<1> QED BY <1>1, <1>2, <1>3 DEF IInv

LEMMA ShutdownStep == IInv /\ [Next]_vars => IInv'
<1> SUFFICES ASSUME IInv, [Next]_vars PROVE IInv'
  OBVIOUS
<1>1. AndroidInv'
  BY AndroidStep DEF IInv
<1>2. Schedule'
  BY ScheduleStep DEF IInv, AndroidInv
<1>3. AwaitedEndInTime' /\ timed_out' = {}
  <2>0. timed_out = {}
    BY DEF IInv
  <2>1. CASE AndroidCommand
    BY <2>0, <2>1, AwaitedCommand DEF AndroidCommand, exitVars
  <2>2. ASSUME NEW i \in Sid, Supervisor(i) \/ Scrcpy(i)
        PROVE  AwaitedEndInTime' /\ timed_out' = {}
    BY <2>0, <2>2, AwaitedSupervisor DEF Supervisor, Scrcpy, exitVars
  <2>3. ASSUME NEW t \in Thread, Reclaim(t)
        PROVE  AwaitedEndInTime' /\ timed_out' = {}
    BY <2>3, AwaitedReclaim
  <2>4. CASE Tick
    BY <2>0, <2>4, AwaitedTick DEF Tick
  <2>5. CASE BeginShutdown \/ ExitEvent
    BY <2>0, <2>5, AwaitedEvents DEF BeginShutdown, ExitEvent
  <2>6. CASE Pairing \/ ProcessEnds \/ UNCHANGED vars
    <3>1. UNCHANGED <<sess, handles, reclaim, clock, timed_out>>
      BY <2>6 DEF Pairing, ProcessEnds, vars, androidVars, exitVars
    <3> QED BY <3>1 DEF IInv, AwaitedEndInTime
  <2> QED BY <2>1, <2>2, <2>3, <2>4, <2>5, <2>6 DEF Next
<1> QED BY <1>1, <1>2, <1>3 DEF IInv

LEMMA ShutdownInvariant == Spec => []IInv
BY ShutdownInit, ShutdownStep, PTL DEF Spec

(* For all budgets in the code's order, whichever of the close button,     *)
(* ExitRequested and Exit come and when, one thread reclaims, each of its  *)
(* waits ends by its deadline, and every session it took from the map runs *)
(* out of its ladder first (begin_shutdown, reclaim_sessions,              *)
(* shutdown_all).                                                          *)
THEOREM ShutdownInvHolds == Spec => []ShutdownInv
<1>1. ASSUME IInv PROVE ShutdownInv
  <2>1. TypeOK
    BY <1>1 DEF IInv, AndroidInv, Schedule, ExitType, ReclaimRec, TypeOK
  <2> QED BY <1>1, <2>1 DEF IInv, Schedule, ShutdownInv
<1> QED BY <1>1, ShutdownInvariant, PTL

(* The process never ends while its clean-up is on the way: the final      *)
(* event's EXIT_WAIT_BUDGET outlasts the pairing budget, which the clean-up*)
(* never exceeds, wherever in it the wait begins.                          *)
THEOREM ExitWaitsForReclaimHolds == Spec => []ExitWaitsForReclaim
<1>1. IInv => ExitWaitsForReclaim
  BY DEF IInv, Schedule
<1> QED BY <1>1, ShutdownInvariant, PTL

(* No session the exit took out of the map survives the process unless its *)
(* supervisor lost scrcpy to an error, and none is reported as timed out   *)
(* (drain of SessionStore, shutdown_all).                                  *)
THEOREM DrainedAreDownHolds == Spec => []DrainedAreDown
<1>1. ASSUME IInv PROVE DrainedAreDown
  <2>1. timed_out = {}
    BY <1>1 DEF IInv
  <2>2. ASSUME gone, NEW i \in handles, sess[i].status # "failed" PROVE ~sess[i].alive
    <3>1. finished
      BY <1>1, <2>2 DEF IInv, Schedule, ExitWaitsForReclaim
    <3>2. \A t \in Thread : reclaim[t].pc \notin {"stop", "await"}
      BY <1>1, <3>1 DEF IInv, Schedule, ReclaimIsOnTime
    <3>3. sess[i].done /\ i \in Sid
      BY <1>1, <3>2, AwaitedTypes DEF IInv, AwaitedEndInTime
    <3>4. ExitedIsGone
      BY <1>1, InvGivesExitedIsGone DEF IInv
    <3> QED BY <2>2, <3>3, <3>4 DEF ExitedIsGone
  <2> QED BY <2>1, <2>2 DEF DrainedAreDown
<1> QED BY <1>1, ShutdownInvariant, PTL
=============================================================================
