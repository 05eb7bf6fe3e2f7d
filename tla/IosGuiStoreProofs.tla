--------------------------- MODULE IosGuiStoreProofs ---------------------------
(***************************************************************************)
(* Proofs about the GUI's iOS session store, for any set of devices, of    *)
(* start commands and of polls in flight, and any number of sessions: at   *)
(* most one session lives, none without an owner, and neither placeholder  *)
(* nor failure is lost.                                                    *)
(***************************************************************************)
EXTENDS IosGuiStore, FiniteSetTheorems, TLAPS

(* StoreInv with LiveIsOwned in the place of AtMostOneSession, which       *)
(* follows from it: the inductive form.                                    *)
Ownership == IdsAreOwn /\ PlaceholderIsCarried /\ CarrierHasSlot /\ LiveIsOwned
IInv == TypeOK /\ PollsKnowTheirs /\ Ownership

(* A session that lives is the one the slot names, so there is one.        *)
LEMMA OwnedIsOne == LiveIsOwned => AtMostOneSession
<1> SUFFICES ASSUME LiveIsOwned, exit.pc = "none"
             PROVE  Cardinality(LiveSessions) <= 1
  BY DEF AtMostOneSession
<1>1. LiveSessions \subseteq {slot.id}
  BY DEF LiveIsOwned
<1>2. IsFiniteSet({slot.id}) /\ Cardinality({slot.id}) = 1
  BY FS_Singleton
<1>3. Cardinality(LiveSessions) <= Cardinality({slot.id})
  BY <1>1, <1>2, FS_Subset
<1> QED BY <1>2, <1>3

LEMMA InvGivesStoreInv == IInv => StoreInv /\ LiveIsOwned
BY OwnedIsOne DEF IInv, Ownership, StoreInv

LEMMA InitInv == Init => IInv
<1> SUFFICES ASSUME Init PROVE IInv
  OBVIOUS
<1> USE StoreAssumption DEF Init, Idle, NoPoll, DefaultMeta
<1>1. TypeOK
  BY DEF TypeOK, Id, StartRec, PollRec, SessionRec, MetaRec
<1>2. PollsKnowTheirs
  BY DEF PollsKnowTheirs
<1>3. IdsAreOwn /\ PlaceholderIsCarried /\ CarrierHasSlot
  BY DEF IdsAreOwn, PlaceholderIsCarried, CarrierHasSlot, Carries
<1>4. LiveIsOwned
  BY DEF LiveIsOwned, LiveSessions, LiveStatus
<1> QED BY <1>1, <1>2, <1>3, <1>4 DEF IInv, Ownership

(* A command that carries an id carries one that was handed out.           *)
LEMMA CarriedIsId ==
  ASSUME IInv, NEW c \in Command, Carries(c)
  PROVE  start[c].id \in Id /\ start[c].id < next_id /\ start[c].id # 0
BY StoreAssumption DEF IInv, Ownership, IdsAreOwn, TypeOK, Id

(* A step that leaves slot, ids and start commands, and brings no session  *)
(* to life, leaves the ownership.                                          *)
LEMMA OwnershipQuiet ==
  ASSUME IInv, UNCHANGED <<slot, next_id, start>>,
         exit'.pc = "none" => exit.pc = "none",
         \A i \in Id : session'[i].status \in LiveStatus => session[i].status \in LiveStatus,
         \A i \in Id : session[i].status = "none" => session'[i].status = "none"
  PROVE  Ownership'
<1> USE DEF IInv, Ownership
<1>1. IdsAreOwn'
  BY CarriedIsId DEF IdsAreOwn, Carries
<1>2. PlaceholderIsCarried' /\ CarrierHasSlot'
  BY DEF PlaceholderIsCarried, CarrierHasSlot, Carries
<1>3. LiveIsOwned'
  BY DEF LiveIsOwned, InFlight, LiveSessions
<1> QED BY <1>1, <1>2, <1>3

-----------------------------------------------------------------------------
(* The start commands.  Each step rewrites the record of one.              *)
LEMMA StartDeviceInv ==
  ASSUME IInv, NEW c \in Command, StartDevice(c)
  PROVE  IInv'
<1> USE StoreAssumption DEF IInv, Ownership
<1>1. start \in [Command -> StartRec]
  BY DEF TypeOK
<1>2. \A b \in Command : /\ start'[b].id = start[b].id
                         /\ start'[b].pc = IF b = c THEN "slot" ELSE start[b].pc
  BY <1>1 DEF StartDevice, StartRec
<1>3. TypeOK' /\ PollsKnowTheirs'
  <2>1. start' \in [Command -> StartRec]
    <3>1. PICK d \in Device :
            start' = [start EXCEPT ![c].pc = "slot", ![c].device = d]
      BY DEF StartDevice
    <3> DEFINE r == [start[c] EXCEPT !.pc = "slot", !.device = d]
    <3>2. r \in StartRec
      BY <1>1 DEF StartRec
    <3>3. start' = [start EXCEPT ![c] = r]
      BY <1>1, <3>1
    <3> HIDE DEF r, IInv, Ownership
    <3> QED BY <1>1, <3>2, <3>3
  <2> QED BY <2>1 DEF StartDevice, TypeOK, PollsKnowTheirs
<1>4. UNCHANGED <<slot, next_id, session, exit>> /\ start[c].pc = "idle"
  BY DEF StartDevice
<1>5. \A b \in Command : Carries(b)' <=> Carries(b)
  BY <1>2, <1>4 DEF Carries
<1>6. IdsAreOwn'
  BY <1>2, <1>4, <1>5 DEF IdsAreOwn
<1>7. PlaceholderIsCarried'
  BY <1>2, <1>4 DEF PlaceholderIsCarried
<1>8. CarrierHasSlot'
  BY <1>2, <1>4, <1>5 DEF CarrierHasSlot
<1>9. LiveIsOwned'
  <2>1. LiveSessions' = LiveSessions
    BY <1>4 DEF LiveSessions
  <2>2. InFlight \subseteq InFlight'
    BY <1>2, <1>4 DEF InFlight
  <2> QED BY <1>4, <2>1, <2>2 DEF LiveIsOwned
<1> QED BY <1>3, <1>6, <1>7, <1>8, <1>9

(* A slot that is not live: before the exit nobody carries a placeholder   *)
(* and no session lives.                                                   *)
LEMMA NotLiveIsFree ==
  ASSUME IInv, ~SlotIsLive, exit.pc = "none"
  PROVE  LiveSessions = {} /\ \A c \in Command : ~Carries(c)
<1> USE DEF IInv, Ownership
<1>1. \A c \in Command : ~Carries(c)
  BY DEF SlotIsLive, CarrierHasSlot
<1>2. LiveSessions = {}
  BY DEF SlotIsLive, LiveIsOwned, LiveSessions
<1> QED BY <1>1, <1>2

LEMMA StartSlotInv ==
  ASSUME IInv, NEW c \in Command, StartSlot(c)
  PROVE  IInv'
<1> USE StoreAssumption DEF IInv, Ownership
<1>1. start \in [Command -> StartRec]
  BY DEF TypeOK
<1>2. UNCHANGED <<session, exit, poll>> /\ start[c].pc = "slot" /\ ~Carries(c)
  BY DEF StartSlot, Carries
<1>3. PollsKnowTheirs'
  BY <1>2 DEF PollsKnowTheirs
<1>4. LiveSessions' = LiveSessions
  BY <1>2 DEF LiveSessions
<1>5. CASE SlotIsLive /\ start' = [start EXCEPT ![c] = Idle] /\ UNCHANGED <<slot, next_id>>
  <2>1. \A b \in Command : start'[b] = IF b = c THEN Idle ELSE start[b]
    BY <1>1, <1>5
  <2>2. TypeOK'
    BY <1>5 DEF StartSlot, TypeOK, Idle, StartRec
  <2>3. \A b \in Command : /\ Carries(b)' <=> Carries(b)
                           /\ start'[b].id = start[b].id
                           /\ start'[b].pc \in {"spawn", "fail"} => start[b].pc \in {"spawn", "fail"}
    BY <1>2, <2>1 DEF Carries, Idle, IdsAreOwn
  <2>4. IdsAreOwn'
    BY <1>2, <1>5, <2>3 DEF IdsAreOwn
  <2>5. PlaceholderIsCarried'
    BY <1>5, <2>3 DEF PlaceholderIsCarried, Carries
  <2>6. CarrierHasSlot'
    BY <1>2, <1>5, <2>3 DEF CarrierHasSlot
  <2>7. \A i \in Id : i \in InFlight => i \in InFlight'
    BY <1>2, <2>1, <2>3 DEF InFlight, IdsAreOwn, Id
  <2>8. LiveIsOwned'
    BY <1>2, <1>4, <1>5, <2>7 DEF LiveIsOwned, LiveSessions
  <2> QED BY <1>3, <2>2, <2>4, <2>5, <2>6, <2>8
<1>6. CASE /\ ~SlotIsLive /\ next_id \in Id
           /\ slot' = [kind |-> "starting", id |-> next_id]
           /\ next_id' = next_id + 1
           /\ start' = [start EXCEPT ![c].pc = "spawn", ![c].id = next_id]
  <2>1. next_id \in Nat /\ next_id >= 1 /\ next_id <= MaxSessions
    BY <1>6 DEF Id
  <2> DEFINE r == [start[c] EXCEPT !.pc = "spawn", !.id = next_id]
  <2>a. start[c] \in StartRec /\ slot'.kind = "starting" /\ slot'.id = next_id
        /\ next_id' = next_id + 1 /\ next_id \in Id
    BY <1>1, <1>6
  <2>2. r \in StartRec /\ r.pc = "spawn" /\ r.id = next_id
    <3>1. start[c] \in StartRec /\ next_id \in 0..MaxSessions
      BY <2>a, <2>1
    <3> QED BY <3>1 DEF StartRec
  <2>3. start' = [start EXCEPT ![c] = r]
    BY <1>1, <1>6, <2>a DEF StartRec
  <2> HIDE DEF r
  <2>4. \A b \in Command : start'[b] = IF b = c THEN r ELSE start[b]
    BY <1>1, <2>3
  <2>5. TypeOK'
    <3>1. start' \in [Command -> StartRec]
      BY <1>1, <2>2, <2>3
    <3> QED BY <1>6, <2>1, <3>1 DEF StartSlot, TypeOK
  <2>6. \A b \in Command : Carries(b)' <=> (b = c \/ Carries(b))
    BY <2>2, <2>4 DEF Carries
  <2>7. \A b \in Command : start[b].id \in 0..(next_id - 1)
    BY <2>1 DEF IdsAreOwn
  <2>8. IdsAreOwn'
    <3>1. slot'.id \in 1..(next_id' - 1)
      BY <1>6, <2>1
    <3>2. \A b \in Command : /\ Carries(b)' => start'[b].id \in 1..(next_id' - 1)
                             /\ ~Carries(b)' => start'[b].id = 0
      BY <2>a, <2>1, <2>2, <2>4, <2>6 DEF IdsAreOwn
    <3>3. \A a, b \in Command : Carries(a)' /\ Carries(b)' /\ start'[a].id = start'[b].id => a = b
      BY <2>1, <2>2, <2>4, <2>6, <2>7 DEF IdsAreOwn
    <3>4. \A i \in Id : i >= next_id' => session'[i].status = "none"
      BY <1>2, <1>6, <2>1 DEF IdsAreOwn, Id
    <3>5. \A b \in Command : start'[b].pc \in {"spawn", "fail"} =>
            session'[start'[b].id].status = "none"
      <4> SUFFICES ASSUME NEW b \in Command, start'[b].pc \in {"spawn", "fail"}
                   PROVE  session[start'[b].id].status = "none"
        BY <1>2
      <4>1. CASE b = c
        BY <2>a, <2>1, <2>2, <2>4, <4>1 DEF IdsAreOwn
      <4>2. CASE b # c
        BY <2>4, <4>2 DEF IdsAreOwn
      <4> QED BY <4>1, <4>2
    <3> QED BY <3>1, <3>2, <3>3, <3>4, <3>5 DEF IdsAreOwn
  <2>9. PlaceholderIsCarried'
    <3>1. start'[c].pc = "spawn" /\ start'[c].id = slot'.id
      BY <2>a, <2>2, <2>4
    <3>2. \A b \in Command \ {c} : start'[b].id # slot'.id
      BY <2>a, <2>1, <2>4, <2>7
    <3> QED BY <3>1, <3>2 DEF PlaceholderIsCarried
  <2>10. CarrierHasSlot'
    BY <1>2, <1>6, <2>2, <2>4, <2>6, NotLiveIsFree DEF CarrierHasSlot
  <2>11. LiveIsOwned'
    BY <1>2, <1>4, <1>6, NotLiveIsFree DEF LiveIsOwned
  <2> QED BY <1>3, <2>5, <2>8, <2>9, <2>10, <2>11
<1> QED BY <1>5, <1>6 DEF StartSlot

LEMMA StartSpawnInv ==
  ASSUME IInv, NEW c \in Command, StartSpawn(c)
  PROVE  IInv'
<1> USE StoreAssumption DEF IInv, Ownership
<1> DEFINE k == start[c].id
<1>1. start \in [Command -> StartRec] /\ session \in [Id -> SessionRec]
  BY DEF TypeOK
<1>2. UNCHANGED <<slot, next_id, exit, poll>> /\ Carries(c) /\ start[c].pc = "spawn"
  BY DEF StartSpawn, Carries, storeVars
<1>3. k \in Id /\ k < next_id
  BY <1>2, CarriedIsId
<1>4. \A b \in Command : /\ start'[b].id = start[b].id
                         /\ start'[b].pc \in IF b = c THEN {"store", "fail"} ELSE {start[b].pc}
                         /\ start'[b].pc = "fail" /\ b = c => session' = session
  BY <1>1 DEF StartSpawn, StartRec
<1>5. \A b \in Command : Carries(b)' <=> Carries(b)
  BY <1>2, <1>4 DEF Carries
<1>6. TypeOK'
  <2>1. start' \in [Command -> StartRec]
    BY <1>1 DEF StartSpawn, StartRec
  <2>2. session' \in [Id -> SessionRec]
    <3>1. CASE UNCHANGED session
      BY <1>1, <3>1
    <3>2. CASE session' = [session EXCEPT ![k].status = "starting", ![k].device = start[c].device]
      <4>1. [session[k] EXCEPT !.status = "starting", !.device = start[c].device] \in SessionRec
        BY <1>1, <1>3 DEF SessionRec, StartRec, LiveStatus
      <4> QED BY <1>1, <1>3, <3>2, <4>1
    <3> QED BY <3>1, <3>2 DEF StartSpawn
  <2> QED BY <2>1, <2>2 DEF StartSpawn, storeVars, TypeOK
<1>7. PollsKnowTheirs'
  BY <1>2 DEF PollsKnowTheirs
<1>8. \A i \in Id : i # k => session'[i] = session[i]
  BY <1>1 DEF StartSpawn
<1>9. IdsAreOwn'
  <2>1. \A i \in Id : i >= next_id => session'[i].status = "none"
    BY <1>3, <1>8 DEF IdsAreOwn, Id, TypeOK
  <2>2. \A b \in Command : start'[b].pc \in {"spawn", "fail"} =>
          session'[start'[b].id].status = "none"
    <3> SUFFICES ASSUME NEW b \in Command, start'[b].pc \in {"spawn", "fail"}
                 PROVE  session'[start[b].id].status = "none"
      BY <1>4
    <3>1. CASE b = c
      BY <1>2, <1>4, <3>1 DEF IdsAreOwn
    <3>2. CASE b # c
      <4>1. start[b].pc \in {"spawn", "fail"} /\ Carries(b)
        BY <1>4, <3>2 DEF Carries
      <4>2. start[b].id # k /\ start[b].id \in Id
        BY <1>2, <3>2, <4>1, CarriedIsId DEF IdsAreOwn
      <4> QED BY <1>8, <4>1, <4>2 DEF IdsAreOwn
    <3> QED BY <3>1, <3>2
  <2> QED BY <1>2, <1>4, <1>5, <2>1, <2>2 DEF IdsAreOwn
<1>10. PlaceholderIsCarried'
  <2> SUFFICES ASSUME slot.kind = "starting"
               PROVE  \E b \in Command : /\ Carries(b)'
                                         /\ start'[b].id = slot.id
                                         /\ \A a \in Command \ {b} : start'[a].id # slot.id
    BY <1>2 DEF PlaceholderIsCarried, Carries
  <2>1. PICK b \in Command : /\ Carries(b) /\ start[b].id = slot.id
                            /\ \A a \in Command \ {b} : start[a].id # slot.id
    BY DEF PlaceholderIsCarried, Carries
  <2>2. \A a \in Command : start'[a].id = start[a].id
    BY <1>4
  <2> QED BY <1>5, <2>1, <2>2
<1>11. CarrierHasSlot'
  BY <1>2, <1>4, <1>5 DEF CarrierHasSlot
<1>12. LiveIsOwned'
  <2> SUFFICES ASSUME exit.pc = "none", NEW i \in LiveSessions'
               PROVE  \/ slot = [kind |-> "handle", id |-> i]
                      \/ i \in InFlight' /\ slot = [kind |-> "starting", id |-> i]
    BY <1>2 DEF LiveIsOwned
  <2>1. i \in Id /\ (i = k \/ i \in LiveSessions)
    BY <1>8 DEF LiveSessions
  <2>2. InFlight \subseteq InFlight' /\ k \in InFlight'
    BY <1>2, <1>4 DEF InFlight, Carries
  <2>3. slot = [kind |-> "starting", id |-> k]
    BY <1>2 DEF CarrierHasSlot
  <2> QED BY <2>1, <2>2, <2>3 DEF LiveIsOwned
<1> QED BY <1>6, <1>7, <1>9, <1>10, <1>11, <1>12

(* The two ends of a start command, which leave the slot to what came of   *)
(* it.  Before the exit the command that ends is the only one.             *)
LEMMA CarrierEnds ==
  ASSUME IInv, NEW c \in Command, Carries(c),
         start' = [start EXCEPT ![c] = Idle],
         UNCHANGED <<next_id, exit>>,
         \A i \in Id : session'[i].status = session[i].status,
         slot'.kind # "starting",
         slot'.kind # "none" => slot'.id \in 1..(next_id - 1)
  PROVE  IdsAreOwn' /\ PlaceholderIsCarried' /\ CarrierHasSlot'
<1> USE DEF IInv, Ownership
<1>1. start \in [Command -> StartRec]
  BY DEF TypeOK
<1>2. \A b \in Command : start'[b] = IF b = c THEN Idle ELSE start[b]
  BY <1>1
<1>3. \A b \in Command : Carries(b)' <=> (b # c /\ Carries(b))
  BY <1>2 DEF Carries, Idle
<1>4. IdsAreOwn'
  <2>1. \A b \in Command : /\ Carries(b)' => start'[b].id \in 1..(next_id - 1)
                           /\ ~Carries(b)' => start'[b].id = 0
    BY <1>2, <1>3 DEF IdsAreOwn, Idle
  <2>2. \A a, b \in Command : Carries(a)' /\ Carries(b)' /\ start'[a].id = start'[b].id => a = b
    BY <1>2, <1>3 DEF IdsAreOwn
  <2>3. \A b \in Command : start'[b].pc \in {"spawn", "fail"} =>
          session'[start'[b].id].status = "none"
    BY <1>2, CarriedIsId DEF IdsAreOwn, Idle, Carries
  <2> QED BY <2>1, <2>2, <2>3 DEF IdsAreOwn
<1>5. PlaceholderIsCarried'
  BY DEF PlaceholderIsCarried
<1>6. exit.pc = "none" => \A b \in Command : Carries(b) => b = c
  BY DEF CarrierHasSlot, IdsAreOwn
<1>7. CarrierHasSlot'
  BY <1>3, <1>6 DEF CarrierHasSlot
<1> QED BY <1>4, <1>5, <1>7

LEMMA StartFailInv ==
  ASSUME IInv, NEW c \in Command, StartFail(c)
  PROVE  IInv'
<1> USE StoreAssumption DEF IInv, Ownership
<1>1. TypeOK'
  BY DEF StartFail, TypeOK, Idle, StartRec
<1>2. PollsKnowTheirs'
  BY DEF StartFail, PollsKnowTheirs
<1>3. Carries(c) /\ UNCHANGED <<session, exit, next_id>> /\ start[c].pc = "fail"
  BY DEF StartFail, Carries
<1>4. slot' = [kind |-> "failed", id |-> start[c].id] /\ start[c].id \in 1..(next_id - 1)
  BY <1>3 DEF StartFail, IdsAreOwn
<1>5. IdsAreOwn' /\ PlaceholderIsCarried' /\ CarrierHasSlot'
  <2>1. slot'.kind = "failed" /\ slot'.id \in 1..(next_id - 1)
    BY <1>4
  <2> QED BY <1>3, <2>1, CarrierEnds DEF StartFail
<1>6. exit.pc = "none" => LiveSessions = {}
  BY <1>3 DEF LiveIsOwned, CarrierHasSlot, IdsAreOwn, LiveSessions, LiveStatus
<1>7. LiveIsOwned'
  BY <1>3, <1>6 DEF LiveIsOwned, LiveSessions
<1> QED BY <1>1, <1>2, <1>5, <1>7

LEMMA StartStoreInv ==
  ASSUME IInv, NEW c \in Command, StartStore(c)
  PROVE  IInv'
<1> USE StoreAssumption DEF IInv, Ownership
<1> DEFINE k == start[c].id
<1>1. session \in [Id -> SessionRec]
  BY DEF TypeOK
<1>2. Carries(c) /\ UNCHANGED <<next_id, exit, poll>> /\ k \in Id /\ k \in 1..(next_id - 1)
  BY CarriedIsId DEF StartStore, Carries, IdsAreOwn
<1>3. PollsKnowTheirs'
  BY <1>2 DEF PollsKnowTheirs
<1>4. CASE /\ slot.kind = "handle"
           /\ session' = [session EXCEPT ![k].stop = TRUE]
           /\ UNCHANGED <<slot, meta>>
  <2>1. \A i \in Id : session'[i].status = session[i].status
    BY <1>1, <1>4 DEF SessionRec
  <2>2. TypeOK'
    <3>1. session' \in [Id -> SessionRec]
      BY <1>1, <1>4 DEF SessionRec
    <3> QED BY <1>4, <3>1 DEF StartStore, TypeOK, Idle, StartRec
  <2>3. IdsAreOwn' /\ PlaceholderIsCarried' /\ CarrierHasSlot'
    BY <1>2, <1>4, <2>1, CarrierEnds DEF StartStore, IdsAreOwn
  <2>4. exit.pc # "none"
    BY <1>2, <1>4 DEF CarrierHasSlot
  <2>5. LiveIsOwned'
    BY <1>2, <2>4 DEF LiveIsOwned
  <2> QED BY <1>3, <2>2, <2>3, <2>5
<1>5. CASE /\ slot' = [kind |-> "handle", id |-> k]
           /\ meta' = DefaultMeta
           /\ UNCHANGED session
  <2>1. slot'.kind = "handle" /\ slot'.id = k
    BY <1>5
  <2>2. TypeOK'
    BY <1>2, <1>5 DEF StartStore, TypeOK, Idle, StartRec, DefaultMeta, MetaRec, Id
  <2>3. IdsAreOwn' /\ PlaceholderIsCarried' /\ CarrierHasSlot'
    BY <1>2, <1>5, <2>1, CarrierEnds DEF StartStore
  <2>4. LiveIsOwned'
    BY <1>2, <1>5, <2>1 DEF LiveIsOwned, CarrierHasSlot, LiveSessions
  <2> QED BY <1>3, <2>2, <2>3, <2>4
<1> QED BY <1>4, <1>5 DEF StartStore

-----------------------------------------------------------------------------
(* Stops, polls, loads and the session's own life leave the slot alone.    *)
LEMMA StopInv ==
  ASSUME IInv, Stop
  PROVE  IInv'
<1> USE StoreAssumption DEF IInv
<1>1. session \in [Id -> SessionRec] /\ (slot.kind # "none" => slot.id \in Id)
  BY DEF TypeOK, Ownership, IdsAreOwn, Id
<1>2. session' \in [Id -> SessionRec] /\ \A i \in Id : session'[i].status = session[i].status
  <2>1. CASE UNCHANGED session
    BY <1>1, <2>1
  <2>2. CASE slot.kind = "handle" /\ session' = [session EXCEPT ![slot.id].stop = TRUE]
    BY <1>1, <2>2 DEF SessionRec
  <2> QED BY <2>1, <2>2 DEF Stop, StopDevice, StopSlot
<1>3. UNCHANGED <<slot, next_id, start, exit, poll>>
  BY DEF Stop, StopDevice, StopSlot, storeVars
<1>4. TypeOK'
  BY <1>1, <1>2 DEF Stop, StopDevice, StopSlot, storeVars, TypeOK
<1>5. PollsKnowTheirs'
  BY <1>3 DEF PollsKnowTheirs
<1>6. Ownership'
  BY <1>2, <1>3, OwnershipQuiet
<1> QED BY <1>4, <1>5, <1>6

(* What the poll of p may do to its own record.                            *)
LEMMA PollStepInv ==
  ASSUME IInv, NEW p \in Poll, PollStep(p)
  PROVE  IInv'
<1> USE StoreAssumption DEF IInv
<1>1. /\ poll \in [Poll -> PollRec] /\ meta \in MetaRec /\ session \in [Id -> SessionRec]
      /\ device_id \in Device \cup {None} /\ loads \subseteq [id : Id, device : Device]
      /\ poll[p].pc # "idle" => poll[p].id \in Id
      /\ poll[p].pc = "request" => poll[p].got \in Device
      /\ slot.kind # "none" => slot.id \in Id
  BY DEF TypeOK, PollsKnowTheirs, Ownership, IdsAreOwn, Id
<1>2. UNCHANGED <<slot, next_id, start, stop_pc, session, asked, exit>>
  BY DEF PollStep, PollSnapshot, PollReset, PollForget, PollClaim, PollQuery,
         PollWrite, PollDevice, PollRequest, storeVars
<1>3. Ownership'
  BY <1>2, OwnershipQuiet
<1> DEFINE q == poll[p]
<1>r. q \in PollRec
  BY <1>1
<1>4. /\ meta' \in MetaRec /\ device_id' \in Device \cup {None}
      /\ loads' \subseteq [id : Id, device : Device]
  <2>1. CASE UNCHANGED <<meta, loads>>
    BY <1>1, <2>1 DEF PollStep, PollSnapshot, PollReset, PollForget, PollClaim, PollQuery,
       PollWrite, PollDevice, PollRequest, storeVars
  <2>2. CASE PollReset(p)
    BY <1>1, <2>2 DEF PollReset, MetaRec, DefaultMeta
  <2>3. CASE PollClaim(p)
    BY <1>1, <1>r, <2>3 DEF PollClaim, MetaRec, PollRec
  <2>4. CASE PollWrite(p)
    BY <1>1, <1>r, <2>4 DEF PollWrite, MetaRec, PollRec
  <2>5. CASE PollRequest(p) /\ meta.requested # q.id
    <3>1. [id |-> q.id, device |-> q.got] \in [id : Id, device : Device]
      BY <1>1, <2>5 DEF PollRequest
    <3>2. [meta EXCEPT !.requested = q.id] \in MetaRec
      BY <1>1, <1>r DEF MetaRec, PollRec
    <3> QED BY <1>1, <2>5, <3>1, <3>2 DEF PollRequest
  <2> QED BY <2>1, <2>2, <2>3, <2>4, <2>5 DEF PollStep, PollSnapshot, PollForget, PollQuery,
             PollDevice, PollRequest, storeVars
<1>5. \E r \in PollRec : /\ poll' = [poll EXCEPT ![p] = r]
                         /\ r.pc # "idle" => r.id \in Id
                         /\ r.pc = "request" => r.got \in Device
  <2> DEFINE R(k) == [q EXCEPT !.pc = k]
  <2> DEFINE S(k, g) == [q EXCEPT !.pc = k, !.got = g]
  <2>n. NoPoll \in PollRec /\ NoPoll.pc = "idle"
    BY DEF NoPoll, PollRec
  <2>r. \A k \in {"forget", "query", "device"} :
          R(k) \in PollRec /\ R(k).pc = k /\ R(k).id = q.id
    BY <1>r DEF PollRec
  <2>s. \A k \in {"write", "request"}, g \in Device \cup {None} :
          S(k, g) \in PollRec /\ S(k, g).pc = k /\ S(k, g).id = q.id /\ S(k, g).got = g
    BY <1>r DEF PollRec
  <2>1. CASE PollSnapshot(p)
    <3>1. SlotStatus \in {"none"} \cup LiveStatus \cup EndedStatus
      BY <1>1, <2>1 DEF PollSnapshot, SlotStatus, SessionRec, TypeOK, LiveStatus, EndedStatus
    <3> DEFINE r == [pc |-> IF SlotStatus = "running" THEN "claim" ELSE "reset",
                     seen |-> SlotStatus, id |-> slot.id, got |-> None]
    <3>2. slot.id \in Id
      BY <1>1, <2>1 DEF PollSnapshot
    <3>3. r \in PollRec /\ r.id \in Id /\ r.pc # "request"
      BY <3>1, <3>2 DEF PollRec, Id
    <3>4. poll' = [poll EXCEPT ![p] = r]
      BY <2>1 DEF PollSnapshot
    <3> QED BY <3>3, <3>4
  <2>2. CASE PollReset(p)
    <3>1. CASE poll' = [poll EXCEPT ![p] = NoPoll]
      BY <3>1, <2>n
    <3>2. CASE poll' = [poll EXCEPT ![p].pc = "forget"]
      <4>1. poll' = [poll EXCEPT ![p] = R("forget")]
        BY <1>1, <3>2
      <4>2. q.id \in Id
        BY <1>1, <2>2 DEF PollReset
      <4> HIDE DEF R, S
      <4> QED BY <2>r, <4>1, <4>2
    <3> QED BY <2>2, <3>1, <3>2 DEF PollReset
  <2>3. CASE PollForget(p)
    BY <2>3, <2>n DEF PollForget
  <2>4. CASE PollClaim(p)
    <3>1. poll' = [poll EXCEPT ![p] = R("query")]
      BY <1>1, <2>4 DEF PollClaim
    <3>2. q.id \in Id
      BY <1>1, <2>4 DEF PollClaim
    <3> HIDE DEF R, S
    <3> QED BY <2>r, <3>1, <3>2
  <2>5. CASE PollQuery(p)
    <3>2. q.id \in Id
      BY <1>1, <2>5 DEF PollQuery
    <3>3. CASE poll' = [poll EXCEPT ![p].pc = "device"]
      <4>1. poll' = [poll EXCEPT ![p] = R("device")]
        BY <1>1, <3>3
      <4> HIDE DEF R, S
      <4> QED BY <2>r, <3>2, <4>1
    <3>4. CASE poll' = [poll EXCEPT ![p].pc = "write", ![p].got = session[q.id].device]
      <4>1. poll' = [poll EXCEPT ![p] = S("write", session[q.id].device)]
        BY <1>1, <3>4
      <4>2. session[q.id].device \in Device \cup {None}
        BY <1>1, <3>2 DEF SessionRec
      <4> HIDE DEF R, S
      <4> QED BY <2>s, <3>2, <4>1, <4>2
    <3> QED BY <2>5, <3>3, <3>4 DEF PollQuery
  <2>6. CASE PollWrite(p)
    <3>1. poll' = [poll EXCEPT ![p] = R("device")]
      BY <1>1, <2>6 DEF PollWrite
    <3>2. q.id \in Id
      BY <1>1, <2>6 DEF PollWrite
    <3> HIDE DEF R, S
    <3> QED BY <2>r, <3>1, <3>2
  <2>7. CASE PollDevice(p)
    <3>1. CASE poll' = [poll EXCEPT ![p] = NoPoll]
      BY <3>1, <2>n
    <3>2. CASE device_id # None /\ poll' = [poll EXCEPT ![p].pc = "request", ![p].got = device_id]
      <4>1. poll' = [poll EXCEPT ![p] = S("request", device_id)]
        BY <1>1, <3>2
      <4>2. q.id \in Id /\ device_id \in Device
        BY <1>1, <2>7, <3>2 DEF PollDevice
      <4> HIDE DEF R, S
      <4>3. /\ S("request", device_id) \in PollRec
            /\ S("request", device_id).id \in Id
            /\ S("request", device_id).got \in Device
        BY <2>s, <4>2
      <4> QED BY <4>1, <4>3
    <3> QED BY <2>7, <3>1, <3>2 DEF PollDevice
  <2>8. CASE PollRequest(p)
    BY <2>8, <2>n DEF PollRequest
  <2> QED BY <2>1, <2>2, <2>3, <2>4, <2>5, <2>6, <2>7, <2>8 DEF PollStep
<1>6. PollsKnowTheirs'
  BY <1>1, <1>5 DEF PollsKnowTheirs
<1>7. TypeOK'
  BY <1>1, <1>2, <1>4, <1>5 DEF TypeOK
<1> QED BY <1>3, <1>6, <1>7

LEMMA LoadReturnsInv ==
  ASSUME IInv, LoadReturns
  PROVE  IInv'
<1> USE StoreAssumption DEF IInv
<1>1. TypeOK'
  BY DEF LoadReturns, TypeOK, MetaRec
<1>2. PollsKnowTheirs'
  BY DEF LoadReturns, PollsKnowTheirs
<1>3. Ownership'
  BY OwnershipQuiet DEF LoadReturns
<1> QED BY <1>1, <1>2, <1>3

LEMMA SessionInv ==
  ASSUME IInv, NEW i \in Id, Session(i)
  PROVE  IInv'
<1> USE StoreAssumption DEF IInv
<1>1. PICK s \in LiveStatus \cup EndedStatus :
        /\ session[i].status \in LiveStatus
        /\ session' = [session EXCEPT ![i].status = s]
        /\ UNCHANGED <<storeVars, start, poll, stop_pc, loads, asked, exit>>
  BY DEF Session, SessionStarts, SessionEnds, SessionStops, SessionBreaks, SessionMoves,
         LiveStatus, EndedStatus
<1>2. session \in [Id -> SessionRec]
  BY DEF TypeOK
<1>3. session' \in [Id -> SessionRec]
  BY <1>1, <1>2 DEF SessionRec
<1>4. \A j \in Id : session'[j].status = IF j = i THEN s ELSE session[j].status
  BY <1>1, <1>2 DEF SessionRec
<1>5. TypeOK' /\ PollsKnowTheirs'
  BY <1>1, <1>3 DEF TypeOK, PollsKnowTheirs, storeVars
<1>6. Ownership'
  BY <1>1, <1>4, OwnershipQuiet DEF storeVars, LiveStatus
<1> QED BY <1>5, <1>6

(* The exit empties the slot; from here on only the placeholder counts.    *)
LEMMA ExitInv ==
  ASSUME IInv, Exit
  PROVE  IInv'
<1> USE StoreAssumption DEF IInv
<1>1. session \in [Id -> SessionRec] /\ (slot.kind # "none" => slot.id \in Id)
  BY DEF TypeOK, Ownership, IdsAreOwn, Id
<1>2. session' \in [Id -> SessionRec] /\ \A i \in Id : session'[i].status = session[i].status
  <2>1. CASE UNCHANGED session
    BY <1>1, <2>1
  <2>2. CASE slot.kind = "handle" /\ session' = [session EXCEPT ![slot.id].stop = TRUE]
    BY <1>1, <2>2 DEF SessionRec
  <2> QED BY <2>1, <2>2 DEF Exit, ExitTake, ExitDone
<1>x. exit' \in [pc : {"none", "wait", "gone"}, taken : 0..MaxSessions, late : BOOLEAN]
  <2>1. CASE ExitTake
    <3>1. (IF slot.kind = "handle" THEN slot.id ELSE 0) \in 0..MaxSessions
      BY <1>1 DEF Id
    <3> QED BY <2>1, <3>1 DEF ExitTake, TypeOK
  <2>2. CASE ExitDone
    BY <2>2 DEF ExitDone, TypeOK
  <2> QED BY <2>1, <2>2 DEF Exit
<1>3. TypeOK' /\ PollsKnowTheirs'
  BY <1>x, <1>2 DEF Exit, ExitTake, ExitDone, storeVars, TypeOK, PollsKnowTheirs
<1>4. exit'.pc # "none" /\ UNCHANGED <<next_id, start>>
  BY DEF Exit, ExitTake, ExitDone, TypeOK, storeVars
<1>5. CarrierHasSlot' /\ LiveIsOwned'
  BY <1>4 DEF CarrierHasSlot, LiveIsOwned
<1>6. slot' = slot \/ slot'.kind = "none"
  BY DEF Exit, ExitTake, ExitDone, storeVars
<1>7. IdsAreOwn'
  BY <1>2, <1>4, <1>6, CarriedIsId DEF Ownership, IdsAreOwn, Carries
<1>8. PlaceholderIsCarried'
  BY <1>4, <1>6 DEF Ownership, PlaceholderIsCarried
<1> QED BY <1>3, <1>5, <1>7, <1>8 DEF Ownership

LEMMA StutterInv ==
  ASSUME IInv, UNCHANGED vars
  PROVE  IInv'
<1> USE DEF IInv, vars, storeVars
<1>1. TypeOK' /\ PollsKnowTheirs'
  BY DEF TypeOK, PollsKnowTheirs
<1>2. Ownership'
  BY OwnershipQuiet
<1> QED BY <1>1, <1>2

LEMMA StepInv == IInv /\ [Next]_vars => IInv'
BY StartDeviceInv, StartSlotInv, StartSpawnInv, StartFailInv, StartStoreInv, StopInv,
   PollStepInv, LoadReturnsInv, SessionInv, ExitInv, StutterInv DEF Next, Start

LEMMA StoreInvariant == Spec => []IInv
BY InitInv, StepInv, PTL DEF Spec

(* At most one iOS session exists until the exit begins, a stopping one    *)
(* included, and the placeholder that sees to it always has its own start  *)
(* command behind it, whatever starts, stops, polls and loads interleave   *)
(* (start_ios_session, ios_slot_is_live, set_ios_slot).                    *)
THEOREM StoreInvHolds == Spec => []StoreInv
<1>1. IInv => StoreInv
  BY InvGivesStoreInv
<1> QED BY <1>1, StoreInvariant, PTL

(* Until the exit begins a live session is in the slot, or the placeholder *)
(* of the command that starts it is (start_ios_session): none runs with    *)
(* nobody able to stop it.                                                 *)
THEOREM LiveIsOwnedHolds == Spec => []LiveIsOwned
<1>1. IInv => LiveIsOwned
  BY InvGivesStoreInv
<1> QED BY <1>1, StoreInvariant, PTL

(* A failed start stays visible until the next start replaces it, whatever *)
(* polls and stops run in between (ios_session_status, stop_ios_session).  *)
THEOREM FailureStaysVisibleHolds == Spec => FailureStaysVisible
<1> DEFINE A == slot.kind = "failed" /\ slot' # slot /\ exit'.pc = "none"
                  => slot'.kind = "starting"
<1>1. IInv /\ [Next]_vars => [A]_vars
  <2> SUFFICES ASSUME IInv, Next, slot.kind = "failed", slot' # slot, exit'.pc = "none"
               PROVE  slot'.kind = "starting"
    OBVIOUS
  <2>1. exit.pc = "none"
    <3>1. exit' = exit \/ exit'.pc # "none"
      BY ExitInv DEF Next, Start, StartDevice, StartSlot, StartSpawn, StartFail, StartStore,
         PollStep, PollSnapshot, PollReset, PollForget, PollClaim, PollQuery, PollWrite,
         PollDevice, PollRequest, Session, SessionStarts, SessionEnds, SessionStops,
         SessionBreaks, SessionMoves, Stop, StopDevice, StopSlot, LoadReturns, Exit,
         ExitTake, ExitDone, IInv, TypeOK
    <3> QED BY <3>1
  <2>2. \A c \in Command : ~Carries(c)
    BY <2>1 DEF IInv, Ownership, CarrierHasSlot
  <2>3. \A c \in Command : ~StartFail(c) /\ ~StartStore(c)
    BY <2>2 DEF Carries, StartFail, StartStore
  <2>4. ~Exit
    BY <2>1 DEF Exit, ExitTake, ExitDone, IInv, TypeOK
  <2>5. \E c \in Command : StartSlot(c)
    BY <2>3, <2>4 DEF Next, Start, StartDevice, StartSpawn,
       PollStep, PollSnapshot, PollReset, PollForget, PollClaim, PollQuery, PollWrite,
       PollDevice, PollRequest, Session, SessionStarts, SessionEnds, SessionStops,
       SessionBreaks, SessionMoves, Stop, StopDevice, StopSlot, LoadReturns, storeVars
  <2> QED BY <2>5 DEF StartSlot
<1> QED BY <1>1, StoreInvariant, PTL DEF Spec, FailureStaysVisible
=============================================================================
