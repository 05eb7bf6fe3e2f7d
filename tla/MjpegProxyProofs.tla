--------------------------- MODULE MjpegProxyProofs ---------------------------
(***************************************************************************)
(* Proofs about the MJPEG proxy, for any finite set of downstream          *)
(* connections and any number of frames: the writer counter and the        *)
(* sockets vector are exact, a drop is charged only for a frame nobody     *)
(* took, and nobody is evicted.                                            *)
(***************************************************************************)
EXTENDS MjpegProxy, FiniteSetTheorems, TLAPS

Status == {"none", "queued", "accepted", "starting", "request", "head", "next",
           "write", "leave", "forget", "gone"}

(* The inductive invariant: what the threads share, and the drops.         *)
IInv == ProxyInv /\ DropsWereNotSeen

(* The parts of ProxyInv that speak of connections alone.                  *)
ConnType ==
  /\ held \subseteq Downstream /\ registered \subseteq Downstream
  /\ writer \in [Downstream -> Status]
  /\ writers \in 0..Cardinality(Downstream)
  /\ socket \in [Downstream -> {"open", "shut"}]

ConnInv ==
  /\ ConnType /\ WritersAreCounted /\ RegistryIsExact /\ GoneMeansShut
  /\ \A d \in held : writer[d] = "accepted"
  /\ \A d \in Downstream : writer[d] = "leave" => socket[d] = "shut"

(* The parts that speak of the frame slot alone.                           *)
SlotInv ==
  /\ seq \in 0..MaxFrames /\ drops \in 0..MaxFrames
  /\ consumed \in BOOLEAN
  /\ last \in [Downstream -> 0..MaxFrames]
  /\ taken \subseteq 1..seq
  /\ seq \in taken => consumed
  /\ DropsWereNotSeen

(* And the rest: pump, acceptor, owner and peers.                          *)
ThreadInv ==
  /\ pump \in {"open", "check", "read", "raise", "exited"}
  /\ upstream \in {"open", "shut"}
  /\ cause \in {"none", "eof", "error"}
  /\ failure \in BOOLEAN /\ stopping \in BOOLEAN /\ lock \in BOOLEAN
  /\ acceptor \in {"check", "accept", "register", "exited"}
  /\ requested \subseteq Downstream /\ closed \subseteq Downstream
  /\ owner \in {"idle", "upstream", "lock", "sockets", "join_pump",
                "join_acceptor", "stopped"}
  /\ failure <=> cause = "error"
  /\ pump \in {"open", "check", "read"} => cause = "none"
  /\ owner # "idle" => stopping

LEMMA InvParts == IInv <=> ConnInv /\ SlotInv /\ ThreadInv
<1> USE ProxyAssumption
<1>1. IInv => ConnInv /\ SlotInv /\ ThreadInv
  BY DEF IInv, ProxyInv, TypeOK, ThreadsAgree, ConnInv, ConnType, SlotInv, ThreadInv, Status
<1>2. ASSUME ConnInv, SlotInv, ThreadInv PROVE IInv
  <2>1. taken \subseteq 1..MaxFrames
    BY <1>2 DEF SlotInv
  <2>2. TypeOK
    BY <1>2, <2>1 DEF TypeOK, ConnInv, ConnType, SlotInv, ThreadInv, Status
  <2>3. ThreadsAgree /\ FailureBeforeFlag
    BY <1>2 DEF ThreadsAgree, FailureBeforeFlag, ConnInv, SlotInv, ThreadInv
  <2> QED BY <1>2, <2>2, <2>3 DEF IInv, ProxyInv, ConnInv, SlotInv
<1> QED BY <1>1, <1>2

LEMMA InvPartsPrimed == (ConnInv /\ SlotInv /\ ThreadInv)' => IInv'
BY InvParts, PTL

LEMMA ActiveFinite ==
  /\ IsFiniteSet(Active) /\ Cardinality(Active) \in 0..Cardinality(Downstream)
  /\ IsFiniteSet(Downstream)
<1>1. Active \in SUBSET Downstream
  BY DEF Active
<1>2. IsFiniteSet(Downstream)
  BY ProxyAssumption
<1>3. IsFiniteSet(Active) /\ Cardinality(Active) <= Cardinality(Downstream)
  BY <1>1, <1>2, FS_Subset
<1>4. Cardinality(Active) \in Nat /\ Cardinality(Downstream) \in Nat
  BY <1>2, <1>3, FS_CardinalityType
<1> QED BY <1>2, <1>3, <1>4

LEMMA InitInv == Init => IInv
<1> SUFFICES ASSUME Init PROVE ConnInv /\ SlotInv /\ ThreadInv
  BY InvParts
<1> USE ProxyAssumption DEF Init
<1>1. Active = {} /\ Cardinality(Active) = 0
  BY FS_EmptySet DEF Active
<1>2. ConnInv
  BY <1>1, ActiveFinite DEF ConnInv, ConnType, Status, WritersAreCounted, RegistryIsExact, GoneMeansShut
<1>3. SlotInv
  <2>1. (1..(seq - 1)) \ taken = {}
    OBVIOUS
  <2>2. DropsWereNotSeen
    BY <2>1, FS_EmptySet DEF DropsWereNotSeen
  <2>3. seq \notin taken /\ consumed \in BOOLEAN
    OBVIOUS
  <2>4. seq \in 0..MaxFrames /\ drops \in 0..MaxFrames /\ taken \subseteq 1..seq
    OBVIOUS
  <2>5. last \in [Downstream -> 0..MaxFrames]
    OBVIOUS
  <2> HIDE DEF Init
  <2> QED BY <2>2, <2>3, <2>4, <2>5 DEF SlotInv
<1>4. ThreadInv
  BY DEF ThreadInv
<1> QED BY <1>2, <1>3, <1>4

-----------------------------------------------------------------------------
(* The frame slot.                                                         *)
LEMMA UnseenFinite ==
  ASSUME NEW n \in Nat, NEW T
  PROVE  /\ IsFiniteSet((1..(n - 1)) \ T)
         /\ Cardinality((1..(n - 1)) \ T) \in Nat
         /\ Cardinality((1..(n - 1)) \ T) <= n
<1> DEFINE S == (1..(n - 1)) \ T
<1>1. IsFiniteSet(1..(n - 1)) /\ Cardinality(1..(n - 1)) <= n
  <2> DEFINE m == n - 1
  <2>1. 1 \in Int /\ m \in Int
    OBVIOUS
  <2>2. (IF 1 > m THEN 0 ELSE m - 1 + 1) <= n
    OBVIOUS
  <2> HIDE DEF m
  <2>3. /\ IsFiniteSet(1..m)
        /\ Cardinality(1..m) = IF 1 > m THEN 0 ELSE m - 1 + 1
    BY <2>1, FS_Interval, Zenon
  <2>4. Cardinality(1..m) <= n
    BY <2>2, <2>3, Zenon
  <2> QED BY <2>3, <2>4 DEF m
<1>2. S \in SUBSET (1..(n - 1))
  OBVIOUS
<1>3. IsFiniteSet(S) /\ Cardinality(S) <= Cardinality(1..(n - 1))
  BY <1>1, <1>2, FS_Subset
<1>4. Cardinality(S) \in Nat /\ Cardinality(1..(n - 1)) \in Nat
  BY <1>1, <1>3, FS_CardinalityType
<1> QED BY <1>1, <1>3, <1>4

(* Publishing makes the frame before the new one a candidate for a drop.   *)
LEMMA PublishSlot ==
  ASSUME SlotInv, Publish, last' = last
  PROVE  SlotInv'
<1> USE ProxyAssumption
<1> DEFINE Old == (1..(seq - 1)) \ taken
           New == (1..seq) \ taken
<1>1. seq \in Nat /\ drops \in Nat /\ drops <= Cardinality(Old)
  BY DEF SlotInv, DropsWereNotSeen
<1>2. seq' = seq + 1 /\ consumed' = FALSE /\ taken' = taken /\ seq < MaxFrames
  BY DEF Publish
<1>3. IsFiniteSet(Old) /\ Cardinality(Old) \in Nat
  BY <1>1, UnseenFinite
<1>4. IsFiniteSet(New) /\ Cardinality(New) \in Nat
  <2>1. (seq + 1) - 1 = seq /\ seq + 1 \in Nat
    BY <1>1
  <2> QED BY <2>1, UnseenFinite
<1>5. Cardinality(Old) <= Cardinality(New)
  <2>1. Old \in SUBSET New
    BY <1>1
  <2> QED BY <1>4, <2>1, FS_Subset
<1>6. drops' <= Cardinality(New) /\ drops' \in Nat
  <2>1. CASE drops' = drops
    BY <1>1, <1>3, <1>4, <1>5, <2>1
  <2>2. CASE seq > 0 /\ ~consumed /\ drops' = drops + 1
    <3>1. seq \notin taken
      BY <2>2 DEF SlotInv
    <3>2. New = Old \cup {seq} /\ seq \notin Old
      BY <1>1, <2>2, <3>1
    <3>3. Cardinality(New) = Cardinality(Old) + 1
      BY <1>3, <3>2, FS_AddElement
    <3> QED BY <1>1, <1>3, <2>2, <3>3
  <2> QED BY <2>1, <2>2 DEF Publish
<1>7. (1..(seq' - 1)) \ taken' = New
  BY <1>1, <1>2
<1>8. DropsWereNotSeen'
  BY <1>6, <1>7 DEF DropsWereNotSeen
<1>10. drops' <= seq
  <2>1. IsFiniteSet(1..seq) /\ Cardinality(1..seq) = seq
    BY <1>1, FS_Interval
  <2>2. New \in SUBSET (1..seq)
    OBVIOUS
  <2>3. Cardinality(New) <= seq
    BY <2>1, <2>2, FS_Subset
  <2> QED BY <1>1, <1>4, <1>6, <2>3
<1>11. drops' \in 0..MaxFrames
  BY <1>1, <1>2, <1>6, <1>10
<1>12. seq' \notin taken
  BY <1>1, <1>2 DEF SlotInv
<1>13. /\ seq' \in 0..MaxFrames /\ taken' \subseteq 1..seq'
       /\ last' \in [Downstream -> 0..MaxFrames]
  BY <1>1, <1>2 DEF SlotInv
<1>14. consumed' \in BOOLEAN
  BY <1>2
<1>15. seq' \in taken' => consumed'
  BY <1>2, <1>12
<1> QED BY <1>8, <1>11, <1>13, <1>14, <1>15 DEF SlotInv

(* Taking a frame marks it consumed, and charges nothing.                  *)
LEMMA TakeSlot ==
  ASSUME SlotInv, NEW d \in Downstream, seq > last[d],
         last' = [last EXCEPT ![d] = seq], consumed' = TRUE,
         taken' = taken \cup {seq}, UNCHANGED <<seq, drops>>
  PROVE  SlotInv'
<1> USE ProxyAssumption
<1>1. seq \in 1..seq
  BY DEF SlotInv
<1>2. (1..(seq - 1)) \ taken' = (1..(seq - 1)) \ taken
  BY <1>1 DEF SlotInv
<1>3. DropsWereNotSeen'
  BY <1>2 DEF SlotInv, DropsWereNotSeen
<1> QED BY <1>1, <1>3 DEF SlotInv

LEMMA SlotQuiet ==
  ASSUME SlotInv, UNCHANGED <<slotVars, last>>
  PROVE  SlotInv'
BY DEF SlotInv, DropsWereNotSeen, slotVars

-----------------------------------------------------------------------------
(* The connections.                                                        *)
LEMMA ConnQuiet ==
  ASSUME ConnInv, UNCHANGED <<held, writer, writers, socket, registered>>
  PROVE  ConnInv'
<1>1. Active' = Active
  BY DEF Active
<1> QED BY <1>1 DEF ConnInv, ConnType, WritersAreCounted, RegistryIsExact, GoneMeansShut

(* A step between two places that are both counted or both not.            *)
LEMMA CountSame ==
  ASSUME WritersAreCounted, writers' = writers, Active' = Active
  PROVE  WritersAreCounted' /\ writers' \in 0..Cardinality(Downstream)
BY ActiveFinite DEF WritersAreCounted

LEMMA RegistrySame ==
  ASSUME RegistryIsExact, registered' = registered, Active' = Active,
         \A d \in Downstream : writer'[d] \in {"starting", "forget"} <=>
                               writer[d] \in {"starting", "forget"}
  PROVE  RegistryIsExact'
BY DEF RegistryIsExact

(* The listener goes: what nobody accepted is reset.                       *)
LEMMA ReturnsConn ==
  ASSUME ConnInv, AcceptorReturns
  PROVE  ConnInv'
<1> USE DEF ConnInv, ConnType, AcceptorReturns
<1>1. \A d \in Downstream :
        /\ writer'[d] = IF writer[d] = "queued" THEN "gone" ELSE writer[d]
        /\ socket'[d] = IF writer[d] = "queued" THEN "shut" ELSE socket[d]
  OBVIOUS
<1>2. Active' = Active
  BY <1>1 DEF Active
<1>3. WritersAreCounted' /\ writers' \in 0..Cardinality(Downstream)
  BY <1>2, CountSame
<1>4. RegistryIsExact'
  BY <1>1, <1>2, RegistrySame
<1>5. ConnType'
  BY <1>3 DEF Status
<1>6. GoneMeansShut'
  BY <1>1 DEF GoneMeansShut
<1> QED BY <1>1, <1>3, <1>4, <1>5, <1>6

(* One connection moves between places that are not counted, and is not    *)
(* registered before or after.                                             *)
LEMMA BacklogMoves ==
  ASSUME ConnInv, NEW d \in Downstream,
         writer[d] \in {"none", "queued"},
         NEW to \in {"queued", "accepted", "gone"},
         writer' = [writer EXCEPT ![d] = to],
         \/ UNCHANGED socket /\ to # "gone"
         \/ socket' = [socket EXCEPT ![d] = "shut"],
         \/ UNCHANGED held
         \/ held' = {d} /\ to = "accepted",
         UNCHANGED <<writers, registered>>
  PROVE  ConnInv'
<1> USE DEF ConnInv, ConnType
<1>1. \A e \in Downstream : writer'[e] = IF e = d THEN to ELSE writer[e]
  OBVIOUS
<1>2. \A e \in Downstream : socket'[e] = socket[e] \/ (e = d /\ socket'[e] = "shut")
  OBVIOUS
<1>3. to = "gone" => socket'[d] = "shut"
  OBVIOUS
<1>4. Active' = Active
  BY <1>1 DEF Active
<1>5. WritersAreCounted' /\ writers' \in 0..Cardinality(Downstream)
  BY <1>4, CountSame
<1>6. RegistryIsExact'
  BY <1>1, <1>4, RegistrySame
<1>7. ConnType'
  BY <1>5 DEF Status
<1>8. GoneMeansShut'
  BY <1>1, <1>2, <1>3 DEF GoneMeansShut
<1>9. \A e \in held' : writer'[e] = "accepted"
  BY <1>1
<1>10. \A e \in Downstream : writer'[e] = "leave" => socket'[e] = "shut"
  BY <1>1, <1>2
<1> QED BY <1>5, <1>6, <1>7, <1>8, <1>9, <1>10

(* Out of the acceptor's hands, into the vector and a thread.              *)
LEMMA RegisterConn ==
  ASSUME ConnInv, AcceptRegister
  PROVE  ConnInv'
<1> USE DEF ConnInv, ConnType
<1>1. /\ registered' = registered \cup held /\ held' = {} /\ UNCHANGED <<writers, socket>>
      /\ writer' = [d \in Downstream |-> IF d \in held THEN "starting" ELSE writer[d]]
  BY DEF AcceptRegister
<1>2. \A d \in Downstream : writer'[d] = IF d \in held THEN "starting" ELSE writer[d]
  BY <1>1
<1>3. Active' = Active
  BY <1>2 DEF Active
<1>4. WritersAreCounted' /\ writers' \in 0..Cardinality(Downstream)
  BY <1>1, <1>3, CountSame
<1>5. RegistryIsExact'
  BY <1>1, <1>2, <1>3 DEF RegistryIsExact
<1>6. ConnType'
  BY <1>1, <1>4 DEF Status
<1>7. GoneMeansShut'
  BY <1>1, <1>2 DEF GoneMeansShut
<1> QED BY <1>1, <1>2, <1>4, <1>5, <1>6, <1>7

(* A writer thread moves on while it is counted, or starts, or is taken    *)
(* out of the count.                                                       *)
Counted == {"request", "head", "next", "write", "leave"}

LEMMA ActiveMoves ==
  ASSUME ConnInv, NEW d \in Downstream, NEW to \in Status,
         writer' = [writer EXCEPT ![d] = to]
  PROVE  Active' = IF to \in Counted THEN Active \cup {d} ELSE Active \ {d}
BY DEF ConnInv, ConnType, Active, Counted

LEMMA WriterMoves ==
  ASSUME ConnInv, NEW d \in Downstream, NEW from \in Counted \cup {"starting"},
         NEW to \in Counted \cup {"forget"},
         WriterGoes(d, from, to),
         writers' = writers + (IF from \in Counted THEN 0 ELSE 1)
                            - (IF to \in Counted THEN 0 ELSE 1),
         \/ UNCHANGED socket /\ (to = "forget" => from = "leave") /\ to # "leave"
         \/ socket' = [socket EXCEPT ![d] = "shut"]
  PROVE  ConnInv'
<1> USE DEF ConnInv, ConnType
<1>1. /\ writer[d] = from /\ writer' = [writer EXCEPT ![d] = to]
      /\ UNCHANGED <<registered, held>>
  BY DEF WriterGoes, acceptVars
<1>2. \A e \in Downstream : writer'[e] = IF e = d THEN to ELSE writer[e]
  BY <1>1
<1>3. \A e \in Downstream : socket'[e] = socket[e] \/ (e = d /\ socket'[e] = "shut")
  OBVIOUS
<1>4. to \in {"leave", "forget"} => socket'[d] = "shut"
  BY <1>1
<1>5. from \in Counted <=> d \in Active
  BY <1>1 DEF Active, Counted
<1>6. Active' = IF to \in Counted THEN Active \cup {d} ELSE Active \ {d}
  BY <1>1, ActiveMoves DEF Counted, Status
<1>7. WritersAreCounted'
  <2>1. Cardinality(Active') = Cardinality(Active) + (IF d \in Active THEN 0 ELSE 1)
                                                   - (IF to \in Counted THEN 0 ELSE 1)
    <3>1. Cardinality(Active) \in Nat
      BY ActiveFinite
    <3>2. CASE to \in Counted
      <4>1. Cardinality(Active \cup {d}) = IF d \in Active THEN Cardinality(Active)
                                          ELSE Cardinality(Active) + 1
        BY ActiveFinite, FS_AddElement
      <4> QED BY <1>6, <3>1, <3>2, <4>1
    <3>3. CASE to \notin Counted
      <4>1. Cardinality(Active \ {d}) = IF d \in Active THEN Cardinality(Active) - 1
                                        ELSE Cardinality(Active)
        BY ActiveFinite, FS_RemoveElement
      <4> QED BY <1>6, <3>1, <3>3, <4>1
    <3> QED BY <3>2, <3>3
  <2> QED BY <1>5, <2>1 DEF WritersAreCounted
<1>8. writers' \in 0..Cardinality(Downstream)
  <2>1. Active' \in SUBSET Downstream
    BY DEF Active
  <2>2. IsFiniteSet(Active') /\ Cardinality(Active') <= Cardinality(Downstream)
    BY <2>1, ActiveFinite, FS_Subset
  <2>3. Cardinality(Active') \in Nat /\ Cardinality(Downstream) \in Nat
    BY <2>2, ActiveFinite, FS_CardinalityType
  <2> QED BY <1>7, <2>2, <2>3 DEF WritersAreCounted
<1>9. RegistryIsExact'
  <2>1. d \in registered
    BY <1>1 DEF RegistryIsExact, Active, Counted
  <2> QED BY <1>1, <1>2, <1>6, <2>1 DEF RegistryIsExact, Counted
<1>10. ConnType'
  BY <1>1, <1>8 DEF Counted, Status
<1>11. GoneMeansShut'
  BY <1>2, <1>3, <1>4 DEF GoneMeansShut, Counted
<1>12. \A e \in held' : writer'[e] = "accepted"
  BY <1>1, <1>2 DEF Counted
<1>13. \A e \in Downstream : writer'[e] = "leave" => socket'[e] = "shut"
  BY <1>2, <1>3, <1>4
<1> QED BY <1>7, <1>9, <1>10, <1>11, <1>12, <1>13

LEMMA ForgetConn ==
  ASSUME ConnInv, NEW d \in Downstream, GuardForget(d)
  PROVE  ConnInv'
<1> USE DEF ConnInv, ConnType
<1>1. /\ writer[d] = "forget" /\ writer' = [writer EXCEPT ![d] = "gone"]
      /\ registered' = registered \ {d} /\ UNCHANGED <<held, writers, socket>>
  BY DEF GuardForget, acceptVars
<1>2. \A e \in Downstream : writer'[e] = IF e = d THEN "gone" ELSE writer[e]
  BY <1>1
<1>3. Active' = Active
  BY <1>1, <1>2 DEF Active
<1>4. WritersAreCounted' /\ writers' \in 0..Cardinality(Downstream)
  BY <1>1, <1>3, CountSame
<1>5. RegistryIsExact'
  BY <1>1, <1>2, <1>3 DEF RegistryIsExact, Active
<1>6. ConnType'
  BY <1>1, <1>4 DEF Status
<1>7. GoneMeansShut'
  BY <1>1, <1>2 DEF GoneMeansShut
<1> QED BY <1>1, <1>2, <1>4, <1>5, <1>6, <1>7

-----------------------------------------------------------------------------
(* One lemma per thread.                                                   *)
LEMMA PumpInv ==
  ASSUME IInv, Pump
  PROVE  IInv'
<1>1. ConnInv /\ SlotInv /\ ThreadInv
  BY InvParts
<1>2. UNCHANGED <<acceptVars, lock, connVars, peerVars, owner>>
  BY DEF Pump, PumpOpen, PumpCheck, PumpRead, PumpRaise
<1>3. ConnInv'
  BY <1>1, <1>2, ConnQuiet DEF acceptVars, connVars
<1>4. SlotInv'
  <2>1. CASE Publish
    BY <1>1, <1>2, <2>1, PublishSlot DEF connVars
  <2>2. CASE UNCHANGED slotVars
    BY <1>1, <1>2, <2>2, SlotQuiet DEF connVars
  <2> QED BY <2>1, <2>2 DEF Pump, PumpOpen, PumpCheck, PumpRead, PumpRaise, PumpFails
<1>5. ThreadInv'
  <2>f. CASE PumpFails /\ UNCHANGED stopping
    <3>1. /\ UNCHANGED <<upstream, stopping, lock, acceptor, requested, closed, owner>>
          /\ pump' = "raise" /\ cause' = "error" /\ failure' = TRUE
      BY <1>2, <2>f DEF PumpFails, acceptVars, peerVars
    <3> QED BY <1>1, <3>1 DEF ThreadInv
  <2> USE <1>1, <1>2 DEF ThreadInv, acceptVars, peerVars
  <2>1. CASE PumpOpen
    BY <2>1, <2>f DEF PumpOpen
  <2>2. CASE PumpCheck
    BY <2>2 DEF PumpCheck
  <2>3. CASE PumpRead
    BY <2>3, <2>f DEF PumpRead, Publish
  <2>4. CASE PumpRaise
    BY <2>4 DEF PumpRaise
  <2> QED BY <2>1, <2>2, <2>3, <2>4 DEF Pump
<1> QED BY <1>3, <1>4, <1>5, InvPartsPrimed

LEMMA AcceptorInv ==
  ASSUME IInv, Acceptor
  PROVE  IInv'
<1>1. ConnInv /\ SlotInv /\ ThreadInv
  BY InvParts
<1>2. UNCHANGED <<pumpVars, stopping, slotVars, lock, peerVars, owner, last>>
  BY DEF Acceptor, AcceptCheck, Accept, AcceptRegister, AcceptorReturns, connVars
<1>3. SlotInv'
  BY <1>1, <1>2, SlotQuiet
<1>4. ThreadInv'
  <2>1. acceptor' \in {"check", "accept", "register", "exited"}
    BY DEF Acceptor, AcceptCheck, Accept, AcceptRegister, AcceptorReturns
  <2> QED BY <1>1, <1>2, <2>1 DEF ThreadInv, pumpVars, peerVars
<1>5. ConnInv'
  <2>1. CASE AcceptorReturns
    BY <1>1, <2>1, ReturnsConn
  <2>2. CASE UNCHANGED <<held, connVars>>
    BY <1>1, <2>2, ConnQuiet DEF connVars
  <2>3. CASE AcceptRegister
    BY <1>1, <2>3, RegisterConn
  <2>4. ASSUME NEW d \in Downstream, writer[d] = "queued",
               UNCHANGED <<writers, registered>>,
               writer' = [writer EXCEPT ![d] = "accepted"], held' = {d}, UNCHANGED socket
        PROVE  ConnInv'
    BY <1>1, <2>4, BacklogMoves
  <2>5. ASSUME NEW d \in Downstream, writer[d] = "queued",
               UNCHANGED <<writers, registered>>,
               writer' = [writer EXCEPT ![d] = "gone"],
               socket' = [socket EXCEPT ![d] = "shut"], UNCHANGED held
        PROVE  ConnInv'
    BY <1>1, <2>5, BacklogMoves
  <2> QED BY <2>1, <2>2, <2>3, <2>4, <2>5 DEF Acceptor, AcceptCheck, Accept
<1> QED BY <1>3, <1>4, <1>5, InvPartsPrimed

(* The steps of one writer, by where it is and where it goes.              *)
LEMMA LeavesConn ==
  ASSUME ConnInv, NEW d \in Downstream, NEW from \in {"request", "head", "next", "write"},
         WriterLeaves(d, from)
  PROVE  ConnInv'
<1>1. from \in Counted /\ "leave" \in Counted
  BY DEF Counted
<1>2. /\ WriterGoes(d, from, "leave") /\ writers' = writers
      /\ socket' = [socket EXCEPT ![d] = "shut"]
  BY DEF WriterLeaves
<1>3. writers' = writers + 0 - 0
  BY <1>2 DEF ConnInv, ConnType
<1> QED BY <1>1, <1>2, <1>3, WriterMoves

LEMMA StaysConn ==
  ASSUME ConnInv, NEW d \in Downstream, NEW from \in {"request", "head", "next", "write"},
         NEW to \in {"head", "next", "write"}, WriterGoes(d, from, to),
         UNCHANGED <<writers, socket>>
  PROVE  ConnInv'
<1>1. from \in Counted /\ to \in Counted /\ to # "leave" /\ to # "forget"
  BY DEF Counted
<1>2. writers' = writers + 0 - 0
  BY DEF ConnInv, ConnType
<1> QED BY <1>1, <1>2, WriterMoves

LEMMA WriterConn ==
  ASSUME ConnInv, NEW d \in Downstream, WriterThread(d)
  PROVE  ConnInv'
<1>1. CASE WriterStart(d)
  <2>1. "starting" \notin Counted /\ "request" \in Counted
    BY DEF Counted
  <2>2. writers' = writers + 1 - 0
    BY <1>1 DEF WriterStart, ConnInv, ConnType
  <2>3. WriterGoes(d, "starting", "request") /\ UNCHANGED socket
    BY <1>1 DEF WriterStart
  <2> QED BY <2>1, <2>2, <2>3, WriterMoves
<1>2. CASE WriterRequest(d)
  BY <1>2, LeavesConn, StaysConn DEF WriterRequest
<1>3. CASE WriterHead(d)
  BY <1>3, LeavesConn, StaysConn DEF WriterHead
<1>4. CASE WriterNext(d)
  BY <1>4, LeavesConn, StaysConn DEF WriterNext
<1>5. CASE WriterFails(d)
  BY <1>5, LeavesConn DEF WriterFails
<1>6. CASE GuardCount(d)
  <2>1. "leave" \in Counted /\ "forget" \notin Counted
    BY DEF Counted
  <2>2. writers' = writers + 0 - 1
    BY <1>6 DEF GuardCount, ConnInv, ConnType
  <2>3. WriterGoes(d, "leave", "forget") /\ UNCHANGED socket
    BY <1>6 DEF GuardCount
  <2> QED BY <2>1, <2>2, <2>3, WriterMoves
<1>7. CASE GuardForget(d)
  BY <1>7, ForgetConn
<1>8. CASE WriterWrite(d)
  BY <1>8, StaysConn DEF WriterWrite
<1>9. CASE WriterErrs(d)
  BY <1>9, LeavesConn DEF WriterErrs
<1> QED BY <1>1, <1>2, <1>3, <1>4, <1>5, <1>6, <1>7, <1>8, <1>9
        DEF WriterThread, WriterOwn, WriterGuard

LEMMA WriterInv ==
  ASSUME IInv, NEW d \in Downstream, WriterThread(d)
  PROVE  IInv'
<1>1. ConnInv /\ SlotInv /\ ThreadInv
  BY InvParts
<1>2. UNCHANGED <<pumpVars, stopping, acceptVars, lock, peerVars, owner>>
  BY DEF WriterThread, WriterOwn, WriterStart, WriterRequest, WriterHead, WriterNext,
         WriterFails, WriterErrs, WriterWrite, WriterLeaves, WriterGuard, GuardCount,
         GuardForget, WriterGoes
<1>3. ConnInv'
  BY <1>1, WriterConn
<1>4. ThreadInv'
  BY <1>1, <1>2 DEF ThreadInv, pumpVars, acceptVars, peerVars
<1>5. SlotInv'
  <2>1. CASE /\ seq > last[d] /\ last' = [last EXCEPT ![d] = seq] /\ consumed' = TRUE
             /\ taken' = taken \cup {seq} /\ UNCHANGED <<seq, drops>>
    BY <1>1, <2>1, TakeSlot
  <2>2. CASE UNCHANGED <<slotVars, last>>
    BY <1>1, <2>2, SlotQuiet
  <2> QED BY <2>1, <2>2
      DEF WriterThread, WriterOwn, WriterStart, WriterRequest, WriterHead, WriterNext,
          WriterFails, WriterErrs, WriterWrite, WriterLeaves, WriterGuard, GuardCount,
          GuardForget
<1> QED BY <1>3, <1>4, <1>5, InvPartsPrimed

LEMMA StopInv ==
  ASSUME IInv, Stop
  PROVE  IInv'
<1>1. ConnInv /\ SlotInv /\ ThreadInv
  BY InvParts
<1>2. UNCHANGED <<slotVars, acceptVars, writer, writers, last, registered, peerVars>>
  BY DEF Stop, StopFlag, StopUpstream, StopLock, StopSockets, StopJoin, connVars
<1>3. SlotInv'
  BY <1>1, <1>2, SlotQuiet
<1>4. ThreadInv'
  <2> USE <1>1, <1>2 DEF ThreadInv, acceptVars, peerVars, pumpVars
  <2>1. CASE StopFlag
    BY <2>1 DEF StopFlag
  <2>2. CASE StopUpstream
    BY <2>2 DEF StopUpstream
  <2>3. CASE StopLock
    BY <2>3 DEF StopLock
  <2>4. CASE StopSockets
    BY <2>4 DEF StopSockets
  <2>5. CASE StopJoin
    BY <2>5 DEF StopJoin
  <2> QED BY <2>1, <2>2, <2>3, <2>4, <2>5 DEF Stop
<1>5. ConnInv'
  <2>1. /\ socket' \in [Downstream -> {"open", "shut"}]
        /\ \A d \in Downstream : socket[d] = "shut" => socket'[d] = "shut"
    BY <1>1 DEF Stop, StopFlag, StopUpstream, StopLock, StopSockets, StopJoin, connVars,
       ConnInv, ConnType
  <2>2. Active' = Active
    BY <1>2 DEF Active
  <2> QED BY <1>1, <1>2, <2>1, <2>2 DEF ConnInv, ConnType, WritersAreCounted,
             RegistryIsExact, GoneMeansShut, acceptVars
<1> QED BY <1>3, <1>4, <1>5, InvPartsPrimed

LEMMA PeerInv ==
  ASSUME IInv, NEW d \in Downstream, PeerConnects(d) \/ PeerActs(d)
  PROVE  IInv'
<1>1. ConnInv /\ SlotInv /\ ThreadInv
  BY InvParts
<1>2. UNCHANGED <<pumpVars, stopping, slotVars, acceptVars, lock, writers, last,
                  socket, registered, owner>>
  BY DEF PeerConnects, PeerActs, connVars
<1>3. SlotInv'
  BY <1>1, <1>2, SlotQuiet
<1>4. ThreadInv'
  BY <1>1, <1>2 DEF ThreadInv, PeerConnects, PeerActs, pumpVars, acceptVars, peerVars
<1>5. ConnInv'
  <2>1. CASE PeerConnects(d)
    BY <1>1, <1>2, <2>1, BacklogMoves DEF PeerConnects, acceptVars
  <2>2. CASE PeerActs(d)
    BY <1>1, <1>2, <2>2, ConnQuiet DEF PeerActs, connVars, acceptVars
  <2> QED BY <2>1, <2>2
<1> QED BY <1>3, <1>4, <1>5, InvPartsPrimed

LEMMA StutterInv ==
  ASSUME IInv, UNCHANGED vars
  PROVE  IInv'
<1>1. ConnInv /\ SlotInv /\ ThreadInv
  BY InvParts
<1>2. ConnInv' /\ SlotInv'
  BY <1>1, ConnQuiet, SlotQuiet DEF vars, connVars, acceptVars
<1>3. ThreadInv'
  BY <1>1 DEF ThreadInv, vars, pumpVars, acceptVars, peerVars
<1> QED BY <1>2, <1>3, InvPartsPrimed

LEMMA StepInv == IInv /\ [Next]_vars => IInv'
BY PumpInv, AcceptorInv, WriterInv, StopInv, PeerInv, StutterInv DEF Next

LEMMA ProxyInvariant == Spec => []IInv
BY InitInv, StepInv, PTL DEF Spec

-----------------------------------------------------------------------------
(* However pump, acceptor, writers, owner and peers interleave, the writer *)
(* counter and the sockets vector are exact, a connection whose thread is  *)
(* gone was shut, and a pump that ended by an error recorded it before the *)
(* flag (write_downstream, WriterGuard, pump_upstream, Proxy::stop).       *)
THEOREM ProxyInvHolds == Spec => []ProxyInv
<1>1. IInv => ProxyInv
  BY DEF IInv
<1> QED BY <1>1, ProxyInvariant, PTL

(* A backpressure drop is charged only for a frame no writer ever took, at *)
(* most once per frame and never for the latest (Slot::publish and         *)
(* next_frame).                                                            *)
THEOREM DropsWereNotSeenHolds == Spec => []DropsWereNotSeen
<1>1. IInv => DropsWereNotSeen
  BY DEF IInv
<1> QED BY <1>1, ProxyInvariant, PTL

(* While the proxy is up, an accepted connection is shut by its own writer *)
(* only, where that writer reads or writes, and no other goes with it      *)
(* (serve_downstream's contract, write_downstream).                        *)
THEOREM NoEvictionHolds == Spec => NoEviction
<1> DEFINE A == \A d \in Downstream :
                  socket[d] = "open" /\ socket'[d] = "shut"
                    => \/ stopping \/ writer[d] = "queued"
                       \/ /\ writer[d] \in {"request", "head", "write"}
                          /\ writer'[d] = "leave"
                          /\ \A e \in Downstream \ {d} : socket'[e] = socket[e]
<1>1. IInv /\ [Next]_vars => [A]_vars
  <2> DEFINE OwnError(d) == /\ writer[d] \in {"request", "head", "write"}
                            /\ writer'[d] = "leave"
                            /\ \A e \in Downstream \ {d} : socket'[e] = socket[e]
  <2> SUFFICES ASSUME IInv, Next, NEW d \in Downstream, socket[d] = "open", socket'[d] = "shut"
               PROVE  stopping \/ writer[d] = "queued" \/ OwnError(d)
    OBVIOUS
  <2>1. /\ socket \in [Downstream -> {"open", "shut"}] /\ (owner # "idle" => stopping)
        /\ \A e \in Downstream : writer' = [writer EXCEPT ![e] = "leave"] => writer'[e] = "leave"
    BY DEF IInv, ProxyInv, TypeOK, ThreadsAgree
  <2>2. CASE Pump
    BY <2>2 DEF Pump, PumpOpen, PumpCheck, PumpRead, PumpRaise, connVars
  <2>3. CASE Acceptor
    BY <2>1, <2>3 DEF Acceptor, AcceptCheck, Accept, AcceptRegister, AcceptorReturns, connVars
  <2>4. CASE Stop
    BY <2>1, <2>4 DEF Stop, StopFlag, StopUpstream, StopLock, StopSockets, StopJoin, connVars
  <2>5. ASSUME NEW e \in Downstream, WriterThread(e)
        PROVE  stopping \/ OwnError(d)
    <3>1. CASE UNCHANGED socket
      BY <3>1
    <3>2. CASE WriterLeaves(e, "next") /\ stopping
      BY <3>2
    <3>3. ASSUME NEW from \in {"request", "head", "write"}, WriterLeaves(e, from)
          PROVE  OwnError(d)
      <4>1. writer[e] = from /\ writer'[e] = "leave" /\ socket' = [socket EXCEPT ![e] = "shut"]
        BY <2>1, <3>3 DEF WriterLeaves, WriterGoes
      <4>2. e = d /\ \A f \in Downstream \ {d} : socket'[f] = socket[f]
        BY <2>1, <4>1
      <4> QED BY <4>1, <4>2
    <3> QED BY <2>5, <3>1, <3>2, <3>3
        DEF WriterThread, WriterOwn, WriterStart, WriterRequest, WriterHead, WriterNext,
            WriterFails, WriterErrs, WriterWrite, WriterGuard, GuardCount, GuardForget
  <2>6. ASSUME NEW e \in Downstream, PeerConnects(e) \/ PeerActs(e)
        PROVE  FALSE
    BY <2>6 DEF PeerConnects, PeerActs, connVars
  <2> QED BY <2>2, <2>3, <2>4, <2>5, <2>6 DEF Next
<1> QED BY <1>1, ProxyInvariant, PTL DEF Spec, NoEviction
=============================================================================
