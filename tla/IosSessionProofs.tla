-------------------------- MODULE IosSessionProofs --------------------------
(***************************************************************************)
(* Proofs about the iOS session supervisor of IosSession, for every number *)
(* of forward attempts, poll rounds and stop requests.                     *)
(***************************************************************************)
EXTENDS IosSession, TLAPS

(* The outcomes start_session can return are outcomes.                     *)
LEMMA OutcomeValues ==
  /\ NoOutcome \in Outcome
  /\ \A code \in ErrorCode : [kind |-> "failed", why |-> code] \in Outcome
  /\ \A why \in ExitReason : [kind |-> "exited", why |-> why] \in Outcome
BY DEF Outcome

LEMMA OutcomeKinds ==
  \A o \in Outcome : o.kind = "none" \/ o.kind \in Ended
BY DEF Outcome, NoOutcome, Ended

(* A session that has just been created satisfies the invariant.           *)
LEMMA InitInv == Init => SupervisorInv
<1> SUFFICES ASSUME Init PROVE SupervisorInv
  OBVIOUS
<1> USE DEF Init
<1>1. TypeOK
  <2>1. child \in [ChildKind -> {"absent", "live", "dead", "reaped"}]
    OBVIOUS
  <2>2. /\ attempts \in 0..FORWARD_PORT_ATTEMPTS
        /\ polls \in 0..PollBudget
        /\ stops \in 0..MaxStops
    BY ConstantsAssumption
  <2>3. /\ client \in BOOLEAN /\ proxy \in BOOLEAN /\ done \in BOOLEAN
        /\ failure \in BOOLEAN /\ stopping \in BOOLEAN
    OBVIOUS
  <2>4. outcome \in Outcome
    BY OutcomeValues
  <2> QED
    BY <2>1, <2>2, <2>3, <2>4 DEF TypeOK
<1>2. StatusFollowsPc
  BY DEF StatusFollowsPc, NoOutcome, Starting, Running, Stopping
<1>3. OwnedFollowsPc
  BY DEF OwnedFollowsPc, WaitTunnel, SpawnForwards, WaitStatus, Connect, Running
<1>4. NoStrayChild
  BY DEF NoStrayChild
<1>5. PartsFollowPc
  BY DEF PartsFollowPc, Running
<1> QED
  BY <1>1, <1>2, <1>3, <1>4, <1>5 DEF SupervisorInv

(* Every step of the supervisor and of its surroundings keeps it.          *)
LEMMA StepInv == SupervisorInv /\ [Next]_vars => SupervisorInv'
<1> SUFFICES ASSUME SupervisorInv, [Next]_vars PROVE SupervisorInv'
  OBVIOUS
<1> USE ConstantsAssumption DEF SupervisorInv, supVars, pumpVars
<1>1. CASE Preflight
  <2>1. TypeOK'
    BY <1>1, OutcomeValues DEF Preflight, TypeOK, ErrorCode, ExitReason
  <2>2. StatusFollowsPc'
    BY <1>1 DEF Preflight, StatusFollowsPc, NoOutcome, Starting, Running,
          Stopping, WaitTunnel, SpawnForwards, WaitStatus, Connect
  <2>3. OwnedFollowsPc'
    BY <1>1 DEF Preflight, OwnedFollowsPc, WaitTunnel, SpawnForwards,
          WaitStatus, Connect, Running, Full
  <2>4. NoStrayChild'
    BY <1>1 DEF Preflight, NoStrayChild, OwnedFollowsPc, WaitTunnel,
          SpawnForwards, Forward, TypeOK
  <2>5. PartsFollowPc'
    BY <1>1 DEF Preflight, PartsFollowPc, StatusFollowsPc, OwnedFollowsPc,
          Full, Starting, Running, Stopping, WaitTunnel, SpawnForwards,
          WaitStatus, Connect
  <2> QED
    BY <2>1, <2>2, <2>3, <2>4, <2>5
<1>2. CASE SpawnTunnel
  <2>1. TypeOK'
    BY <1>2, OutcomeValues DEF SpawnTunnel, SpawnOwned, Return, SpawnErrors,
          TypeOK, ErrorCode, ExitReason, ChildKind
  <2>2. StatusFollowsPc'
    BY <1>2 DEF SpawnTunnel, SpawnOwned, Return, SpawnErrors, StatusFollowsPc,
          NoOutcome, Starting, Running, Stopping, WaitTunnel, SpawnForwards,
          WaitStatus, Connect
  <2>3. OwnedFollowsPc'
    BY <1>2 DEF SpawnTunnel, SpawnOwned, Return, SpawnErrors, OwnedFollowsPc,
          WaitTunnel, SpawnForwards, WaitStatus, Connect, Running, Full
  <2>4. NoStrayChild'
    BY <1>2 DEF SpawnTunnel, SpawnOwned, Return, SpawnErrors, NoStrayChild,
          OwnedFollowsPc, WaitTunnel, SpawnForwards, Forward, TypeOK
  <2>5. PartsFollowPc'
    BY <1>2 DEF SpawnTunnel, SpawnOwned, Return, SpawnErrors, PartsFollowPc,
          StatusFollowsPc, OwnedFollowsPc, Full, Starting, Running, Stopping,
          WaitTunnel, SpawnForwards, WaitStatus, Connect
  <2> QED
    BY <2>1, <2>2, <2>3, <2>4, <2>5
<1>3. CASE AwaitTunnel
  <2>1. TypeOK'
    BY <1>3, OutcomeValues DEF AwaitTunnel, AwaitStop, AwaitChild, AwaitPoll,
          Return, Goto, Classify, TypeOK, ErrorCode, ExitReason
  <2>2. StatusFollowsPc'
    BY <1>3 DEF AwaitTunnel, AwaitStop, AwaitChild, AwaitPoll, Return, Goto,
          Classify, StatusFollowsPc, NoOutcome, Starting, Running, Stopping,
          WaitTunnel, SpawnForwards, WaitStatus, Connect
  <2>3. OwnedFollowsPc'
    BY <1>3 DEF AwaitTunnel, AwaitStop, AwaitChild, AwaitPoll, Return, Goto,
          Classify, OwnedFollowsPc, WaitTunnel, SpawnForwards, WaitStatus,
          Connect, Running, Full
  <2>4. NoStrayChild'
    BY <1>3 DEF AwaitTunnel, AwaitStop, AwaitChild, AwaitPoll, Return, Goto,
          Classify, NoStrayChild, OwnedFollowsPc, WaitTunnel, SpawnForwards,
          Forward, TypeOK
  <2>5. PartsFollowPc'
    BY <1>3 DEF AwaitTunnel, AwaitStop, AwaitChild, AwaitPoll, Return, Goto,
          Classify, PartsFollowPc, StatusFollowsPc, OwnedFollowsPc, Full,
          Starting, Running, Stopping, WaitTunnel, SpawnForwards, WaitStatus,
          Connect
  <2> QED
    BY <2>1, <2>2, <2>3, <2>4, <2>5
<1>4. CASE SpawnRunWda
  <2>1. TypeOK'
    BY <1>4, OutcomeValues DEF SpawnRunWda, SpawnOwned, Return, SpawnErrors,
          TypeOK, ErrorCode, ExitReason, ChildKind
  <2>2. StatusFollowsPc'
    BY <1>4 DEF SpawnRunWda, SpawnOwned, Return, SpawnErrors, StatusFollowsPc,
          NoOutcome, Starting, Running, Stopping, WaitTunnel, SpawnForwards,
          WaitStatus, Connect
  <2>3. OwnedFollowsPc'
    BY <1>4 DEF SpawnRunWda, SpawnOwned, Return, SpawnErrors, OwnedFollowsPc,
          WaitTunnel, SpawnForwards, WaitStatus, Connect, Running, Full
  <2>4. NoStrayChild'
    BY <1>4 DEF SpawnRunWda, SpawnOwned, Return, SpawnErrors, NoStrayChild,
          OwnedFollowsPc, WaitTunnel, SpawnForwards, Forward, TypeOK
  <2>5. PartsFollowPc'
    BY <1>4 DEF SpawnRunWda, SpawnOwned, Return, SpawnErrors, PartsFollowPc,
          StatusFollowsPc, OwnedFollowsPc, Full, Starting, Running, Stopping,
          WaitTunnel, SpawnForwards, WaitStatus, Connect
  <2> QED
    BY <2>1, <2>2, <2>3, <2>4, <2>5
<1>5. CASE ForwardSpawn
  <2>1. TypeOK'
    BY <1>5, OutcomeValues DEF ForwardSpawn, Return, SpawnErrors, Forward,
          TypeOK, ErrorCode, ExitReason
  <2>2. StatusFollowsPc'
    BY <1>5 DEF ForwardSpawn, Return, SpawnErrors, Forward, StatusFollowsPc,
          NoOutcome, Starting, Running, Stopping, WaitTunnel, SpawnForwards,
          WaitStatus, Connect
  <2>3. OwnedFollowsPc'
    BY <1>5 DEF ForwardSpawn, Return, SpawnErrors, Forward, OwnedFollowsPc,
          WaitTunnel, SpawnForwards, WaitStatus, Connect, Running, Full
  <2>4. NoStrayChild'
    BY <1>5 DEF ForwardSpawn, Return, SpawnErrors, Forward, NoStrayChild,
          OwnedFollowsPc, WaitTunnel, SpawnForwards, Forward, TypeOK
  <2>5. PartsFollowPc'
    BY <1>5 DEF ForwardSpawn, Return, SpawnErrors, Forward, PartsFollowPc,
          StatusFollowsPc, OwnedFollowsPc, Full, Starting, Running, Stopping,
          WaitTunnel, SpawnForwards, WaitStatus, Connect
  <2> QED
    BY <2>1, <2>2, <2>3, <2>4, <2>5
<1>6. CASE ForwardSettle
  <2>1. TypeOK'
    BY <1>6, OutcomeValues DEF ForwardSettle, Classify, Forward, TypeOK,
          ErrorCode, ExitReason, ChildKind
  <2>2. StatusFollowsPc'
    BY <1>6 DEF ForwardSettle, Classify, Forward, StatusFollowsPc, NoOutcome,
          Starting, Running, Stopping, WaitTunnel, SpawnForwards, WaitStatus,
          Connect
  <2>3. OwnedFollowsPc'
    BY <1>6 DEF ForwardSettle, Classify, Forward, OwnedFollowsPc, WaitTunnel,
          SpawnForwards, WaitStatus, Connect, Running, Full, ChildKind
  <2>4. NoStrayChild'
    BY <1>6 DEF ForwardSettle, Classify, Forward, NoStrayChild,
          OwnedFollowsPc, WaitTunnel, SpawnForwards, Forward, TypeOK,
          ChildKind
  <2>5. PartsFollowPc'
    BY <1>6 DEF ForwardSettle, Classify, Forward, PartsFollowPc,
          StatusFollowsPc, OwnedFollowsPc, Full, Starting, Running, Stopping,
          WaitTunnel, SpawnForwards, WaitStatus, Connect
  <2> QED
    BY <2>1, <2>2, <2>3, <2>4, <2>5
<1>7. CASE AwaitStatus
  <2>1. TypeOK'
    BY <1>7, OutcomeValues DEF AwaitStatus, AwaitStop, AwaitChild, AwaitPoll,
          Return, Goto, Classify, TypeOK, ErrorCode, ExitReason
  <2>2. StatusFollowsPc'
    BY <1>7 DEF AwaitStatus, AwaitStop, AwaitChild, AwaitPoll, Return, Goto,
          Classify, StatusFollowsPc, NoOutcome, Starting, Running, Stopping,
          WaitTunnel, SpawnForwards, WaitStatus, Connect
  <2>3. OwnedFollowsPc'
    BY <1>7 DEF AwaitStatus, AwaitStop, AwaitChild, AwaitPoll, Return, Goto,
          Classify, OwnedFollowsPc, WaitTunnel, SpawnForwards, WaitStatus,
          Connect, Running, Full
  <2>4. NoStrayChild'
    BY <1>7 DEF AwaitStatus, AwaitStop, AwaitChild, AwaitPoll, Return, Goto,
          Classify, NoStrayChild, OwnedFollowsPc, WaitTunnel, SpawnForwards,
          Forward, TypeOK
  <2>5. PartsFollowPc'
    BY <1>7 DEF AwaitStatus, AwaitStop, AwaitChild, AwaitPoll, Return, Goto,
          Classify, PartsFollowPc, StatusFollowsPc, OwnedFollowsPc, Full,
          Starting, Running, Stopping, WaitTunnel, SpawnForwards, WaitStatus,
          Connect
  <2> QED
    BY <2>1, <2>2, <2>3, <2>4, <2>5
<1>8. CASE CreateSession
  <2>1. TypeOK'
    BY <1>8, OutcomeValues DEF CreateSession, TypeOK, ErrorCode, ExitReason
  <2>2. StatusFollowsPc'
    BY <1>8 DEF CreateSession, StatusFollowsPc, NoOutcome, Starting, Running,
          Stopping, WaitTunnel, SpawnForwards, WaitStatus, Connect
  <2>3. OwnedFollowsPc'
    BY <1>8 DEF CreateSession, OwnedFollowsPc, WaitTunnel, SpawnForwards,
          WaitStatus, Connect, Running, Full
  <2>4. NoStrayChild'
    BY <1>8 DEF CreateSession, NoStrayChild, OwnedFollowsPc, WaitTunnel,
          SpawnForwards, Forward, TypeOK
  <2>5. PartsFollowPc'
    BY <1>8 DEF CreateSession, PartsFollowPc, StatusFollowsPc, OwnedFollowsPc,
          Full, Starting, Running, Stopping, WaitTunnel, SpawnForwards,
          WaitStatus, Connect
  <2> QED
    BY <2>1, <2>2, <2>3, <2>4, <2>5
<1>9. CASE ConfigureMjpeg
  <2>1. TypeOK'
    BY <1>9, OutcomeValues DEF ConfigureMjpeg, TypeOK, ErrorCode, ExitReason
  <2>2. StatusFollowsPc'
    BY <1>9 DEF ConfigureMjpeg, StatusFollowsPc, NoOutcome, Starting, Running,
          Stopping, WaitTunnel, SpawnForwards, WaitStatus, Connect
  <2>3. OwnedFollowsPc'
    BY <1>9 DEF ConfigureMjpeg, OwnedFollowsPc, WaitTunnel, SpawnForwards,
          WaitStatus, Connect, Running, Full
  <2>4. NoStrayChild'
    BY <1>9 DEF ConfigureMjpeg, NoStrayChild, OwnedFollowsPc, WaitTunnel,
          SpawnForwards, Forward, TypeOK
  <2>5. PartsFollowPc'
    BY <1>9 DEF ConfigureMjpeg, PartsFollowPc, StatusFollowsPc,
          OwnedFollowsPc, Full, Starting, Running, Stopping, WaitTunnel,
          SpawnForwards, WaitStatus, Connect
  <2> QED
    BY <2>1, <2>2, <2>3, <2>4, <2>5
<1>10. CASE ProxyStart
  <2>1. TypeOK'
    <3>1. CASE /\ proxy' = TRUE /\ pc' = "publish_client"
               /\ UNCHANGED <<mode, status, outcome, child, owned, attempts, polls,
                              wda, client, done, pumpVars, stops>>
      BY <3>1 DEF TypeOK, pumpVars
    <3>2. CASE Return("failed", "proxy_failed")
      <4>1. outcome' \in Outcome
        BY <3>2, OutcomeValues DEF Return, ErrorCode
      <4> QED BY <3>2, <4>1 DEF Return, TypeOK
    <3> QED BY <1>10, <3>1, <3>2 DEF ProxyStart
  <2>2. StatusFollowsPc'
    BY <1>10 DEF ProxyStart, Return, StatusFollowsPc, NoOutcome, Starting,
          Running, Stopping, WaitTunnel, SpawnForwards, WaitStatus, Connect
  <2>3. OwnedFollowsPc'
    BY <1>10 DEF ProxyStart, Return, OwnedFollowsPc, WaitTunnel,
          SpawnForwards, WaitStatus, Connect, Running, Full
  <2>4. NoStrayChild'
    BY <1>10 DEF ProxyStart, Return, NoStrayChild, OwnedFollowsPc, WaitTunnel,
          SpawnForwards, Forward, TypeOK
  <2>5. PartsFollowPc'
    BY <1>10 DEF ProxyStart, Return, PartsFollowPc, StatusFollowsPc,
          OwnedFollowsPc, Full, Starting, Running, Stopping, WaitTunnel,
          SpawnForwards, WaitStatus, Connect
  <2> QED
    BY <2>1, <2>2, <2>3, <2>4, <2>5
<1>11. CASE PublishClient
  <2>1. TypeOK'
    BY <1>11, OutcomeValues DEF PublishClient, TypeOK, ErrorCode, ExitReason
  <2>2. StatusFollowsPc'
    BY <1>11 DEF PublishClient, StatusFollowsPc, NoOutcome, Starting, Running,
          Stopping, WaitTunnel, SpawnForwards, WaitStatus, Connect
  <2>3. OwnedFollowsPc'
    BY <1>11 DEF PublishClient, OwnedFollowsPc, WaitTunnel, SpawnForwards,
          WaitStatus, Connect, Running, Full
  <2>4. NoStrayChild'
    BY <1>11 DEF PublishClient, NoStrayChild, OwnedFollowsPc, WaitTunnel,
          SpawnForwards, Forward, TypeOK
  <2>5. PartsFollowPc'
    BY <1>11 DEF PublishClient, PartsFollowPc, StatusFollowsPc,
          OwnedFollowsPc, Full, Starting, Running, Stopping, WaitTunnel,
          SpawnForwards, WaitStatus, Connect
  <2> QED
    BY <2>1, <2>2, <2>3, <2>4, <2>5
<1>12. CASE PublishRunning
  <2>1. TypeOK'
    BY <1>12, OutcomeValues DEF PublishRunning, TypeOK, ErrorCode, ExitReason
  <2>2. StatusFollowsPc'
    BY <1>12 DEF PublishRunning, StatusFollowsPc, NoOutcome, Starting,
          Running, Stopping, WaitTunnel, SpawnForwards, WaitStatus, Connect
  <2>3. OwnedFollowsPc'
    BY <1>12 DEF PublishRunning, OwnedFollowsPc, WaitTunnel, SpawnForwards,
          WaitStatus, Connect, Running, Full
  <2>4. NoStrayChild'
    BY <1>12 DEF PublishRunning, NoStrayChild, OwnedFollowsPc, WaitTunnel,
          SpawnForwards, Forward, TypeOK
  <2>5. PartsFollowPc'
    BY <1>12 DEF PublishRunning, PartsFollowPc, StatusFollowsPc,
          OwnedFollowsPc, Full, Starting, Running, Stopping, WaitTunnel,
          SpawnForwards, WaitStatus, Connect
  <2> QED
    BY <2>1, <2>2, <2>3, <2>4, <2>5
<1>13. CASE RunUntilStop
  <2>1. TypeOK'
    BY <1>13, OutcomeValues DEF RunUntilStop, RunStop, RunFailure, RunAlive,
          RunChild, Return, Goto, TypeOK, ErrorCode, ExitReason
  <2>2. StatusFollowsPc'
    BY <1>13 DEF RunUntilStop, RunStop, RunFailure, RunAlive, RunChild,
          Return, Goto, StatusFollowsPc, NoOutcome, Starting, Running,
          Stopping, WaitTunnel, SpawnForwards, WaitStatus, Connect
  <2>3. OwnedFollowsPc'
    BY <1>13 DEF RunUntilStop, RunStop, RunFailure, RunAlive, RunChild,
          Return, Goto, OwnedFollowsPc, WaitTunnel, SpawnForwards, WaitStatus,
          Connect, Running, Full
  <2>4. NoStrayChild'
    BY <1>13 DEF RunUntilStop, RunStop, RunFailure, RunAlive, RunChild,
          Return, Goto, NoStrayChild, OwnedFollowsPc, WaitTunnel,
          SpawnForwards, Forward, TypeOK
  <2>5. PartsFollowPc'
    BY <1>13 DEF RunUntilStop, RunStop, RunFailure, RunAlive, RunChild,
          Return, Goto, PartsFollowPc, StatusFollowsPc, OwnedFollowsPc, Full,
          Starting, Running, Stopping, WaitTunnel, SpawnForwards, WaitStatus,
          Connect
  <2> QED
    BY <2>1, <2>2, <2>3, <2>4, <2>5
<1>14. CASE ShutdownStatus
  <2>1. TypeOK'
    BY <1>14, OutcomeValues DEF ShutdownStatus, TypeOK, ErrorCode, ExitReason
  <2>2. StatusFollowsPc'
    BY <1>14 DEF ShutdownStatus, StatusFollowsPc, NoOutcome, Starting,
          Running, Stopping, WaitTunnel, SpawnForwards, WaitStatus, Connect
  <2>3. OwnedFollowsPc'
    BY <1>14 DEF ShutdownStatus, OwnedFollowsPc, WaitTunnel, SpawnForwards,
          WaitStatus, Connect, Running, Full
  <2>4. NoStrayChild'
    BY <1>14 DEF ShutdownStatus, NoStrayChild, OwnedFollowsPc, WaitTunnel,
          SpawnForwards, Forward, TypeOK
  <2>5. PartsFollowPc'
    BY <1>14 DEF ShutdownStatus, PartsFollowPc, StatusFollowsPc,
          OwnedFollowsPc, Full, Starting, Running, Stopping, WaitTunnel,
          SpawnForwards, WaitStatus, Connect
  <2> QED
    BY <2>1, <2>2, <2>3, <2>4, <2>5
<1>15. CASE ShutdownProxy
  <2>1. TypeOK'
    BY <1>15, OutcomeValues DEF ShutdownProxy, TypeOK, ErrorCode, ExitReason
  <2>2. StatusFollowsPc'
    BY <1>15 DEF ShutdownProxy, StatusFollowsPc, NoOutcome, Starting, Running,
          Stopping, WaitTunnel, SpawnForwards, WaitStatus, Connect
  <2>3. OwnedFollowsPc'
    BY <1>15 DEF ShutdownProxy, OwnedFollowsPc, WaitTunnel, SpawnForwards,
          WaitStatus, Connect, Running, Full
  <2>4. NoStrayChild'
    BY <1>15 DEF ShutdownProxy, NoStrayChild, OwnedFollowsPc, WaitTunnel,
          SpawnForwards, Forward, TypeOK
  <2>5. PartsFollowPc'
    BY <1>15 DEF ShutdownProxy, PartsFollowPc, StatusFollowsPc,
          OwnedFollowsPc, Full, Starting, Running, Stopping, WaitTunnel,
          SpawnForwards, WaitStatus, Connect
  <2> QED
    BY <2>1, <2>2, <2>3, <2>4, <2>5
<1>16. CASE ShutdownClient
  <2>1. TypeOK'
    <3>1. wda' \in {"none", "open", "configured", "deleted"} /\ client' \in BOOLEAN
      BY <1>16 DEF ShutdownClient, TypeOK
    <3>2. /\ pc' = "sd_ladder"
          /\ UNCHANGED <<mode, status, outcome, child, owned, attempts, polls, proxy,
                         done, pumpVars, stops>>
      BY <1>16 DEF ShutdownClient
    <3>3. TypeOK
      OBVIOUS
    <3> QED BY <3>1, <3>2, <3>3 DEF TypeOK, pumpVars
  <2>2. StatusFollowsPc'
    BY <1>16 DEF ShutdownClient, StatusFollowsPc, NoOutcome, Starting,
          Running, Stopping, WaitTunnel, SpawnForwards, WaitStatus, Connect
  <2>3. OwnedFollowsPc'
    BY <1>16 DEF ShutdownClient, OwnedFollowsPc, WaitTunnel, SpawnForwards,
          WaitStatus, Connect, Running, Full
  <2>4. NoStrayChild'
    BY <1>16 DEF ShutdownClient, NoStrayChild, OwnedFollowsPc, WaitTunnel,
          SpawnForwards, Forward, TypeOK
  <2>5. PartsFollowPc'
    BY <1>16 DEF ShutdownClient, PartsFollowPc, StatusFollowsPc,
          OwnedFollowsPc, Full, Starting, Running, Stopping, WaitTunnel,
          SpawnForwards, WaitStatus, Connect
  <2> QED
    BY <2>1, <2>2, <2>3, <2>4, <2>5
<1>17. CASE ShutdownLadder
  <2>1. TypeOK'
    BY <1>17, OutcomeValues DEF ShutdownLadder, TypeOK, ErrorCode, ExitReason
  <2>2. StatusFollowsPc'
    BY <1>17 DEF ShutdownLadder, StatusFollowsPc, NoOutcome, Starting,
          Running, Stopping, WaitTunnel, SpawnForwards, WaitStatus, Connect
  <2>3. OwnedFollowsPc'
    BY <1>17 DEF ShutdownLadder, OwnedFollowsPc, WaitTunnel, SpawnForwards,
          WaitStatus, Connect, Running, Full
  <2>4. NoStrayChild'
    BY <1>17 DEF ShutdownLadder, NoStrayChild, OwnedFollowsPc, WaitTunnel,
          SpawnForwards, Forward, TypeOK
  <2>5. PartsFollowPc'
    BY <1>17 DEF ShutdownLadder, PartsFollowPc, StatusFollowsPc,
          OwnedFollowsPc, Full, Starting, Running, Stopping, WaitTunnel,
          SpawnForwards, WaitStatus, Connect
  <2> QED
    BY <2>1, <2>2, <2>3, <2>4, <2>5
<1>18. CASE ShutdownClear
  <2>1. TypeOK'
    BY <1>18, OutcomeValues DEF ShutdownClear, TypeOK, ErrorCode, ExitReason
  <2>2. StatusFollowsPc'
    BY <1>18 DEF ShutdownClear, StatusFollowsPc, NoOutcome, Starting, Running,
          Stopping, WaitTunnel, SpawnForwards, WaitStatus, Connect
  <2>3. OwnedFollowsPc'
    BY <1>18 DEF ShutdownClear, OwnedFollowsPc, WaitTunnel, SpawnForwards,
          WaitStatus, Connect, Running, Full
  <2>4. NoStrayChild'
    BY <1>18 DEF ShutdownClear, NoStrayChild, OwnedFollowsPc, WaitTunnel,
          SpawnForwards, Forward, TypeOK
  <2>5. PartsFollowPc'
    BY <1>18 DEF ShutdownClear, PartsFollowPc, StatusFollowsPc,
          OwnedFollowsPc, Full, Starting, Running, Stopping, WaitTunnel,
          SpawnForwards, WaitStatus, Connect
  <2> QED
    BY <2>1, <2>2, <2>3, <2>4, <2>5
<1>19. CASE PublishEnd
  <2>1. TypeOK'
    <3>1. outcome.kind \in Ended
      BY <1>19, OutcomeKinds DEF PublishEnd, TypeOK, StatusFollowsPc, Starting,
         Running, WaitTunnel, SpawnForwards, WaitStatus, Connect
    <3> QED
      BY <1>19, <3>1 DEF PublishEnd, TypeOK
  <2>2. StatusFollowsPc'
    BY <1>19 DEF PublishEnd, StatusFollowsPc, NoOutcome, Starting, Running,
          Stopping, WaitTunnel, SpawnForwards, WaitStatus, Connect
  <2>3. OwnedFollowsPc'
    BY <1>19 DEF PublishEnd, OwnedFollowsPc, WaitTunnel, SpawnForwards,
          WaitStatus, Connect, Running, Full
  <2>4. NoStrayChild'
    BY <1>19 DEF PublishEnd, NoStrayChild, OwnedFollowsPc, WaitTunnel,
          SpawnForwards, Forward, TypeOK
  <2>5. PartsFollowPc'
    BY <1>19 DEF PublishEnd, PartsFollowPc, StatusFollowsPc, OwnedFollowsPc,
          Full, Starting, Running, Stopping, WaitTunnel, SpawnForwards,
          WaitStatus, Connect
  <2> QED
    BY <2>1, <2>2, <2>3, <2>4, <2>5
<1>20. CASE SendDone
  <2>1. TypeOK'
    BY <1>20, OutcomeValues DEF SendDone, TypeOK, ErrorCode, ExitReason
  <2>2. StatusFollowsPc'
    BY <1>20 DEF SendDone, StatusFollowsPc, NoOutcome, Starting, Running,
          Stopping, WaitTunnel, SpawnForwards, WaitStatus, Connect
  <2>3. OwnedFollowsPc'
    BY <1>20 DEF SendDone, OwnedFollowsPc, WaitTunnel, SpawnForwards,
          WaitStatus, Connect, Running, Full
  <2>4. NoStrayChild'
    BY <1>20 DEF SendDone, NoStrayChild, OwnedFollowsPc, WaitTunnel,
          SpawnForwards, Forward, TypeOK
  <2>5. PartsFollowPc'
    BY <1>20 DEF SendDone, PartsFollowPc, StatusFollowsPc, OwnedFollowsPc,
          Full, Starting, Running, Stopping, WaitTunnel, SpawnForwards,
          WaitStatus, Connect
  <2> QED
    BY <2>1, <2>2, <2>3, <2>4, <2>5
<1>21. CASE \E k \in ChildKind : ChildDies(k)
  <2>1. TypeOK'
    BY <1>21, OutcomeValues DEF ChildDies, TypeOK, ErrorCode, ExitReason
  <2>2. StatusFollowsPc'
    BY <1>21 DEF ChildDies, StatusFollowsPc, NoOutcome, Starting, Running,
          Stopping, WaitTunnel, SpawnForwards, WaitStatus, Connect
  <2>3. OwnedFollowsPc'
    BY <1>21 DEF ChildDies, OwnedFollowsPc, WaitTunnel, SpawnForwards,
          WaitStatus, Connect, Running, Full
  <2>4. NoStrayChild'
    BY <1>21 DEF ChildDies, NoStrayChild, OwnedFollowsPc, WaitTunnel,
          SpawnForwards, Forward, TypeOK
  <2>5. PartsFollowPc'
    BY <1>21 DEF ChildDies, PartsFollowPc, StatusFollowsPc, OwnedFollowsPc,
          Full, Starting, Running, Stopping, WaitTunnel, SpawnForwards,
          WaitStatus, Connect
  <2> QED
    BY <2>1, <2>2, <2>3, <2>4, <2>5
<1>22. CASE Pump
  <2>1. TypeOK'
    <3>1. CASE UpstreamEof BY <3>1 DEF UpstreamEof, TypeOK
    <3>2. CASE UpstreamFails BY <3>2 DEF UpstreamFails, TypeOK
    <3>3. CASE PumpStops BY <3>3 DEF PumpStops, TypeOK
    <3> QED BY <1>22, <3>1, <3>2, <3>3 DEF Pump
  <2>2. StatusFollowsPc'
    BY <1>22 DEF Pump, UpstreamEof, UpstreamFails, PumpStops, StatusFollowsPc,
          NoOutcome, Starting, Running, Stopping, WaitTunnel, SpawnForwards,
          WaitStatus, Connect
  <2>3. OwnedFollowsPc'
    BY <1>22 DEF Pump, UpstreamEof, UpstreamFails, PumpStops, OwnedFollowsPc,
          WaitTunnel, SpawnForwards, WaitStatus, Connect, Running, Full
  <2>4. NoStrayChild'
    BY <1>22 DEF Pump, UpstreamEof, UpstreamFails, PumpStops, NoStrayChild,
          OwnedFollowsPc, WaitTunnel, SpawnForwards, Forward, TypeOK
  <2>5. PartsFollowPc'
    BY <1>22 DEF Pump, UpstreamEof, UpstreamFails, PumpStops, PartsFollowPc,
          StatusFollowsPc, OwnedFollowsPc, Full, Starting, Running, Stopping,
          WaitTunnel, SpawnForwards, WaitStatus, Connect
  <2> QED
    BY <2>1, <2>2, <2>3, <2>4, <2>5
<1>23. CASE RequestStop
  <2>1. TypeOK'
    BY <1>23, OutcomeValues DEF RequestStop, TypeOK, ErrorCode, ExitReason
  <2>2. StatusFollowsPc'
    BY <1>23 DEF RequestStop, StatusFollowsPc, NoOutcome, Starting, Running,
          Stopping, WaitTunnel, SpawnForwards, WaitStatus, Connect
  <2>3. OwnedFollowsPc'
    BY <1>23 DEF RequestStop, OwnedFollowsPc, WaitTunnel, SpawnForwards,
          WaitStatus, Connect, Running, Full
  <2>4. NoStrayChild'
    BY <1>23 DEF RequestStop, NoStrayChild, OwnedFollowsPc, WaitTunnel,
          SpawnForwards, Forward, TypeOK
  <2>5. PartsFollowPc'
    BY <1>23 DEF RequestStop, PartsFollowPc, StatusFollowsPc, OwnedFollowsPc,
          Full, Starting, Running, Stopping, WaitTunnel, SpawnForwards,
          WaitStatus, Connect
  <2> QED
    BY <2>1, <2>2, <2>3, <2>4, <2>5
<1>24. CASE Finished \/ UNCHANGED vars
  <2>1. TypeOK'
    BY <1>24, OutcomeValues DEF Finished, vars, TypeOK, ErrorCode, ExitReason
  <2>2. StatusFollowsPc'
    BY <1>24 DEF Finished, vars, StatusFollowsPc, NoOutcome, Starting,
          Running, Stopping, WaitTunnel, SpawnForwards, WaitStatus, Connect
  <2>3. OwnedFollowsPc'
    BY <1>24 DEF Finished, vars, OwnedFollowsPc, WaitTunnel, SpawnForwards,
          WaitStatus, Connect, Running, Full
  <2>4. NoStrayChild'
    BY <1>24 DEF Finished, vars, NoStrayChild, OwnedFollowsPc, WaitTunnel,
          SpawnForwards, Forward, TypeOK
  <2>5. PartsFollowPc'
    BY <1>24 DEF Finished, vars, PartsFollowPc, StatusFollowsPc,
          OwnedFollowsPc, Full, Starting, Running, Stopping, WaitTunnel,
          SpawnForwards, WaitStatus, Connect
  <2> QED
    BY <2>1, <2>2, <2>3, <2>4, <2>5
<1> QED
  BY <1>1, <1>2, <1>3, <1>4, <1>5, <1>6, <1>7, <1>8, <1>9, <1>10, <1>11,
        <1>12, <1>13, <1>14, <1>15, <1>16, <1>17, <1>18, <1>19, <1>20, <1>21,
        <1>22, <1>23, <1>24 DEF Next, Supervisor, Shutdown

(* Where the supervisor stands always tells what it holds: the inductive   *)
(* invariant of session.rs's start and exit sequences.                     *)
THEOREM SupervisorInvariant == Spec => []SupervisorInv
BY InitInv, StepInv, PTL DEF Spec

(* A session with a final status holds no process, proxy or client.        *)
THEOREM NothingLeftBehindHolds == Spec => []NothingLeftBehind
<1>1. SupervisorInv => NothingLeftBehind
  <2> SUFFICES ASSUME SupervisorInv, status \in Ended
               PROVE  owned = {} /\ ~proxy /\ ~client
                      /\ \A k \in ChildKind : child[k] \notin {"live", "dead"}
    BY DEF NothingLeftBehind
  <2>1. pc \in {"send_done", "done"}
    BY DEF SupervisorInv, TypeOK, StatusFollowsPc, Ended, Starting, Running,
           Stopping, WaitTunnel, SpawnForwards, WaitStatus, Connect
  <2> QED
    BY <2>1 DEF SupervisorInv, OwnedFollowsPc, NoStrayChild, PartsFollowPc,
                Running
<1> QED
  BY <1>1, SupervisorInvariant, PTL

(* Running is only shown for a session whose parts are all in place.       *)
THEOREM RunningIsCompleteHolds == Spec => []RunningIsComplete
<1>1. SupervisorInv => RunningIsComplete
  <2> SUFFICES ASSUME SupervisorInv, status = "running"
               PROVE  proxy /\ client /\ wda = "configured" /\ owned = Full
    BY DEF RunningIsComplete, Full
  <2>1. outcome.kind = "none" \/ outcome.kind \in Ended
    BY OutcomeKinds DEF SupervisorInv, TypeOK
  <2>2. pc \in Running \cup {"sd_status"}
    BY <2>1 DEF SupervisorInv, TypeOK, StatusFollowsPc, Ended, Starting, Running,
           Stopping, WaitTunnel, SpawnForwards, WaitStatus, Connect
  <2> QED
    BY <2>2 DEF SupervisorInv, OwnedFollowsPc, PartsFollowPc
<1> QED
  BY <1>1, SupervisorInvariant, PTL

(* Only the ladder reaps a child of the supervisor.                        *)
LEMMA OnlyLadderReaps ==
  ASSUME SupervisorInv, Next,
         NEW k \in owned, child[k] # "reaped", child'[k] = "reaped"
  PROVE  pc = "sd_ladder"
<1> USE DEF SupervisorInv
<1>0. child \in [ChildKind -> {"absent", "live", "dead", "reaped"}]
      /\ owned \subseteq ChildKind
  BY DEF TypeOK
<1>1. child' # child
  OBVIOUS
<1>2. CASE \E j \in ChildKind : ChildDies(j)
  BY <1>0, <1>2 DEF ChildDies
<1>3. CASE Pump
  BY <1>1, <1>3 DEF Pump, UpstreamEof, UpstreamFails, PumpStops, supVars
<1>4. CASE RequestStop
  BY <1>1, <1>4 DEF RequestStop, supVars
<1>5. CASE Finished
  BY <1>1, <1>5 DEF Finished, vars, supVars
<1>6. CASE Supervisor
  <2>1. CASE SpawnTunnel \/ SpawnRunWda
    BY <1>0, <1>1, <2>1 DEF SpawnTunnel, SpawnRunWda, SpawnOwned, Return
  <2>2. CASE ForwardSpawn
    BY <1>0, <1>1, <2>2 DEF ForwardSpawn, Return, Forward
  <2>3. CASE ForwardSettle
    BY <1>0, <1>1, <2>3 DEF ForwardSettle, Forward
  <2>4. CASE Preflight
    BY <1>1, <2>4 DEF Preflight
  <2>5. CASE AwaitTunnel
    BY <1>1, <2>5 DEF AwaitTunnel, AwaitStop, AwaitChild, AwaitPoll, Return, Goto
  <2>6. CASE AwaitStatus
    BY <1>1, <2>6 DEF AwaitStatus, AwaitStop, AwaitChild, AwaitPoll, Return, Goto
  <2>7. CASE CreateSession \/ ConfigureMjpeg \/ ProxyStart
    BY <1>1, <2>7 DEF CreateSession, ConfigureMjpeg, ProxyStart, Return
  <2>8. CASE PublishClient \/ PublishRunning \/ PublishEnd \/ SendDone
    BY <1>1, <2>8 DEF PublishClient, PublishRunning, PublishEnd, SendDone
  <2>9. CASE RunUntilStop
    BY <1>1, <2>9 DEF RunUntilStop, RunStop, RunFailure, RunAlive, RunChild,
                      Return, Goto
  <2>10. CASE Shutdown
    BY <1>1, <2>10 DEF Shutdown, ShutdownStatus, ShutdownProxy, ShutdownClient,
                       ShutdownLadder, ShutdownClear
  <2> QED
    BY <1>6, <2>1, <2>2, <2>3, <2>4, <2>5, <2>6, <2>7, <2>8, <2>9, <2>10
       DEF Supervisor
<1> QED
  BY <1>2, <1>3, <1>4, <1>5, <1>6 DEF Next

(* Children are signalled only after the proxy and the client are gone.    *)
THEOREM OrderlyExitHolds == Spec => OrderlyExit
<1>1. SupervisorInv /\ [Next]_vars =>
        [(\E k \in owned : child[k] # "reaped" /\ child'[k] = "reaped")
           => ~proxy /\ ~client /\ status = "stopping"]_vars
  <2> SUFFICES ASSUME SupervisorInv, Next,
                      NEW k \in owned, child[k] # "reaped", child'[k] = "reaped"
               PROVE  ~proxy /\ ~client /\ status = "stopping"
    OBVIOUS
  <2>1. pc = "sd_ladder"
    BY OnlyLadderReaps
  <2> QED
    BY <2>1 DEF SupervisorInv, PartsFollowPc, StatusFollowsPc, Running, Stopping
<1> QED
  BY <1>1, SupervisorInvariant, PTL DEF Spec, OrderlyExit

-----------------------------------------------------------------------------
(* Refinement: what each step does to the resources the abstract session   *)
(* holds.                                                                  *)
LEMMA HeldSame ==
  ASSUME UNCHANGED <<child, proxy, client>>
  PROVE  Held' = Held
BY DEF Held

(* A child that appears, vanishes or is reaped.                            *)
LEMMA HeldChild ==
  ASSUME SupervisorInv, NEW k \in ChildKind, NEW s,
         child' = [child EXCEPT ![k] = s], UNCHANGED <<proxy, client>>
  PROVE  /\ s = "live" => Held' = Held \cup {k}
         /\ s = "absent" => Held' = Held \ {k}
         /\ s = "dead" /\ child[k] = "live" => Held' = Held
<1>1. \A j \in ChildKind : child'[j] = IF j = k THEN s ELSE child[j]
  BY DEF SupervisorInv, TypeOK
<1>2. k # "proxy" /\ k # "client"
  BY DEF ChildKind
<1> QED
  BY <1>1, <1>2 DEF Held

LEMMA HeldIsKnown == Held \subseteq ChildKind \cup {"proxy", "client"}
BY DEF Held

(* A step that leaves what the abstract session shows.                     *)
LEMMA LifecycleStutters ==
  ASSUME UNCHANGED <<status, done, child, proxy, client>>
  PROVE  UNCHANGED Lifecycle!vars
BY HeldSame DEF Lifecycle!vars

(* Every step of the supervisor is a step of the lifecycle or a stutter.   *)
LEMMA LifecycleStep ==
  ASSUME SupervisorInv, [Next]_vars
  PROVE  [Lifecycle!Next]_(Lifecycle!vars)
<1> USE DEF SupervisorInv
<1>1. CASE SpawnTunnel \/ SpawnRunWda
  <2>1. status = "starting"
    BY <1>1 DEF SpawnTunnel, SpawnRunWda, SpawnOwned, StatusFollowsPc, Starting, WaitTunnel
  <2>2. CASE UNCHANGED child
    BY <1>1, <2>2, LifecycleStutters DEF SpawnTunnel, SpawnRunWda, SpawnOwned, Return
  <2>3. CASE child' # child
    <3>1. PICK k \in ChildKind : /\ child' = [child EXCEPT ![k] = "live"]
                                 /\ UNCHANGED <<status, done, proxy, client>>
      BY <1>1, <2>3 DEF SpawnTunnel, SpawnRunWda, SpawnOwned, Return, ChildKind
    <3>2. Held' = Held \cup {k}
      BY <3>1, HeldChild
    <3> QED
      BY <2>1, <3>1, <3>2 DEF Lifecycle!Next, Lifecycle!Take
  <2> QED
    BY <2>2, <2>3
<1>2. CASE ForwardSpawn \/ ForwardSettle
  <2>1. status = "starting" /\ Forward \in ChildKind
    BY <1>2 DEF ForwardSpawn, ForwardSettle, StatusFollowsPc, Starting, SpawnForwards,
                Forward, ChildKind
  <2>2. UNCHANGED <<status, done, proxy, client>>
    BY <1>2 DEF ForwardSpawn, ForwardSettle, Return
  <2>3. CASE UNCHANGED child
    BY <2>2, <2>3, LifecycleStutters
  <2>4. CASE child' # child
    <3>1. \E s \in {"live", "absent"} : child' = [child EXCEPT ![Forward] = s]
      BY <1>2, <2>4 DEF ForwardSpawn, ForwardSettle, Return
    <3>2. Held' \in {Held \cup {Forward}, Held \ {Forward}}
      BY <2>1, <2>2, <3>1, HeldChild
    <3> QED
      BY <2>1, <2>2, <3>2 DEF Lifecycle!Next, Lifecycle!Take
  <2> QED
    BY <2>3, <2>4
<1>3. CASE ProxyStart
  <2>1. status = "starting"
    BY <1>3 DEF ProxyStart, StatusFollowsPc, Starting, Connect
  <2>2. UNCHANGED <<status, done, child, client>> /\ (proxy' = TRUE \/ proxy' = proxy)
    BY <1>3 DEF ProxyStart, Return
  <2>3. CASE proxy' = TRUE
    <3>1. Held' = Held \cup {"proxy"}
      BY <2>2, <2>3 DEF Held
    <3> QED
      BY <2>1, <2>2, <3>1 DEF Lifecycle!Next, Lifecycle!Take
  <2>4. CASE proxy' = proxy
    BY <2>2, <2>4, LifecycleStutters
  <2> QED
    BY <2>2, <2>3, <2>4
<1>4. CASE PublishClient
  <2>1. status = "starting" /\ UNCHANGED <<status, done>>
    BY <1>4 DEF PublishClient, StatusFollowsPc, Starting, Connect
  <2>2. Held' = Held \cup {"client"}
    BY <1>4 DEF PublishClient, Held
  <2> QED
    BY <2>1, <2>2 DEF Lifecycle!Next, Lifecycle!Take
<1>5. CASE PublishRunning
  <2>1. status = "starting" /\ status' = "running" /\ UNCHANGED done
    BY <1>5 DEF PublishRunning, StatusFollowsPc, Starting, Connect
  <2>2. {"proxy", "client"} \subseteq Held
    BY <1>5 DEF PublishRunning, PartsFollowPc, Held
  <2>3. Held' = Held
    BY <1>5, HeldSame DEF PublishRunning
  <2> QED
    BY <2>1, <2>2, <2>3 DEF Lifecycle!Next, Lifecycle!Announce
<1>6. CASE ShutdownStatus
  <2>1. status \in {"starting", "running"} /\ status' = "stopping" /\ UNCHANGED done
    BY <1>6 DEF ShutdownStatus, StatusFollowsPc
  <2>2. Held' = Held
    BY <1>6, HeldSame DEF ShutdownStatus
  <2> QED
    BY <2>1, <2>2 DEF Lifecycle!Next, Lifecycle!BeginStop
<1>7. CASE ShutdownProxy \/ ShutdownClient \/ ShutdownLadder
  <2>1. status = "stopping" /\ UNCHANGED <<status, done>>
    BY <1>7 DEF ShutdownProxy, ShutdownClient, ShutdownLadder, StatusFollowsPc, Stopping
  <2>2. Held' \subseteq Held
    <3>1. CASE ShutdownProxy
      BY <3>1 DEF ShutdownProxy, Held
    <3>2. CASE ShutdownClient
      BY <3>2 DEF ShutdownClient, Held
    <3>3. CASE ShutdownLadder
      BY <3>3 DEF ShutdownLadder, Held
    <3> QED
      BY <1>7, <3>1, <3>2, <3>3
  <2>3. Held' = Held \ (Held \ Held')
    BY <2>2
  <2>4. (Held \ Held') \in SUBSET (ChildKind \cup {"proxy", "client"})
    BY HeldIsKnown
  <2>5. \E R \in SUBSET (ChildKind \cup {"proxy", "client"}) : Held' = Held \ R
    BY <2>3, <2>4
  <2> QED
    BY <2>1, <2>5 DEF Lifecycle!Next, Lifecycle!GiveBack
<1>8. CASE PublishEnd
  <2>1. status = "stopping" /\ status' = outcome.kind /\ UNCHANGED done
    BY <1>8 DEF PublishEnd, StatusFollowsPc, Stopping
  <2>2. outcome.kind \in {"exited", "failed"}
    BY <1>8, OutcomeKinds DEF PublishEnd, StatusFollowsPc, TypeOK, Ended, Starting,
       Running, WaitTunnel, SpawnForwards, WaitStatus, Connect
  <2>3. Held = {} /\ Held' = Held
    BY <1>8, HeldSame DEF PublishEnd, NoStrayChild, PartsFollowPc, Running, Held, TypeOK
  <2> QED
    BY <2>1, <2>2, <2>3 DEF Lifecycle!Next, Lifecycle!Finish, Lifecycle!Terminal
<1>9. CASE SendDone
  <2>1. status \in {"exited", "failed"} /\ done' = TRUE /\ UNCHANGED status
    BY <1>9, OutcomeKinds DEF SendDone, StatusFollowsPc, TypeOK, Ended, Starting,
       Running, WaitTunnel, SpawnForwards, WaitStatus, Connect
  <2>2. Held' = Held
    BY <1>9, HeldSame DEF SendDone
  <2> QED
    BY <2>1, <2>2 DEF Lifecycle!Next, Lifecycle!Report, Lifecycle!Terminal
<1>10. CASE \E k \in ChildKind : ChildDies(k)
  <2> PICK k \in ChildKind : ChildDies(k)
    BY <1>10
  <2>1. Held' = Held
    BY HeldChild DEF ChildDies
  <2> QED
    BY <2>1 DEF ChildDies, Lifecycle!vars
<1>11. CASE Preflight \/ AwaitTunnel \/ AwaitStatus \/ CreateSession \/ ConfigureMjpeg
  BY <1>11, LifecycleStutters DEF Preflight, AwaitTunnel, AwaitStatus, AwaitStop,
     AwaitChild, AwaitPoll, CreateSession, ConfigureMjpeg, Return, Goto
<1>12. CASE RunUntilStop \/ ShutdownClear
  BY <1>12, LifecycleStutters DEF RunUntilStop, RunStop, RunFailure, RunAlive, RunChild,
     ShutdownClear, Return, Goto
<1>13. CASE Pump \/ RequestStop \/ Finished \/ UNCHANGED vars
  BY <1>13, LifecycleStutters DEF Pump, UpstreamEof, UpstreamFails, PumpStops,
     RequestStop, Finished, vars, supVars
<1> QED
  BY <1>1, <1>2, <1>3, <1>4, <1>5, <1>6, <1>7, <1>8, <1>9, <1>10, <1>11, <1>12, <1>13
     DEF Next, Supervisor, Shutdown

(* The supervisor implements the lifecycle its handle promises: statuses   *)
(* only move forward, Running comes with proxy and client, a final status  *)
(* and the completion message come after everything was given back         *)
(* (supervise, start_session and shutdown against the documentation of     *)
(* IosSessionStatus).                                                      *)
THEOREM ImplementsLifecycleHolds == Spec => ImplementsLifecycle
<1>1. Init => Lifecycle!Init
  BY DEF Init, Lifecycle!Init, Held
<1>2. SupervisorInv /\ [Next]_vars => [Lifecycle!Next]_(Lifecycle!vars)
  BY LifecycleStep
<1> QED
  BY <1>1, <1>2, SupervisorInvariant, PTL DEF Spec, ImplementsLifecycle, Lifecycle!Spec

-----------------------------------------------------------------------------
(* first_child_failure finds a dead child if there is one.                 *)
LEMMA FirstDeadIsDead ==
  ASSUME SupervisorInv, DeadOwned # {}
  PROVE  FirstDead \in ChildKind /\ FirstDead \in DeadOwned /\ child[FirstDead] = "dead"
<1>1. DeadOwned \subseteq ChildKind
  BY DEF DeadOwned, SupervisorInv, TypeOK
<1>2. \E k \in DeadOwned : \A j \in DeadOwned : Rank[k] <= Rank[j]
  <2>1. /\ Rank["tunnel"] = 1 /\ Rank["runwda"] = 2
        /\ Rank["fwd_http"] = 3 /\ Rank["fwd_mjpeg"] = 4
    BY DEF Rank
  <2>2. CASE "tunnel" \in DeadOwned
    BY <1>1, <2>1, <2>2 DEF ChildKind
  <2>3. CASE "tunnel" \notin DeadOwned /\ "runwda" \in DeadOwned
    BY <1>1, <2>1, <2>3 DEF ChildKind
  <2>4. CASE "tunnel" \notin DeadOwned /\ "runwda" \notin DeadOwned /\ "fwd_http" \in DeadOwned
    BY <1>1, <2>1, <2>4 DEF ChildKind
  <2>5. CASE DeadOwned = {"fwd_mjpeg"}
    BY <2>1, <2>5
  <2> QED
    BY <1>1, <2>2, <2>3, <2>4, <2>5 DEF ChildKind
<1>3. FirstDead \in DeadOwned
  BY <1>2 DEF FirstDead
<1> QED
  BY <1>1, <1>3 DEF DeadOwned

(* The error a session ends with points at the part that failed, at the    *)
(* moment it is decided, whoever else was being waited for                 *)
(* (first_child_failure, classify_child_failure and spawn_child's wrap).   *)
THEOREM BlameIsRightHolds == Spec => BlameIsRight
<1> DEFINE
  Blame(why) ==
    CASE why = "tunnel_failed" ->
           pc \in {"spawn_tunnel", "tunnel_poll"} \/ child["tunnel"] = "dead"
      [] why = "forward_failed" ->
           \/ pc \in {"fwd_spawn", "fwd_settle"}
           \/ "dead" \in {child["fwd_http"], child["fwd_mjpeg"]}
      [] why = "wda_unreachable" ->
           pc \in {"spawn_runwda", "status_poll"} \/ child["runwda"] = "dead"
      [] why \in {"wda_not_installed", "wda_signature_expired"} ->
           child["runwda"] = "dead"
      [] why = "child_exited" -> DeadOwned # {}
      [] why = "requested"    -> stops > 0
      [] OTHER -> TRUE
<1>1. SupervisorInv /\ [Next]_vars => [outcome' # outcome => Blame(outcome'.why)]_vars
  <2> SUFFICES ASSUME SupervisorInv, Next, outcome' # outcome
               PROVE  Blame(outcome'.why)
    BY DEF vars
  <2>1. CASE SpawnTunnel \/ SpawnRunWda
    BY <2>1 DEF SpawnTunnel, SpawnRunWda, SpawnOwned, SpawnErrors, Return
  <2>2. CASE ForwardSpawn
    <3>1. Forward \notin {"tunnel", "runwda"}
      BY DEF Forward
    <3> QED
      BY <2>2, <3>1 DEF ForwardSpawn, SpawnErrors, Return
  <2>3. CASE ForwardSettle
    <3>1. Forward \notin {"tunnel", "runwda"}
      BY DEF Forward
    <3> QED
      BY <2>3, <3>1 DEF ForwardSettle, Classify
  <2>4. CASE AwaitStop("tunnel_stop", "tunnel_child") \/ AwaitStop("status_stop", "status_child")
             \/ RunStop
    BY <2>4 DEF AwaitStop, RunStop, Return, Goto
  <2>5. CASE \/ AwaitChild("tunnel_child", "tunnel_poll")
             \/ AwaitChild("status_child", "status_poll")
    <3>1. DeadOwned # {} /\ \E code \in Classify(FirstDead) : outcome'.why = code
      BY <2>5 DEF AwaitChild, Return, Goto
    <3>2. FirstDead \in ChildKind /\ child[FirstDead] = "dead"
      BY <3>1, FirstDeadIsDead
    <3> HIDE DEF Blame
    <3>3. CASE FirstDead = "tunnel"
      BY <3>1, <3>2, <3>3 DEF Classify, Blame
    <3>4. CASE FirstDead = "runwda"
      BY <3>1, <3>2, <3>4 DEF Classify, Blame
    <3>5. CASE FirstDead \in {"fwd_http", "fwd_mjpeg"}
      BY <3>1, <3>2, <3>5 DEF Classify, Blame
    <3> QED
      BY <3>2, <3>3, <3>4, <3>5 DEF ChildKind
  <2>6. CASE \/ AwaitPoll("tunnel_poll", "tunnel_stop", "spawn_runwda", "tunnel_failed")
             \/ AwaitPoll("status_poll", "status_stop", "create", "wda_unreachable")
    BY <2>6 DEF AwaitPoll, Return, Goto
  <2>7. CASE CreateSession \/ ConfigureMjpeg \/ ProxyStart
    BY <2>7 DEF CreateSession, ConfigureMjpeg, ProxyStart, Return
  <2>8. CASE RunFailure \/ RunAlive \/ RunChild
    BY <2>8 DEF RunFailure, RunAlive, RunChild, Return, Goto
  <2>9. CASE Preflight \/ PublishClient \/ PublishRunning \/ Shutdown \/ PublishEnd \/ SendDone
    BY <2>9 DEF Preflight, PublishClient, PublishRunning, Shutdown, ShutdownStatus,
       ShutdownProxy, ShutdownClient, ShutdownLadder, ShutdownClear, PublishEnd, SendDone
  <2>10. CASE (\E k \in ChildKind : ChildDies(k)) \/ Pump \/ RequestStop \/ Finished
    BY <2>10 DEF ChildDies, Pump, UpstreamEof, UpstreamFails, PumpStops, RequestStop,
       Finished, vars, supVars
  <2> HIDE DEF Blame
  <2> QED
    BY <2>1, <2>2, <2>3, <2>4, <2>5, <2>6, <2>7, <2>8, <2>9, <2>10
       DEF Next, Supervisor, AwaitTunnel, AwaitStatus, RunUntilStop
<1> QED
  BY <1>1, SupervisorInvariant, PTL DEF Spec, BlameIsRight
=============================================================================
