------------------------ MODULE TerminateLadderProofs ------------------------
(***************************************************************************)
(* Proofs about the termination ladder of TerminateLadder, for every       *)
(* number of children and every budget of its two waits.                   *)
(***************************************************************************)
EXTENDS TerminateLadder, TLAPS

(* Nothing has been signalled yet, nothing waited.                         *)
LEMMA InitInv == Init => LadderInv
<1> SUFFICES ASSUME Init PROVE LadderInv
  OBVIOUS
<1> USE LadderAssumption
<1>1. TypeOK
  <2>1. /\ pc = "int" /\ polls \in Nat /\ waited \in Nat
        /\ leader \in [Child -> {"live", "dead", "reaped"}]
        /\ helper \in [Child -> {"live", "none"}] /\ escalated \in BOOLEAN
    BY DEF Init
  <2>2. sent \in [Child -> SUBSET Signal]
    BY DEF Init, Signal
  <2>3. ignores \in [Child -> SUBSET {"int", "term"}]
    BY DEF Init
  <2> QED
    BY <2>1, <2>2, <2>3 DEF TypeOK
<1>2. SentFollowsPc /\ PollsAreBounded /\ ReturnsWithAllReaped
  BY DEF Init, SentFollowsPc, PollsAreBounded, ReturnsWithAllReaped
<1>3. BudgetIsShared
  BY DEF Init, BudgetIsShared
<1>4. GentleFirst
  BY DEF Init, GentleFirst
<1> QED
  BY <1>1, <1>2, <1>3, <1>4 DEF LadderInv

(* What a scan of wait_all_for finds it reaps, so a scan that finds all    *)
(* children done leaves none.                                              *)
LEMMA ScanReaps ==
  ASSUME NEW at, NEW next, TypeOK, Poll(at, next)
  PROVE  /\ leader' \in [Child -> {"live", "dead", "reaped"}]
         /\ Reapable = Child => \A c \in Child : leader'[c] = "reaped"
BY DEF TypeOK, Poll

(* A rung that signals: from pc = at to pc = to.                           *)
LEMMA SignalTypes ==
  ASSUME TypeOK, NEW s \in Signal, SignalGroups(s)
  PROVE  /\ sent' \in [Child -> SUBSET Signal]
         /\ \A c \in Child : sent'[c] = sent[c] \cup {s}
         /\ UNCHANGED <<leader, helper, ignores, escalated, waited>>
BY DEF TypeOK, SignalGroups, processVars

(* Every step keeps the invariant.                                         *)
LEMMA StepInv == LadderInv /\ [Next]_vars => LadderInv'
<1> SUFFICES ASSUME LadderInv, [Next]_vars PROVE LadderInv'
  OBVIOUS
<1> USE LadderAssumption DEF LadderInv
<1>1. CASE Interrupt
  <2>1. CASE escalated
    BY <1>1, <2>1 DEF Interrupt, TypeOK, SentFollowsPc, PollsAreBounded,
       ReturnsWithAllReaped, BudgetIsShared, GentleFirst, Rung, processVars
  <2>2. CASE ~escalated
    <3>1. /\ pc = "int" /\ pc' = "poll_int" /\ polls' = IntPolls
          /\ SignalGroups("int")
      BY <1>1, <2>2 DEF Interrupt
    <3>2. /\ sent' \in [Child -> SUBSET Signal]
          /\ \A c \in Child : sent'[c] = sent[c] \cup {"int"}
          /\ UNCHANGED <<leader, helper, ignores, escalated, waited>>
      BY <3>1, SignalTypes DEF Signal
    <3>3. TypeOK' /\ PollsAreBounded' /\ ReturnsWithAllReaped'
      BY <3>1, <3>2 DEF TypeOK, PollsAreBounded, ReturnsWithAllReaped
    <3>4. SentFollowsPc' /\ GentleFirst'
      BY <3>1, <3>2 DEF SentFollowsPc, GentleFirst
    <3>5. BudgetIsShared'
      BY <3>1, <3>2 DEF TypeOK, BudgetIsShared, Rung
    <3> QED
      BY <3>3, <3>4, <3>5
  <2> QED
    BY <2>1, <2>2
<1>2. CASE Terminate
  <2>1. /\ pc = "term" /\ pc' = "poll_term" /\ polls' = TermPolls
        /\ SignalGroups("term")
    BY <1>2 DEF Terminate
  <2>2. /\ sent' \in [Child -> SUBSET Signal]
        /\ \A c \in Child : sent'[c] = sent[c] \cup {"term"}
        /\ UNCHANGED <<leader, helper, ignores, escalated, waited>>
    BY <2>1, SignalTypes DEF Signal
  <2>3. TypeOK' /\ PollsAreBounded' /\ ReturnsWithAllReaped'
    BY <2>1, <2>2 DEF TypeOK, PollsAreBounded, ReturnsWithAllReaped
  <2>4. SentFollowsPc' /\ GentleFirst'
    BY <2>1, <2>2 DEF SentFollowsPc, GentleFirst
  <2>5. BudgetIsShared'
    BY <2>1, <2>2 DEF TypeOK, BudgetIsShared, Rung
  <2> QED
    BY <2>3, <2>4, <2>5
<1>3. CASE Kill
  <2>1. /\ pc = "kill" /\ pc' = "wait" /\ polls' = polls
        /\ SignalGroups("kill")
    BY <1>3 DEF Kill
  <2>2. /\ sent' \in [Child -> SUBSET Signal]
        /\ \A c \in Child : sent'[c] = sent[c] \cup {"kill"}
        /\ UNCHANGED <<leader, helper, ignores, escalated, waited>>
    BY <2>1, SignalTypes DEF Signal
  <2>3. TypeOK' /\ PollsAreBounded' /\ ReturnsWithAllReaped'
    BY <2>1, <2>2 DEF TypeOK, PollsAreBounded, ReturnsWithAllReaped
  <2>4. SentFollowsPc' /\ GentleFirst'
    BY <2>1, <2>2 DEF SentFollowsPc, GentleFirst
  <2>5. BudgetIsShared'
    BY <2>1, <2>2 DEF TypeOK, BudgetIsShared, Rung
  <2> QED
    BY <2>3, <2>4, <2>5
<1>4. CASE Poll("poll_int", "term")
  <2>1. /\ pc = "poll_int" /\ UNCHANGED <<helper, ignores, sent, escalated>>
        /\ \/ Reapable = Child /\ pc' = "returned" /\ UNCHANGED <<polls, waited>>
           \/ pc' = "term" /\ UNCHANGED <<polls, waited>>
           \/ /\ polls # 0 /\ pc' = pc
              /\ polls' = polls - 1 /\ waited' = waited + 1
    BY <1>4 DEF Poll
  <2>2. /\ leader' \in [Child -> {"live", "dead", "reaped"}]
        /\ Reapable = Child => \A c \in Child : leader'[c] = "reaped"
    BY <1>4, ScanReaps
  <2>3. TypeOK' /\ PollsAreBounded' /\ BudgetIsShared'
    BY <2>1, <2>2 DEF TypeOK, PollsAreBounded, BudgetIsShared, Rung
  <2>4. ReturnsWithAllReaped'
    BY <2>1, <2>2 DEF ReturnsWithAllReaped
  <2>5. SentFollowsPc' /\ GentleFirst'
    BY <2>1 DEF SentFollowsPc, GentleFirst
  <2> QED
    BY <2>3, <2>4, <2>5
<1>5. CASE Poll("poll_term", "kill")
  <2>1. /\ pc = "poll_term" /\ UNCHANGED <<helper, ignores, sent, escalated>>
        /\ \/ Reapable = Child /\ pc' = "returned" /\ UNCHANGED <<polls, waited>>
           \/ pc' = "kill" /\ UNCHANGED <<polls, waited>>
           \/ /\ polls # 0 /\ pc' = pc
              /\ polls' = polls - 1 /\ waited' = waited + 1
    BY <1>5 DEF Poll
  <2>2. /\ leader' \in [Child -> {"live", "dead", "reaped"}]
        /\ Reapable = Child => \A c \in Child : leader'[c] = "reaped"
    BY <1>5, ScanReaps
  <2>3. TypeOK' /\ PollsAreBounded' /\ BudgetIsShared'
    BY <2>1, <2>2 DEF TypeOK, PollsAreBounded, BudgetIsShared, Rung
  <2>4. ReturnsWithAllReaped'
    BY <2>1, <2>2 DEF ReturnsWithAllReaped
  <2>5. SentFollowsPc' /\ GentleFirst'
    BY <2>1 DEF SentFollowsPc, GentleFirst
  <2> QED
    BY <2>3, <2>4, <2>5
<1>6. CASE Wait
  BY <1>6 DEF Wait, TypeOK, SentFollowsPc, PollsAreBounded,
     ReturnsWithAllReaped, BudgetIsShared, GentleFirst, Rung
<1>7. CASE Escalate
  BY <1>7 DEF Escalate, TypeOK, SentFollowsPc, PollsAreBounded,
     ReturnsWithAllReaped, BudgetIsShared, GentleFirst, Rung, ladderVars,
     processVars
<1>8. CASE \E c \in Child : LeaderDies(c)
  BY <1>8 DEF LeaderDies, TypeOK, SentFollowsPc, PollsAreBounded,
     ReturnsWithAllReaped, BudgetIsShared, GentleFirst, Rung, ladderVars
<1>9. CASE \E c \in Child : HelperDies(c)
  BY <1>9 DEF HelperDies, TypeOK, SentFollowsPc, PollsAreBounded,
     ReturnsWithAllReaped, BudgetIsShared, GentleFirst, Rung, ladderVars
<1>10. CASE UNCHANGED vars
  BY <1>10 DEF vars, ladderVars, processVars, TypeOK, SentFollowsPc,
     PollsAreBounded, ReturnsWithAllReaped, BudgetIsShared, GentleFirst, Rung
<1> QED
  BY <1>1, <1>2, <1>3, <1>4, <1>5, <1>6, <1>7, <1>8, <1>9, <1>10
     DEF Next, Ladder, Returned

(* The rung the ladder stands on determines what was sent and how long it  *)
(* can have waited (terminate_all_impl).                                   *)
THEOREM LadderInvariant == Spec => []LadderInv
BY InitInv, StepInv, PTL DEF Spec

(* The ladder returns with every direct child reaped, in whatever order    *)
(* they died and on whichever rung it ended (terminate_all_impl).          *)
THEOREM ReturnsWithAllReapedHolds == Spec => []ReturnsWithAllReaped
<1>1. LadderInv => ReturnsWithAllReaped
  BY DEF LadderInv
<1> QED
  BY <1>1, LadderInvariant, PTL

(* All children share one budget: the waits do not add up over them        *)
(* (wait_all_for).                                                         *)
THEOREM BudgetIsSharedHolds == Spec => []BudgetIsShared
<1>1. LadderInv => BudgetIsShared
  BY DEF LadderInv
<1> QED
  BY <1>1, LadderInvariant, PTL

(* No group is killed without SIGTERM, nor terminated without SIGINT       *)
(* unless the user pressed again (terminate_all_impl).                     *)
THEOREM GentleFirstHolds == Spec => []GentleFirst
<1>1. LadderInv => GentleFirst
  BY DEF LadderInv
<1> QED
  BY <1>1, LadderInvariant, PTL
=============================================================================
