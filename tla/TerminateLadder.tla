---------------------------- MODULE TerminateLadder ----------------------------
(***************************************************************************)
(* The parallel termination ladder                                         *)
(* (crates/quadcontrol-process/src/lib.rs, terminate_all and wait_all_for, *)
(* unix).                                                                  *)
(*                                                                         *)
(* Every child leads a process group that may hold a helper it started.    *)
(* The ladder signals whole groups, SIGINT, SIGTERM, SIGKILL, and after    *)
(* each of the first two polls until every direct child can be reaped or   *)
(* the rung's budget is used up.  Meanwhile processes die, and a user may  *)
(* press Ctrl-C again.                                                     *)
(***************************************************************************)
EXTENDS Naturals, FiniteSets

CONSTANTS
  N,        \* children, in the order of the slice
  IntPolls, \* polls the SIGINT rung's 3 s allow
  TermPolls \* polls the SIGTERM rung's 2 s allow

ASSUME LadderAssumption == N \in Nat /\ IntPolls \in Nat /\ TermPolls \in Nat

Child == 1..N
Signal == {"int", "term", "kill"}

VARIABLES
  pc,        \* "int", "term", "kill": about to signal; "poll_int",
             \* "poll_term": in wait_all_for; "wait", "returned"
  polls,     \* polls left in the current rung
  waited,    \* history: sleeps between polls so far, over all rungs
  leader,    \* per child: "live", "dead" (a zombie) or "reaped"
  helper,    \* per child: its helper is "live" or "none"
  ignores,   \* per child: signals its group ignores; SIGKILL never
  sent,      \* per child: signals its group has received
  escalated  \* what escalated() answers: the user pressed again

ladderVars == <<pc, polls, waited>>
processVars == <<leader, helper>>
vars == <<ladderVars, processVars, ignores, sent, escalated>>

Init ==
  /\ pc = "int" /\ polls = IntPolls /\ waited = 0
  /\ leader \in [Child -> {"live", "dead", "reaped"}]
  /\ helper \in [Child -> {"live", "none"}]
  /\ ignores \in [Child -> {{}, {"int"}, {"int", "term"}}]
  /\ sent = [c \in Child |-> {}]
  /\ escalated = FALSE

(* Seeded fault: groups whose leader is reaped are skipped.                *)
SignalGroupsLive(s) ==
  /\ sent' = [c \in Child |-> IF leader[c] = "reaped" THEN sent[c]
                      ELSE sent[c] \cup {s}]
  /\ UNCHANGED <<processVars, ignores, escalated, waited>>

(* for_each_group: kill(-pgid) for every child, reaped or not.             *)
SignalGroups(s) ==
  /\ sent' = [c \in Child |-> sent[c] \cup {s}]
  /\ UNCHANGED <<processVars, ignores, escalated, waited>>

(* Seeded fault: every child gets a budget of its own.                     *)
InterruptSerial ==
  /\ pc = "int"
  /\ IF escalated
     THEN pc' = "term" /\ UNCHANGED <<polls, waited, processVars, ignores,
                                      sent, escalated>>
     ELSE pc' = "poll_int" /\ polls' = N * IntPolls /\ SignalGroups("int")

(* Seeded fault: an escalation goes straight to SIGKILL.                   *)
InterruptEscalated ==
  /\ pc = "int"
  /\ IF escalated
     THEN pc' = "kill" /\ UNCHANGED <<polls, waited, processVars, ignores,
                                      sent, escalated>>
     ELSE pc' = "poll_int" /\ polls' = IntPolls /\ SignalGroups("int")

Interrupt ==
  /\ pc = "int"
  /\ IF escalated
     THEN pc' = "term" /\ UNCHANGED <<polls, waited, processVars, ignores,
                                      sent, escalated>>
     ELSE pc' = "poll_int" /\ polls' = IntPolls /\ SignalGroups("int")

(* Seeded fault: after an escalation the SIGTERM rung sends nothing.       *)
TerminateQuietly ==
  /\ pc = "term"
  /\ pc' = "poll_term" /\ polls' = TermPolls
  /\ IF escalated
     THEN UNCHANGED <<processVars, ignores, sent, escalated, waited>>
     ELSE SignalGroups("term")

Terminate ==
  /\ pc = "term"
  /\ pc' = "poll_term" /\ polls' = TermPolls
  /\ SignalGroups("term")

(* Seeded fault: the last rung repeats SIGTERM.                            *)
KillAgainGently ==
  /\ pc = "kill"
  /\ pc' = "wait" /\ UNCHANGED polls
  /\ SignalGroups("term")

Kill ==
  /\ pc = "kill"
  /\ pc' = "wait" /\ UNCHANGED polls
  /\ SignalGroups("kill")

(* wait_all_for's scan: try_wait in order, up to the first live child.     *)
Reapable == {c \in Child : \A b \in 1..c : leader[b] # "live"}

(* Seeded fault: the rung ends with the first reaped child.                *)
PollAny(at, next) ==
  /\ pc = at
  /\ leader' = [c \in Child |-> IF c \in Reapable THEN "reaped" ELSE leader[c]]
  /\ \/ Reapable # {} /\ pc' = "returned" /\ UNCHANGED <<polls, waited>>
     \/ /\ Reapable = {}
        /\ IF escalated \/ polls = 0
           THEN pc' = next /\ UNCHANGED <<polls, waited>>
           ELSE polls' = polls - 1 /\ waited' = waited + 1 /\ UNCHANGED pc
  /\ UNCHANGED <<helper, ignores, sent, escalated>>

Poll(at, next) ==
  /\ pc = at
  /\ leader' = [c \in Child |-> IF c \in Reapable THEN "reaped" ELSE leader[c]]
  /\ \/ Reapable = Child /\ pc' = "returned" /\ UNCHANGED <<polls, waited>>
     \/ /\ Reapable # Child
        /\ IF escalated \/ polls = 0
           THEN pc' = next /\ UNCHANGED <<polls, waited>>
           ELSE polls' = polls - 1 /\ waited' = waited + 1 /\ UNCHANGED pc
  /\ UNCHANGED <<helper, ignores, sent, escalated>>

(* The blocking wait() of each child in turn, after SIGKILL.               *)
Wait ==
  /\ pc = "wait"
  /\ Reapable = Child
  /\ leader' = [c \in Child |-> "reaped"]
  /\ pc' = "returned"
  /\ UNCHANGED <<polls, waited, helper, ignores, sent, escalated>>

Ladder == Interrupt \/ Terminate \/ Kill \/ Wait
          \/ Poll("poll_int", "term") \/ Poll("poll_term", "kill")

(* A process dies of a signal it does not ignore.  A child may also exit   *)
(* on its own; helpers are the ones that outlive it.                       *)
Deadly(c) == sent[c] \ ignores[c] # {}

LeaderDies(c) ==
  /\ leader[c] = "live"
  /\ leader' = [leader EXCEPT ![c] = "dead"]
  /\ UNCHANGED <<ladderVars, helper, ignores, sent, escalated>>

HelperDies(c) ==
  /\ helper[c] = "live" /\ Deadly(c)
  /\ helper' = [helper EXCEPT ![c] = "none"]
  /\ UNCHANGED <<ladderVars, leader, ignores, sent, escalated>>

(* The second Ctrl-C (SIGNAL_COUNT); the GUI never escalates.              *)
Escalate ==
  /\ ~escalated /\ pc # "returned"
  /\ escalated' = TRUE
  /\ UNCHANGED <<ladderVars, processVars, ignores, sent>>

Returned == pc = "returned" /\ UNCHANGED vars

Next ==
  \/ Ladder \/ Escalate \/ Returned
  \/ \E c \in Child : LeaderDies(c) \/ HelperDies(c)

Spec == Init /\ [][Next]_vars

(* The caller's thread runs, and a signal that is not ignored kills.       *)
Fairness ==
  /\ WF_vars(Ladder)
  /\ \A c \in Child : WF_vars(Deadly(c) /\ LeaderDies(c)) /\ WF_vars(HelperDies(c))

FairSpec == Spec /\ Fairness

-----------------------------------------------------------------------------
(* The shape of the state (lib.rs:214-280).                                *)
TypeOK ==
  /\ pc \in {"int", "poll_int", "term", "poll_term", "kill", "wait", "returned"}
  /\ polls \in Nat /\ waited \in Nat
  /\ leader \in [Child -> {"live", "dead", "reaped"}]
  /\ helper \in [Child -> {"live", "none"}]
  /\ ignores \in [Child -> SUBSET {"int", "term"}]
  /\ sent \in [Child -> SUBSET Signal]
  /\ escalated \in BOOLEAN

(* When the ladder returns, every direct child is reaped: no zombie, no    *)
(* live one, whichever rung it ended on and in whatever order they died    *)
(* (lib.rs:257-280; the scan of 220-231 stops at the first live child).    *)
ReturnsWithAllReaped ==
  pc = "returned" => \A c \in Child : leader[c] = "reaped"

(* One budget is shared: the wait does not grow with the children (3 + 2 s,*)
(* lib.rs:183-189).                                                        *)
Rung(p) == IF p = "poll_int" THEN IntPolls - polls ELSE
           IF p = "poll_term" THEN IntPolls + (TermPolls - polls) ELSE
           IF p = "term" THEN IntPolls ELSE IntPolls + TermPolls

BudgetIsShared == waited <= (IF pc = "int" THEN 0 ELSE Rung(pc))

(* No child is asked for more than its rung: nothing is killed             *)
(* without SIGTERM first, nor terminated without SIGINT unless the user    *)
(* pressed again (lib.rs:97-98, 202-203).                                  *)
GentleFirst ==
  \A c \in Child :
    /\ "kill" \in sent[c] => "term" \in sent[c]
    /\ "term" \in sent[c] /\ "int" \notin sent[c] => escalated

(* What has been sent and how long was waited follow from the rung: the    *)
(* strengthening that makes the invariants above inductive (265-279).      *)
SentFollowsPc ==
  /\ pc = "int" => \A c \in Child : sent[c] = {}
  /\ pc # "int" /\ ~escalated => \A c \in Child : "int" \in sent[c]
  /\ pc \in {"poll_term", "kill", "wait"} => \A c \in Child : "term" \in sent[c]

PollsAreBounded ==
  /\ pc = "poll_int" => polls <= IntPolls
  /\ pc = "poll_term" => polls <= TermPolls

LadderInv ==
  /\ TypeOK /\ SentFollowsPc /\ PollsAreBounded
  /\ ReturnsWithAllReaped /\ BudgetIsShared /\ GentleFirst

(* A ladder that went to SIGKILL leaves no helper either: groups are       *)
(* signalled also when their leader is long reaped (lib.rs:191-193).       *)
KillReachesHelpers ==
  (pc = "wait") ~> (\A c \in Child : helper[c] = "none")

(* The ladder always returns, however stubborn the children (97-98, 211).  *)
LadderReturns == <>(pc = "returned")
=============================================================================
