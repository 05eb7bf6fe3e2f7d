------------------------------ MODULE GuiShutdown ------------------------------
(***************************************************************************)
(* The exit of the GUI (crates/quadcontrol-gui/src-tauri/src/lib.rs)       *)
(* composed with what it has to bring back: the Android sessions and the   *)
(* pairing worker.  Closing the window or ExitRequested starts             *)
(* reclaim_sessions once, on a background thread; RunEvent::Exit, which on *)
(* macOS may come alone, waits for that thread or reclaims itself.  The    *)
(* iOS half of reclaim_sessions is in module IosGuiStore.                  *)
(*                                                                         *)
(* Time runs from the moment reclaim_sessions begins, in ticks.  A thread  *)
(* whose deadline has come acts before the next tick, and a stop ends a    *)
(* session within Ladder ticks (module TerminateLadder bounds it by 5 s).  *)
(***************************************************************************)
EXTENDS PairingStore, AndroidSessions

CONSTANTS
  Ladder,        \* ticks from a stop request to the end of the supervisor
  SessionBudget, \* SHUTDOWN_DEADLINE
  PairBudget,    \* PAIRING_SHUTDOWN_DEADLINE
  ExitBudget     \* EXIT_WAIT_BUDGET

(* 5 s, 7 s, 13 s and 15 s in the code.                                    *)
ASSUME BudgetAssumption ==
  /\ {Ladder, SessionBudget, PairBudget, ExitBudget} \subseteq Nat
  /\ Ladder < SessionBudget /\ SessionBudget <= PairBudget
  /\ PairBudget < ExitBudget

VARIABLES
  started,  \* SHUTDOWN_STARTED
  finished, \* SHUTDOWN_DONE
  reclaim,  \* per thread that may run reclaim_sessions: [pc, await, deadline]
  waiter,   \* deadline RunEvent::Exit waits until, 0 when it does not wait
  clock,    \* ticks since reclaim_sessions began
  timed_out,\* ShutdownReport.timed_out
  gone      \* the process has ended

exitVars == <<started, finished, reclaim, waiter, clock, timed_out, gone>>
vars == <<pairVars, androidVars, exitVars>>

(* begin_shutdown's worker, and RunEvent::Exit on the event loop.          *)
Thread == {"background", "event_loop"}
IdleThread == [pc |-> "idle", await |-> {}, deadline |-> 0]

ExitInit ==
  /\ started = FALSE /\ finished = FALSE
  /\ reclaim = [t \in Thread |-> IdleThread]
  /\ waiter = 0 /\ clock = 0
  /\ timed_out = {}
  /\ gone = FALSE

Init == PairInit /\ AndroidInit /\ ExitInit

-----------------------------------------------------------------------------
(* ExitRequested or CloseRequested before the clean-up is done: the event  *)
(* is held back and begin_shutdown starts the clean-up, once.              *)
BeginShutdown ==
  /\ ~gone /\ ~finished /\ ~started
  /\ started' = TRUE
  /\ reclaim' = [reclaim EXCEPT !["background"].pc = "cancel"]
  /\ UNCHANGED <<finished, waiter, clock, timed_out, gone, pairVars, androidVars>>

(* Seeded fault: the final event reclaims although the clean-up runs.      *)
ExitEventReclaims ==
  /\ ~gone /\ ~finished
  /\ reclaim["event_loop"].pc = "idle"
  /\ started' = TRUE
  /\ reclaim' = [reclaim EXCEPT !["event_loop"].pc = "cancel"]
  /\ UNCHANGED <<finished, waiter, clock, timed_out, gone, pairVars, androidVars>>

(* RunEvent::Exit: wait for the clean-up that runs, or reclaim here.       *)
ExitEvent ==
  /\ ~gone /\ ~finished /\ waiter = 0
  /\ reclaim["event_loop"].pc = "idle"
  /\ started' = TRUE
  /\ IF started
     THEN waiter' = clock + ExitBudget /\ UNCHANGED reclaim
     ELSE /\ reclaim' = [reclaim EXCEPT !["event_loop"].pc = "cancel"]
          /\ UNCHANGED waiter
  /\ UNCHANGED <<finished, clock, timed_out, gone, pairVars, androidVars>>

-----------------------------------------------------------------------------
(* reclaim_sessions, step by step.                                         *)

(* The pairing token is raised first, so that the two waits overlap.       *)
CancelWorker(t) ==
  /\ ~gone /\ reclaim[t].pc = "cancel"
  /\ cancelled' = cancelled \cup ({token} \ {0})
  /\ reclaim' = [reclaim EXCEPT ![t].pc = "drain"]
  /\ UNCHANGED <<pstate, token, next_gen, pcall, worker, androidVars>>
  /\ UNCHANGED <<started, finished, waiter, clock, timed_out, gone>>

Drain(t) ==
  LET taken == {sessions[d] : d \in Serial} \ {0} IN
  /\ ~gone /\ reclaim[t].pc = "drain"
  /\ handles' = handles \cup taken
  /\ sessions' = [d \in Serial |-> 0]
  /\ reclaim' = [reclaim EXCEPT ![t].pc = "stop", ![t].await = taken]
  /\ UNCHANGED <<next_sid, scall, sess, pairVars>>
  /\ UNCHANGED <<started, finished, waiter, clock, timed_out, gone>>

(* Seeded fault: the sessions are awaited and never told to stop.          *)
RequestNoStops(t) ==
  /\ ~gone /\ reclaim[t].pc = "stop"
  /\ reclaim' = [reclaim EXCEPT ![t].pc = "await",
                                ![t].deadline = clock + SessionBudget]
  /\ UNCHANGED <<pairVars, androidVars>>
  /\ UNCHANGED <<started, finished, waiter, clock, timed_out, gone>>

(* Every session is told to stop before the first one is awaited.          *)
RequestStops(t) ==
  /\ ~gone /\ reclaim[t].pc = "stop"
  /\ sess' = [i \in Sid |-> IF i \in reclaim[t].await /\ ~sess[i].done
                            THEN [sess[i] EXCEPT !.stop = TRUE] ELSE sess[i]]
  /\ reclaim' = [reclaim EXCEPT ![t].pc = "await",
                                ![t].deadline = clock + SessionBudget]
  /\ UNCHANGED <<sessions, next_sid, scall, handles, pairVars>>
  /\ UNCHANGED <<started, finished, waiter, clock, timed_out, gone>>

(* shutdown_all: recv_timeout on one handle with what is left of the       *)
(* shared budget.                                                          *)
AwaitDone(t) ==
  /\ ~gone /\ reclaim[t].pc = "await"
  /\ \E i \in reclaim[t].await :
       /\ sess[i].done \/ clock >= reclaim[t].deadline
       /\ reclaim' = [reclaim EXCEPT ![t].await = @ \ {i}]
       /\ timed_out' = IF sess[i].done THEN timed_out ELSE timed_out \cup {i}
  /\ UNCHANGED <<started, finished, waiter, clock, gone, pairVars, androidVars>>

(* Seeded fault: the pairing budget starts when the sessions are down.     *)
SessionsDownFreshBudget(t) ==
  /\ ~gone /\ reclaim[t].pc = "await" /\ reclaim[t].await = {}
  /\ reclaim' = [reclaim EXCEPT ![t].pc = "pairing",
                                ![t].deadline = clock + PairBudget]
  /\ UNCHANGED <<started, finished, waiter, clock, timed_out, gone,
                 pairVars, androidVars>>

(* The sessions are down; the pairing budget counts from its cancel.       *)
SessionsDown(t) ==
  /\ ~gone /\ reclaim[t].pc = "await" /\ reclaim[t].await = {}
  /\ reclaim' = [reclaim EXCEPT ![t].pc = "pairing", ![t].deadline = PairBudget]
  /\ UNCHANGED <<started, finished, waiter, clock, timed_out, gone,
                 pairVars, androidVars>>

(* Seeded fault: the exit waits for the pairing worker without a limit.    *)
PairingDownUnbounded(t) ==
  /\ ~gone /\ reclaim[t].pc = "pairing"
  /\ ~PairingIsActive
  /\ reclaim' = [reclaim EXCEPT ![t] = [IdleThread EXCEPT !.pc = "over"]]
  /\ finished' = TRUE
  /\ clock' = 0 /\ waiter' = 0
  /\ UNCHANGED <<started, timed_out, gone, pairVars, androidVars>>

(* The pairing worker is back, or its budget used up: SHUTDOWN_DONE, and    *)
(* with it the final event stops waiting and time no longer matters.       *)
PairingDown(t) ==
  /\ ~gone /\ reclaim[t].pc = "pairing"
  /\ ~PairingIsActive \/ clock >= reclaim[t].deadline
  /\ reclaim' = [reclaim EXCEPT ![t] = [IdleThread EXCEPT !.pc = "over"]]
  /\ finished' = TRUE
  /\ clock' = 0 /\ waiter' = 0
  /\ UNCHANGED <<started, timed_out, gone, pairVars, androidVars>>

(* The process ends: the clean-up called exit(0) or let the event pass, or *)
(* RunEvent::Exit has waited long enough.                                  *)
ProcessEnds ==
  /\ ~gone
  /\ finished \/ (waiter # 0 /\ clock >= waiter)
  /\ gone' = TRUE
  /\ UNCHANGED <<started, finished, reclaim, waiter, clock, timed_out,
                 pairVars, androidVars>>

Reclaim(t) ==
  \/ CancelWorker(t) \/ Drain(t) \/ RequestStops(t) \/ AwaitDone(t)
  \/ SessionsDown(t) \/ PairingDown(t)

(* Nothing is due: no thread is between two calls that do not block, or    *)
(* past its deadline, and no stopped session past its ladder.              *)
NothingDue ==
  /\ \A t \in Thread :
       /\ reclaim[t].pc \notin {"cancel", "drain", "stop"}
       /\ reclaim[t].pc \in {"await", "pairing"} => clock < reclaim[t].deadline
       /\ reclaim[t].pc = "await" => \E i \in reclaim[t].await : ~sess[i].done
  /\ waiter # 0 => clock < waiter
  /\ \A i \in Sid : sess[i].stop /\ ~sess[i].done => sess[i].age < Ladder

Tick ==
  /\ ~gone /\ started /\ ~finished
  /\ NothingDue
  /\ clock' = clock + 1
  /\ sess' = [i \in Sid |-> IF sess[i].stop /\ ~sess[i].done
                            THEN [sess[i] EXCEPT !.age = @ + 1] ELSE sess[i]]
  /\ UNCHANGED <<started, finished, reclaim, waiter, timed_out, gone>>
  /\ UNCHANGED <<sessions, next_sid, scall, handles, pairVars>>

-----------------------------------------------------------------------------
Pairing == ~gone /\ PairNext /\ UNCHANGED <<androidVars, exitVars>>

AndroidCommand ==
  /\ ~gone
  /\ \/ \E c \in StartCall : StartSession(c)
     \/ \E d \in Serial : StopSession(d)
  /\ UNCHANGED <<pairVars, exitVars>>

Supervisor(i) == ~gone /\ Supervise(i) /\ UNCHANGED <<pairVars, exitVars>>

Scrcpy(i) == ~gone /\ ScrcpyExits(i) /\ UNCHANGED <<pairVars, exitVars>>

Next ==
  \/ Pairing \/ AndroidCommand
  \/ \E i \in Sid : Supervisor(i) \/ Scrcpy(i)
  \/ BeginShutdown \/ ExitEvent
  \/ \E t \in Thread : Reclaim(t)
  \/ ProcessEnds \/ Tick

Spec == Init /\ [][Next]_vars

-----------------------------------------------------------------------------
TypeOK ==
  /\ AndroidTypeOK
  /\ started \in BOOLEAN /\ finished \in BOOLEAN /\ gone \in BOOLEAN
  /\ reclaim \in [Thread ->
       [pc : {"idle", "cancel", "drain", "stop", "await", "pairing", "over"},
        await : SUBSET Sid, deadline : 0..(PairBudget + SessionBudget)]]
  /\ waiter \in 0..(PairBudget + ExitBudget)
  /\ clock \in 0..(PairBudget + ExitBudget)
  /\ timed_out \in SUBSET Sid

(* One thread runs reclaim_sessions, from the first event on until it is   *)
(* done, and each of its waits ends at its own deadline: the sessions' two *)
(* steps before them cost no time, the pairing budget counts from the      *)
(* cancel, and the final event's wait is longer than both together.        *)
ReclaimIsOnTime ==
  /\ \A t, u \in Thread : reclaim[t].pc # "idle" /\ reclaim[u].pc # "idle" => t = u
  /\ started <=> \E t \in Thread : reclaim[t].pc # "idle"
  /\ finished <=> \E t \in Thread : reclaim[t].pc = "over"
  /\ \A t \in Thread :
       /\ reclaim[t].pc \in {"cancel", "drain", "stop"} => clock = 0
       /\ reclaim[t].pc = "await" => reclaim[t].deadline = SessionBudget
       /\ reclaim[t].pc = "pairing" => reclaim[t].deadline = PairBudget
  /\ clock <= PairBudget /\ (~started => clock = 0)
  /\ waiter # 0 => waiter >= ExitBudget

(* What it takes from the map it waits for, and a stopped session has used *)
(* up at least the time that the clean-up has waited for it: it runs out   *)
(* of its ladder before the clean-up runs out of its budget.               *)
AwaitedEndInTime ==
  /\ \A t \in Thread : \A i \in reclaim[t].await :
       /\ reclaim[t].pc \in {"stop", "await"} => sess[i].pc # "none"
       /\ reclaim[t].pc = "await" => sess[i].done \/ (sess[i].stop /\ sess[i].age >= clock)
  /\ \A i \in Sid : sess[i].age <= Ladder
  /\ \A i \in handles :
       \/ sess[i].done
       \/ \E t \in Thread : reclaim[t].pc \in {"stop", "await"} /\ i \in reclaim[t].await

(* The process never leaves while its clean-up is on the way: the final    *)
(* event's wait of 15 s covers the sessions and the pairing worker, whose  *)
(* waits overlap, wherever in the clean-up it begins.                      *)
ExitWaitsForReclaim == gone => finished

(* The clean-up keeps its budgets, for any of them that are in this order, *)
(* and the process outlives it.                                            *)
ShutdownInv == TypeOK /\ ReclaimIsOnTime /\ AwaitedEndInTime /\ ExitWaitsForReclaim

(* No session the exit has taken out of the map survives the process,      *)
(* however the close button, ExitRequested and Exit follow one another,    *)
(* unless its supervisor lost scrcpy to an error; and none is reported as  *)
(* timed out, since the ladder of 5 s fits the budget of 7 s they share.   *)
DrainedAreDown ==
  /\ timed_out = {}
  /\ gone => \A i \in handles : sess[i].status # "failed" => ~sess[i].alive

(* An exit that has begun never hangs: until the process is gone some      *)
(* thread of the clean-up can move or time can pass, which ShutdownInv     *)
(* bounds, whatever adb, scrcpy and the pairing worker do.                 *)
ExitIsNeverStuck ==
  started /\ ~gone =>
    \/ ENABLED Tick \/ ENABLED ProcessEnds
    \/ \E t \in Thread : ENABLED Reclaim(t)
    \/ \E i \in Sid : ENABLED SuperviseOwn(i)
=============================================================================
