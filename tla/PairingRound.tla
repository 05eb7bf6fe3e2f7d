----------------------------- MODULE PairingRound -----------------------------
(***************************************************************************)
(* One pairing attempt (crates/quadcontrol-android/src/wireless.rs):       *)
(* pair_qr_command_with_cancel with the scanning round it runs, the manual *)
(* attempt of the GUI's pair_manual, and the look-up of the device's name  *)
(* with which the GUI's workers end.                                       *)
(*                                                                         *)
(* A bounded adb command (run_adb, SystemRunner) is one step that may      *)
(* fail; what is inside is module BoundedCommand.  The `adb pair`          *)
(* processes of a round run on their own: each may exit, or outlive its    *)
(* 10 s, at any point.  A look at the cancel token that directly follows a *)
(* command is part of that command's step, one that directly precedes a    *)
(* command is not.  The operating system answers try_wait.                 *)
(***************************************************************************)
EXTENDS Naturals, Sequences, SequencesExt

CONSTANTS
  Endpoint,    \* endpoints that may advertise the name of this QR code
  MaxDevices,  \* bound: devices in the final listing
  MaxIdentity, \* bound: different ro.serialno among them
  CommandTimeout, ShutdownDeadline \* COMMAND_TIMEOUT, PAIRING_SHUTDOWN_DEADLINE

ASSUME PairingRoundAssumption ==
  /\ MaxDevices \in Nat /\ MaxIdentity \in Nat
  /\ CommandTimeout \in Nat /\ ShutdownDeadline \in Nat
  /\ ShutdownDeadline > CommandTimeout

VARIABLES
  mode,        \* qr_gui and manual poll a PairCancel, qr_cli the signal counter
  pc,          \* the command or loop the worker is at
  interrupted, \* the token was raised, or the signal counted
  late,        \* adb commands that ran to their end after that
  deadline,    \* ROUND_TIMEOUT of the round, later of the wait, has passed
  proc,        \* per endpoint: none, running, or exited with an outcome
  overdue,     \* endpoints whose running process is past COMMAND_TIMEOUT
  pairs,       \* Vec<PairProcess>, by endpoint
  loop,        \* locals of run_pairing_round_with_cancel
  round,       \* RoundState
  secret,      \* the password, the payload and the QR code are in memory
  out,         \* event and error of the round, reason of its close
  waited,      \* the first wait_for_guid has failed
  result,      \* what the attempt returns
  listing,     \* devices of the final adb devices -l, identities read
  visible,     \* result of deduplicate_devices, as positions in listing
  seen         \* devices its loop has gone through

childVars == <<proc, overdue, pairs>>
listVars == <<listing, visible, seen>>
vars == <<mode, pc, interrupted, late, deadline, childVars, loop, round, secret,
          out, waited, result, listVars>>

Mode == {"qr_gui", "qr_cli", "manual"}
ExitOutcome == {"guid", "no_guid", "failed"} \* failed: non-zero, or output too large
Failure == {"none", "query", "spawn", "timed_out", "unparseable", "failed"}
DeviceRec == [wireless : BOOLEAN, identity : 0..MaxIdentity] \* 0: not read
Listings == UNION {[1..n -> DeviceRec] : n \in 0..MaxDevices}

NoLoop == [spawned |-> {}, todo |-> {}, index |-> 1, service_lost |-> FALSE,
           pair_timed_out |-> FALSE, failure |-> "none"]
NoOut == [event |-> "none", error |-> "none", reason |-> "none"]

Init ==
  /\ mode \in Mode
  /\ pc = IF mode = "manual" THEN "pair" ELSE "version"
  /\ interrupted = FALSE /\ late = 0 /\ deadline = FALSE
  /\ proc = [e \in Endpoint |-> "none"] /\ overdue = {} /\ pairs = <<>>
  /\ loop = NoLoop
  /\ round = [id |-> 1, pair_in_flight |-> FALSE, closed |-> FALSE, service_lost_pending |-> FALSE]
  /\ secret = TRUE
  /\ out = NoOut
  /\ waited = FALSE /\ result = "none"
  /\ listing = <<>> /\ visible = <<>> /\ seen = 0

-----------------------------------------------------------------------------
(* RoundState.                                                             *)

(* close.                                                                  *)
CloseRound(r) == [r EXCEPT !.pair_in_flight = FALSE, !.closed = TRUE, !.id = @ + 1]

(* observe of an event: the next state and the reason, none for an event   *)
(* that leaves the round as it was or that has to wait for a process.      *)
Observe(r, event) ==
  IF r.closed THEN [round |-> r, reason |-> "none"]
  ELSE IF event = "ServiceLost" /\ r.pair_in_flight
  THEN [round |-> [r EXCEPT !.service_lost_pending = TRUE], reason |-> "none"]
  ELSE [round |-> CloseRound(r),
        reason |-> IF event \in {"PairFailed", "PairTimedOut"}
                      /\ r.pair_in_flight /\ r.service_lost_pending
                   THEN "ServiceLost" ELSE event]

(* observe_for_round of a round that is still the one it was.              *)
ObserveForRound(r, event) == Observe(r, event).round

-----------------------------------------------------------------------------
(* The surroundings.                                                       *)

(* cancel_pairing, the GUI's exit, or Ctrl-C.                              *)
Interrupt ==
  /\ pc # "done" /\ ~interrupted
  /\ interrupted' = TRUE
  /\ UNCHANGED <<mode, pc, late, deadline, childVars, loop, round, secret, out,
                 waited, result, listVars>>

DeadlinePasses ==
  /\ pc \in {"top", "query", "spawn", "poll", "wait", "list", "fallback", "connect"}
  /\ ~deadline
  /\ deadline' = TRUE
  /\ UNCHANGED <<mode, pc, interrupted, late, childVars, loop, round, secret, out,
                 waited, result, listVars>>

PairExits(e) ==
  /\ proc[e] = "running"
  /\ \E o \in ExitOutcome : proc' = [proc EXCEPT ![e] = o]
  /\ overdue' = overdue \ {e}
  /\ UNCHANGED <<mode, pc, interrupted, late, deadline, pairs, loop, round, secret,
                 out, waited, result, listVars>>

PairIsOverdue(e) ==
  /\ proc[e] = "running" /\ e \notin overdue
  /\ overdue' = overdue \cup {e}
  /\ UNCHANGED <<mode, pc, interrupted, late, deadline, proc, pairs, loop, round,
                 secret, out, waited, result, listVars>>

-----------------------------------------------------------------------------
(* PairCancel::is_cancelled: only the GUI has a token that is ever raised. *)
Cancelled == interrupted /\ mode # "qr_cli"

(* A bounded adb command has run.                                          *)
Ran == late' = IF interrupted THEN late + 1 ELSE late

(* The attempt returns.  PairProcess and PairingSecret are dropped.        *)
Return(res) == pc' = "done" /\ result' = res /\ secret' = FALSE

(* check_adb: the version, which has to be at least 30, then mdns check.   *)
CheckAdb ==
  /\ pc \in {"version", "mdns_check"}
  /\ Ran
  /\ \/ /\ pc' = IF pc = "version" THEN "mdns_check" ELSE "qr"
        /\ UNCHANGED <<result, secret>>
     \/ Return("failed")
  /\ UNCHANGED <<mode, interrupted, deadline, childVars, loop, round, out, waited,
                 listVars>>

(* render_qr and announce; a code that cannot be rendered closes the round *)
(* before it has begun.                                                    *)
RenderQr ==
  /\ pc = "qr"
  /\ \/ pc' = "top" /\ UNCHANGED <<result, secret, round>>
     \/ Return("failed") /\ round' = Observe(round, "PairFailed").round
  /\ UNCHANGED <<mode, interrupted, late, deadline, childVars, loop, out, waited,
                 listVars>>

-----------------------------------------------------------------------------
(* run_pairing_round_with_cancel.                                          *)

(* The round returns its event and its error to be closed.                 *)
LeaveRound(event, error) ==
  /\ pc' = "close"
  /\ out' = [out EXCEPT !.event = event, !.error = error]

(* Seeded fault: the error stays the first one, whatever the event.        *)
ClassifyRoundFailureByEvent(l) ==
  <<IF l.service_lost THEN "ServiceLost"
    ELSE IF l.pair_timed_out THEN "PairTimedOut" ELSE "PairFailed", l.failure>>

(* classify_round_failure.                                                 *)
ClassifyRoundFailure(l) ==
  IF l.service_lost THEN <<"ServiceLost", "service_lost">>
  ELSE IF l.pair_timed_out THEN <<"PairTimedOut", "timed_out">>
  ELSE <<"PairFailed", l.failure>>

(* failure.get_or_insert: the first failure is kept.                       *)
FirstFailure(l, f) == [l EXCEPT !.failure = IF @ = "none" THEN f ELSE @]

FailRound(l) == LeaveRound(ClassifyRoundFailure(l)[1], ClassifyRoundFailure(l)[2])

LoopTop ==
  /\ pc = "top"
  /\ IF interrupted THEN LeaveRound("Cancelled", "cancelled")
     ELSE IF deadline THEN LeaveRound("Timeout", "round_timed_out")
     ELSE pc' = "query" /\ UNCHANGED out
  /\ UNCHANGED <<mode, interrupted, late, deadline, childVars, loop, round, secret,
                 waited, result, listVars>>

(* Seeded fault: a failed query ends the round although a pair is in       *)
(* flight.                                                                 *)
QueryFailsTheRound(error) ==
  /\ pc = "query"
  /\ Ran
  /\ loop' = FirstFailure(loop, error)
  /\ FailRound(loop')
  /\ UNCHANGED <<mode, interrupted, deadline, childVars, round, secret, waited,
                 result, listVars>>

(* adb mdns services fails, or runs into its own 10 s, which is the same   *)
(* TimedOut as a pair's: with a pair in flight only the discovery of this  *)
(* turn is skipped.                                                        *)
QueryError == {"query", "timed_out"}

QueryFails(error) ==
  /\ pc = "query"
  /\ Ran
  /\ IF pairs # <<>>
     THEN /\ loop' = [FirstFailure(loop, error) EXCEPT !.index = 1]
          /\ pc' = "poll" /\ UNCHANGED out
     ELSE /\ loop' = FirstFailure(loop, error)
          /\ FailRound(loop')
  /\ UNCHANGED <<mode, interrupted, deadline, childVars, round, secret, waited,
                 result, listVars>>

(* It answers with the endpoints that match.  None of them left after some *)
(* were tried is the loss of the service, noted once.                      *)
QueryAnswers(matching) ==
  /\ pc = "query"
  /\ Ran
  /\ LET lost == matching = {} /\ loop.spawned # {} /\ ~loop.service_lost
     IN /\ loop' = [loop EXCEPT !.todo = matching \ loop.spawned, !.index = 1,
                                !.service_lost = @ \/ lost]
        /\ round' = IF lost THEN ObserveForRound(round, "ServiceLost") ELSE round
  /\ pc' = "spawn"
  /\ UNCHANGED <<mode, interrupted, deadline, childVars, secret, out, waited,
                 result, listVars>>

(* PairProcess::spawn for one more endpoint, the password written.         *)
SpawnPair(e) ==
  /\ pc = "spawn" /\ e \in loop.todo
  /\ proc' = [proc EXCEPT ![e] = "running"]
  /\ pairs' = Append(pairs, e)
  /\ loop' = [loop EXCEPT !.todo = @ \ {e}, !.spawned = @ \cup {e}]
  /\ round' = [round EXCEPT !.pair_in_flight = TRUE]
  /\ UNCHANGED <<mode, pc, interrupted, late, deadline, overdue, secret, out,
                 waited, result, listVars>>

(* Seeded fault: a password that cannot be written leaves the process.     *)
SpawnFailsLeaving(e) ==
  /\ pc = "spawn" /\ e \in loop.todo
  /\ proc' = [proc EXCEPT ![e] = "running"]
  /\ loop' = [FirstFailure(loop, "spawn") EXCEPT !.todo = {}]
  /\ IF pairs # <<>> THEN pc' = "poll" /\ UNCHANGED out ELSE FailRound(loop')
  /\ UNCHANGED <<mode, interrupted, late, deadline, overdue, pairs, round, secret,
                 waited, result, listVars>>

(* It fails to start, or its stdin does not take the password and it is    *)
(* killed and waited for.  The rest of this turn's endpoints is skipped.   *)
SpawnFails(e) ==
  /\ pc = "spawn" /\ e \in loop.todo
  /\ loop' = [FirstFailure(loop, "spawn") EXCEPT !.todo = {}]
  /\ IF pairs # <<>> THEN pc' = "poll" /\ UNCHANGED out ELSE FailRound(loop')
  /\ UNCHANGED <<mode, interrupted, late, deadline, childVars, round, secret,
                 waited, result, listVars>>

SpawnsDone ==
  /\ pc = "spawn" /\ loop.todo = {}
  /\ pc' = "poll"
  /\ UNCHANGED <<mode, interrupted, late, deadline, childVars, loop, round, secret,
                 out, waited, result, listVars>>

(* PairProcess leaves the Vec and is collected.                            *)
Forget(e) ==
  /\ proc' = [proc EXCEPT ![e] = "none"]
  /\ overdue' = overdue \ {e}
  /\ pairs' = RemoveAt(pairs, loop.index)

(* poll of pairs[index].  A process past its time is killed and collected; *)
(* an error of that kill is a failure like others.                         *)
PollPair ==
  /\ pc = "poll" /\ loop.index <= Len(pairs)
  /\ LET e == pairs[loop.index]
     IN \/ /\ proc[e] = "guid"
           /\ LeaveRound("PairSucceeded", "none")
           /\ UNCHANGED <<childVars, loop>>
        \/ /\ proc[e] \in {"no_guid", "failed"}
           /\ Forget(e)
           /\ loop' = FirstFailure(loop, IF proc[e] = "failed" THEN "failed" ELSE "unparseable")
           /\ UNCHANGED <<pc, out>>
        \/ /\ e \in overdue
           /\ Forget(e)
           /\ \/ loop' = [FirstFailure(loop, "timed_out") EXCEPT !.pair_timed_out = TRUE]
              \/ loop' = FirstFailure(loop, "failed")
           /\ UNCHANGED <<pc, out>>
        \/ /\ proc[e] = "running" /\ e \notin overdue
           /\ loop' = [loop EXCEPT !.index = @ + 1]
           /\ UNCHANGED <<pc, out, childVars>>
  /\ UNCHANGED <<mode, interrupted, late, deadline, round, secret, waited, result,
                 listVars>>

(* The Vec has been gone through: no process left and something failed is  *)
(* the end of the round, else it sleeps 250 ms.                            *)
PollsDone ==
  /\ pc = "poll" /\ loop.index > Len(pairs)
  /\ round' = IF pairs = <<>> THEN [round EXCEPT !.pair_in_flight = FALSE] ELSE round
  /\ IF pairs = <<>> /\ loop.failure # "none" THEN FailRound(loop)
     ELSE pc' = "top" /\ UNCHANGED out
  /\ UNCHANGED <<mode, interrupted, late, deadline, childVars, loop, secret, waited,
                 result, listVars>>

-----------------------------------------------------------------------------
(* round_close: kill and collect all, observe the event, wipe.             *)
CloseReason(r, event) ==
  LET observed == Observe([r EXCEPT !.pair_in_flight = FALSE], event)
  IN IF r.closed THEN [round |-> r, reason |-> "Cancelled"] ELSE observed

(* Seeded fault: a success leaves the losers of the race to themselves.    *)
RoundCloseAfterSuccess ==
  /\ pc = "close"
  /\ proc' = IF out.event = "PairSucceeded" THEN proc ELSE [e \in Endpoint |-> "none"]
  /\ overdue' = {} /\ pairs' = <<>> /\ loop' = NoLoop /\ deadline' = FALSE
  /\ round' = CloseReason(round, out.event).round
  /\ out' = [out EXCEPT !.reason = CloseReason(round, out.event).reason]
  /\ secret' = FALSE
  /\ IF out.error # "none" THEN pc' = "done" /\ result' = out.error
     ELSE pc' = "wait" /\ UNCHANGED result
  /\ UNCHANGED <<mode, interrupted, late, waited, listVars>>

(* Then the attempt goes on if the round paired, no kill failed and nobody *)
(* cancelled.                                                              *)
RoundClose ==
  /\ pc = "close"
  /\ proc' = [e \in Endpoint |-> "none"]
  /\ overdue' = {} /\ pairs' = <<>> /\ loop' = NoLoop /\ deadline' = FALSE
  /\ round' = CloseReason(round, out.event).round
  /\ out' = [out EXCEPT !.reason = CloseReason(round, out.event).reason]
  /\ secret' = FALSE
  /\ \/ out.error # "none" /\ pc' = "done" /\ result' = out.error
     \/ \E e \in Endpoint : proc[e] = "running" /\ pc' = "done" /\ result' = "failed"
     \/ out.error = "none" /\ Cancelled /\ pc' = "done" /\ result' = "cancelled"
     \/ out.error = "none" /\ ~Cancelled /\ pc' = "wait" /\ UNCHANGED result
  /\ UNCHANGED <<mode, interrupted, late, waited, listVars>>

(* pair_manual: wireless::pair of the endpoint the user typed, the code    *)
(* wiped whatever came of it.                                              *)
PairManual ==
  /\ pc = "pair"
  /\ Ran
  /\ \/ pc' = "wait" /\ secret' = FALSE /\ UNCHANGED result
     \/ Return("failed")
  /\ UNCHANGED <<mode, interrupted, deadline, childVars, loop, round, out, waited,
                 listVars>>

-----------------------------------------------------------------------------
(* wait_for_guid_with_cancel has failed: the manual attempt asks for the   *)
(* connect port; the QR attempt tries to connect by itself, once, unless   *)
(* its token is raised.                                                    *)
WaitFailed(error) ==
  \/ /\ mode = "manual"
     /\ Return(IF Cancelled THEN "cancelled" ELSE "manual_pair_needs_connect_port")
     /\ UNCHANGED waited
  \/ /\ mode # "manual" /\ (waited \/ Cancelled)
     /\ Return(error)
     /\ UNCHANGED waited
  \/ /\ mode # "manual" /\ ~waited /\ ~Cancelled
     /\ pc' = "fallback" /\ waited' = TRUE
     /\ UNCHANGED <<result, secret>>

(* Seeded fault: only a cancel ends the wait.                              *)
WaitTopPatient ==
  /\ pc = "wait"
  /\ IF interrupted THEN WaitFailed("cancelled")
     ELSE pc' = "list" /\ UNCHANGED <<waited, result, secret>>
  /\ UNCHANGED <<mode, interrupted, late, deadline, childVars, loop, round, out,
                 listVars>>

WaitTop ==
  /\ pc = "wait"
  /\ IF deadline THEN WaitFailed("timed_out")
     ELSE IF interrupted THEN WaitFailed("cancelled")
     ELSE pc' = "list" /\ UNCHANGED <<waited, result, secret>>
  /\ UNCHANGED <<mode, interrupted, late, deadline, childVars, loop, round, out,
                 listVars>>

(* adb devices -l of the wait: the device is there, not there yet, or the  *)
(* command failed.                                                         *)
WaitLists ==
  /\ pc = "list"
  /\ Ran
  /\ \/ /\ mode = "manual"
        /\ pc' = "name" /\ UNCHANGED <<waited, result, secret>>
     \/ /\ mode # "manual"
        /\ IF Cancelled THEN Return("cancelled")
           ELSE pc' = "devices" /\ UNCHANGED <<result, secret>>
        /\ UNCHANGED waited
     \/ pc' = "wait" /\ UNCHANGED <<waited, result, secret>>
     \/ WaitFailed("failed")
  /\ UNCHANGED <<mode, interrupted, deadline, childVars, loop, round, out, listVars>>

(* Seeded fault: the token is not looked at between query and connect.     *)
FallbackConnectDeaf ==
  /\ pc \in {"fallback", "connect"}
  /\ Ran
  /\ \/ Return("failed")
     \/ /\ pc' = IF pc = "fallback" THEN "connect" ELSE "wait"
        /\ UNCHANGED <<result, secret>>
  /\ UNCHANGED <<mode, interrupted, deadline, childVars, loop, round, out, waited,
                 listVars>>

(* The explicit connect: find the service of the guid, then adb connect.   *)
FallbackConnect ==
  /\ pc \in {"fallback", "connect"}
  /\ Ran
  /\ \/ Return(IF pc = "fallback" THEN "no_service" ELSE "failed")
     \/ Return("failed")
     \/ Cancelled /\ Return("cancelled")
     \/ /\ ~Cancelled
        /\ pc' = IF pc = "fallback" THEN "connect" ELSE "wait"
        /\ UNCHANGED <<result, secret>>
  /\ UNCHANGED <<mode, interrupted, deadline, childVars, loop, round, out, waited,
                 listVars>>

-----------------------------------------------------------------------------
(* Seeded fault: an unknown identity is taken for an identity.             *)
IdentityPairUnknown(l, i, j) == l[i].identity = l[j].identity

(* identity_pairs: two devices of one known identity.                      *)
IdentityPair(l, i, j) == l[i].identity # 0 /\ l[i].identity = l[j].identity

(* The last listing: adb devices -l, then getprop for each device, and     *)
(* nobody looks at the token any more.                                     *)
ListDevices ==
  /\ pc = "devices"
  /\ \/ Ran /\ Return("failed") /\ UNCHANGED listing
     \/ \E l \in Listings :
          /\ late' = IF interrupted THEN late + 1 + Len(l) ELSE late
          /\ listing' = l /\ pc' = "dedup"
          /\ UNCHANGED <<result, secret>>
  /\ UNCHANGED <<mode, interrupted, deadline, childVars, loop, round, out, waited,
                 visible, seen>>

(* Seeded fault: the newcomer always takes the place over.                 *)
AddDeviceLast(l, acc, i) ==
  LET duplicate == {k \in DOMAIN acc : IdentityPair(l, acc[k], i)}
      index == CHOOSE k \in duplicate : \A m \in duplicate : k <= m
  IN IF duplicate = {} THEN Append(acc, i) ELSE [acc EXCEPT ![index] = i]

(* One turn of deduplicate_devices: the first of an identity keeps its     *)
(* place, a wireless serial takes it over from one that is not.            *)
AddDevice(l, acc, i) ==
  LET duplicate == {k \in DOMAIN acc : IdentityPair(l, acc[k], i)}
      index == CHOOSE k \in duplicate : \A m \in duplicate : k <= m
  IN IF duplicate = {} THEN Append(acc, i)
     ELSE IF l[i].wireless /\ ~l[acc[index]].wireless THEN [acc EXCEPT ![index] = i]
     ELSE acc

DeduplicateDevices ==
  /\ pc = "dedup"
  /\ IF seen < Len(listing)
     THEN /\ seen' = seen + 1
          /\ visible' = AddDevice(listing, visible, seen + 1)
          /\ UNCHANGED <<pc, result, secret>>
     ELSE /\ IF mode = "qr_cli" THEN Return("ok")
             ELSE pc' = "name" /\ UNCHANGED <<result, secret>>
          /\ UNCHANGED <<visible, seen>>
  /\ UNCHANGED <<mode, interrupted, late, deadline, childVars, loop, round, out,
                 waited, listing>>

(* paired_device_name: one more adb devices -l before the GUI's worker     *)
(* sets its result, without a look at the token; an error of it does not   *)
(* count.                                                                  *)
PairedDeviceName ==
  /\ pc = "name"
  /\ Ran
  /\ Return("ok")
  /\ UNCHANGED <<mode, interrupted, deadline, childVars, loop, round, out, waited,
                 listVars>>

Worker ==
  \/ CheckAdb \/ RenderQr \/ LoopTop
  \/ \E error \in QueryError : QueryFails(error)
  \/ \E m \in SUBSET Endpoint : QueryAnswers(m)
  \/ \E e \in Endpoint : SpawnPair(e) \/ SpawnFails(e)
  \/ SpawnsDone \/ PollPair \/ PollsDone \/ RoundClose \/ PairManual
  \/ WaitTop \/ WaitLists \/ FallbackConnect \/ ListDevices
  \/ DeduplicateDevices \/ PairedDeviceName

Next ==
  \/ Interrupt \/ DeadlinePasses \/ Worker
  \/ \E e \in Endpoint : PairExits(e) \/ PairIsOverdue(e)

(* The worker's thread is scheduled; adb may hang, people may never scan.  *)
Spec == Init /\ [][Next]_vars /\ WF_vars(Worker)

-----------------------------------------------------------------------------
Pc == {"pair", "version", "mdns_check", "qr", "top", "query", "spawn", "poll",
       "close", "wait", "list", "fallback", "connect", "devices", "dedup", "name",
       "done"}
Event == {"PairSucceeded", "ServiceLost", "PairTimedOut", "PairFailed", "Timeout", "Cancelled"}

LoopRec == [spawned : SUBSET Endpoint, todo : SUBSET Endpoint, index : Nat \ {0},
            service_lost : BOOLEAN, pair_timed_out : BOOLEAN, failure : Failure]
RoundRec == [id : {1, 2}, pair_in_flight : BOOLEAN, closed : BOOLEAN,
             service_lost_pending : BOOLEAN]
OutRec == [event : Event \cup {"none"}, reason : Event \cup {"none"},
           error : Failure \cup {"service_lost", "round_timed_out", "cancelled"}]

TypeOK ==
  /\ mode \in Mode /\ pc \in Pc
  /\ interrupted \in BOOLEAN /\ deadline \in BOOLEAN
  /\ secret \in BOOLEAN /\ waited \in BOOLEAN
  /\ late \in 0..(MaxDevices + 3)
  /\ proc \in [Endpoint -> {"none", "running"} \cup ExitOutcome]
  /\ overdue \subseteq {e \in Endpoint : proc[e] = "running"}
  /\ pairs \in Seq(Endpoint)
  /\ loop \in LoopRec /\ round \in RoundRec /\ out \in OutRec
  /\ listing \in Seq(DeviceRec) /\ visible \in Seq(Nat) /\ seen \in 0..Len(listing)

(* Each `adb pair` that runs or has exited is in the Vec, once.            *)
ChildrenAreHeld ==
  /\ {e \in Endpoint : proc[e] # "none"} = ToSet(pairs)
  /\ IsInjective(pairs)

EndIsClean ==
  pc \in {"wait", "list", "fallback", "connect", "devices", "dedup", "name", "done"} =>
    /\ pairs = <<>> /\ ~secret
    /\ round.closed = (round.id = 2)
    /\ out.reason # "none" => round.closed

(* No `adb pair` is ever out of reach: each one that runs or has exited is *)
(* in the Vec that round_close goes through, once; when the attempt goes   *)
(* on to wait for the device, or returns by whatever path, there is none,  *)
(* the round is closed for good and password, payload and QR code are      *)
(* wiped.  At the top of the loop pair_in_flight tells the truth, which    *)
(* decides what the loss of the service does.                              *)
NothingIsLeft ==
  /\ TypeOK /\ ChildrenAreHeld /\ EndIsClean
  /\ pc = "top" => ~round.closed /\ round.pair_in_flight = (pairs # <<>>)

(* A pair in flight may still succeed, so only its own 10 s, the success   *)
(* of another, a cancel or the end of the round's time kills it: never a   *)
(* query that failed, a further spawn that failed, a lost service or the   *)
(* failure of another.                                                     *)
KilledOnlyForCause ==
  [][\A e \in Endpoint :
       proc[e] = "running" /\ proc'[e] = "none" =>
         \/ e \in overdue
         \/ pc = "close" /\ out.event \in {"PairSucceeded", "Cancelled", "Timeout"}]_vars

(* The errors an event of the round may come with.  A plain failure comes  *)
(* with the error of whatever failed first, a query that timed out too.    *)
ErrorsOf ==
  [none |-> {"none"}, PairSucceeded |-> {"none"}, ServiceLost |-> {"service_lost"},
   PairTimedOut |-> {"timed_out"}, Timeout |-> {"round_timed_out"},
   Cancelled |-> {"cancelled"}, PairFailed |-> Failure \ {"none"}]

(* The event with which a round ends is the strongest thing that happened  *)
(* to it, whatever befell its candidates and queries and in which order: a *)
(* lost service before the timeout of a pair before any failure, and none  *)
(* of them once one candidate paired.  The error is one of that event's,   *)
(* and the round is closed for no other reason.                            *)
AttributionIsRight ==
  /\ out.error \in ErrorsOf[out.event]
  /\ out.reason \in {"none", out.event}
  /\ pc = "close" =>
       /\ out.event = "ServiceLost" => round.service_lost_pending
       /\ out.event = "PairTimedOut" =>
            loop.pair_timed_out /\ ~round.service_lost_pending
       /\ out.event = "PairFailed" =>
            ~loop.pair_timed_out /\ ~round.service_lost_pending

(* A cancel is answered at the next look at the token: one adb command may *)
(* come to its end after it, a second one only in the precheck, in the     *)
(* last listing and in the look-up of the name, where nobody looks.        *)
CancelIsPrompt ==
  [][mode # "qr_cli" /\ late' > late /\ late' > 1 =>
       pc \in {"version", "mdns_check", "devices", "name"}]_vars

(* Row k of the result acc stands for device i of the listing l.           *)
Shows(l, acc, k, i) ==
  \/ acc[k] = i
  \/ l[i].identity # 0 /\ l[acc[k]].identity = l[i].identity

(* acc has its rows from the first n devices and one row for each of them. *)
OneRowEach(l, acc, n) ==
  /\ \A k \in DOMAIN acc : acc[k] \in 1..n
  /\ \A i \in 1..n : \E k \in DOMAIN acc :
       /\ \A m \in DOMAIN acc : Shows(l, acc, m, i) <=> m = k
       /\ l[i].wireless => l[acc[k]].wireless

(* The last listing shows every device once: one row for each known        *)
(* identity, the wireless one if there is one, and every device whose      *)
(* identity could not be read; when the attempt succeeds it has gone       *)
(* through all of them.                                                    *)
EachDeviceOnce ==
  /\ OneRowEach(listing, visible, seen)
  /\ result = "ok" => seen = Len(listing)

(* An attempt ends, however adb answers and whatever its processes do, if  *)
(* it is cancelled or time goes on.                                        *)
AttemptEnds ==
  ([]<>(interrupted \/ deadline \/ pc = "done")) => <>(pc = "done")

-----------------------------------------------------------------------------
(* What the proofs need besides.                                           *)
InLoop == {"top", "query", "spawn", "poll"}

(* The loop's locals, RoundState and the Vec agree: the service counts as  *)
(* lost in both or in neither, a round with an endpoint tried goes on only *)
(* with a process in flight, and one that ended in a failure has none.     *)
LoopIsTracked ==
  /\ pc \in InLoop \cup {"close"} =>
       ~round.closed /\ round.service_lost_pending = loop.service_lost
  /\ pc \notin InLoop \cup {"close"} => loop = NoLoop /\ pairs = <<>>
  /\ pc \in {"top", "query", "spawn"} =>
       /\ round.pair_in_flight = (pairs # <<>>)
       /\ loop.spawned # {} \/ loop.failure # "none" => pairs # <<>>
  /\ pc = "poll" =>
       /\ pairs # <<>> => round.pair_in_flight
       /\ loop.spawned # {} => pairs # <<>> \/ loop.failure # "none"
       /\ loop.index <= Len(pairs) + 1
  /\ ToSet(pairs) \subseteq loop.spawned
  /\ pc = "spawn" => loop.todo \cap loop.spawned = {} /\ loop.index = 1
  /\ loop.pair_timed_out => loop.failure # "none"

(* The round is closed once, the event is set when it is left.             *)
RoundIsTracked ==
  /\ round.id = IF round.closed THEN 2 ELSE 1
  /\ pc \in {"pair", "version", "mdns_check", "qr"} =>
       ~round.closed /\ ~round.pair_in_flight /\ ~round.service_lost_pending
  /\ pc \in InLoop \cup {"pair", "version", "mdns_check", "qr"} =>
       out = NoOut /\ ~waited
  /\ pc = "close" =>
       /\ out.event # "none" /\ out.reason = "none" /\ ~waited
       /\ out.event \in {"ServiceLost", "PairTimedOut", "PairFailed"} => pairs = <<>>
  /\ pc \in {"fallback", "connect"} => waited
  /\ pc # "done" => result = "none"
  /\ pc \notin {"dedup", "name", "done"} => listing = <<>> /\ visible = <<>> /\ seen = 0
  /\ pc = "name" => seen = Len(listing)

(* How many commands can have ended since the interrupt, at each of the    *)
(* worker's steps.                                                         *)
LateFits ==
  /\ ~interrupted => late = 0
  /\ pc \in {"pair", "version", "query", "list"} => late = 0
  /\ pc \in {"mdns_check", "spawn", "poll", "devices", "fallback"} => late <= 1
  /\ pc \in {"qr", "top", "close", "connect"} => late <= 2
  /\ pc = "close" /\ out.event = "PairSucceeded" => late <= 1
  /\ pc = "wait" => late <= IF waited THEN 3 ELSE 1
  /\ pc \in {"fallback", "connect"} /\ mode # "qr_cli" => late = 0
  /\ pc \in {"dedup", "name"} => late <= MaxDevices + 2

RoundInv ==
  /\ TypeOK /\ ChildrenAreHeld /\ EndIsClean /\ AttributionIsRight /\ EachDeviceOnce
  /\ LoopIsTracked /\ RoundIsTracked /\ LateFits

(* The comment on PAIRING_SHUTDOWN_DEADLINE: a worker being cancelled may  *)
(* be inside one adb command of 10 s, so 13 s are enough to wait for it.   *)
CancelFitsTheBudget ==
  mode # "qr_cli" => late * CommandTimeout <= ShutdownDeadline
=============================================================================
