----------------------------- MODULE IosSession -----------------------------
(***************************************************************************)
(* The supervisor thread of one iOS session                                *)
(* (crates/quadcontrol-ios/src/session.rs).                                *)
(*                                                                         *)
(* One thread owns every child process.  It starts them in order (tunnel,  *)
(* runwda, two port forwards), waits for WebDriverAgent, opens a WDA       *)
(* session, starts the MJPEG proxy, publishes a client and the status      *)
(* Running, watches everything until something ends, and runs one exit     *)
(* sequence whatever the reason.  Around it, at any time: a child dies,    *)
(* the MJPEG upstream ends or fails, the holder of the handle asks to stop.*)
(*                                                                         *)
(* An HTTP call, a spawn or a bounded wait is one step whose result is     *)
(* chosen freely; two reads the code does one after the other are two      *)
(* steps, since the world may change between them.                         *)
(***************************************************************************)
EXTENDS Naturals, FiniteSets

CONSTANTS
  FORWARD_PORT_ATTEMPTS, \* local ports spawn_forward tries
  PollBudget,            \* rounds a wait loop polls before its deadline
  MaxStops               \* bound: stop requests the holder makes

ASSUME ConstantsAssumption ==
  /\ FORWARD_PORT_ATTEMPTS \in Nat \ {0}
  /\ PollBudget \in Nat
  /\ MaxStops \in Nat

VARIABLES
  mode,     \* LaunchMode: "attach" to running forwards or "launch" all
  pc,       \* where the supervisor thread is
  status,   \* Shared.status, what the handle shows
  outcome,  \* what start_session returned: [kind, why]
  child,    \* per ChildKind: "absent", "live", "dead" (exited), "reaped"
  owned,    \* the kinds in the supervisor's `children` vector
  attempts, \* forwards tried so far in the current spawn_forward
  polls,    \* rounds left in the current wait loop
  wda,      \* the session on the device: "none", "open", "configured", "deleted"
  client,   \* Shared.client is Some
  proxy,    \* the supervisor holds a Proxy
  failure,  \* Proxy.failure is Some
  stopping, \* Slot.stopping, the negation of Proxy::is_alive
  stops,    \* stop commands sent so far
  done      \* the message on done_tx was sent

supVars == <<mode, pc, status, outcome, child, owned, attempts, polls, wda,
             client, proxy, done>>
pumpVars == <<failure, stopping>>
vars == <<supVars, pumpVars, stops>>

ChildKind == {"tunnel", "runwda", "fwd_http", "fwd_mjpeg"}

(* Position in the children vector: they are pushed in start order.        *)
Rank == [tunnel |-> 1, runwda |-> 2, fwd_http |-> 3, fwd_mjpeg |-> 4]

ErrorCode == {"ios_not_found", "tunnel_failed", "wda_not_installed",
              "wda_signature_expired", "wda_unreachable",
              "wda_session_failed", "forward_failed", "proxy_failed"}

ExitReason == {"requested", "child_exited", "upstream_closed"}

NoOutcome == [kind |-> "none", why |-> "none"]
Outcome == {NoOutcome}
           \cup [kind : {"exited"}, why : ExitReason]
           \cup [kind : {"failed"}, why : ErrorCode]

(* classify_child_failure: the stderr tail decides among runwda's codes.   *)
Classify(k) ==
  CASE k = "tunnel" -> {"tunnel_failed"}
    [] k = "runwda" -> {"wda_signature_expired", "wda_not_installed",
                        "wda_unreachable"}
    [] OTHER        -> {"forward_failed"}

(* Seeded fault: a runwda that cannot be spawned borrows the tunnel's      *)
(* code.                                                                   *)
SpawnErrorsBorrowed(k) ==
  {"ios_not_found"} \cup
  CASE k = "tunnel" -> {"tunnel_failed"}
    [] k = "runwda" -> {"tunnel_failed"}
    [] OTHER        -> {"forward_failed"}

(* The error a failed spawn of k is reported with (spawn_child's `wrap`);  *)
(* a missing binary has a code of its own.                                 *)
SpawnErrors(k) ==
  {"ios_not_found"} \cup
  CASE k = "tunnel" -> {"tunnel_failed"}
    [] k = "runwda" -> {"wda_unreachable"}
    [] OTHER        -> {"forward_failed"}

DeadOwned == {k \in owned : child[k] = "dead"}
FirstDead == CHOOSE k \in DeadOwned : \A j \in DeadOwned : Rank[k] <= Rank[j]

(* spawn_forward is called for 8100, then for 9100.                        *)
Forward == IF "fwd_http" \in owned THEN "fwd_mjpeg" ELSE "fwd_http"

-----------------------------------------------------------------------------
(* spawn_supervised: the checks that come before any process or thread.    *)
Init ==
  /\ mode \in {"attach", "launch"}
  /\ pc = "preflight"
  /\ status = "starting"
  /\ outcome = NoOutcome
  /\ child = [k \in ChildKind |-> "absent"]
  /\ owned = {}
  /\ attempts = 0
  /\ polls = PollBudget
  /\ wda = "none"
  /\ client = FALSE
  /\ proxy = FALSE
  /\ failure = FALSE
  /\ stopping = FALSE
  /\ stops = 0
  /\ done = FALSE

(* A refused precheck (version, tunnel port) returns Err and no handle.    *)
Preflight ==
  /\ pc = "preflight"
  /\ pc' \in IF mode = "launch" THEN {"spawn_tunnel", "rejected"}
             ELSE {"status_stop"}
  /\ UNCHANGED <<mode, status, outcome, child, owned, attempts, polls, wda,
                 client, proxy, done, pumpVars, stops>>

(* start_session returns Ok(reason) or Err(error): on to the exit sequence.*)
Return(kind, why) ==
  /\ outcome' = [kind |-> kind, why |-> why]
  /\ pc' = "sd_status"
  /\ UNCHANGED <<mode, status, child, owned, attempts, polls, wda, client,
                 proxy, done, pumpVars, stops>>

Goto(label) ==
  /\ pc' = label
  /\ UNCHANGED <<mode, status, outcome, child, owned, attempts, polls, wda,
                 client, proxy, done, pumpVars, stops>>

(* spawn_child for a child that is pushed at once.                         *)
SpawnOwned(at, k, next) ==
  /\ pc = at
  /\ \/ /\ child' = [child EXCEPT ![k] = "live"]
        /\ owned' = owned \cup {k}
        /\ polls' = PollBudget
        /\ pc' = next
        /\ UNCHANGED <<mode, status, outcome, attempts, wda, client, proxy,
                       done, pumpVars, stops>>
     \/ \E code \in SpawnErrors(k) : Return("failed", code)

SpawnTunnel == SpawnOwned("spawn_tunnel", "tunnel", "tunnel_stop")
SpawnRunWda == SpawnOwned("spawn_runwda", "runwda", "fwd_spawn")

(* await_tunnel and await_status share their shape: stop request, dead     *)
(* child, the poll itself, the deadline, sleep.                            *)
AwaitStop(at, next) ==
  /\ pc = at
  /\ IF stops > 0 THEN Return("exited", "requested") ELSE Goto(next)

AwaitChild(at, next) ==
  /\ pc = at
  /\ IF DeadOwned # {}
     THEN \E code \in Classify(FirstDead) : Return("failed", code)
     ELSE Goto(next)

AwaitPoll(at, again, ready, late) ==
  /\ pc = at
  /\ \/ Goto(ready)
     \/ IF polls = 0 THEN Return("failed", late)
        ELSE /\ polls' = polls - 1
             /\ pc' = again
             /\ UNCHANGED <<mode, status, outcome, child, owned, attempts,
                            wda, client, proxy, done, pumpVars, stops>>

AwaitTunnel ==
  \/ AwaitStop("tunnel_stop", "tunnel_child")
  \/ AwaitChild("tunnel_child", "tunnel_poll")
  \/ AwaitPoll("tunnel_poll", "tunnel_stop", "spawn_runwda", "tunnel_failed")

AwaitStatus ==
  \/ AwaitStop("status_stop", "status_child")
  \/ AwaitChild("status_child", "status_poll")
  \/ AwaitPoll("status_poll", "status_stop", "create", "wda_unreachable")

(* spawn_forward, one attempt: pick a port, spawn; the child is held in a  *)
(* local variable until it has settled.  Out of attempts or of ports: fail.*)
ForwardSpawn ==
  /\ pc = "fwd_spawn"
  /\ \/ /\ attempts < FORWARD_PORT_ATTEMPTS
        /\ child' = [child EXCEPT ![Forward] = "live"]
        /\ attempts' = attempts + 1
        /\ pc' = "fwd_settle"
        /\ UNCHANGED <<mode, status, outcome, owned, polls, wda, client,
                       proxy, done, pumpVars, stops>>
     \/ /\ attempts < FORWARD_PORT_ATTEMPTS
        /\ \E code \in SpawnErrors(Forward) : Return("failed", code)
     \/ /\ attempts = FORWARD_PORT_ATTEMPTS
        /\ Return("failed", "forward_failed")

(* Seeded fault: a forward that settled is not pushed to the vector.       *)
ForwardSettleForgets ==
  /\ pc = "fwd_settle"
  /\ \/ /\ owned' = owned
        /\ attempts' = 0
        /\ polls' = PollBudget
        /\ pc' = IF Forward = "fwd_http" THEN "fwd_spawn" ELSE "status_stop"
        /\ UNCHANGED child
        /\ UNCHANGED <<mode, status, outcome, wda, client, proxy, done,
                       pumpVars, stops>>
     \/ /\ child[Forward] = "dead"
        /\ child' = [child EXCEPT ![Forward] = "absent"]
        /\ \/ pc' = "fwd_spawn" /\ UNCHANGED outcome
           \/ /\ pc' = "sd_status"
              /\ \E code \in Classify(Forward) :
                   outcome' = [kind |-> "failed", why |-> code]
        /\ UNCHANGED <<mode, status, owned, attempts, polls, wda, client,
                       proxy, done, pumpVars, stops>>

(* Still running when the settle time is over: into the vector (it may     *)
(* die right after the last look).  Exited: reap it, then retry only when  *)
(* its stderr says the port was taken.                                     *)
ForwardSettle ==
  /\ pc = "fwd_settle"
  /\ \/ /\ owned' = owned \cup {Forward}
        /\ attempts' = 0
        /\ polls' = PollBudget
        /\ pc' = IF Forward = "fwd_http" THEN "fwd_spawn" ELSE "status_stop"
        /\ UNCHANGED child
        /\ UNCHANGED <<mode, status, outcome, wda, client, proxy, done,
                       pumpVars, stops>>
     \/ /\ child[Forward] = "dead"
        /\ child' = [child EXCEPT ![Forward] = "absent"]
        /\ \/ pc' = "fwd_spawn" /\ UNCHANGED outcome
           \/ /\ pc' = "sd_status"
              /\ \E code \in Classify(Forward) :
                   outcome' = [kind |-> "failed", why |-> code]
        /\ UNCHANGED <<mode, status, owned, attempts, polls, wda, client,
                       proxy, done, pumpVars, stops>>

(* client.create_session(): on an error the device may still have opened   *)
(* one (the answer was lost).                                              *)
CreateSession ==
  /\ pc = "create"
  /\ \/ /\ wda' = "open"
        /\ pc' = "configure"
        /\ UNCHANGED outcome
     \/ /\ wda' \in {"none", "open"}
        /\ outcome' = [kind |-> "failed", why |-> "wda_session_failed"]
        /\ pc' = "sd_status"
  /\ UNCHANGED <<mode, status, child, owned, attempts, polls, client, proxy,
                 done, pumpVars, stops>>

ConfigureMjpeg ==
  /\ pc = "configure"
  /\ \/ /\ wda' = "configured"
        /\ pc' = "proxy_start"
        /\ UNCHANGED outcome
     \/ /\ wda' \in {"open", "configured"}
        /\ outcome' = [kind |-> "failed", why |-> "wda_session_failed"]
        /\ pc' = "sd_status"
  /\ UNCHANGED <<mode, status, child, owned, attempts, polls, client, proxy,
                 done, pumpVars, stops>>

(* Seeded fault: the client is not published before Running.               *)
ProxyStartUnpublished ==
  /\ pc = "proxy_start"
  /\ \/ /\ proxy' = TRUE
        /\ pc' = "publish_running"
        /\ UNCHANGED <<mode, status, outcome, child, owned, attempts, polls,
                       wda, client, done, pumpVars, stops>>
     \/ Return("failed", "proxy_failed")

ProxyStart ==
  /\ pc = "proxy_start"
  /\ \/ /\ proxy' = TRUE
        /\ pc' = "publish_client"
        /\ UNCHANGED <<mode, status, outcome, child, owned, attempts, polls,
                       wda, client, done, pumpVars, stops>>
     \/ Return("failed", "proxy_failed")

PublishClient ==
  /\ pc = "publish_client"
  /\ client' = TRUE
  /\ pc' = "publish_running"
  /\ UNCHANGED <<mode, status, outcome, child, owned, attempts, polls, wda,
                 proxy, done, pumpVars, stops>>

PublishRunning ==
  /\ pc = "publish_running"
  /\ status' = "running"
  /\ pc' = "run_stop"
  /\ UNCHANGED <<mode, outcome, child, owned, attempts, polls, wda, client,
                 proxy, done, pumpVars, stops>>

(* Seeded fault: the channel is not read while running.                    *)
RunStopDeaf ==
  /\ pc = "run_stop"
  /\ Goto("run_failure")

(* run_until_stop: one round is four looks at the world, in this order.    *)
RunStop ==
  /\ pc = "run_stop"
  /\ IF stops > 0 THEN Return("exited", "requested") ELSE Goto("run_failure")

RunFailure ==
  /\ pc = "run_failure"
  /\ IF failure THEN Return("failed", "proxy_failed") ELSE Goto("run_alive")

(* Seeded fault: only failure() is looked at, not is_alive().              *)
RunAliveBlind ==
  /\ pc = "run_alive"
  /\ Goto("run_child")

RunAlive ==
  /\ pc = "run_alive"
  /\ IF stopping THEN Return("exited", "upstream_closed")
     ELSE Goto("run_child")

RunChild ==
  /\ pc = "run_child"
  /\ IF DeadOwned # {} THEN Return("exited", "child_exited")
     ELSE Goto("run_stop")

RunUntilStop == RunStop \/ RunFailure \/ RunAlive \/ RunChild

(* shutdown: one sequence for every ending.                                *)
ShutdownStatus ==
  /\ pc = "sd_status"
  /\ status' = "stopping"
  /\ pc' = "sd_proxy"
  /\ UNCHANGED <<mode, outcome, child, owned, attempts, polls, wda, client,
                 proxy, done, pumpVars, stops>>

(* Seeded fault: the ladder runs before the DELETE.                        *)
ShutdownProxyThenLadder ==
  /\ pc = "sd_proxy"
  /\ proxy' = FALSE
  /\ stopping' = (stopping \/ proxy)
  /\ pc' = "sd_ladder"
  /\ UNCHANGED <<mode, status, outcome, child, owned, attempts, polls, wda,
                 client, done, failure, stops>>

(* Proxy::stop raises the flag and joins the pump.                         *)
ShutdownProxy ==
  /\ pc = "sd_proxy"
  /\ proxy' = FALSE
  /\ stopping' = (stopping \/ proxy)
  /\ pc' = "sd_client"
  /\ UNCHANGED <<mode, status, outcome, child, owned, attempts, polls, wda,
                 client, done, failure, stops>>

(* client.take() and DELETE /session; its result is ignored.               *)
ShutdownClient ==
  /\ pc = "sd_client"
  /\ client' = FALSE
  /\ wda' \in IF client THEN {"deleted", wda} ELSE {wda}
  /\ pc' = "sd_ladder"
  /\ UNCHANGED <<mode, status, outcome, child, owned, attempts, polls, proxy,
                 done, pumpVars, stops>>

(* terminate_all and wait(): when it returns, every direct child is reaped.*)
ShutdownLadder ==
  /\ pc = "sd_ladder"
  /\ child' = [k \in ChildKind |->
                 IF k \in owned THEN "reaped" ELSE child[k]]
  /\ pc' = "sd_clear"
  /\ UNCHANGED <<mode, status, outcome, owned, attempts, polls, wda, client,
                 proxy, done, pumpVars, stops>>

(* Seeded fault: the vector keeps its reaped children.                     *)
ShutdownClearForgotten ==
  /\ pc = "sd_clear"
  /\ owned' = owned
  /\ pc' = "publish_end"
  /\ UNCHANGED <<mode, status, outcome, child, attempts, polls, wda, client,
                 proxy, done, pumpVars, stops>>

ShutdownClear ==
  /\ pc = "sd_clear"
  /\ owned' = {}
  /\ pc' = "publish_end"
  /\ UNCHANGED <<mode, status, outcome, child, attempts, polls, wda, client,
                 proxy, done, pumpVars, stops>>

Shutdown == \/ ShutdownStatus \/ ShutdownProxy \/ ShutdownClient
            \/ ShutdownLadder \/ ShutdownClear

(* supervise: the final status, then the completion message.               *)
PublishEnd ==
  /\ pc = "publish_end"
  /\ status' = outcome.kind
  /\ pc' = "send_done"
  /\ UNCHANGED <<mode, outcome, child, owned, attempts, polls, wda, client,
                 proxy, done, pumpVars, stops>>

SendDone ==
  /\ pc = "send_done"
  /\ done' = TRUE
  /\ pc' = "done"
  /\ UNCHANGED <<mode, status, outcome, child, owned, attempts, polls, wda,
                 client, proxy, pumpVars, stops>>

Supervisor ==
  \/ Preflight \/ SpawnTunnel \/ AwaitTunnel \/ SpawnRunWda
  \/ ForwardSpawn \/ ForwardSettle \/ AwaitStatus
  \/ CreateSession \/ ConfigureMjpeg \/ ProxyStart
  \/ PublishClient \/ PublishRunning \/ RunUntilStop
  \/ Shutdown \/ PublishEnd \/ SendDone

-----------------------------------------------------------------------------
(* A child ends on its own: a device unplugged, a lost port, a crash.      *)
ChildDies(k) ==
  /\ child[k] = "live"
  /\ child' = [child EXCEPT ![k] = "dead"]
  /\ UNCHANGED <<mode, pc, status, outcome, owned, attempts, polls, wda,
                 client, proxy, done, pumpVars, stops>>

(* pump_upstream: the end of the stream only raises the flag; an error     *)
(* writes the failure first and raises the flag in a second step.          *)
UpstreamEof ==
  /\ proxy /\ ~stopping /\ ~failure
  /\ stopping' = TRUE
  /\ UNCHANGED <<supVars, failure, stops>>

UpstreamFails ==
  /\ proxy /\ ~stopping /\ ~failure
  /\ failure' = TRUE
  /\ UNCHANGED <<supVars, stopping, stops>>

PumpStops ==
  /\ proxy /\ failure /\ ~stopping
  /\ stopping' = TRUE
  /\ UNCHANGED <<supVars, failure, stops>>

Pump == UpstreamEof \/ UpstreamFails \/ PumpStops

(* IosSessionHandle::request_stop: repeated and late requests are accepted.*)
RequestStop ==
  /\ pc \notin {"preflight", "rejected"}
  /\ stops < MaxStops
  /\ stops' = stops + 1
  /\ UNCHANGED <<supVars, pumpVars>>

(* The thread has returned, or never started.                              *)
Finished ==
  /\ pc \in {"done", "rejected"}
  /\ UNCHANGED vars

Next ==
  \/ Supervisor
  \/ \E k \in ChildKind : ChildDies(k)
  \/ Pump
  \/ RequestStop
  \/ Finished

Spec == Init /\ [][Next]_vars

(* The supervisor's calls are all bounded (HTTP timeouts, settle times,    *)
(* poll budgets, the ladder), and an awake pump thread reaches its flag.   *)
Fairness == WF_vars(Supervisor) /\ WF_vars(PumpStops)

FairSpec == Spec /\ Fairness

-----------------------------------------------------------------------------
Ended == {"exited", "failed"}

(* The shape of the state (session.rs:218-222, 287-293).                   *)
TypeOK ==
  /\ mode \in {"attach", "launch"}
  /\ pc \in {"preflight", "rejected", "spawn_tunnel", "tunnel_stop",
             "tunnel_child", "tunnel_poll", "spawn_runwda", "fwd_spawn",
             "fwd_settle", "status_stop", "status_child", "status_poll",
             "create", "configure", "proxy_start", "publish_client",
             "publish_running", "run_stop", "run_failure", "run_alive",
             "run_child", "sd_status", "sd_proxy", "sd_client", "sd_ladder",
             "sd_clear", "publish_end", "send_done", "done"}
  /\ status \in {"starting", "running", "stopping"} \cup Ended
  /\ outcome \in Outcome
  /\ child \in [ChildKind -> {"absent", "live", "dead", "reaped"}]
  /\ owned \in SUBSET ChildKind
  /\ attempts \in 0..FORWARD_PORT_ATTEMPTS
  /\ polls \in 0..PollBudget
  /\ wda \in {"none", "open", "configured", "deleted"}
  /\ client \in BOOLEAN /\ proxy \in BOOLEAN
  /\ failure \in BOOLEAN /\ stopping \in BOOLEAN
  /\ stops \in 0..MaxStops
  /\ done \in BOOLEAN

(* A session that shows a final status has given everything back: no child *)
(* runs or waits to be reaped, also none that was still on trial in        *)
(* spawn_forward, and neither proxy nor client is left (supervise,         *)
(* session.rs:375-405: every ending passes through shutdown first).        *)
NothingLeftBehind ==
  status \in Ended =>
    /\ owned = {}
    /\ \A k \in ChildKind : child[k] \notin {"live", "dead"}
    /\ ~proxy /\ ~client

(* Running is only ever shown for a session whose parts were all set up:   *)
(* proxy, published client, configured WDA session, four children of ours  *)
(* in launch mode and none in attach mode (start_session, 414-499).        *)
RunningIsComplete ==
  status = "running" =>
    /\ proxy /\ client /\ wda = "configured"
    /\ owned = IF mode = "launch" THEN ChildKind ELSE {}

(* The error a session ends with points at the part that failed, at the    *)
(* moment it is decided: a part is blamed where it was started or waited   *)
(* for, or because its process died, whoever else was being waited for     *)
(* (first_child_failure, 769-785, and 470-471 on the code a failed runwda  *)
(* spawn must not borrow).                                                 *)
BlameIsRight ==
  [][outcome' # outcome =>
       CASE outcome'.why = "tunnel_failed" ->
              pc \in {"spawn_tunnel", "tunnel_poll"} \/ child["tunnel"] = "dead"
         [] outcome'.why = "forward_failed" ->
              \/ pc \in {"fwd_spawn", "fwd_settle"}
              \/ "dead" \in {child["fwd_http"], child["fwd_mjpeg"]}
         [] outcome'.why = "wda_unreachable" ->
              pc \in {"spawn_runwda", "status_poll"} \/ child["runwda"] = "dead"
         [] outcome'.why \in {"wda_not_installed", "wda_signature_expired"} ->
              child["runwda"] = "dead"
         [] outcome'.why = "child_exited" -> DeadOwned # {}
         [] outcome'.why = "requested"    -> stops > 0
         [] OTHER -> TRUE]_vars

(* The picture goes first and the WDA session is given back before any     *)
(* child is signalled: the DELETE needs the forward that the ladder kills  *)
(* (exit sequence, session.rs:25-29 and 852-874).                          *)
OrderlyExit ==
  [][(\E k \in owned : child[k] # "reaped" /\ child'[k] = "reaped")
       => ~proxy /\ ~client /\ status = "stopping"]_vars

(* A stop request is never forgotten, whatever the supervisor was doing    *)
(* when it came (request_stop, session.rs:274-277).                        *)
StopEndsSession == (stops > 0) ~> done

(* A running session whose stream ended or whose child died does not stay  *)
(* up: run_until_stop notices on its own (session.rs:827-831, 834-846).    *)
LinkDeathEndsSession ==
  (status = "running" /\ (stopping \/ DeadOwned # {})) ~> done

(* Where the supervisor stands tells what exists: the strengthening that   *)
(* makes the properties above inductive (start_session to supervise,       *)
(* session.rs:375-499 and 852-903).                                        *)
WaitTunnel == {"tunnel_stop", "tunnel_child", "tunnel_poll", "spawn_runwda"}
SpawnForwards == {"fwd_spawn", "fwd_settle"}
WaitStatus == {"status_stop", "status_child", "status_poll"}
Connect == {"create", "configure", "proxy_start", "publish_client",
            "publish_running"}
Starting == {"preflight", "rejected", "spawn_tunnel"} \cup WaitTunnel
            \cup SpawnForwards \cup WaitStatus \cup Connect
Running == {"run_stop", "run_failure", "run_alive", "run_child"}
Stopping == {"sd_proxy", "sd_client", "sd_ladder", "sd_clear", "publish_end"}

Full == IF mode = "launch" THEN ChildKind ELSE {}

StatusFollowsPc ==
  /\ pc \in Starting => status = "starting"
  /\ pc \in Running => status = "running"
  /\ pc = "sd_status" => status \in {"starting", "running"}
  /\ pc \in Stopping => status = "stopping"
  /\ pc \in {"send_done", "done"} => status = outcome.kind
  /\ pc \in Starting \cup Running <=> outcome.kind = "none"
  /\ done => pc = "done"

OwnedFollowsPc ==
  /\ pc \in {"preflight", "rejected", "spawn_tunnel"} => owned = {}
  /\ pc \in WaitTunnel => owned = {"tunnel"}
  /\ pc \in SpawnForwards => owned \in {{"tunnel", "runwda"},
                                       {"tunnel", "runwda", "fwd_http"}}
  /\ pc \in WaitTunnel \cup SpawnForwards \cup {"spawn_tunnel"} =>
       mode = "launch"
  /\ pc \in WaitStatus \cup Connect \cup Running => owned = Full
  /\ pc \in {"publish_end", "send_done", "done"} => owned = {}

(* Every process is in the vector, but for the forward on trial.           *)
NoStrayChild ==
  \A k \in ChildKind : child[k] \in {"live", "dead"} =>
    /\ k \in owned \/ (pc = "fwd_settle" /\ k = Forward)
    /\ pc \notin {"sd_clear", "publish_end", "send_done", "done"}

PartsFollowPc ==
  /\ proxy => pc \in {"publish_client", "publish_running", "sd_status",
                     "sd_proxy"} \cup Running
  /\ client => pc \in {"publish_running", "sd_status", "sd_proxy",
                      "sd_client"} \cup Running
  /\ pc \in {"publish_client", "publish_running"} \cup Running => proxy
  /\ pc \in {"publish_running"} \cup Running => client
  /\ pc \in {"proxy_start", "publish_client", "publish_running"} \cup Running
       => wda = "configured"
  /\ pc = "sd_status" /\ status = "running" =>
       proxy /\ client /\ wda = "configured" /\ owned = Full

SupervisorInv ==
  TypeOK /\ StatusFollowsPc /\ OwnedFollowsPc /\ NoStrayChild /\ PartsFollowPc

(* What the supervisor holds, as the abstract session sees it.             *)
Held == {k \in ChildKind : child[k] \in {"live", "dead"}}
        \cup (IF proxy THEN {"proxy"} ELSE {})
        \cup (IF client THEN {"client"} ELSE {})

Lifecycle == INSTANCE SessionLifecycle
               WITH Resources <- ChildKind \cup {"proxy", "client"},
                    held <- Held

(* The supervisor implements the lifecycle its handle promises: statuses   *)
(* only move forward, Running comes with proxy and client, a final status  *)
(* and the completion message come after everything was given back.        *)
ImplementsLifecycle == Lifecycle!Spec
=============================================================================
