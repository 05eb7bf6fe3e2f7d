------------------------------ MODULE MjpegProxy ------------------------------
(***************************************************************************)
(* The MJPEG proxy of one iOS session                                      *)
(* (crates/quadcontrol-ios/src/mjpeg.rs).                                  *)
(*                                                                         *)
(* One pump thread reads frames from the device and publishes them to a    *)
(* slot that holds only the latest one; one accept thread starts a writer  *)
(* thread per downstream connection; the owner (the session's supervisor)  *)
(* calls Proxy::stop.  Connections come, send their request, read slowly   *)
(* or not at all, and go as they like.                                     *)
(*                                                                         *)
(* A step is what a thread does between two points where another thread    *)
(* can get in: a lock taken and released, an atomic access, a blocking     *)
(* call returning.                                                         *)
(***************************************************************************)
EXTENDS Naturals, FiniteSets

CONSTANTS
  Downstream, \* connections to the proxy's port, by id
  MaxFrames   \* bound: frames the upstream delivers

ASSUME ProxyAssumption == IsFiniteSet(Downstream) /\ MaxFrames \in Nat

VARIABLES
  pump,       \* pump_upstream: where the thread is
  upstream,   \* the socket to the device: "open" or "shut" by stop()
  cause,      \* history: how the pump ended, "none", "eof" or "error"
  failure,    \* Proxy.failure is Some
  stopping,   \* Slot.stopping
  seq,        \* SlotState.seq
  consumed,   \* SlotState.consumed
  drops,      \* Slot.drops
  acceptor,   \* serve_downstream: where the thread is
  held,       \* connections accepted and not yet registered
  registered, \* Proxy.sockets, by id
  lock,       \* stop() holds the sockets mutex
  writer,     \* per connection: its place in backlog, thread and exit
  writers,    \* Slot.writers
  last,       \* per connection: last_seq of its writer
  socket,     \* per connection: "open" or "shut" by this side
  requested,  \* the peers that sent their whole request
  closed,     \* the peers that closed their end
  owner,      \* where the thread that calls stop() is
  taken       \* history: numbers of the frames some writer took

slotVars == <<seq, consumed, drops, taken>>
pumpVars == <<pump, upstream, cause, failure>>
acceptVars == <<acceptor, held>>
connVars == <<writer, writers, last, socket, registered>>
peerVars == <<requested, closed>>
vars == <<pumpVars, stopping, slotVars, acceptVars, lock, connVars, peerVars,
          owner>>

-----------------------------------------------------------------------------
(* start: upstream connected, both threads spawned.                        *)
Init ==
  /\ pump = "open" /\ upstream = "open" /\ cause = "none" /\ failure = FALSE
  /\ stopping = FALSE
  /\ seq = 0 /\ consumed = FALSE /\ drops = 0 /\ taken = {}
  /\ acceptor = "check" /\ held = {}
  /\ registered = {} /\ lock = FALSE
  /\ writer = [d \in Downstream |-> "none"]
  /\ writers = 0
  /\ last = [d \in Downstream |-> 0]
  /\ socket = [d \in Downstream |-> "open"]
  /\ requested = {} /\ closed = {}
  /\ owner = "idle"

-----------------------------------------------------------------------------
(* Seeded fault: an error ends the pump without being recorded.            *)
PumpFailsSilently ==
  /\ failure' = failure
  /\ cause' = "error"
  /\ pump' = "raise"
  /\ UNCHANGED <<upstream, slotVars>>

(* The pump.  An error is recorded before the flag is raised.              *)
PumpFails ==
  /\ failure' = TRUE
  /\ cause' = "error"
  /\ pump' = "raise"
  /\ UNCHANGED <<upstream, slotVars>>

(* Request and response header: from here on only errors end the stream.   *)
PumpOpen ==
  /\ pump = "open"
  /\ \/ /\ pump' = "check"
        /\ UNCHANGED <<upstream, cause, failure, slotVars>>
     \/ PumpFails
  /\ UNCHANGED <<stopping, acceptVars, lock, connVars, peerVars, owner>>

PumpCheck ==
  /\ pump = "check"
  /\ pump' = IF stopping THEN "exited" ELSE "read"
  /\ UNCHANGED <<upstream, cause, failure, stopping, slotVars, acceptVars,
                 lock, connVars, peerVars, owner>>

(* Slot::publish, under the frame mutex: a frame nobody took is a drop if  *)
(* somebody was there to take it.                                          *)
Publish ==
  /\ seq < MaxFrames
  /\ drops' = IF seq > 0 /\ ~consumed /\ writers > 0 THEN drops + 1 ELSE drops
  /\ seq' = seq + 1
  /\ consumed' = FALSE
  /\ pump' = "check"
  /\ UNCHANGED <<upstream, cause, failure, taken>>

PumpRead ==
  /\ pump = "read"
  /\ \/ Publish
     \/ /\ cause' = "eof"
        /\ pump' = "raise"
        /\ UNCHANGED <<upstream, failure, slotVars>>
     \/ PumpFails
  /\ UNCHANGED <<stopping, acceptVars, lock, connVars, peerVars, owner>>

PumpRaise ==
  /\ pump = "raise"
  /\ stopping' = TRUE
  /\ pump' = "exited"
  /\ UNCHANGED <<upstream, cause, failure, slotVars, acceptVars, lock,
                 connVars, peerVars, owner>>

Pump == PumpOpen \/ PumpCheck \/ PumpRead \/ PumpRaise

-----------------------------------------------------------------------------
(* The accept loop.  When it returns the listener is dropped, which resets *)
(* the connections nobody accepted.                                        *)
AcceptorReturns ==
  /\ acceptor' = "exited"
  /\ writer' = [d \in Downstream |->
                  IF writer[d] = "queued" THEN "gone" ELSE writer[d]]
  /\ socket' = [d \in Downstream |->
                  IF writer[d] = "queued" THEN "shut" ELSE socket[d]]
  /\ UNCHANGED <<held, writers, last, registered>>

AcceptCheck ==
  /\ acceptor = "check"
  /\ IF stopping THEN AcceptorReturns
     ELSE acceptor' = "accept" /\ UNCHANGED <<held, connVars>>
  /\ UNCHANGED <<pumpVars, stopping, slotVars, lock, peerVars, owner>>

(* accept(): a connection, nobody there, or an error that ends the loop.   *)
Accept ==
  /\ acceptor = "accept"
  /\ \/ \E d \in Downstream :
          /\ writer[d] = "queued"
          /\ \/ /\ writer' = [writer EXCEPT ![d] = "accepted"]
                /\ held' = {d}
                /\ acceptor' = "register"
                /\ UNCHANGED socket
             \/ /\ writer' = [writer EXCEPT ![d] = "gone"]
                /\ socket' = [socket EXCEPT ![d] = "shut"]
                /\ acceptor' = "check"
                /\ UNCHANGED held
          /\ UNCHANGED <<writers, last, registered>>
     \/ /\ \A d \in Downstream : writer[d] # "queued"
        /\ acceptor' = "check"
        /\ UNCHANGED <<held, connVars>>
     \/ AcceptorReturns
  /\ UNCHANGED <<pumpVars, stopping, slotVars, lock, peerVars, owner>>

(* Seeded fault: the newest connection wins, as it once did.               *)
AcceptRegisterEvicts ==
  /\ acceptor = "register"
  /\ ~lock
  /\ registered' = registered \cup held
  /\ writer' = [d \in Downstream |->
                  IF d \in held THEN "starting" ELSE writer[d]]
  /\ socket' = [d \in Downstream |->
                  IF d \in registered THEN "shut" ELSE socket[d]]
  /\ held' = {}
  /\ acceptor' = "check"
  /\ UNCHANGED <<pumpVars, stopping, slotVars, lock, writers, last,
                 peerVars, owner>>

(* Into the sockets vector, then a writer thread of its own.               *)
AcceptRegister ==
  /\ acceptor = "register"
  /\ ~lock
  /\ registered' = registered \cup held
  /\ writer' = [d \in Downstream |->
                  IF d \in held THEN "starting" ELSE writer[d]]
  /\ held' = {}
  /\ acceptor' = "check"
  /\ UNCHANGED <<pumpVars, stopping, slotVars, lock, writers, last, socket,
                 peerVars, owner>>

Acceptor == AcceptCheck \/ Accept \/ AcceptRegister

-----------------------------------------------------------------------------
(* A writer thread, write_downstream.                                      *)
WriterGoes(d, from, to) ==
  /\ writer[d] = from
  /\ writer' = [writer EXCEPT ![d] = to]
  /\ UNCHANGED <<pumpVars, stopping, acceptVars, lock, registered, peerVars,
                 owner>>

(* Seeded fault: an early return misses the fetch_sub.                     *)
WriterLeavesUncounted(d, from) ==
  /\ WriterGoes(d, from, "forget")
  /\ socket' = [socket EXCEPT ![d] = "shut"]
  /\ UNCHANGED <<slotVars, writers, last>>

(* Seeded fault: an early return does not shut the connection.             *)
WriterLeavesOpen(d, from) ==
  /\ WriterGoes(d, from, "leave")
  /\ UNCHANGED <<slotVars, writers, last, socket>>

(* Every return shuts the connection before the guard runs.                *)
WriterLeaves(d, from) ==
  /\ WriterGoes(d, from, "leave")
  /\ socket' = [socket EXCEPT ![d] = "shut"]
  /\ UNCHANGED <<slotVars, writers, last>>

WriterStart(d) ==
  /\ WriterGoes(d, "starting", "request")
  /\ writers' = writers + 1
  /\ UNCHANGED <<slotVars, last, socket>>

(* Reading the request blocks until the peer sent it, or either side shut  *)
(* (an error of the read itself is WriterErrs).                            *)
WriterRequest(d) ==
  \/ /\ d \in requested
     /\ WriterGoes(d, "request", "head")
     /\ UNCHANGED <<slotVars, writers, last, socket>>
  \/ /\ socket[d] = "shut" \/ d \in closed
     /\ WriterLeaves(d, "request")

WriterHead(d) ==
  \/ /\ socket[d] = "open"
     /\ WriterGoes(d, "head", "next")
     /\ UNCHANGED <<slotVars, writers, last, socket>>
  \/ /\ socket[d] = "shut" \/ d \in closed
     /\ WriterLeaves(d, "head")

(* Seeded fault: taking a frame does not mark it consumed.                 *)
WriterNextUnmarked(d) ==
  \/ /\ ~stopping /\ seq > last[d]
     /\ WriterGoes(d, "next", "write")
     /\ last' = [last EXCEPT ![d] = seq]
     /\ consumed' = consumed
     /\ taken' = taken \cup {seq}
     /\ UNCHANGED <<seq, drops, writers, socket>>
  \/ /\ stopping
     /\ WriterLeaves(d, "next")

(* Slot::next_frame, under the frame mutex: the stop flag comes first.     *)
WriterNext(d) ==
  \/ /\ ~stopping /\ seq > last[d]
     /\ WriterGoes(d, "next", "write")
     /\ last' = [last EXCEPT ![d] = seq]
     /\ consumed' = TRUE
     /\ taken' = taken \cup {seq}
     /\ UNCHANGED <<seq, drops, writers, socket>>
  \/ /\ stopping
     /\ WriterLeaves(d, "next")

(* A write completes when the peer reads (never, if it does not), and      *)
(* fails once either side has shut the connection.                         *)
WriterWrite(d) ==
  /\ socket[d] = "open"
  /\ WriterGoes(d, "write", "next")
  /\ UNCHANGED <<slotVars, writers, last, socket>>

WriterFails(d) ==
  /\ socket[d] = "shut" \/ d \in closed
  /\ WriterLeaves(d, "write")

(* WriterGuard::drop: the counter, then the vector under its mutex.        *)
GuardCount(d) ==
  /\ WriterGoes(d, "leave", "forget")
  /\ writers' = writers - 1
  /\ UNCHANGED <<slotVars, last, socket>>

(* Seeded fault: a writer that ends stays in the sockets vector.           *)
GuardForgetKeeps(d) ==
  /\ writer[d] = "forget"
  /\ ~lock
  /\ writer' = [writer EXCEPT ![d] = "gone"]
  /\ registered' = registered
  /\ UNCHANGED <<pumpVars, stopping, slotVars, acceptVars, lock, writers, last,
                 socket, peerVars, owner>>

GuardForget(d) ==
  /\ writer[d] = "forget"
  /\ ~lock
  /\ writer' = [writer EXCEPT ![d] = "gone"]
  /\ registered' = registered \ {d}
  /\ UNCHANGED <<pumpVars, stopping, slotVars, acceptVars, lock, writers, last,
                 socket, peerVars, owner>>

WriterGuard(d) == GuardCount(d) \/ GuardForget(d)

(* The connection's own input or output fails though both ends are still   *)
(* there: no second handle for it, a request that is not text, an error of *)
(* a read or a write.                                                      *)
WriterErrs(d) == \E from \in {"request", "head", "write"} : WriterLeaves(d, from)

(* What a writer does without its peer's help, errors aside.               *)
WriterOwn(d) ==
  \/ WriterStart(d) \/ WriterRequest(d) \/ WriterHead(d) \/ WriterNext(d)
  \/ WriterFails(d) \/ WriterGuard(d)

WriterThread(d) == WriterOwn(d) \/ WriterWrite(d) \/ WriterErrs(d)

-----------------------------------------------------------------------------
(* Proxy::stop, in the supervisor's thread.                                *)
StopFlag ==
  /\ owner = "idle"
  /\ stopping' = TRUE
  /\ owner' = "upstream"
  /\ UNCHANGED <<pumpVars, slotVars, acceptVars, lock, connVars, peerVars>>

StopUpstream ==
  /\ owner = "upstream"
  /\ upstream' = "shut"
  /\ owner' = "lock"
  /\ UNCHANGED <<pump, cause, failure, stopping, slotVars, acceptVars, lock,
                 connVars, peerVars>>

StopLock ==
  /\ owner = "lock"
  /\ lock' = TRUE
  /\ owner' = "sockets"
  /\ UNCHANGED <<pumpVars, stopping, slotVars, acceptVars, connVars, peerVars>>

(* Seeded fault: the mutex is held over the joins.                         *)
StopSocketsLocked ==
  /\ owner = "sockets"
  /\ socket' = [d \in Downstream |->
                  IF d \in registered THEN "shut" ELSE socket[d]]
  /\ lock' = TRUE
  /\ owner' = "join_pump"
  /\ UNCHANGED <<pumpVars, stopping, slotVars, acceptVars, writer, writers,
                 last, registered, peerVars>>

(* Seeded fault: stop() does not shut the downstream connections.          *)
StopSocketsSkipped ==
  /\ owner = "sockets"
  /\ socket' = [d \in Downstream |->
                  socket[d]]
  /\ lock' = FALSE
  /\ owner' = "join_pump"
  /\ UNCHANGED <<pumpVars, stopping, slotVars, acceptVars, writer, writers,
                 last, registered, peerVars>>

(* Shut what is registered now; the mutex goes before any join.            *)
StopSockets ==
  /\ owner = "sockets"
  /\ socket' = [d \in Downstream |->
                  IF d \in registered THEN "shut" ELSE socket[d]]
  /\ lock' = FALSE
  /\ owner' = "join_pump"
  /\ UNCHANGED <<pumpVars, stopping, slotVars, acceptVars, writer, writers,
                 last, registered, peerVars>>

(* Joins have no timeout; JOIN_BUDGET only decides about the second one.   *)
StopJoin ==
  /\ \/ owner = "join_pump" /\ pump = "exited"
        /\ owner' \in {"join_acceptor", "stopped"}
     \/ owner = "join_acceptor" /\ acceptor = "exited" /\ owner' = "stopped"
  /\ UNCHANGED <<pumpVars, stopping, slotVars, acceptVars, lock, connVars,
                 peerVars>>

Stop == StopFlag \/ StopUpstream \/ StopLock \/ StopSockets \/ StopJoin

-----------------------------------------------------------------------------
(* The peers: WebKit's <img>, a probe, anything that connects.             *)
PeerConnects(d) ==
  /\ writer[d] = "none" /\ acceptor # "exited"
  /\ writer' = [writer EXCEPT ![d] = "queued"]
  /\ UNCHANGED <<pumpVars, stopping, slotVars, acceptVars, lock, writers, last,
                 socket, registered, peerVars, owner>>

PeerActs(d) ==
  /\ writer[d] \notin {"none", "gone"} /\ d \notin closed
  /\ \/ requested' = requested \cup {d} /\ UNCHANGED closed
     \/ closed' = closed \cup {d} /\ UNCHANGED requested
  /\ UNCHANGED <<pumpVars, stopping, slotVars, acceptVars, lock, connVars,
                 owner>>

Next ==
  \/ Pump \/ Acceptor \/ Stop
  \/ \E d \in Downstream :
       WriterThread(d) \/ PeerConnects(d) \/ PeerActs(d)

Spec == Init /\ [][Next]_vars

(* Threads run.  A read from a live upstream or a write to a live peer may *)
(* block for good; with the socket shut it returns, and nothing relies on  *)
(* an error to get it out (WriterErrs is not fair).  Whether and when the  *)
(* owner calls stop is its own affair, but a stop() that began goes on.    *)
Fairness ==
  /\ WF_vars(PumpCheck) /\ WF_vars(PumpRaise)
  /\ WF_vars(upstream = "shut" /\ Pump)
  /\ WF_vars(Acceptor)
  /\ \A d \in Downstream : WF_vars(WriterOwn(d))
  /\ WF_vars(owner # "idle" /\ Stop)

FairSpec == Spec /\ Fairness

-----------------------------------------------------------------------------
(* Threads between fetch_add and the guard's fetch_sub.                    *)
Active == {d \in Downstream :
             writer[d] \in {"request", "head", "next", "write", "leave"}}

(* The shape of the state (mjpeg.rs:85-104, 179-191).                      *)
TypeOK ==
  /\ pump \in {"open", "check", "read", "raise", "exited"}
  /\ upstream \in {"open", "shut"}
  /\ cause \in {"none", "eof", "error"}
  /\ failure \in BOOLEAN /\ stopping \in BOOLEAN /\ lock \in BOOLEAN
  /\ seq \in 0..MaxFrames /\ drops \in 0..MaxFrames
  /\ consumed \in BOOLEAN /\ taken \subseteq 1..MaxFrames
  /\ acceptor \in {"check", "accept", "register", "exited"}
  /\ held \subseteq Downstream /\ registered \subseteq Downstream
  /\ writer \in [Downstream -> {"none", "queued", "accepted", "starting",
                               "request", "head", "next", "write", "leave",
                               "forget", "gone"}]
  /\ writers \in 0..Cardinality(Downstream)
  /\ last \in [Downstream -> 0..MaxFrames]
  /\ socket \in [Downstream -> {"open", "shut"}]
  /\ requested \subseteq Downstream /\ closed \subseteq Downstream
  /\ owner \in {"idle", "upstream", "lock", "sockets", "join_pump",
                "join_acceptor", "stopped"}

(* A drop is charged only for a frame no writer ever took, at most once    *)
(* per frame, never for the latest (publish, mjpeg.rs:124-142, and the     *)
(* definition of backpressure_drops, 77-80).                               *)
DropsWereNotSeen == drops <= Cardinality((1..(seq - 1)) \ taken)

(* `writers` decides whether a drop is charged: it counts exactly the      *)
(* threads between their start and their end (106-121, 576-577).           *)
WritersAreCounted == writers = Cardinality(Active)

(* The sockets vector does not grow with reconnects and misses no running  *)
(* writer: what stop() must reach is there, nothing else (187-190).        *)
RegistryIsExact ==
  registered = {d \in Downstream : writer[d] \in {"starting", "forget"}}
               \cup Active

(* Once the pump ended the proxy by itself, failure() is final: it says    *)
(* error exactly when there was one (is_alive's comment, 272-277).         *)
FailureBeforeFlag ==
  (stopping /\ owner = "idle") => (failure <=> cause = "error")

(* A connection whose thread is gone was shut: no picture that stays open  *)
(* and never moves (write_downstream, 556-561).                            *)
GoneMeansShut ==
  \A d \in Downstream : writer[d] \in {"forget", "gone"} => socket[d] = "shut"

(* What makes it so, inductively: a connection is in nobody's hands but    *)
(* the acceptor's until it is registered; a writer shuts its connection    *)
(* before its guard runs (604-607); only a pump that ended has a cause,    *)
(* and an error is recorded with it (396-405); stop() raises the flag      *)
(* first (303); a frame taken from the slot is marked consumed (160-163).  *)
ThreadsAgree ==
  /\ \A d \in held : writer[d] = "accepted"
  /\ \A d \in Downstream : writer[d] = "leave" => socket[d] = "shut"
  /\ failure <=> cause = "error"
  /\ pump \in {"open", "check", "read"} => cause = "none"
  /\ owner # "idle" => stopping
  /\ taken \subseteq 1..seq
  /\ seq \in taken => consumed

(* What the threads keep in common is exact at every step: the counter,    *)
(* the vector that stop() goes through, the connection of a thread that    *)
(* ended and the error of a pump that ended.                               *)
ProxyInv ==
  /\ TypeOK /\ WritersAreCounted /\ RegistryIsExact
  /\ FailureBeforeFlag /\ GoneMeansShut /\ ThreadsAgree

(* Nobody is evicted (contract, 15-24): while the proxy is up a connection *)
(* that was accepted is shut by its own writer only, at a point where that *)
(* writer does input or output of its own, and that takes no other         *)
(* connection along.  One that starts or waits for a frame is never shut,  *)
(* whoever else connects, fails or leaves.  What nobody accepted yet is    *)
(* reset by a failed set-up of it or by the end of the accept loop.        *)
NoEviction ==
  [][\A d \in Downstream :
       socket[d] = "open" /\ socket'[d] = "shut"
         => \/ stopping \/ writer[d] = "queued"
            \/ /\ writer[d] \in {"request", "head", "write"}
               /\ writer'[d] = "leave"
               /\ \A e \in Downstream \ {d} : socket'[e] = socket[e]]_vars

(* stop() returns: the pump blocked in a read is woken, the accept thread  *)
(* is not waiting for a mutex its joiner holds (292-325, scope comment     *)
(* 296-297).                                                               *)
StopReturns == (owner # "idle") ~> (owner = "stopped")

(* After stop(), every writer whose peer sent its request or closed ends,  *)
(* also one that was writing to a peer that does not read (23-24).         *)
StopReleasesWriters ==
  \A d \in Downstream :
    (owner = "stopped" /\ d \in requested \cup closed)
      ~> writer[d] \in {"none", "gone"}
=============================================================================
