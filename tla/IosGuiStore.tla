------------------------------ MODULE IosGuiStore ------------------------------
(***************************************************************************)
(* The GUI's iOS session store and the commands that share it              *)
(* (crates/quadcontrol-gui/src-tauri/src/lib.rs).                          *)
(*                                                                         *)
(* Three mutexes, never nested but for the end of start: the slot, the     *)
(* derived data of the session (meta) and the UDID (device_id).  Commands  *)
(* run concurrently on the async runtime: starts, stops, status polls,     *)
(* the loads of application names they launch, and the exit of the GUI.    *)
(* A step is one critical section or one blocking call.                    *)
(*                                                                         *)
(* A session behind the slot is reduced to the status its handle shows     *)
(* (module SessionLifecycle); of meta, `window` stands for everything a    *)
(* poll brings from the phone, as the device it came from, and `installed` *)
(* for the names, as the device they were listed on.                       *)
(***************************************************************************)
EXTENDS Naturals, FiniteSets

CONSTANTS
  Device,      \* iPhones by UDID
  None,        \* no device: the None of the options
  Command,     \* start_ios_session calls that may be in flight at once
  Poll,        \* ios_session_status calls that may be in flight at once
  MaxSessions  \* bound: ids handed out

ASSUME StoreAssumption == None \notin Device /\ MaxSessions \in Nat

VARIABLES
  slot,      \* IosSessionStore.session: [kind, id]
  next_id,   \* IosSessionStore.next_id
  device_id, \* IosSessionStore.device_id
  meta,      \* IosSessionStore.meta
  start,     \* per start command: [pc, device, id]
  poll,      \* per status poll: [pc, seen, id, got]
  stop_pc,   \* the stop command in flight
  session,   \* per id: [status, device, stop], stop being StopCommand sent
  loads,     \* `ios apps --list` runs in flight: [id, device]
  asked,     \* history: ids a stop command was answered Ok for
  exit       \* reclaim_sessions: [pc, taken, late]

storeVars == <<slot, next_id, device_id, meta>>
vars == <<storeVars, start, poll, stop_pc, session, loads, asked, exit>>

Id == 1..MaxSessions
Idle == [pc |-> "idle", device |-> None, id |-> 0]
NoPoll == [pc |-> "idle", seen |-> "none", id |-> 0, got |-> None]
DefaultMeta == [session |-> 0, window |-> None, installed |-> None,
                requested |-> 0]

LiveStatus == {"starting", "running", "stopping"}
EndedStatus == {"exited", "failed"}

(* Seeded fault: the placeholder does not count as live.                   *)
SlotIsLiveNoPlaceholder ==
  \/ slot.kind = "handle" /\ session[slot.id].status \in LiveStatus

(* Seeded fault: a session that is stopping does not count as live.        *)
SlotIsLiveNotStopping ==
  \/ slot.kind = "starting"
  \/ slot.kind = "handle" /\ session[slot.id].status \in {"starting", "running"}

(* ios_slot_is_live.                                                       *)
SlotIsLive ==
  \/ slot.kind = "starting"
  \/ slot.kind = "handle" /\ session[slot.id].status \in LiveStatus

(* Once the process is gone nothing of it moves.                           *)
Up == exit.pc # "gone"

(* slot_status.                                                            *)
SlotStatus ==
  IF slot.kind = "handle" THEN session[slot.id].status ELSE slot.kind

-----------------------------------------------------------------------------
Init ==
  /\ slot = [kind |-> "none", id |-> 0]
  /\ next_id = 1
  /\ device_id = None
  /\ meta = DefaultMeta
  /\ start = [c \in Command |-> Idle]
  /\ poll = [p \in Poll |-> NoPoll]
  /\ stop_pc = "idle"
  /\ session = [i \in Id |->
                  [status |-> "none", device |-> None, stop |-> FALSE]]
  /\ loads = {}
  /\ asked = {}
  /\ exit = [pc |-> "none", taken |-> 0, late |-> FALSE]

-----------------------------------------------------------------------------
(* start_ios_session: the UDID is written before the slot is looked at.    *)
StartDevice(c) ==
  /\ start[c].pc = "idle"
  /\ \E d \in Device :
       /\ device_id' = d
       /\ start' = [start EXCEPT ![c].pc = "slot", ![c].device = d]
  /\ UNCHANGED <<slot, next_id, meta, poll, stop_pc, session, loads, asked,
                 exit>>

(* Refuse, or put the placeholder in and take an id.                       *)
StartSlot(c) ==
  /\ start[c].pc = "slot"
  /\ \/ /\ SlotIsLive
        /\ start' = [start EXCEPT ![c] = Idle]
        /\ UNCHANGED <<slot, next_id>>
     \/ /\ ~SlotIsLive /\ next_id \in Id
        /\ slot' = [kind |-> "starting", id |-> next_id]
        /\ next_id' = next_id + 1
        /\ start' = [start EXCEPT ![c].pc = "spawn", ![c].id = next_id]
  /\ UNCHANGED <<device_id, meta, poll, stop_pc, session, loads, asked,
                 exit>>

(* spawn_supervised, on the blocking pool: no lock is held.                *)
StartSpawn(c) ==
  /\ start[c].pc = "spawn"
  /\ \/ /\ session' = [session EXCEPT
                         ![start[c].id].status = "starting",
                         ![start[c].id].device = start[c].device]
        /\ start' = [start EXCEPT ![c].pc = "store"]
     \/ /\ start' = [start EXCEPT ![c].pc = "fail"]
        /\ UNCHANGED session
  /\ UNCHANGED <<storeVars, poll, stop_pc, loads, asked, exit>>

(* Seeded fault: an early return leaves the placeholder behind.            *)
StartFailKeeps(c) ==
  /\ start[c].pc = "fail"
  /\ slot' = slot
  /\ start' = [start EXCEPT ![c] = Idle]
  /\ UNCHANGED <<next_id, device_id, meta, poll, stop_pc, session, loads,
                 asked, exit>>

(* set_ios_slot overwrites whatever is there.                              *)
StartFail(c) ==
  /\ start[c].pc = "fail"
  /\ slot' = [kind |-> "failed", id |-> start[c].id]
  /\ start' = [start EXCEPT ![c] = Idle]
  /\ UNCHANGED <<next_id, device_id, meta, poll, stop_pc, session, loads,
                 asked, exit>>

(* The handle replaces the placeholder and meta starts afresh, unless      *)
(* another live handle got there: then the new session is stopped.         *)
StartStore(c) ==
  /\ start[c].pc = "store"
  /\ IF slot.kind = "handle" /\ SlotIsLive
     THEN /\ session' = [session EXCEPT ![start[c].id].stop = TRUE]
          /\ UNCHANGED <<slot, meta>>
     ELSE /\ slot' = [kind |-> "handle", id |-> start[c].id]
          /\ meta' = DefaultMeta
          /\ UNCHANGED session
  /\ start' = [start EXCEPT ![c] = Idle]
  /\ UNCHANGED <<next_id, device_id, poll, stop_pc, loads, asked, exit>>

Start(c) ==
  /\ Up
  /\ \/ StartDevice(c) \/ StartSlot(c) \/ StartSpawn(c) \/ StartFail(c)
     \/ StartStore(c)

-----------------------------------------------------------------------------
(* stop_ios_session: forget the UDID, then ask the handle to stop; on the  *)
(* placeholder it does nothing and still answers Ok.                       *)
StopDevice ==
  /\ stop_pc = "idle"
  /\ device_id' = None
  /\ stop_pc' = "slot"
  /\ UNCHANGED <<slot, next_id, meta, start, poll, session, loads, asked,
                 exit>>

StopSlot ==
  /\ stop_pc = "slot"
  /\ session' = IF slot.kind = "handle"
                THEN [session EXCEPT ![slot.id].stop = TRUE] ELSE session
  /\ asked' = IF slot.kind \in {"handle", "starting"}
              THEN asked \cup {slot.id} ELSE asked
  /\ stop_pc' = "idle"
  /\ UNCHANGED <<storeVars, start, poll, loads, exit>>

Stop == Up /\ (StopDevice \/ StopSlot)

-----------------------------------------------------------------------------
(* ios_session_status: everything after the snapshot works on the copy.    *)
PollSnapshot(p) ==
  /\ poll[p].pc = "idle"
  /\ slot.kind # "none"
  /\ poll' = [poll EXCEPT ![p] =
                [pc |-> IF SlotStatus = "running" THEN "claim" ELSE "reset",
                 seen |-> SlotStatus, id |-> slot.id, got |-> None]]
  /\ UNCHANGED <<storeVars, start, stop_pc, session, loads, asked, exit>>

(* Not running: meta is reset; an ended session loses its UDID as well.    *)
PollReset(p) ==
  /\ poll[p].pc = "reset"
  /\ meta' = DefaultMeta
  /\ poll' = IF poll[p].seen \in EndedStatus
             THEN [poll EXCEPT ![p].pc = "forget"]
             ELSE [poll EXCEPT ![p] = NoPoll]
  /\ UNCHANGED <<slot, next_id, device_id, start, stop_pc, session, loads,
                 asked, exit>>

(* Seeded fault: a poll that saw the end empties the slot.                 *)
PollForgetSlot(p) ==
  /\ poll[p].pc = "forget"
  /\ device_id' = None /\ slot' = [kind |-> "none", id |-> 0]
  /\ poll' = [poll EXCEPT ![p] = NoPoll]
  /\ UNCHANGED <<next_id, meta, start, stop_pc, session, loads, asked,
                 exit>>

PollForget(p) ==
  /\ poll[p].pc = "forget"
  /\ device_id' = None
  /\ poll' = [poll EXCEPT ![p] = NoPoll]
  /\ UNCHANGED <<slot, next_id, meta, start, stop_pc, session, loads, asked,
                 exit>>

PollClaim(p) ==
  /\ poll[p].pc = "claim"
  /\ meta' = [meta EXCEPT !.session = poll[p].id]
  /\ poll' = [poll EXCEPT ![p].pc = "query"]
  /\ UNCHANGED <<slot, next_id, device_id, start, stop_pc, session, loads,
                 asked, exit>>

(* Up to three WDA requests of up to 5 s each, on the snapshot's client.   *)
PollQuery(p) ==
  /\ poll[p].pc = "query"
  /\ \/ /\ session[poll[p].id].status \in LiveStatus
        /\ poll' = [poll EXCEPT ![p].pc = "write",
                                ![p].got = session[poll[p].id].device]
     \/ poll' = [poll EXCEPT ![p].pc = "device"]
  /\ UNCHANGED <<storeVars, start, stop_pc, session, loads, asked, exit>>

PollWrite(p) ==
  /\ poll[p].pc = "write"
  /\ meta' = [meta EXCEPT !.window = poll[p].got]
  /\ poll' = [poll EXCEPT ![p].pc = "device"]
  /\ UNCHANGED <<slot, next_id, device_id, start, stop_pc, session, loads,
                 asked, exit>>

(* spawn_installed_apps_load: the UDID, then the once-per-session gate.    *)
PollDevice(p) ==
  /\ poll[p].pc = "device"
  /\ poll' = IF device_id = None THEN [poll EXCEPT ![p] = NoPoll]
             ELSE [poll EXCEPT ![p].pc = "request", ![p].got = device_id]
  /\ UNCHANGED <<storeVars, start, stop_pc, session, loads, asked, exit>>

PollRequest(p) ==
  /\ poll[p].pc = "request"
  /\ IF meta.requested = poll[p].id THEN UNCHANGED <<meta, loads>>
     ELSE /\ meta' = [meta EXCEPT !.requested = poll[p].id]
          /\ loads' = loads \cup {[id |-> poll[p].id, device |-> poll[p].got]}
  /\ poll' = [poll EXCEPT ![p] = NoPoll]
  /\ UNCHANGED <<slot, next_id, device_id, start, stop_pc, session, asked,
                 exit>>

PollStep(p) ==
  /\ Up
  /\ \/ PollSnapshot(p) \/ PollReset(p) \/ PollForget(p) \/ PollClaim(p)
     \/ PollQuery(p) \/ PollWrite(p) \/ PollDevice(p) \/ PollRequest(p)

(* The listing comes back, is refused if meta belongs to another session,  *)
(* or failed.                                                              *)
LoadReturns ==
  Up /\ \E l \in loads :
    /\ loads' = loads \ {l}
    /\ meta' \in {meta} \cup (IF meta.session = l.id
                              THEN {[meta EXCEPT !.installed = l.device]}
                              ELSE {})
    /\ UNCHANGED <<slot, next_id, device_id, start, poll, stop_pc, session,
                   asked, exit>>

-----------------------------------------------------------------------------
(* A session's own life, as its handle shows it.                           *)
SessionMoves(i, from, to) ==
  /\ session[i].status = from
  /\ \E s \in to : session' = [session EXCEPT ![i].status = s]
  /\ UNCHANGED <<storeVars, start, poll, stop_pc, loads, asked, exit>>

SessionStarts(i) == SessionMoves(i, "starting", {"running", "stopping"})
SessionEnds(i) == SessionMoves(i, "stopping", EndedStatus)
SessionStops(i) == session[i].stop /\ SessionMoves(i, "running", {"stopping"})
SessionBreaks(i) == SessionMoves(i, "running", {"stopping"})

Session(i) ==
  Up /\ (SessionStarts(i) \/ SessionEnds(i) \/ SessionStops(i)
         \/ SessionBreaks(i))

(* reclaim_sessions and the exit of the process.  shutdown_all sends the   *)
(* stop and waits up to the budget; the placeholder is taken and dropped.  *)
ExitTake ==
  /\ exit.pc = "none"
  /\ exit' = [exit EXCEPT !.pc = "wait",
                          !.taken = IF slot.kind = "handle" THEN slot.id ELSE 0]
  /\ session' = IF slot.kind = "handle"
                THEN [session EXCEPT ![slot.id].stop = TRUE] ELSE session
  /\ slot' = [kind |-> "none", id |-> 0]
  /\ UNCHANGED <<next_id, device_id, meta, start, poll, stop_pc, loads,
                 asked>>

ExitDone ==
  /\ exit.pc = "wait"
  /\ LET ended == exit.taken # 0
                    => session[exit.taken].status \in EndedStatus
     IN exit' = [exit EXCEPT !.pc = "gone", !.late = ~ended]
  /\ UNCHANGED <<storeVars, start, poll, stop_pc, session, loads, asked>>

Exit == ExitTake \/ ExitDone

Next ==
  \/ \E c \in Command : Start(c)
  \/ \E p \in Poll : PollStep(p)
  \/ \E i \in Id : Session(i)
  \/ Stop \/ LoadReturns \/ Exit

Spec == Init /\ [][Next]_vars

(* A command that was issued runs to its end, and a session asked to stop  *)
(* ends; the user may never click, and a healthy session may run forever.  *)
Issued(c) == start[c].pc # "idle" /\ Start(c)

Fairness ==
  /\ \A c \in Command : WF_vars(Issued(c))
  /\ WF_vars(Up /\ StopSlot)
  /\ \A i \in Id : WF_vars(/\ Up
                           /\ SessionStarts(i) \/ SessionEnds(i)
                              \/ SessionStops(i))

FairSpec == Spec /\ Fairness

-----------------------------------------------------------------------------
StartRec == [pc : {"idle", "slot", "spawn", "fail", "store"},
             device : Device \cup {None}, id : 0..MaxSessions]
PollRec == [pc : {"idle", "reset", "forget", "claim", "query", "write", "device",
                  "request"},
            seen : {"none"} \cup LiveStatus \cup EndedStatus,
            id : 0..MaxSessions, got : Device \cup {None}]
SessionRec == [status : {"none"} \cup LiveStatus \cup EndedStatus,
               device : Device \cup {None}, stop : BOOLEAN]
MetaRec == [session : 0..MaxSessions, window : Device \cup {None},
            installed : Device \cup {None}, requested : 0..MaxSessions]

(* The shape of the state (lib.rs:364-396, 415-444).                       *)
TypeOK ==
  /\ slot \in [kind : {"none", "starting", "failed", "handle"}, id : 0..MaxSessions]
  /\ next_id \in 1..(MaxSessions + 1)
  /\ device_id \in Device \cup {None}
  /\ meta \in MetaRec
  /\ start \in [Command -> StartRec]
  /\ poll \in [Poll -> PollRec]
  /\ stop_pc \in {"idle", "slot"}
  /\ session \in [Id -> SessionRec]
  /\ loads \subseteq [id : Id, device : Device]
  /\ asked \subseteq Id
  /\ exit \in [pc : {"none", "wait", "gone"}, taken : 0..MaxSessions, late : BOOLEAN]

LiveSessions == {i \in Id : session[i].status \in LiveStatus}
InFlight == {start[c].id : c \in {b \in Command : start[b].pc # "idle"}}

(* At most one iOS session exists at a time, a stopping one included: the  *)
(* host has one tunnel service (lib.rs:360-363).  The placeholder keeps a  *)
(* second start out while the first one spawns with no lock held.          *)
AtMostOneSession == exit.pc = "none" => Cardinality(LiveSessions) <= 1

(* A live session is in the slot, or the placeholder of the very command   *)
(* that starts it is: none is left running with nobody able to stop it     *)
(* (382-390).                                                              *)
LiveIsOwned ==
  exit.pc = "none" =>
    \A i \in LiveSessions :
      \/ slot = [kind |-> "handle", id |-> i]
      \/ i \in InFlight /\ slot = [kind |-> "starting", id |-> i]

(* A failed start stays visible until the next start replaces it (391-394),*)
(* whatever polls and stops run in between.                                *)
FailureStaysVisible ==
  [][slot.kind = "failed" /\ slot' # slot /\ exit'.pc = "none"
       => slot'.kind = "starting"]_vars

(* The placeholder always has the command behind it that will replace it,  *)
(* and no other has its id: a path that returned without replacing it      *)
(* would refuse every later start (833-851).                               *)
PlaceholderIsCarried ==
  slot.kind = "starting" =>
    \E c \in Command : /\ start[c].pc \in {"spawn", "fail", "store"}
                       /\ start[c].id = slot.id
                       /\ \A b \in Command \ {c} : start[b].id # slot.id

(* A start command between taking its id and giving up the placeholder.    *)
Carries(c) == start[c].pc \in {"spawn", "fail", "store"}

(* What makes it so, inductively: an id is handed out once, belongs to the *)
(* command that took it (803-810) and has no session before that command   *)
(* spawned it; until the exit no other command gets past ios_slot_is_live, *)
(* so that the slot is still that command's placeholder; a poll goes on    *)
(* with the id and the device it saw.                                      *)
IdsAreOwn ==
  /\ slot.kind # "none" => slot.id \in 1..(next_id - 1)
  /\ \A c \in Command : /\ Carries(c) => start[c].id \in 1..(next_id - 1)
                        /\ ~Carries(c) => start[c].id = 0
  /\ \A b, c \in Command : Carries(b) /\ Carries(c) /\ start[b].id = start[c].id => b = c
  /\ \A i \in Id : i >= next_id => session[i].status = "none"
  /\ \A c \in Command : start[c].pc \in {"spawn", "fail"} =>
       session[start[c].id].status = "none"

CarrierHasSlot ==
  exit.pc = "none" =>
    \A c \in Command : Carries(c) => slot = [kind |-> "starting", id |-> start[c].id]

PollsKnowTheirs ==
  \A p \in Poll : /\ poll[p].pc # "idle" => poll[p].id \in Id
                  /\ poll[p].pc = "request" => poll[p].got \in Device

(* One session at most, and the placeholder that sees to it never stays    *)
(* behind: what every start, poll, stop and load relies on.                *)
StoreInv ==
  /\ TypeOK /\ AtMostOneSession /\ PlaceholderIsCarried
  /\ IdsAreOwn /\ CarrierHasSlot /\ PollsKnowTheirs

-----------------------------------------------------------------------------
(* Claims of the source's comments that the code does not keep.            *)

(* 888-890: a stop during the placeholder is ignored, the session is to be *)
(* stopped once it has become a handle.                                    *)
StopIsNotLost ==
  \A i \in Id : (i \in asked) ~> \/ session[i].status \in EndedStatus
                                 \/ slot.kind = "failed"
                                 \/ exit.pc # "none"

(* 2109: a placeholder has no child to reclaim, only a Handle has.         *)
ReclaimLeavesNothing ==
  exit.pc = "gone" /\ ~exit.late => LiveSessions = {}
=============================================================================
