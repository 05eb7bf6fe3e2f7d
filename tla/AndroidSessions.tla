---------------------------- MODULE AndroidSessions ----------------------------
(***************************************************************************)
(* The GUI's Android sessions (crates/quadcontrol-gui/src-tauri/src/lib.rs)*)
(* and the supervisor thread of each (crates/quadcontrol-android/src/      *)
(* lib.rs): a map from serial to SessionHandle under one mutex, start      *)
(* commands that look, spawn with no lock held, and look again, stop       *)
(* commands, and supervisors that alone touch the scrcpy child.            *)
(*                                                                         *)
(* A step is one critical section, one blocking call or one effect of the  *)
(* supervisor.  scrcpy is alive or not: how the ladder ends it is module   *)
(* TerminateLadder.                                                        *)
(***************************************************************************)
EXTENDS Naturals, FiniteSets

CONSTANTS
  Serial,    \* phones by adb serial
  StartCall, \* start_session calls that may be in flight at once
  NoSerial,  \* the serial of a call that is idle
  MaxId      \* bound: session ids handed out

ASSUME AndroidAssumption == NoSerial \notin Serial /\ MaxId \in Nat

VARIABLES
  sessions, \* SessionStore.sessions: id per serial, 0 for none
  next_sid, \* SessionStore.next_id
  scall,    \* per start call: [pc, serial, id]
  sess,     \* per id: [serial, status, pc, alive, stop, done, age]
  handles   \* ids the exit has drained from the map

androidVars == <<sessions, next_sid, scall, sess, handles>>

Sid == 1..MaxId
IdleCall == [pc |-> "idle", serial |-> NoSerial, id |-> 0]
NoSession == [serial |-> NoSerial, status |-> "none", pc |-> "none",
              alive |-> FALSE, stop |-> FALSE, done |-> FALSE, age |-> 0]

(* The serial has a session whose status is Running or Stopping.           *)
Held(d) ==
  sessions[d] # 0 /\ sess[sessions[d]].status \in {"running", "stopping"}

AndroidInit ==
  /\ sessions = [d \in Serial |-> 0]
  /\ next_sid = 1
  /\ scall = [c \in StartCall |-> IdleCall]
  /\ sess = [i \in Sid |-> NoSession]
  /\ handles = {}

-----------------------------------------------------------------------------
(* start_session, first critical section: an ended session gives way and   *)
(* the call takes an id.  (session_already_running leaves no trace.)       *)
StartCheck(c, d) ==
  /\ scall[c].pc = "idle"
  /\ next_sid <= MaxId
  /\ ~Held(d)
  /\ sessions' = [sessions EXCEPT ![d] = 0]
  /\ next_sid' = next_sid + 1
  /\ scall' = [scall EXCEPT ![c] = [pc |-> "spawn", serial |-> d, id |-> next_sid]]
  /\ UNCHANGED <<sess, handles>>

(* spawn_supervised: scrcpy --version was accepted, scrcpy and the thread  *)
(* that owns it run.                                                       *)
SpawnSupervised(c) ==
  /\ scall[c].pc = "spawn"
  /\ sess' = [sess EXCEPT ![scall[c].id] =
                [NoSession EXCEPT !.serial = scall[c].serial,
                                  !.status = "running", !.pc = "loop",
                                  !.alive = TRUE]]
  /\ scall' = [scall EXCEPT ![c].pc = "insert"]
  /\ UNCHANGED <<sessions, next_sid, handles>>

(* validate_scrcpy_with_env, build_args or the spawn fails.                *)
SpawnFails(c) ==
  /\ scall[c].pc = "spawn"
  /\ scall' = [scall EXCEPT ![c] = IdleCall]
  /\ UNCHANGED <<sessions, next_sid, sess, handles>>

(* Seeded fault: the handle goes into the map whatever is there.           *)
StartInsertUnchecked(c) ==
  /\ scall[c].pc = "insert"
  /\ sessions' = [sessions EXCEPT ![scall[c].serial] = scall[c].id]
  /\ scall' = [scall EXCEPT ![c] = IdleCall]
  /\ UNCHANGED <<next_sid, sess, handles>>

(* Second critical section: another call came first, so the new session is *)
(* told to stop and its handle dropped; or the handle goes into the map.   *)
StartInsert(c) ==
  /\ scall[c].pc = "insert"
  /\ IF Held(scall[c].serial)
     THEN /\ sess' = [sess EXCEPT ![scall[c].id].stop = TRUE]
          /\ UNCHANGED sessions
     ELSE /\ sessions' = [sessions EXCEPT ![scall[c].serial] = scall[c].id]
          /\ UNCHANGED sess
  /\ scall' = [scall EXCEPT ![c] = IdleCall]
  /\ UNCHANGED <<next_sid, handles>>

(* stop_session: request_stop on the handle (no effect once it is over).   *)
StopSession(d) ==
  /\ sessions[d] # 0 /\ sess[sessions[d]].pc # "over"
  /\ sess' = [sess EXCEPT ![sessions[d]].stop = TRUE]
  /\ UNCHANGED <<sessions, next_sid, scall, handles>>

-----------------------------------------------------------------------------
(* scrcpy ends by itself (its window closed, the phone unplugged).         *)
ScrcpyExits(i) ==
  /\ sess[i].alive
  /\ sess' = [sess EXCEPT ![i].alive = FALSE]
  /\ UNCHANGED <<sessions, next_sid, scall, handles>>

(* supervise: a stop command is there.                                     *)
SeeStop(i) ==
  /\ sess[i].pc = "loop"
  /\ sess[i].stop
  /\ sess' = [sess EXCEPT ![i].status = "stopping", ![i].pc = "ladder"]
  /\ UNCHANGED <<sessions, next_sid, scall, handles>>

(* Seeded fault: the ladder returns without having reaped scrcpy.          *)
LadderGivesUp(i) ==
  /\ sess[i].pc = "ladder"
  /\ sess' = [sess EXCEPT ![i].pc = "ended"]
  /\ UNCHANGED <<sessions, next_sid, scall, handles>>

(* Session::stop and the try_wait after it: the ladder has ended scrcpy.   *)
LadderEnds(i) ==
  /\ sess[i].pc = "ladder"
  /\ sess' = [sess EXCEPT ![i].alive = FALSE, ![i].pc = "ended"]
  /\ UNCHANGED <<sessions, next_sid, scall, handles>>

(* try_wait sees the exit; a stop sent since the loop looked is not read.  *)
SeeExit(i) ==
  /\ sess[i].pc = "loop"
  /\ ~sess[i].alive
  /\ sess' = [sess EXCEPT ![i].pc = "ended"]
  /\ UNCHANGED <<sessions, next_sid, scall, handles>>

(* try_wait or the wait of the ladder answers an error: the supervisor     *)
(* gives up, whether scrcpy is alive or not.                               *)
WaitFails(i) ==
  /\ sess[i].pc \in {"loop", "ladder"}
  /\ sess' = [sess EXCEPT ![i].status = "failed", ![i].pc = "send"]
  /\ UNCHANGED <<sessions, next_sid, scall, handles>>

(* The tail of stderr has settled and the exit is published.               *)
PublishExit(i) ==
  /\ sess[i].pc = "ended"
  /\ sess' = [sess EXCEPT ![i].status = "exited", ![i].pc = "send"]
  /\ UNCHANGED <<sessions, next_sid, scall, handles>>

(* done_tx.send; the stop channel is dropped.                              *)
SendDone(i) ==
  /\ sess[i].pc = "send"
  /\ sess' = [sess EXCEPT ![i].done = TRUE, ![i].pc = "over",
                          ![i].stop = FALSE, ![i].age = 0]
  /\ UNCHANGED <<sessions, next_sid, scall, handles>>

(* What the thread does without an error to drive it.                      *)
SuperviseOwn(i) ==
  \/ SeeStop(i) \/ LadderEnds(i) \/ SeeExit(i)
  \/ PublishExit(i) \/ SendDone(i)

Supervise(i) == SuperviseOwn(i) \/ WaitFails(i)

StartSession(c) ==
  \/ \E d \in Serial : StartCheck(c, d)
  \/ SpawnSupervised(c) \/ SpawnFails(c) \/ StartInsert(c)

-----------------------------------------------------------------------------
SessionRec ==
  [serial : Serial \cup {NoSerial},
   status : {"none", "running", "stopping", "exited", "failed"},
   pc : {"none", "loop", "ladder", "ended", "send", "over"},
   alive : BOOLEAN, stop : BOOLEAN, done : BOOLEAN, age : Nat]

CallRec ==
  [pc : {"idle", "spawn", "insert"}, serial : Serial \cup {NoSerial}, id : 0..MaxId]

AndroidTypeOK ==
  /\ sessions \in [Serial -> 0..MaxId]
  /\ next_sid \in 1..(MaxId + 1)
  /\ scall \in [StartCall -> CallRec]
  /\ sess \in [Sid -> SessionRec]
  /\ handles \in SUBSET Sid

(* A start call still holds the handle of session i.                       *)
InHand(i) == \E c \in StartCall : scall[c].pc = "insert" /\ scall[c].id = i

(* A session that controls a phone can be seen and disconnected: unless    *)
(* its supervisor failed on it, a live scrcpy is in the map under its      *)
(* serial, or still held by the call that started it, or taken by the      *)
(* exit, or told to stop.  With it goes that two starts which both passed  *)
(* the check leave one session, not two.                                   *)
LiveIsReachable ==
  \A i \in Sid :
    sess[i].alive /\ sess[i].status # "failed" =>
      \/ sessions[sess[i].serial] = i
      \/ InHand(i)
      \/ i \in handles
      \/ sess[i].stop

(* What the map shows as ended has ended: the status a poll reads, and     *)
(* that lets a new start pass, is published only after scrcpy is gone.     *)
ExitedIsGone ==
  \A i \in Sid :
    (sess[i].status = "exited" \/ sess[i].done) /\ sess[i].status # "failed"
      => ~sess[i].alive /\ sess[i].status = "exited"

(* Where the supervisor stands determines what a poll of its status sees   *)
(* and whether scrcpy can be there.                                        *)
SessionShape(r) ==
  /\ r.pc = "none" => ~r.alive /\ r.status = "none"
  /\ r.pc # "none" => r.serial \in Serial
  /\ r.pc = "loop" => r.status = "running"
  /\ r.pc = "ladder" => r.status = "stopping"
  /\ r.pc = "ended" => r.status \in {"running", "stopping"} /\ ~r.alive
  /\ r.pc \in {"send", "over"} => r.status = "failed" \/ (r.status = "exited" /\ ~r.alive)
  /\ r.done => r.pc = "over"

(* An id is handed out once: the session of a call that has not spawned is *)
(* untouched, that of one that has is its own, and what the map holds has  *)
(* been spawned for the serial it is under.                                *)
IdsAreOwn ==
  /\ \A i \in Sid : i >= next_sid => sess[i].pc = "none"
  /\ \A c \in StartCall : scall[c].pc # "idle" =>
       /\ scall[c].id \in 1..(next_sid - 1)
       /\ scall[c].serial \in Serial
       /\ scall[c].pc = "spawn" => sess[scall[c].id].pc = "none"
       /\ scall[c].pc = "insert" =>
            sess[scall[c].id].pc # "none" /\ sess[scall[c].id].serial = scall[c].serial
  /\ \A c, e \in StartCall :
       scall[c].pc # "idle" /\ scall[e].pc # "idle" /\ scall[c].id = scall[e].id => c = e
  /\ \A d \in Serial : sessions[d] # 0 =>
       sess[sessions[d]].pc # "none" /\ sess[sessions[d]].serial = d

(* The inductive invariant of the Android sessions.                        *)
AndroidInv ==
  /\ AndroidTypeOK
  /\ \A i \in Sid : SessionShape(sess[i])
  /\ IdsAreOwn
  /\ LiveIsReachable
=============================================================================
