-------------------------- MODULE SessionLifecycle --------------------------
(***************************************************************************)
(* What a supervised session promises to whoever holds its handle          *)
(* (crates/quadcontrol-ios/src/session.rs, IosSessionStatus and the module *)
(* documentation).  The handle shows a status and a completion message;    *)
(* behind it the supervisor holds resources: child processes, the MJPEG    *)
(* proxy, the published WDA client.                                        *)
(*                                                                         *)
(* status : what IosSessionHandle::status() returns                        *)
(* held   : resources the supervisor has created and not yet given back    *)
(* done   : the completion message has been sent                           *)
(***************************************************************************)
CONSTANT Resources

VARIABLES status, held, done

vars == <<status, held, done>>

Terminal == {"exited", "failed"}

TypeOK ==
  /\ status \in {"starting", "running", "stopping"} \cup Terminal
  /\ held \subseteq Resources
  /\ done \in BOOLEAN

Init ==
  /\ status = "starting"
  /\ held = {}
  /\ done = FALSE

(* While it starts, the session takes resources one by one; a child that   *)
(* lost its race for a port is given back at once.                         *)
Take ==
  /\ status = "starting"
  /\ \E r \in Resources : held' \in {held \cup {r}, held \ {r}}
  /\ UNCHANGED <<status, done>>

(* Running is announced only by a session that has its proxy and client.   *)
Announce ==
  /\ status = "starting"
  /\ {"proxy", "client"} \subseteq held
  /\ status' = "running"
  /\ UNCHANGED <<held, done>>

BeginStop ==
  /\ status \in {"starting", "running"}
  /\ status' = "stopping"
  /\ UNCHANGED <<held, done>>

GiveBack ==
  /\ status = "stopping"
  /\ \E R \in SUBSET Resources : held' = held \ R
  /\ UNCHANGED <<status, done>>

Finish ==
  /\ status = "stopping"
  /\ held = {}
  /\ status' \in Terminal
  /\ UNCHANGED <<held, done>>

Report ==
  /\ status \in Terminal
  /\ done' = TRUE
  /\ UNCHANGED <<status, held>>

Next == Take \/ Announce \/ BeginStop \/ GiveBack \/ Finish \/ Report

Spec == Init /\ [][Next]_vars
=============================================================================
