---------------------------- MODULE BoundedCommand ----------------------------
(***************************************************************************)
(* The commands that are run to their end under a time limit and an output *)
(* limit: SystemRunner::run of the adb probe, run_adb/collect_child and    *)
(* PairProcess of wireless.rs, run_capture_stdout behind `ios apps`.       *)
(*                                                                         *)
(* A child writes to pipes that hold PipeCap chunks and blocks on a full   *)
(* one; a thread per pipe reads; the caller polls, kills at the deadline,  *)
(* collects and joins the threads.  A process the child leaves behind may  *)
(* hold the write ends (drain_stderr's comment,                            *)
(* quadcontrol-process/src/lib.rs:52-54), and then there is no end of file.*)
(* The operating system answers the wait that follows a kill.              *)
(***************************************************************************)
EXTENDS Naturals

CONSTANTS
  PipeCap,  \* chunks a pipe holds
  Limit,    \* OUTPUT_LIMIT, APPS_LIST_STDOUT_LIMIT, in chunks
  MaxOutput \* bound: chunks the child has to write to a pipe

ASSUME CommandAssumption ==
  PipeCap \in Nat \ {0} /\ Limit \in Nat /\ MaxOutput \in Nat

VARIABLES
  kind,      \* which of the four runs
  pc,        \* the caller
  child,     \* none, alive, exited (a zombie), reaped
  helper,    \* a process of the child's holds the write ends
  left,      \* per pipe: chunks the child has still to write
  pipe,      \* per pipe: chunks in it
  written,   \* per pipe: chunks written so far
  reader,    \* per pipe: none, reading, done, failed
  kept,      \* per pipe: chunks kept by its reader
  truncated, \* per pipe: its reader dropped some
  overdue,   \* the deadline has passed
  failure,   \* timed_out or io on the way to the joins
  result     \* what is returned

childVars == <<child, helper, left, pipe, written>>
readVars == <<reader, kept, truncated>>
vars == <<kind, pc, childVars, readVars, overdue, failure, result>>

Kind == {"probe", "adb", "pair", "apps"}
Stream == {"out", "err"}

(* `ios apps` has its stderr on /dev/null.                                 *)
Piped == IF kind = "apps" THEN {"out"} ELSE Stream

Init ==
  /\ kind \in Kind /\ pc = "spawn"
  /\ child = "none" /\ helper = FALSE
  /\ left \in [Stream -> 0..MaxOutput]
  /\ kind = "apps" => left["err"] = 0
  /\ pipe = [s \in Stream |-> 0] /\ written = [s \in Stream |-> 0]
  /\ reader = [s \in Stream |-> "none"]
  /\ kept = [s \in Stream |-> 0] /\ truncated = [s \in Stream |-> FALSE]
  /\ overdue = FALSE /\ failure = "none" /\ result = "none"

-----------------------------------------------------------------------------
(* The child.                                                              *)
ChildWrites(s) ==
  /\ child = "alive" /\ left[s] > 0 /\ pipe[s] < PipeCap /\ reader[s] = "reading"
  /\ left' = [left EXCEPT ![s] = @ - 1]
  /\ pipe' = [pipe EXCEPT ![s] = @ + 1]
  /\ written' = [written EXCEPT ![s] = @ + 1]
  /\ UNCHANGED <<kind, pc, child, helper, readVars, overdue, failure, result>>

(* It ends, having written all, by a fault, or by the EPIPE of a pipe      *)
(* whose reader has gone.                                                  *)
ChildExits ==
  /\ child = "alive"
  /\ child' = "exited"
  /\ UNCHANGED <<kind, pc, helper, left, pipe, written, readVars, overdue, failure,
                 result>>

HelperActs ==
  /\ \/ child = "alive" /\ ~helper
     \/ helper
  /\ helper' = ~helper
  /\ UNCHANGED <<kind, pc, child, left, pipe, written, readVars, overdue, failure,
                 result>>

-----------------------------------------------------------------------------
(* The reader threads: read_limited, capture, and the take of              *)
(* run_capture_stdout, which ends at its limit and closes the pipe.        *)
EndOfFile(s) == child \in {"exited", "reaped"} /\ ~helper /\ pipe[s] = 0

(* Seeded fault: what does not fit is dropped and not told.                *)
ReadChunkSilently(s) ==
  /\ reader[s] = "reading" /\ pipe[s] > 0
  /\ pipe' = [pipe EXCEPT ![s] = @ - 1]
  /\ kept' = [kept EXCEPT ![s] = IF @ < Limit THEN @ + 1 ELSE @]
  /\ UNCHANGED <<kind, pc, child, helper, left, written, reader, truncated, overdue,
                 failure, result>>

ReadChunk(s) ==
  /\ reader[s] = "reading" /\ pipe[s] > 0
  /\ ~(kind = "apps" /\ kept[s] = Limit)
  /\ pipe' = [pipe EXCEPT ![s] = @ - 1]
  /\ kept' = [kept EXCEPT ![s] = IF @ < Limit THEN @ + 1 ELSE @]
  /\ truncated' = [truncated EXCEPT ![s] = @ \/ kept[s] = Limit]
  /\ UNCHANGED <<kind, pc, child, helper, left, written, reader, overdue, failure,
                 result>>

ReaderEnds(s) ==
  /\ reader[s] = "reading"
  /\ EndOfFile(s) \/ (kind = "apps" /\ kept[s] = Limit)
  /\ reader' = [reader EXCEPT ![s] = "done"]
  /\ UNCHANGED <<kind, pc, childVars, kept, truncated, overdue, failure, result>>

(* A read fails, or the thread panics: it ends and closes the pipe.  What  *)
(* run_capture_stdout has by then is a part of the list, or nothing.       *)
ReaderFails(s) ==
  /\ reader[s] = "reading"
  /\ reader' = [reader EXCEPT ![s] = "failed"]
  /\ kept' \in {kept, [kept EXCEPT ![s] = 0]}
  /\ UNCHANGED <<kind, pc, childVars, truncated, overdue, failure, result>>

-----------------------------------------------------------------------------
(* The caller.                                                             *)
Return(res) == pc' = "done" /\ result' = res

(* The spawn, and the threads that read; PairProcess first writes the      *)
(* password, and kills and collects the child that does not take it.       *)
Spawn ==
  /\ pc = "spawn"
  /\ \/ /\ Return("not_found") /\ UNCHANGED <<child, reader>>
     \/ /\ kind = "pair" /\ Return("io")
        /\ child' = "reaped" /\ UNCHANGED reader
     \/ /\ child' = "alive" /\ pc' = "poll"
        /\ reader' = [s \in Stream |-> IF s \in Piped THEN "reading" ELSE "none"]
        /\ UNCHANGED result
  /\ UNCHANGED <<kind, helper, left, pipe, written, kept, truncated, overdue, failure>>

DeadlinePasses ==
  /\ pc = "poll" /\ ~overdue
  /\ overdue' = TRUE
  /\ UNCHANGED <<kind, pc, childVars, readVars, failure, result>>

(* try_wait finds it ended and collects it.                                *)
PollFindsExit ==
  /\ pc = "poll" /\ child = "exited"
  /\ child' = "reaped" /\ pc' = "join_out"
  /\ UNCHANGED <<kind, helper, left, pipe, written, readVars, overdue, failure, result>>

(* Seeded fault: the deadline kills and does not wait.                     *)
PollTimesOutNoWait ==
  /\ pc = "poll" /\ child = "alive" /\ overdue
  /\ child' = "exited" /\ pc' = "join_out" /\ failure' = "timed_out"
  /\ UNCHANGED <<kind, helper, left, pipe, written, readVars, overdue, result>>

(* Seeded fault: a child that still writes is not timed out.               *)
PollTimesOutIdle ==
  /\ pc = "poll" /\ child = "alive" /\ overdue
  /\ \A s \in Piped : left[s] = 0
  /\ child' = "reaped" /\ pc' = "join_out" /\ failure' = "timed_out"
  /\ UNCHANGED <<kind, helper, left, pipe, written, readVars, overdue, result>>

(* Past the deadline it is killed and waited for.                          *)
PollTimesOut ==
  /\ pc = "poll" /\ child = "alive" /\ overdue
  /\ child' = "reaped" /\ pc' = "join_out" /\ failure' = "timed_out"
  /\ UNCHANGED <<kind, helper, left, pipe, written, readVars, overdue, result>>

(* try_wait fails: kill, wait and join, in PairProcess by its Drop; only   *)
(* run_capture_stdout returns at once and lets go of the child.            *)
PollFails ==
  /\ pc = "poll" /\ child \in {"alive", "exited"}
  /\ IF kind = "apps" THEN Return("io") /\ UNCHANGED <<child, failure>>
     ELSE /\ child' = "reaped" /\ pc' = "join_out" /\ failure' = "io"
          /\ UNCHANGED result
  /\ UNCHANGED <<kind, helper, left, pipe, written, readVars, overdue>>

(* The joins, stdout's thread first.  The error of that thread is dropped  *)
(* after a kill, and always by `ios apps`.                                 *)
JoinOut ==
  /\ pc = "join_out" /\ reader["out"] # "reading"
  /\ reader["out"] = "done" \/ failure # "none" \/ kind = "apps"
  /\ pc' = "join_err"
  /\ UNCHANGED <<kind, childVars, readVars, overdue, failure, result>>

(* Otherwise it is the outcome, at once, whatever stderr's thread does;    *)
(* PairProcess is dropped on the way out, and that joins the other thread. *)
JoinOutFails ==
  /\ pc = "join_out" /\ reader["out"] = "failed"
  /\ failure = "none" /\ kind # "apps"
  /\ IF kind = "pair" THEN pc' = "join_err" /\ failure' = "io" /\ UNCHANGED result
     ELSE Return("io") /\ UNCHANGED failure
  /\ UNCHANGED <<kind, childVars, readVars, overdue>>

(* Then stderr's, and the outcome.                                         *)
JoinErr ==
  /\ pc = "join_err" /\ reader["err"] # "reading"
  /\ Return(IF failure # "none" THEN failure
            ELSE IF reader["err"] = "failed" THEN "io"
            ELSE IF \E s \in Piped : truncated[s] THEN "too_large" ELSE "ok")
  /\ UNCHANGED <<kind, childVars, readVars, overdue, failure>>

Join == JoinOut \/ JoinOutFails \/ JoinErr

Caller == Spawn \/ PollFindsExit \/ PollTimesOut \/ Join
Reader(s) == ReadChunk(s) \/ ReaderEnds(s)

Next ==
  \/ Caller \/ PollFails \/ DeadlinePasses \/ ChildExits \/ HelperActs
  \/ \E s \in Stream : ChildWrites(s) \/ Reader(s) \/ ReaderFails(s)

(* Threads run and time passes; nothing is assumed of the child, and an    *)
(* error of try_wait or of a read need never come.                         *)
Spec ==
  /\ Init /\ [][Next]_vars
  /\ WF_vars(Caller) /\ WF_vars(DeadlinePasses)
  /\ \A s \in Stream : WF_vars(Reader(s))

-----------------------------------------------------------------------------
TypeOK ==
  /\ kind \in Kind
  /\ pc \in {"spawn", "poll", "join_out", "join_err", "done"}
  /\ child \in {"none", "alive", "exited", "reaped"}
  /\ helper \in BOOLEAN /\ overdue \in BOOLEAN
  /\ left \in [Stream -> 0..MaxOutput] /\ written \in [Stream -> Nat]
  /\ pipe \in [Stream -> 0..PipeCap] /\ kept \in [Stream -> 0..Limit]
  /\ reader \in [Stream -> {"none", "reading", "done", "failed"}]
  /\ truncated \in [Stream -> BOOLEAN]
  /\ failure \in {"none", "timed_out", "io"}
  /\ result \in {"none", "ok", "too_large", "timed_out", "io", "not_found"}

(* Where the caller is, it knows how far child and threads have come: it   *)
(* joins only what was started, and only once the child is collected; a    *)
(* thread that failed is passed over only with an error to return, or by   *)
(* `ios apps` (collect_child, wireless.rs; SystemRunner::run, adb-probe).  *)
CallerKnows ==
  /\ pc = "spawn" => child = "none" /\ \A s \in Stream : reader[s] = "none"
  /\ pc = "poll" => child \in {"alive", "exited"}
  /\ pc \in {"join_out", "join_err"} => child = "reaped"
  /\ pc \in {"poll", "join_out", "join_err"} => \A s \in Piped : reader[s] # "none"
  /\ pc = "join_err" => \/ reader["out"] = "done"
                        \/ reader["out"] = "failed" /\ (failure # "none" \/ kind = "apps")
  /\ result # "none" <=> pc = "done"
  /\ result = "ok" =>
       /\ child = "reaped"
       /\ \A s \in Piped : /\ ~truncated[s]
                           /\ reader[s] = "done" \/ (kind = "apps" /\ reader[s] = "failed")

(* A chunk is in the pipe or was kept, or its reader says that one was     *)
(* dropped or that it failed; a thread that did not fail ends when its     *)
(* pipe has been read to the end, or at the limit of the list of apps.     *)
NoChunkIsLost ==
  \A s \in Stream :
    /\ truncated[s] \/ reader[s] = "failed" \/ kept[s] + pipe[s] = written[s]
    /\ reader[s] = "done" => \/ child \in {"exited", "reaped"} /\ pipe[s] = 0
                             \/ kind = "apps" /\ kept[s] = Limit

(* The child has been collected and the threads that read it have ended.   *)
NothingLeft ==
  child \in {"none", "reaped"} /\ \A s \in Stream : reader[s] # "reading"

(* Nothing is left of a command that answers, is cut off or is too long,   *)
(* nor of a pair, whatever it returns.  An I/O error may leave something:  *)
(* stderr's thread when stdout's failed (the probe and run_adb return by   *)
(* `?` before they join it), child and thread when try_wait fails in       *)
(* run_capture_stdout; nothing else.                                       *)
CollectedAtReturn ==
  pc = "done" =>
    /\ result # "io" \/ kind = "pair" => NothingLeft
    /\ kind # "apps" => child \in {"none", "reaped"} /\ reader["out"] # "reading"

(* Caller, child and threads agree at every step, also when the child is   *)
(* killed while it writes, when a thread fails and while the threads still *)
(* read what was left behind; what is left at the end is known.            *)
CommandInv == TypeOK /\ CallerKnows /\ NoChunkIsLost /\ CollectedAtReturn

(* An answer that is given as complete is complete, also when the child    *)
(* wrote more than fits or a read failed: all that was written was kept,   *)
(* on both pipes.  Only the list of apps may be a part of it without a     *)
(* word: at its limit, or because its reader failed.                       *)
OkIsComplete ==
  result = "ok" =>
    \A s \in Piped :
      \/ kept[s] = written[s]
      \/ kind = "apps" /\ (kept[s] = Limit \/ reader[s] = "failed")

(* The command returns, whether the child hangs, never stops writing or    *)
(* writes more than the pipes hold, once nobody else holds the pipes; the  *)
(* joins themselves have no limit.                                         *)
Returns == ([]<>~helper) => <>(pc = "done")
=============================================================================
