------------------------- MODULE BoundedCommandProofs -------------------------
(***************************************************************************)
(* Proofs about the commands run under a time and an output limit, for     *)
(* pipes, limits and outputs of any size: what is returned as complete is, *)
(* and nothing of the command is left when it returns.                     *)
(***************************************************************************)
EXTENDS BoundedCommand, TLAPS

LEMMA PipedIsStream == Piped \subseteq Stream /\ "out" \in Piped
BY DEF Piped, Stream

LEMMA InitInv == Init => CommandInv
<1> SUFFICES ASSUME Init PROVE CommandInv
  OBVIOUS
<1> USE CommandAssumption DEF Init
<1>1. TypeOK
  <2>1. truncated \in [Stream -> BOOLEAN] /\ helper \in BOOLEAN /\ overdue \in BOOLEAN
    OBVIOUS
  <2>2. /\ pipe \in [Stream -> 0..PipeCap] /\ kept \in [Stream -> 0..Limit]
        /\ written \in [Stream -> Nat]
    OBVIOUS
  <2> QED BY <2>1, <2>2 DEF TypeOK
<1>2. CallerKnows
  <2>1. pc = "spawn" /\ child = "none" /\ result = "none"
    OBVIOUS
  <2>2. \A s \in Stream : reader[s] = "none"
    OBVIOUS
  <2> HIDE DEF Init
  <2> QED BY <2>1, <2>2 DEF CallerKnows
<1>3. NoChunkIsLost
  BY DEF NoChunkIsLost
<1>4. CollectedAtReturn
  BY DEF CollectedAtReturn
<1> QED BY <1>1, <1>2, <1>3, <1>4 DEF CommandInv

-----------------------------------------------------------------------------
(* The child and its helper.                                               *)
LEMMA ChildWritesInv ==
  ASSUME CommandInv, NEW s \in Stream, ChildWrites(s)
  PROVE  CommandInv'
<1> USE CommandAssumption DEF CommandInv
<1>1. /\ left \in [Stream -> 0..MaxOutput] /\ written \in [Stream -> Nat]
      /\ pipe \in [Stream -> 0..PipeCap] /\ kept \in [Stream -> 0..Limit]
  BY DEF TypeOK
<1>2. /\ child = "alive" /\ left[s] > 0 /\ pipe[s] < PipeCap /\ reader[s] = "reading"
      /\ left' = [left EXCEPT ![s] = left[s] - 1]
      /\ pipe' = [pipe EXCEPT ![s] = pipe[s] + 1]
      /\ written' = [written EXCEPT ![s] = written[s] + 1]
      /\ UNCHANGED <<kind, pc, child, helper, reader, kept, truncated, overdue, failure, result>>
  BY DEF ChildWrites, readVars
<1>3. TypeOK'
  <2>1. left' \in [Stream -> 0..MaxOutput] /\ written' \in [Stream -> Nat]
    BY <1>1, <1>2
  <2>2. pipe' \in [Stream -> 0..PipeCap]
    BY <1>1, <1>2
  <2> QED BY <1>2, <2>1, <2>2 DEF TypeOK
<1>4. CallerKnows' /\ CollectedAtReturn'
  BY <1>2 DEF CallerKnows, CollectedAtReturn, NothingLeft, Piped
<1>5. NoChunkIsLost'
  <2> SUFFICES ASSUME NEW r \in Stream
               PROVE  /\ \/ truncated[r] \/ reader[r] = "failed"
                         \/ kept[r] + pipe'[r] = written'[r]
                      /\ reader[r] = "done" => \/ child \in {"exited", "reaped"} /\ pipe'[r] = 0
                                               \/ kind = "apps" /\ kept[r] = Limit
    BY <1>2 DEF NoChunkIsLost
  <2>1. CASE r = s
    <3>1. pipe'[r] = pipe[r] + 1 /\ written'[r] = written[r] + 1
      BY <1>1, <1>2, <2>1
    <3>2. truncated[r] \/ reader[r] = "failed" \/ kept[r] + pipe[r] = written[r]
      BY DEF NoChunkIsLost
    <3>3. kept[r] \in Nat /\ pipe[r] \in Nat /\ written[r] \in Nat
      BY <1>1
    <3>4. kept[r] + pipe[r] = written[r] => kept[r] + pipe'[r] = written'[r]
      BY <3>1, <3>3
    <3> QED BY <1>2, <2>1, <3>2, <3>4
  <2>2. CASE r # s
    BY <1>1, <1>2, <2>2 DEF NoChunkIsLost
  <2> QED BY <2>1, <2>2
<1> QED BY <1>3, <1>4, <1>5

LEMMA ChildExitsInv ==
  ASSUME CommandInv, ChildExits
  PROVE  CommandInv'
<1> USE DEF CommandInv, ChildExits, readVars
<1>1. TypeOK'
  BY DEF TypeOK
<1>2. CallerKnows'
  BY DEF CallerKnows, Piped
<1>3. NoChunkIsLost' /\ CollectedAtReturn'
  BY DEF NoChunkIsLost, CollectedAtReturn, NothingLeft
<1> QED BY <1>1, <1>2, <1>3

(* Steps that leave caller, child, pipes and threads where they are.       *)
LEMMA QuietInv ==
  ASSUME CommandInv, UNCHANGED <<kind, pc, child, left, pipe, written, readVars, failure, result>>,
         helper' \in BOOLEAN, overdue' \in BOOLEAN
  PROVE  CommandInv'
<1> USE DEF CommandInv, readVars
<1>1. TypeOK'
  BY DEF TypeOK
<1>2. CallerKnows'
  BY DEF CallerKnows, Piped
<1>3. NoChunkIsLost' /\ CollectedAtReturn'
  BY DEF NoChunkIsLost, CollectedAtReturn, NothingLeft
<1> QED BY <1>1, <1>2, <1>3

-----------------------------------------------------------------------------
(* The threads that read.                                                  *)
LEMMA ReadChunkInv ==
  ASSUME CommandInv, NEW s \in Stream, ReadChunk(s)
  PROVE  CommandInv'
<1> USE CommandAssumption DEF CommandInv
<1>1. /\ written \in [Stream -> Nat] /\ truncated \in [Stream -> BOOLEAN]
      /\ pipe \in [Stream -> 0..PipeCap] /\ kept \in [Stream -> 0..Limit]
  BY DEF TypeOK
<1>2. /\ reader[s] = "reading" /\ pipe[s] > 0
      /\ pipe' = [pipe EXCEPT ![s] = pipe[s] - 1]
      /\ kept' = [kept EXCEPT ![s] = IF kept[s] < Limit THEN kept[s] + 1 ELSE kept[s]]
      /\ truncated' = [truncated EXCEPT ![s] = truncated[s] \/ kept[s] = Limit]
      /\ UNCHANGED <<kind, pc, child, helper, left, written, reader, overdue, failure, result>>
  BY DEF ReadChunk
<1>3. TypeOK'
  <2>1. pipe' \in [Stream -> 0..PipeCap] /\ kept' \in [Stream -> 0..Limit]
    BY <1>1, <1>2
  <2>2. truncated' \in [Stream -> BOOLEAN]
    BY <1>1, <1>2
  <2> QED BY <1>2, <2>1, <2>2 DEF TypeOK
<1>4. \A r \in Stream : r # s => /\ pipe'[r] = pipe[r] /\ kept'[r] = kept[r]
                                 /\ truncated'[r] = truncated[r]
  BY <1>1, <1>2
<1>5. CallerKnows'
  BY <1>2, <1>4, PipedIsStream DEF CallerKnows, Piped
<1>6. CollectedAtReturn'
  BY <1>2 DEF CollectedAtReturn, NothingLeft
<1>7. NoChunkIsLost'
  <2> SUFFICES ASSUME NEW r \in Stream
               PROVE  /\ \/ truncated'[r] \/ reader[r] = "failed"
                         \/ kept'[r] + pipe'[r] = written[r]
                      /\ reader[r] = "done" => \/ child \in {"exited", "reaped"} /\ pipe'[r] = 0
                                               \/ kind = "apps" /\ kept'[r] = Limit
    BY <1>2 DEF NoChunkIsLost
  <2>1. CASE r = s
    <3>1. kept[r] \in Nat /\ pipe[r] \in Nat /\ written[r] \in Nat /\ kept[r] <= Limit
      BY <1>1
    <3>2. pipe'[r] = pipe[r] - 1
      BY <1>1, <1>2, <2>1
    <3>3. CASE kept[r] = Limit
      <4>1. truncated'[r] = TRUE
        BY <1>1, <1>2, <2>1, <3>3
      <4> QED BY <1>2, <2>1, <4>1
    <3>4. CASE kept[r] # Limit
      <4>1. kept'[r] = kept[r] + 1
        BY <1>1, <1>2, <2>1, <3>1, <3>4
      <4>2. kept[r] + pipe[r] = written[r] => kept'[r] + pipe'[r] = written[r]
        BY <3>1, <3>2, <4>1
      <4>3. truncated[r] => truncated'[r]
        BY <1>1, <1>2, <2>1
      <4> QED BY <1>2, <2>1, <4>2, <4>3 DEF NoChunkIsLost
    <3> QED BY <3>3, <3>4
  <2>2. CASE r # s
    BY <1>4, <2>2 DEF NoChunkIsLost
  <2> QED BY <2>1, <2>2
<1> QED BY <1>3, <1>5, <1>6, <1>7

LEMMA ReaderEndsInv ==
  ASSUME CommandInv, NEW s \in Stream, ReaderEnds(s)
  PROVE  CommandInv'
<1> USE DEF CommandInv
<1>1. /\ reader[s] = "reading" /\ (EndOfFile(s) \/ (kind = "apps" /\ kept[s] = Limit))
      /\ reader' = [reader EXCEPT ![s] = "done"]
      /\ UNCHANGED <<kind, pc, child, helper, left, pipe, written, kept, truncated, overdue,
                     failure, result>>
  BY DEF ReaderEnds, childVars
<1>2. \A r \in Stream : reader'[r] = IF r = s THEN "done" ELSE reader[r]
  BY <1>1 DEF TypeOK
<1>3. TypeOK'
  BY <1>1 DEF TypeOK
<1>4. CallerKnows'
  BY <1>1, <1>2, PipedIsStream DEF CallerKnows, Piped
<1>5. NoChunkIsLost'
  BY <1>1, <1>2 DEF NoChunkIsLost, EndOfFile
<1>6. CollectedAtReturn'
  BY <1>1, <1>2 DEF CollectedAtReturn, NothingLeft
<1> QED BY <1>3, <1>4, <1>5, <1>6

LEMMA ReaderFailsInv ==
  ASSUME CommandInv, NEW s \in Stream, ReaderFails(s)
  PROVE  CommandInv'
<1> USE CommandAssumption DEF CommandInv
<1>1. /\ reader[s] = "reading"
      /\ reader' = [reader EXCEPT ![s] = "failed"]
      /\ kept' \in {kept, [kept EXCEPT ![s] = 0]}
      /\ UNCHANGED <<kind, pc, child, helper, left, pipe, written, truncated, overdue,
                     failure, result>>
  BY DEF ReaderFails, childVars
<1>2. \A r \in Stream : /\ reader'[r] = IF r = s THEN "failed" ELSE reader[r]
                        /\ r # s => kept'[r] = kept[r]
  BY <1>1 DEF TypeOK
<1>3. TypeOK'
  <2>1. kept' \in [Stream -> 0..Limit]
    BY <1>1 DEF TypeOK
  <2> QED BY <1>1, <2>1 DEF TypeOK
<1>4. CallerKnows'
  BY <1>1, <1>2, PipedIsStream DEF CallerKnows, Piped
<1>5. NoChunkIsLost'
  BY <1>1, <1>2 DEF NoChunkIsLost
<1>6. CollectedAtReturn'
  BY <1>1, <1>2 DEF CollectedAtReturn, NothingLeft
<1> QED BY <1>3, <1>4, <1>5, <1>6

-----------------------------------------------------------------------------
(* The caller.                                                             *)
LEMMA SpawnInv ==
  ASSUME CommandInv, Spawn
  PROVE  CommandInv'
<1> USE DEF CommandInv
<1>1. /\ pc = "spawn" /\ child = "none" /\ (\A s \in Stream : reader[s] = "none")
      /\ UNCHANGED <<kind, helper, left, pipe, written, kept, truncated, overdue, failure>>
  BY DEF Spawn, CallerKnows
<1>2. /\ pc' \in {"done", "poll"} /\ child' \in {"none", "reaped", "alive"}
      /\ reader' \in [Stream -> {"none", "reading"}]
      /\ result' \in {"none", "not_found", "io"}
  BY <1>1 DEF Spawn, Return, TypeOK, CallerKnows
<1>3. TypeOK'
  BY <1>1, <1>2 DEF TypeOK
<1>4. CallerKnows'
  <2>1. CASE pc' = "done" /\ result' \in {"not_found", "io"}
    BY <2>1 DEF CallerKnows
  <2>2. CASE /\ child' = "alive" /\ pc' = "poll" /\ UNCHANGED result
             /\ reader' = [s \in Stream |-> IF s \in Piped THEN "reading" ELSE "none"]
    <3>1. result' = "none"
      BY <1>1, <2>2 DEF CallerKnows
    <3>2. Piped' = Piped
      BY <1>1 DEF Piped
    <3>3. \A s \in Piped : reader'[s] # "none"
      BY <2>2, PipedIsStream
    <3> QED BY <2>2, <3>1, <3>2, <3>3 DEF CallerKnows
  <2> QED BY <2>1, <2>2 DEF Spawn, Return
<1>5. NoChunkIsLost'
  BY <1>1, <1>2 DEF NoChunkIsLost
<1>6. CollectedAtReturn'
  <2>1. pc' = "done" => child' \in {"none", "reaped"} /\ UNCHANGED reader
    BY <1>1 DEF Spawn, Return
  <2>2. pc' = "done" => NothingLeft'
    BY <1>1, <2>1 DEF NothingLeft
  <2>3. pc' = "done" => child' \in {"none", "reaped"} /\ reader'["out"] # "reading"
    BY <1>1, <2>1 DEF Stream
  <2> QED BY <2>2, <2>3 DEF CollectedAtReturn
<1> QED BY <1>3, <1>4, <1>5, <1>6

(* The three ways out of the poll that collect the child.                  *)
LEMMA PollCollects ==
  ASSUME CommandInv, pc = "poll", child' = "reaped", pc' = "join_out",
         failure' \in {"none", "timed_out", "io"},
         UNCHANGED <<kind, helper, left, pipe, written, readVars, overdue, result>>
  PROVE  CommandInv'
<1> USE DEF CommandInv, readVars
<1>1. TypeOK'
  BY DEF TypeOK
<1>2. CallerKnows'
  BY DEF CallerKnows, Piped
<1>3. NoChunkIsLost' /\ CollectedAtReturn'
  BY DEF NoChunkIsLost, CollectedAtReturn
<1> QED BY <1>1, <1>2, <1>3

LEMMA PollInv ==
  ASSUME CommandInv, PollFindsExit \/ PollTimesOut \/ PollFails
  PROVE  CommandInv'
<1>1. failure \in {"none", "timed_out", "io"}
  BY DEF CommandInv, TypeOK
<1>2. CASE PollFindsExit
  BY <1>1, <1>2, PollCollects DEF PollFindsExit
<1>3. CASE PollTimesOut
  BY <1>1, <1>3, PollCollects DEF PollTimesOut
<1>4. CASE PollFails /\ kind # "apps"
  BY <1>1, <1>4, PollCollects DEF PollFails
<1>5. CASE PollFails /\ kind = "apps"
  <2>1. /\ pc = "poll" /\ pc' = "done" /\ result' = "io"
        /\ UNCHANGED <<kind, child, helper, left, pipe, written, reader, kept, truncated,
                       overdue, failure>>
    BY <1>5 DEF PollFails, Return, readVars
  <2> USE DEF CommandInv
  <2>2. TypeOK'
    BY <2>1 DEF TypeOK
  <2>3. CallerKnows'
    BY <2>1 DEF CallerKnows, Piped
  <2>4. NoChunkIsLost' /\ CollectedAtReturn'
    BY <1>5, <2>1 DEF NoChunkIsLost, CollectedAtReturn
  <2> QED BY <2>2, <2>3, <2>4
<1> QED BY <1>2, <1>3, <1>4, <1>5

LEMMA JoinOutInv ==
  ASSUME CommandInv, JoinOut \/ JoinOutFails
  PROVE  CommandInv'
<1> USE DEF CommandInv
<1>1. /\ pc = "join_out" /\ reader["out"] # "reading"
      /\ UNCHANGED <<kind, child, helper, left, pipe, written, reader, kept, truncated, overdue>>
  BY DEF JoinOut, JoinOutFails, childVars, readVars
<1>2. NoChunkIsLost' /\ Piped' = Piped
  BY <1>1 DEF NoChunkIsLost, Piped
<1>3. child = "reaped" /\ result = "none" /\ reader["out"] \in {"done", "failed"}
  BY <1>1, PipedIsStream DEF CallerKnows, TypeOK
<1>4. CASE JoinOut
  <2>1. /\ pc' = "join_err" /\ UNCHANGED <<failure, result>>
        /\ reader["out"] = "done" \/ failure # "none" \/ kind = "apps"
    BY <1>4 DEF JoinOut
  <2>2. TypeOK'
    BY <1>1, <2>1 DEF TypeOK
  <2>3. CallerKnows' /\ CollectedAtReturn'
    BY <1>1, <1>2, <1>3, <2>1 DEF CallerKnows, CollectedAtReturn
  <2> QED BY <1>2, <2>2, <2>3
<1>5. CASE JoinOutFails
  <2>1. /\ reader["out"] = "failed" /\ kind # "apps"
        /\ \/ kind = "pair" /\ pc' = "join_err" /\ failure' = "io" /\ result' = "none"
           \/ kind # "pair" /\ pc' = "done" /\ failure' = failure /\ result' = "io"
    BY <1>3, <1>5 DEF JoinOutFails, Return
  <2>2. TypeOK'
    BY <1>1, <2>1 DEF TypeOK
  <2>3. CallerKnows'
    BY <1>1, <1>2, <1>3, <2>1 DEF CallerKnows
  <2>4. CollectedAtReturn'
    BY <1>1, <1>3, <2>1 DEF CollectedAtReturn
  <2> QED BY <1>2, <2>2, <2>3, <2>4
<1> QED BY <1>4, <1>5

LEMMA JoinErrInv ==
  ASSUME CommandInv, JoinErr
  PROVE  CommandInv'
<1> USE DEF CommandInv
<1>1. /\ pc = "join_err" /\ reader["err"] # "reading" /\ pc' = "done"
      /\ result' = IF failure # "none" THEN failure
                   ELSE IF reader["err"] = "failed" THEN "io"
                   ELSE IF \E s \in Piped : truncated[s] THEN "too_large" ELSE "ok"
      /\ UNCHANGED <<kind, child, helper, left, pipe, written, reader, kept, truncated, overdue,
                     failure>>
  BY DEF JoinErr, Return, childVars, readVars
<1>2. NoChunkIsLost' /\ Piped' = Piped
  BY <1>1 DEF NoChunkIsLost, Piped
<1>3. result' \in {"ok", "too_large", "timed_out", "io"}
  BY <1>1 DEF TypeOK
<1>4. TypeOK'
  BY <1>1, <1>3 DEF TypeOK
<1>5. /\ child = "reaped" /\ \A s \in Piped : reader[s] # "none"
      /\ \/ reader["out"] = "done"
         \/ reader["out"] = "failed" /\ (failure # "none" \/ kind = "apps")
  BY <1>1 DEF CallerKnows
<1>6. NothingLeft
  BY <1>1, <1>5 DEF NothingLeft, Stream
<1>7. ASSUME result' = "ok", NEW s \in Piped
      PROVE  ~truncated[s] /\ (reader[s] = "done" \/ (kind = "apps" /\ reader[s] = "failed"))
  <2>1. failure = "none" /\ reader["err"] # "failed" /\ ~truncated[s]
    BY <1>1, <1>7 DEF TypeOK
  <2>2. reader[s] \in {"none", "reading", "done", "failed"} /\ reader[s] # "none"
    BY <1>5, PipedIsStream DEF TypeOK
  <2>3. CASE s = "out"
    BY <1>5, <2>1, <2>3
  <2>4. CASE s = "err"
    BY <1>1, <2>1, <2>2, <2>4
  <2> QED BY <2>3, <2>4, PipedIsStream DEF Stream
<1>8. CallerKnows'
  BY <1>1, <1>2, <1>3, <1>5, <1>7 DEF CallerKnows
<1>9. CollectedAtReturn'
  BY <1>1, <1>5, <1>6 DEF CollectedAtReturn, NothingLeft
<1> QED BY <1>2, <1>4, <1>8, <1>9

-----------------------------------------------------------------------------
LEMMA StepInv == CommandInv /\ [Next]_vars => CommandInv'
<1> SUFFICES ASSUME CommandInv, [Next]_vars PROVE CommandInv'
  OBVIOUS
<1>1. helper \in BOOLEAN /\ overdue \in BOOLEAN
  BY DEF CommandInv, TypeOK
<1>2. CASE HelperActs
  BY <1>1, <1>2, QuietInv DEF HelperActs
<1>3. CASE DeadlinePasses
  BY <1>1, <1>3, QuietInv DEF DeadlinePasses, childVars
<1>4. CASE UNCHANGED vars
  BY <1>1, <1>4, QuietInv DEF vars, childVars
<1> QED BY <1>2, <1>3, <1>4, ChildWritesInv, ChildExitsInv, ReadChunkInv, ReaderEndsInv,
           ReaderFailsInv, SpawnInv, PollInv, JoinOutInv, JoinErrInv
        DEF Next, Caller, Reader, Join

(* Caller, child and threads agree at every step of each of the four runs  *)
(* (SystemRunner::run, collect_child, PairProcess, run_capture_stdout): a  *)
(* chunk the child wrote is in the pipe or kept, or its reader reports that *)
(* it was dropped or that the read failed.                                 *)
THEOREM CommandInvHolds == Spec => []CommandInv
BY InitInv, StepInv, PTL DEF Spec

(* A command that answers, is cut off or is too long leaves neither child  *)
(* nor thread, and a pair never does; after an I/O error the probe and     *)
(* run_adb may leave stderr's thread, and only run_capture_stdout a child  *)
(* (SystemRunner::run, collect_child, PairProcess, run_capture_stdout).    *)
THEOREM CollectedAtReturnHolds == Spec => []CollectedAtReturn
<1>1. CommandInv => CollectedAtReturn
  BY DEF CommandInv
<1> QED BY <1>1, CommandInvHolds, PTL

(* An answer given as complete holds all the child wrote, on both pipes,   *)
(* for pipes and limits of any size, whatever reads fail; only the list of *)
(* apps may be a part of it, cut at its limit or by the failure of its     *)
(* reader (read_limited, capture, join_capture, run_capture_stdout).       *)
THEOREM OkIsCompleteHolds == Spec => []OkIsComplete
<1>1. ASSUME CommandInv PROVE OkIsComplete
  <2> SUFFICES ASSUME result = "ok", NEW s \in Piped
               PROVE  \/ kept[s] = written[s]
                      \/ kind = "apps" /\ (kept[s] = Limit \/ reader[s] = "failed")
    BY DEF OkIsComplete
  <2>1. /\ reader[s] = "done" \/ (kind = "apps" /\ reader[s] = "failed")
        /\ ~truncated[s] /\ s \in Stream
    BY <1>1, PipedIsStream DEF CommandInv, CallerKnows
  <2>2. ASSUME reader[s] = "done"
        PROVE  /\ kept[s] + pipe[s] = written[s]
               /\ pipe[s] = 0 \/ (kind = "apps" /\ kept[s] = Limit)
    BY <1>1, <2>1, <2>2 DEF CommandInv, NoChunkIsLost
  <2>3. kept[s] \in Nat
    BY <1>1, <2>1, CommandAssumption DEF CommandInv, TypeOK
  <2> QED BY <2>1, <2>2, <2>3
<1> QED BY <1>1, CommandInvHolds, PTL
=============================================================================
