----------------------------- MODULE PairingStore -----------------------------
(***************************************************************************)
(* The GUI's pairing state machine, shared by QR and manual pairing        *)
(* (crates/quadcontrol-gui/src-tauri/src/lib.rs): PairingStore with its    *)
(* state, its cancel token and its generation counter, the commands that   *)
(* start, cancel and poll an attempt, and the worker of each attempt.      *)
(*                                                                         *)
(* A worker is running or has an outcome to deliver; what it does until    *)
(* then is module PairingRound.  A generation is taken from the atomic     *)
(* counter before the state is locked, so two starts may reach the lock in *)
(* the other order.  The two mutexes are only ever nested state first, so  *)
(* a critical section is one step.                                         *)
(***************************************************************************)
EXTENDS Naturals, FiniteSets

CONSTANTS
  PairCall, \* start_pairing and pair_manual calls that may be in flight
  MaxGen    \* bound: generations handed out

ASSUME PairingAssumption == MaxGen \in Nat

VARIABLES
  pstate,    \* PairingStore.state: [kind, gen]
  token,     \* PairingStore.cancel: generation of the token held, 0 for none
  cancelled, \* generations in flight whose PairCancel was raised
  next_gen,  \* PairingStore.next_generation
  pcall,     \* per call: the generation it took and has not entered, or 0
  worker     \* per generation: none, run, or the outcome to deliver

pairVars == <<pstate, token, cancelled, next_gen, pcall, worker>>

Gen == 1..MaxGen
Outcome == {"ok", "error"}
PairKind == {"idle", "waiting", "succeeded", "failed", "cancelling"}

(* pairing_is_active.                                                      *)
PairingIsActive == pstate.kind \in {"waiting", "cancelling"}

(* pairing_generation: Idle has none.                                      *)
PairingGeneration == IF pstate.kind = "idle" THEN 0 ELSE pstate.gen

Shown(kind, gen) == [kind |-> kind, gen |-> gen]

PairInit ==
  /\ pstate = Shown("idle", 0)
  /\ token = 0
  /\ cancelled = {}
  /\ next_gen = 0
  /\ pcall = [c \in PairCall |-> 0]
  /\ worker = [g \in Gen |-> "none"]

-----------------------------------------------------------------------------
(* start_pairing, pair_manual: the secret or the code is ready and the     *)
(* generation taken.                                                       *)
TakeGeneration(c) ==
  /\ pcall[c] = 0
  /\ next_gen < MaxGen
  /\ next_gen' = next_gen + 1
  /\ pcall' = [pcall EXCEPT ![c] = next_gen + 1]
  /\ UNCHANGED <<pstate, token, cancelled, worker>>

(* pairing_already_running: the generation is lost.                        *)
PairRefused(c) ==
  /\ pcall[c] # 0
  /\ PairingIsActive
  /\ pcall' = [pcall EXCEPT ![c] = 0]
  /\ UNCHANGED <<pstate, token, cancelled, next_gen, worker>>

(* Seeded fault: only a waiting attempt refuses a new one.                 *)
EnterPairingWhileCancelling(c) ==
  /\ pcall[c] # 0
  /\ pstate.kind # "waiting"
  /\ pstate' = Shown("waiting", pcall[c])
  /\ token' = pcall[c]
  /\ worker' = [worker EXCEPT ![pcall[c]] = "run"]
  /\ pcall' = [pcall EXCEPT ![c] = 0]
  /\ UNCHANGED <<cancelled, next_gen>>

(* The attempt enters: state, token, worker.                               *)
EnterPairing(c) ==
  /\ pcall[c] # 0
  /\ ~PairingIsActive
  /\ pstate' = Shown("waiting", pcall[c])
  /\ token' = pcall[c]
  /\ worker' = [worker EXCEPT ![pcall[c]] = "run"]
  /\ pcall' = [pcall EXCEPT ![c] = 0]
  /\ UNCHANGED <<cancelled, next_gen>>

(* The blocking part returns or panics.  A raised token makes it answer    *)
(* pair_cancelled at its next look, one error code among others, but a     *)
(* success may still overtake it.                                          *)
WorkerReturns(g) ==
  /\ worker[g] = "run"
  /\ \E o \in Outcome : worker' = [worker EXCEPT ![g] = o]
  /\ UNCHANGED <<pstate, token, cancelled, next_gen, pcall>>

(* Seeded fault: a result is shown although the user cancelled.            *)
SetPairingResultAnyway(g) ==
  /\ worker[g] \in Outcome
  /\ worker' = [worker EXCEPT ![g] = "none"]
  /\ IF PairingGeneration = g
     THEN /\ pstate' = Shown(IF worker[g] = "ok" THEN "succeeded" ELSE "failed", g)
          /\ token' = 0
     ELSE UNCHANGED <<pstate, token>>
  /\ cancelled' = cancelled \ {g}
  /\ UNCHANGED <<next_gen, pcall>>

(* set_pairing_result: ignored for another generation, Idle after a        *)
(* cancel, else the outcome.                                               *)
SetPairingResult(g) ==
  /\ worker[g] \in Outcome
  /\ worker' = [worker EXCEPT ![g] = "none"]
  /\ IF PairingGeneration = g
     THEN /\ pstate' = IF pstate.kind = "cancelling" THEN Shown("idle", 0)
                       ELSE Shown(IF worker[g] = "ok" THEN "succeeded"
                                  ELSE "failed", g)
          /\ token' = 0
     ELSE UNCHANGED <<pstate, token>>
  /\ cancelled' = cancelled \ {g}
  /\ UNCHANGED <<next_gen, pcall>>

(* Seeded fault: a cancel forgets the attempt instead of waiting for it.   *)
CancelPairingForgets ==
  /\ pstate.kind = "waiting"
  /\ cancelled' = cancelled \cup ({token} \ {0})
  /\ pstate' = Shown("idle", 0)
  /\ UNCHANGED <<token, next_gen, pcall, worker>>

(* cancel_pairing.                                                         *)
CancelPairing ==
  /\ pstate.kind = "waiting"
  /\ cancelled' = cancelled \cup ({token} \ {0})
  /\ pstate' = Shown("cancelling", pstate.gen)
  /\ UNCHANGED <<token, next_gen, pcall, worker>>

PairNext ==
  \/ \E c \in PairCall : TakeGeneration(c) \/ PairRefused(c) \/ EnterPairing(c)
  \/ \E g \in Gen : WorkerReturns(g) \/ SetPairingResult(g)
  \/ CancelPairing

-----------------------------------------------------------------------------
PairTypeOK ==
  /\ pstate \in [kind : PairKind, gen : 0..MaxGen]
  /\ token \in 0..MaxGen
  /\ cancelled \in SUBSET Gen
  /\ next_gen \in 0..MaxGen
  /\ pcall \in [PairCall -> 0..MaxGen]
  /\ worker \in [Gen -> {"none", "run"} \cup Outcome]

(* A worker that has not delivered its result yet.                         *)
Pending(g) == worker[g] \in {"run"} \cup Outcome

(* Pairing writes to the phone, so one attempt is in flight at a time:     *)
(* whatever the order in which starts, cancels and results reach the lock, *)
(* two workers never run together, a cancelled one that has not come back  *)
(* included; the state shown is that of the one that runs, and a state     *)
(* that refuses new attempts has a worker behind it that will end it.      *)
OneWorker ==
  /\ \A g \in Gen : Pending(g) => PairingIsActive /\ pstate.gen = g
  /\ PairingIsActive => pstate.gen \in Gen /\ Pending(pstate.gen)

(* The token that cancel_pairing and the exit raise is always the one the  *)
(* running worker looks at, and an attempt shown as being cancelled has    *)
(* had its token raised.                                                   *)
TokenIsOfWorker ==
  /\ token = (IF PairingIsActive THEN pstate.gen ELSE 0)
  /\ pstate.kind = "cancelling" => pstate.gen \in cancelled

(* A generation is handed out once: none is held by two calls, and one     *)
(* that has not entered yet, or is still to come, has left no trace.       *)
GenerationsAreFresh ==
  /\ \A c \in PairCall : pcall[c] <= next_gen
  /\ \A c, d \in PairCall : pcall[c] # 0 /\ pcall[c] = pcall[d] => c = d
  /\ \A c \in PairCall : pcall[c] # 0 => worker[pcall[c]] = "none" /\ pcall[c] \notin cancelled
  /\ \A g \in Gen : g > next_gen => worker[g] = "none" /\ g \notin cancelled

(* The inductive invariant of the pairing store.                           *)
PairingInv == PairTypeOK /\ GenerationsAreFresh /\ OneWorker /\ TokenIsOfWorker

(* Once the user has cancelled, a late result is never shown: the attempt  *)
(* stays cancelling until its worker is back and then leaves no trace.     *)
CancelStands ==
  [][pstate.kind = "cancelling" =>
       pstate'.kind = "idle" /\ worker'[pstate.gen] = "none"]_pstate
=============================================================================
