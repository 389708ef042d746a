--------------------------- MODULE ReconcileProofs ---------------------------
(***************************************************************************)
(* Proofs about Reconcile, for every set of projects, every capacity of    *)
(* the permits and every number of changes and commands.                   *)
(*                                                                         *)
(* The invariant is the coordinator's own (Core of CoordinatorProofs): a   *)
(* coordinator is replaced only when its Close has returned, when no       *)
(* worker is left, and a new one is then what Init says it is.  The other  *)
(* part of the coordinator's invariant, NoLostChange, does not survive a   *)
(* replacement.                                                            *)
(***************************************************************************)
EXTENDS Reconcile, CoordinatorProofs

(* Natural numbers that add up to nothing. *)
LEMMA ZeroSum ==
  ASSUME NEW a \in Nat, NEW b \in Nat, NEW c \in Nat, a + b + c = 0
  PROVE  a = 0 /\ b = 0 /\ c = 0
OBVIOUS

(* A coordinator whose Close has returned leaves no worker to the next. *)
LEMMA RestartKeeps ==
  ASSUME Core, Restart
  PROVE  Core'
<1> USE DEF Restart, Renew, history
<1>1. Running = {}
  BY DEF Core, ClosePhases
<1>2. \A p \in Projects : waiting[p] = 0 /\ generating[p] = 0 /\ reporting[p] = 0
  <2> SUFFICES ASSUME NEW p \in Projects
               PROVE  waiting[p] = 0 /\ generating[p] = 0 /\ reporting[p] = 0
    OBVIOUS
  <2>1. waiting[p] \in Nat /\ generating[p] \in Nat /\ reporting[p] \in Nat
    BY DEF Core, TypeOK
  <2>2. waiting[p] + generating[p] + reporting[p] = 0
    BY <1>1 DEF Core, NoSameProjectOverlap, Running
  <2> QED BY <2>1, <2>2, ZeroSum
<1>3. TypeOK'
  <2>1. running' \in [Projects -> BOOLEAN] /\ pending' \in [Projects -> BOOLEAN]
    OBVIOUS
  <2> QED BY <2>1 DEF Core, TypeOK
<1>4. NoSameProjectOverlap'
  BY <1>2 DEF NoSameProjectOverlap
<1>5. Generating' = {} /\ Running' = {}
  BY <1>2 DEF Generating, Running
<1>6. Counted'
  BY <1>5, FS_EmptySet DEF Counted
<1>7. (permits <= MaxConcurrent)' /\ ClosePhases'
  BY MaxConcurrentAssumption DEF ClosePhases
<1> QED BY <1>3, <1>4, <1>6, <1>7 DEF Core

(* Every other step is a step of one coordinator or does not touch it. *)
LEMMA CoreNext == Core /\ [RNext]_allVars => Core'
<1> SUFFICES ASSUME Core, [RNext]_allVars PROVE Core'
  OBVIOUS
<1>1. ASSUME NEW p \in Projects, FileChange(p) PROVE Core'
  BY <1>1, TimerStep DEF FileChange
<1>2. ASSUME NEW p \in Projects, Scheduled(p) PROVE Core'
  BY <1>2, TimerStep, StartStep, BeginStep, FinishStep DEF Scheduled
<1>3. ASSUME NEW p \in Projects, EndGenerate(p) PROVE Core'
  BY <1>3, EndStep
<1>4. CASE CoordinatorCloses
  BY <1>4, CloseStep DEF CoordinatorCloses
<1>5. CASE Restart
  BY <1>5, RestartKeeps
<1>6. CASE UNCHANGED vars
  BY <1>6, StutterStep
<1>7. CASE \/ \E p \in Projects : Save(p)
           \/ Command \/ Tick \/ WatcherCloses \/ Stopped \/ WatchEnds \/ UNCHANGED allVars
  BY <1>6, <1>7 DEF Save, Command, Tick, Noticed, WatcherCloses, Stopped, WatchEnds, allVars
<1> QED BY <1>1, <1>2, <1>3, <1>4, <1>5, <1>7 DEF RNext

(* Across all reconciliations a project has at most one worker and at most *)
(* maxConcurrent projects generate (OneIncarnationAtATime): watchRegistry  *)
(* starts a coordinator only after the Close of the one before returned.   *)
THEOREM OneIncarnation == RSpec => []OneIncarnationAtATime
<1>1. RInit => Core
  BY InitIInv DEF RInit, IInv
<1>2. Core => OneIncarnationAtATime
  BY DEF Core, Counted, OneIncarnationAtATime, ConcurrencyBounded
<1> QED BY <1>1, <1>2, CoreNext, PTL DEF RSpec
=============================================================================
