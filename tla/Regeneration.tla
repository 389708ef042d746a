----------------------------- MODULE Regeneration -----------------------------
(***************************************************************************)
(* What the regeneration coordinator promises, without timers, workers,    *)
(* permits or flags: changes are seen, a generation takes up everything    *)
(* seen so far, a project has at most one generation at a time, at most    *)
(* MaxConcurrent of them run together, and after the coordinator has       *)
(* halted nothing begins.                                                  *)
(***************************************************************************)
EXTENDS Naturals, FiniteSets

CONSTANTS Projects, MaxConcurrent

VARIABLES seen,    \* changes seen, per project
          taken,   \* changes seen when the latest generation began
          busy,    \* the projects that are generating
          halted   \* Close has returned

absVars == <<seen, taken, busy, halted>>

AbsInit ==
  /\ seen = [p \in Projects |-> 0]
  /\ taken = [p \in Projects |-> 0]
  /\ busy = {}
  /\ halted = FALSE

Change(p) ==
  /\ ~halted
  /\ seen' = [seen EXCEPT ![p] = @ + 1]
  /\ UNCHANGED <<taken, busy, halted>>

Begin(p) ==
  /\ ~halted
  /\ p \notin busy
  /\ Cardinality(busy) < MaxConcurrent
  /\ busy' = busy \cup {p}
  /\ taken' = [taken EXCEPT ![p] = seen[p]]
  /\ UNCHANGED <<seen, halted>>

End(p) ==
  /\ p \in busy
  /\ busy' = busy \ {p}
  /\ UNCHANGED <<seen, taken, halted>>

Halt ==
  /\ ~halted
  /\ busy = {}
  /\ halted' = TRUE
  /\ UNCHANGED <<seen, taken, busy>>

AbsNext == (\E p \in Projects : Change(p) \/ Begin(p) \/ End(p)) \/ Halt

AbsSpec == AbsInit /\ [][AbsNext]_absVars

(* A project with changes that no generation took up is served in the end. *)
AbsFairness ==
  \A p \in Projects :
    /\ SF_absVars(taken[p] < seen[p] /\ Begin(p))
    /\ WF_absVars(End(p))

AbsFairSpec == AbsSpec /\ AbsFairness
=============================================================================
