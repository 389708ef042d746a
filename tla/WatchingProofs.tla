---------------------------- MODULE WatchingProofs ----------------------------
(***************************************************************************)
(* No watch is given up while a read into its buffer is outstanding, for   *)
(* every number of changes on disk and every size of the channel.          *)
(*                                                                         *)
(* NoDanglingRead is inductive beside the types: each operation on the     *)
(* watches keeps it, whatever the Watcher does in between.  So there is    *)
(* one lemma per operation, and the theorem puts them together.            *)
(***************************************************************************)
EXTENDS Watching, TLAPS

(* NoDanglingRead and the types, of a value of watches. *)
Safe(ws) ==
  /\ ws \in [Roots -> Watch]
  /\ \A r \in Roots : ws[r].st = "closed" => ws[r].io = "none"

(* The inductive invariant: dir and changes number the directories. *)
IInv == Safe(watches) /\ dir \in Nat /\ changes \in Nat

(* Add starts a read on a root that has no watch and changes no other. *)
LEMMA AddKeeps ==
  ASSUME NEW ws, Safe(ws), NEW root \in Roots, NEW d \in Nat
  PROVE  Safe(Added(ws, root, d))
<1>1. Active(d) \in Watch BY DEF Active, Watch
<1>2. Active(d).st = "active" BY DEF Active
<1>3. CASE ws[root].st # "closed" BY <1>3 DEF Added
<1>4. CASE ws[root].st = "closed"
  <2>1. Added(ws, root, d) = [ws EXCEPT ![root] = Active(d)] BY <1>4 DEF Added
  <2> QED BY <2>1, <1>1, <1>2 DEF Safe
<1> QED BY <1>3, <1>4

(* Remove leaves the watch in the state canceling until its packet comes. *)
LEMMA RemoveKeeps ==
  ASSUME NEW ws, Safe(ws), NEW root \in Roots
  PROVE  Safe(Removed(ws, root))
<1> DEFINE io == IF ws[root].io = "pending" THEN "aborted" ELSE ws[root].io
           w == [ws[root] EXCEPT !.st = "canceling", !.io = io]
<1>1. CASE ws[root].st # "active" BY <1>1 DEF Removed
<1>2. CASE ws[root].st = "active"
  <2>1. ws[root] \in Watch BY DEF Safe
  <2>2. w \in Watch /\ w.st = "canceling" BY <2>1 DEF Watch
  <2>3. Removed(ws, root) = [ws EXCEPT ![root] = w] BY <1>2, <2>1 DEF Removed, Safe, Watch
  <2> HIDE DEF w
  <2> QED BY <2>2, <2>3 DEF Safe
<1> QED BY <1>1, <1>2

(* A buffer is replaced by another one. *)
LEMMA Retexted ==
  ASSUME NEW w \in Watch, NEW b \in Seq(What)
  PROVE  /\ [w EXCEPT !.buf = b] \in Watch
         /\ [w EXCEPT !.buf = b].st = w.st
<1> DEFINE S == Seq(What)
<1>1. w \in [st : {"closed", "active", "canceling"},
             io : {"none", "pending", "done", "failed", "aborted"},
             buf : S, of : Nat] BY DEF Watch
<1>2. b \in S OBVIOUS
<1>3. Watch = [st : {"closed", "active", "canceling"},
               io : {"none", "pending", "done", "failed", "aborted"},
               buf : S, of : Nat] BY DEF Watch
<1> HIDE DEF S
<1> QED BY <1>1, <1>2, <1>3

(* What happens on disk reaches only the buffer of a watch. *)
LEMMA NotifyKeeps ==
  ASSUME NEW ws, Safe(ws), NEW root \in Roots, NEW what \in What
  PROVE  Safe(Notified(ws, root, what))
<1> DEFINE w == [ws[root] EXCEPT !.buf = Append(@, what)]
<1>1. CASE ws[root].st = "closed" BY <1>1 DEF Notified
<1>2. CASE ws[root].st # "closed"
  <2>1. ws[root] \in Watch BY DEF Safe
  <2>2. Append(ws[root].buf, what) \in Seq(What) BY <2>1 DEF Watch
  <2>3. w \in Watch /\ w.st = ws[root].st BY <2>1, <2>2, Retexted
  <2>4. Notified(ws, root, what) = [ws EXCEPT ![root] = w] BY <1>2 DEF Notified
  <2> HIDE DEF w
  <2> QED BY <1>2, <2>3, <2>4 DEF Safe
<1> QED BY <1>1, <1>2

(* A read that completes was pending, so its watch is there. *)
LEMMA CompletionKeeps ==
  ASSUME NEW r \in Roots, Safe(watches), ReadCompletes(r)
  PROVE  Safe(watches')
<1>1. watches[r] \in Watch /\ watches[r].st # "closed" BY DEF Safe, ReadCompletes
<1>2. \E w \in Watch : w.st # "closed" /\ watches' = [watches EXCEPT ![r] = w]
  <2>1. CASE watches' = [watches EXCEPT ![r].io = "done"]
    <3>1. [watches[r] EXCEPT !.io = "done"] \in Watch BY <1>1 DEF Watch
    <3> QED BY <2>1, <3>1, <1>1 DEF Watch
  <2>2. CASE watches' = [watches EXCEPT ![r].io = "failed"]
    <3>1. [watches[r] EXCEPT !.io = "failed"] \in Watch BY <1>1 DEF Watch
    <3> QED BY <2>2, <3>1, <1>1 DEF Watch
  <2>3. CASE watches' = [watches EXCEPT ![r].io = "done", ![r].buf = <<>>]
    <3> DEFINE v == [watches[r] EXCEPT !.io = "done"]
               w == [v EXCEPT !.buf = <<>>]
    <3>1. v \in Watch /\ v.st # "closed" BY <1>1 DEF Watch
    <3>2. <<>> \in Seq(What) OBVIOUS
    <3>3. w \in Watch /\ w.st # "closed"
      <4> HIDE DEF v
      <4> QED BY <3>1, <3>2, Retexted
    <3>4. watches' = [watches EXCEPT ![r] = w] BY <2>3, <1>1 DEF Watch, Safe
    <3> HIDE DEF w
    <3> QED BY <3>3, <3>4
  <2> QED BY <2>1, <2>2, <2>3 DEF ReadCompletes
<1> QED BY <1>2 DEF Safe

(* A packet that is taken either closes the watch, and then no read is     *)
(* outstanding, or begins the next read.                                   *)
LEMMA PacketKeeps ==
  ASSUME NEW r \in Roots, Safe(watches), readCompletions(r)
  PROVE  Safe(watches')
<1>1. watches[r] \in Watch BY DEF Safe
<1>2. CASE watches' = [watches EXCEPT ![r] = NoWatch]
  <2>1. NoWatch \in Watch /\ NoWatch.io = "none" BY DEF NoWatch, Watch
  <2> QED BY <1>2, <2>1 DEF Safe
<1>3. CASE /\ watches[r].st = "active"
           /\ watches' = [watches EXCEPT ![r].io = "pending", ![r].buf = <<>>]
  <2> DEFINE v == [watches[r] EXCEPT !.io = "pending"]
             w == [v EXCEPT !.buf = <<>>]
  <2>1. v \in Watch /\ v.st = "active" BY <1>1, <1>3 DEF Watch
  <2>2. <<>> \in Seq(What) OBVIOUS
  <2>3. w \in Watch /\ w.st = "active"
    <3> HIDE DEF v
    <3> QED BY <2>1, <2>2, Retexted
  <2>4. watches' = [watches EXCEPT ![r] = w] BY <1>1, <1>3 DEF Safe, Watch
  <2> HIDE DEF w
  <2> QED BY <2>3, <2>4 DEF Safe
<1> QED BY <1>2, <1>3 DEF readCompletions

-----------------------------------------------------------------------------
(* At first nothing is watched. *)
LEMMA IInvInit == Init => IInv
<1>1. NoWatch \in Watch /\ NoWatch.io = "none" BY DEF NoWatch, Watch
<1> QED BY <1>1 DEF Init, BackendInit, IInv, Safe

(* Changes on disk, seen by a watch or not. *)
LEMMA DiskKeeps == IInv /\ (Edit \/ MoveSource) => IInv'
<1> SUFFICES ASSUME IInv, Edit \/ MoveSource PROVE IInv' OBVIOUS
<1>1. "source" \in Roots /\ "project" \in Roots BY RootsAssumption
<1>2. /\ "write" \in What /\ "create" \in What /\ "remove" \in What
      /\ "rmdir" \in What /\ "mvdir" \in What /\ "mkdir" \in What
  BY DEF What
<1>3. dir' \in Nat /\ changes' \in Nat BY DEF Edit, MoveSource, Change, IInv
<1>4. Safe(InSource("write")) /\ Safe(InSource("create")) /\ Safe(InSource("remove"))
  BY <1>1, <1>2, NotifyKeeps DEF InSource, IInv
<1>5. Safe(watches')
  <2>1. CASE Edit BY <2>1, <1>4 DEF Edit
  <2>2. CASE MoveSource
    <3>1. Safe(Notified(InSource("remove"), "project", "rmdir")) BY <1>1, <1>4, <1>2, NotifyKeeps
    <3>2. Safe(Notified(watches, "project", "mvdir")) BY <1>1, <1>2, NotifyKeeps DEF IInv
    <3>3. Safe(Notified(watches, "project", "mkdir")) BY <1>1, <1>2, NotifyKeeps DEF IInv
    <3> QED BY <2>2, <3>1, <3>2, <3>3 DEF MoveSource
  <2> QED BY <2>1, <2>2
<1> QED BY <1>3, <1>5 DEF IInv

(* The goroutine that drains the port, and the system that fills it. *)
LEMMA BackendKeeps == IInv /\ (BackendStep \/ SystemStep) => IInv'
<1> SUFFICES ASSUME IInv, BackendStep \/ SystemStep PROVE IInv' OBVIOUS
<1>1. dir' = dir /\ changes' = changes BY DEF BackendStep, SystemStep, diskVars
<1>2. Safe(watches')
  <2>1. CASE Send BY <2>1 DEF Send, IInv
  <2>2. CASE \E r \in Roots : readCompletions(r) BY <2>2, PacketKeeps DEF IInv
  <2>3. CASE \E r \in Roots : ReadCompletes(r) BY <2>3, CompletionKeeps DEF IInv
  <2> QED BY <2>1, <2>2, <2>3 DEF BackendStep, SystemStep
<1> QED BY <1>1, <1>2 DEF IInv

(* The calls of Add, Remove and Close: AddProject, the two halves of       *)
(* handleEvent that attach and remove a tree, and the end.                 *)
LEMMA WatcherKeeps ==
  IInv /\ (AddProject \/ SourceAppears \/ SourceDisappears \/ Close) => IInv'
<1> SUFFICES ASSUME IInv, AddProject \/ SourceAppears \/ SourceDisappears \/ Close
             PROVE IInv'
  OBVIOUS
<1>1. "source" \in Roots /\ "project" \in Roots BY RootsAssumption
<1>2. dir' = dir /\ changes' = changes
  BY DEF AddProject, SourceAppears, SourceDisappears, Close, diskVars
<1>3. Safe(watches')
  <2>1. CASE AddProject
    <3>1. \/ watches' = Added(watches, "project", 1)
          \/ watches' = Added(watches, "source", dir)
          \/ watches' = watches
      BY <2>1 DEF AddProject
    <3> QED BY <3>1, <1>1, AddKeeps DEF IInv
  <2>2. CASE SourceAppears
    <3>1. watches' \in {Added(watches, "source", dir), watches}
      BY <2>2 DEF SourceAppears, addTree
    <3> QED BY <3>1, <1>1, AddKeeps DEF IInv
  <2>3. CASE SourceDisappears
    <3>1. watches' \in {Removed(watches, "source"), watches}
      BY <2>3 DEF SourceDisappears
    <3> QED BY <3>1, <1>1, RemoveKeeps DEF IInv
  <2>4. CASE Close
    <3>1. (\E r \in Roots : watches' = Removed(watches, r)) \/ watches' = watches
      BY <2>4 DEF Close
    <3> QED BY <3>1, RemoveKeeps DEF IInv
  <2> QED BY <2>1, <2>2, <2>3, <2>4
<1> QED BY <1>2, <1>3 DEF IInv

(* Every other step leaves the watches alone. *)
LEMMA IInvNext == IInv /\ [Next]_vars => IInv'
<1> SUFFICES ASSUME IInv, [Next]_vars PROVE IInv' OBVIOUS
<1>1. CASE Edit \/ MoveSource BY <1>1, DiskKeeps
<1>2. CASE BackendStep \/ SystemStep BY <1>2, BackendKeeps
<1>3. CASE AddProject \/ SourceAppears \/ SourceDisappears \/ Close BY <1>3, WatcherKeeps
<1>4. CASE \/ NothingThere \/ removeTree \/ sourceFileChanged \/ SourceFileChanged
           \/ LoopFails \/ LoopEnds \/ watchRealWithSink \/ AddProjectFails \/ AttachFails
           \/ RemoveTimesOut \/ CloseTimesOut \/ selectIndexSeed \/ DidOpen
           \/ ensureDocumentOpen \/ SessionEnds \/ UNCHANGED vars
  <2>1. UNCHANGED <<watches, dir, changes>>
    BY <1>4 DEF NothingThere, removeTree, sourceFileChanged, SourceFileChanged, LoopFails,
       LoopEnds, watchRealWithSink, AddProjectFails, AttachFails, RemoveTimesOut, CloseTimesOut,
       selectIndexSeed, DidOpen, ensureDocumentOpen, SessionEnds, vars, backendVars, diskVars
  <2> QED BY <2>1 DEF IInv
<1> QED BY <1>1, <1>2, <1>3, <1>4 DEF Next, WatcherStep

(* The system never has a read into the buffer of a watch that was given   *)
(* up, nor a packet that points to it (NoDanglingRead): Remove and Close   *)
(* leave a watch to readCompletions, which takes its last packet.          *)
THEOREM ReadsNeverDangle == Spec => []NoDanglingRead
<1>1. IInv => NoDanglingRead BY DEF IInv, Safe, NoDanglingRead
<1> QED BY <1>1, IInvInit, IInvNext, PTL DEF Spec
=============================================================================
