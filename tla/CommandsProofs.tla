---------------------------- MODULE CommandsProofs ----------------------------
(***************************************************************************)
(* Proofs about Commands, for every number of processes, projects, engine  *)
(* keys and commands.                                                      *)
(***************************************************************************)
EXTENDS Commands, FiniteSetTheorems, SequenceTheorems, WellFoundedInduction, TLAPS

Gen == {"generate", "watch"}

(* t, a process, generates a database; it has the generation lock. *)
Making(t) == t.cmd \in Gen /\ t.pc \in {"generate", "ubt", "update", "mutate"}
Locked(t) == t.cmd \in Gen /\ t.pc \in {"refind", "generate", "ubt", "update", "mutate",
                                        "persist", "note"}
Indexing == {"build", "indexing", "built", "check", "write"}

(* What a command is doing tells which command it is. *)
Kind(t) ==
  /\ t.pc \in {"gate", "refind", "generate", "ubt", "persist", "note"} => t.cmd \in Gen
  /\ t.pc \in {"update", "mutate"} => t.cmd \in {"add", "remove", "doctor"} \cup Gen
  /\ t.cmd \in Gen /\ t.pc # "find" => t.id \in Ids
  /\ t.cmd = "add" => t.rec.gen = 0
  /\ Making(t) => t.rec.id \in Ids

(* Who passed withProjectGenerationLock holds that lock. *)
GateHeld(t, p) == Locked(t) => gate[t.id] = p

(* Store.Update: what was loaded is still what is there. *)
StoreHeld(t, p) == t.pc \in {"mutate", "note"} => store = p /\ t.snap = reg

(* An index that one indexer has finished. *)
Finished == {"whole", "mixed"}

(* index-engine: the files of the run that holds the lock. *)
EngineHeld(t, p) ==
  t.pc \in Indexing =>
    /\ engine = p
    /\ t.pc = "built" => idxNew[t.key].text \in Finished
    /\ t.pc \in {"check", "write"} => idx[t.key] \in Finished
    /\ t.pc = "write" => Replaceable(fragment, t.key, t.rec.id)

(* The registry is valid and no record is newer than the last database. *)
Registered ==
  /\ normalizeAndValidate(reg)
  /\ \A k \in DOMAIN reg : reg[k].id \in Ids /\ reg[k].gen <= stamp

(* Every command makes at most one database. *)
Pending == {p \in Procs : proc[p].cmd \in Gen
                          /\ proc[p].pc \in {"find", "gate", "refind", "generate", "ubt"}}
Stamps == IsFiniteSet(Pending) /\ stamp + Cardinality(Pending) <= issued + 1

(* While its lock is held, a project's record changes only to a new one    *)
(* without a database; and a database that is not recorded yet stays.      *)
Unchanged(t) ==
  Making(t) /\ t.rec.id = t.id =>
    \A k \in DOMAIN reg : reg[k].id = t.id /\ reg[k].gen # 0 => reg[k].dir = t.rec.dir
Promoted(t) ==
  t.cmd \in Gen /\ t.pc \in {"update", "mutate"} =>
    t.rec.id = t.id /\ cdb[t.id] = [dir |-> t.rec.dir, gen |-> t.rec.gen]

Own(x) == x.gen # 0 => cdb[x.id].dir = x.dir /\ x.gen <= cdb[x.id].gen

Databases ==
  crossed \/ /\ \A k \in DOMAIN reg : Own(reg[k])
             /\ \A p \in Procs : Unchanged(proc[p]) /\ Promoted(proc[p])

Sound(t, p) ==
  Kind(t) /\ t.rec.gen <= stamp /\ GateHeld(t, p) /\ StoreHeld(t, p) /\ EngineHeld(t, p)

(* The inductive invariant. *)
IInv ==
  /\ TypeOK /\ Registered /\ Stamps /\ Databases /\ MountedIndexWhole
  /\ \A p \in Procs : Sound(proc[p], p)

-----------------------------------------------------------------------------
(* Least elements, and the lookups that are built on them. *)
LEMMA LeastElement ==
  ASSUME NEW S \in SUBSET Nat, S # {}
  PROVE  Min(S) \in S /\ \A y \in S : Min(S) <= y
<1>1. \E x \in S : \A y \in S : <<y, x>> \notin OpToRel(<, Nat)
  BY NatLessThanWellFounded, WFMin
<1>2. PICK x \in S : \A y \in S : <<y, x>> \notin OpToRel(<, Nat)
  BY <1>1
<1>3. \A y \in S : x <= y
  <2> SUFFICES ASSUME NEW y \in S, ~(x <= y) PROVE FALSE
    OBVIOUS
  <2>1. y < x /\ y \in Nat /\ x \in Nat
    OBVIOUS
  <2> QED BY <1>2, <2>1 DEF OpToRel
<1> QED BY <1>3 DEF Min

(* find answers 0 or the position of a project with that id or name. *)
LEMMA FindFound ==
  ASSUME NEW r \in Seq(Project), NEW t
  PROVE  /\ find(r, t) \in {0} \cup (1..Len(r))
         /\ find(r, t) # 0 => r[find(r, t)].id = t \/ r[find(r, t)].name = t
<1> DEFINE I == {i \in 1..Len(r) : r[i].id = t \/ r[i].name = t}
<1>1. find(r, t) = IF I # {} THEN Min(I) ELSE 0
  BY DEF find, SelectInSeq
<1>2. I \in SUBSET Nat
  OBVIOUS
<1>3. I # {} => Min(I) \in I
  <2> HIDE DEF I
  <2> QED BY <1>2, LeastElement
<1> QED BY <1>1, <1>3

(* So does the lookup by id alone, with a project of that id. *)
LEMMA FindIDFound ==
  ASSUME NEW r \in Seq(Project), NEW t
  PROVE  /\ findID(r, t) \in {0} \cup (1..Len(r))
         /\ findID(r, t) # 0 => r[findID(r, t)].id = t
<1> DEFINE I == {i \in 1..Len(r) : r[i].id = t}
<1>1. findID(r, t) = IF I # {} THEN Min(I) ELSE 0
  BY DEF findID, SelectInSeq
<1>2. I \in SUBSET Nat
  OBVIOUS
<1>3. I # {} => Min(I) \in I
  <2> HIDE DEF I
  <2> QED BY <1>2, LeastElement
<1> QED BY <1>1, <1>3

(* stableID finds an id: there is one more than there are directories. *)
LEMMA StableID ==
  ASSUME NEW r \in Seq(Project), normalizeAndValidate(r)
  PROVE  stableID(r) \in Ids /\ \A k \in DOMAIN r : r[k].id # stableID(r)
<1> DEFINE Free == {i \in Ids : \A k \in DOMAIN r : r[k].id # i}
<1>0. Cardinality(Dirs) \in Nat /\ IsFiniteSet(Dirs)
  BY DirsAssumption, FS_CardinalityType
<1>1. Free # {}
  <2> SUFFICES ASSUME \A i \in Ids : \E k \in DOMAIN r : r[k].id = i PROVE FALSE
    OBVIOUS
  <2> DEFINE at(i) == CHOOSE k \in DOMAIN r : r[k].id = i
             f == [i \in Ids |-> r[at(i)].dir]
  <2>1. \A i \in Ids : at(i) \in DOMAIN r /\ r[at(i)].id = i
    OBVIOUS
  <2>2. f \in [Ids -> Dirs]
    <3>1. \A k \in DOMAIN r : r[k] \in Project
      OBVIOUS
    <3>2. \A x \in Project : x.dir \in Dirs
      BY DEF Project
    <3> QED BY <2>1, <3>1, <3>2
  <2>3. IsFiniteSet(Ids) /\ Cardinality(Dirs) < Cardinality(Ids)
    <3> DEFINE n == Cardinality(Dirs) + 1
    <3>1. 1 \in Int /\ n \in Int /\ ~(1 > n) /\ n - 1 + 1 = n /\ Cardinality(Dirs) < n
      BY <1>0
    <3> HIDE DEF n
    <3>2. IsFiniteSet(1..n) /\ Cardinality(1..n) = n
      BY <3>1, FS_Interval
    <3> QED BY <3>1, <3>2 DEF Ids, n
  <2>4. PICK i, j \in Ids : i # j /\ f[i] = f[j]
    <3> HIDE DEF f
    <3> QED BY <1>0, <2>2, <2>3, FS_PigeonHole
  <2>5. at(i) # at(j)
    BY <2>1, <2>4
  <2>6. r[at(i)].dir = r[at(j)].dir
    BY <2>4
  <2> QED BY <2>1, <2>5, <2>6 DEF normalizeAndValidate
<1>2. Free \in SUBSET Nat
  BY <1>0 DEF Ids
<1>3. Min(Free) \in Free /\ \A y \in Free : Min(Free) <= y
  BY <1>1, <1>2, LeastElement
<1>4. \A j \in 1..(Min(Free) - 1) : \E k \in DOMAIN r : r[k].id = j
  <2>1. PICK m \in Nat : m = Min(Free)
    BY <1>2, <1>3
  <2>2. m \in Ids /\ \A y \in Free : m <= y
    BY <1>3, <2>1
  <2> SUFFICES ASSUME NEW j \in 1..(m - 1) PROVE j \notin Free /\ j \in Ids
    BY <2>1
  <2>3. j \in Nat /\ j < m
    BY <2>1
  <2>4. j \notin Free
    <3> HIDE DEF Free
    <3> QED BY <2>2, <2>3
  <2>5. j \in Ids
    BY <1>0, <2>2, <2>3 DEF Ids
  <2> QED BY <2>4, <2>5
<1>5. \E i \in Ids : /\ \A k \in DOMAIN r : r[k].id # i
                     /\ \A j \in 1..(i - 1) : \E k \in DOMAIN r : r[k].id = j
  BY <1>3, <1>4
<1> QED BY <1>5 DEF stableID

-----------------------------------------------------------------------------
(* What p does leaves the locks of the others alone. *)
OthersKeep(p) ==
  \A q \in Procs \ {p} :
    /\ store = q => store' = q
    /\ engine = q => engine' = q
    /\ \A i \in Ids : gate[i] = q => gate'[i] = q

LockTypes ==
  {store, engine} \subseteq Procs \cup {Nobody} /\ gate \in [Ids -> Procs \cup {Nobody}]

(* t has yet to make its database. *)
Waits(t) == t.cmd \in Gen /\ t.pc \in {"find", "gate", "refind", "generate", "ubt"}

(* The databases a behaviour can make are counted by its commands. *)
LEMMA StampsKept ==
  ASSUME IInv, NEW p \in Procs, NEW t \in Process, proc' = [proc EXCEPT ![p] = t],
         \/ issued' = issued /\ stamp' = stamp /\ (Waits(t) => Waits(proc[p]))
         \/ issued' = issued + 1 /\ stamp' = stamp
         \/ issued' = issued /\ stamp' = stamp + 1 /\ Waits(proc[p]) /\ ~Waits(t)
  PROVE  Stamps'
<1>1. \A q \in Procs : proc'[q] = IF q = p THEN t ELSE proc[q]
  BY DEF IInv, TypeOK
<1>2. /\ IsFiniteSet(Pending) /\ Cardinality(Pending) \in Nat
      /\ stamp \in Nat /\ issued \in Nat /\ stamp + Cardinality(Pending) <= issued + 1
  BY FS_CardinalityType, MaxCommandsAssumption DEF IInv, Stamps, TypeOK, Gens
<1>3. p \in Pending <=> Waits(proc[p])
  BY DEF Pending, Waits
<1>4. CASE Waits(t)
  <2>1. Pending' = Pending \cup {p}
    BY <1>1, <1>4 DEF Pending, Waits
  <2>2. PICK S : S = Pending'
    OBVIOUS
  <2>3. /\ IsFiniteSet(S) /\ Cardinality(S) \in Nat
        /\ Cardinality(S) <= Cardinality(Pending) + 1
        /\ p \in Pending => Cardinality(S) = Cardinality(Pending)
    <3>1. IsFiniteSet(Pending \cup {p})
          /\ Cardinality(Pending \cup {p}) =
               IF p \in Pending THEN Cardinality(Pending) ELSE Cardinality(Pending) + 1
      BY <1>2, FS_AddElement
    <3> QED BY <1>2, <2>1, <2>2, <3>1
  <2>4. stamp' + Cardinality(S) <= issued' + 1
    BY <1>2, <1>3, <1>4, <2>3
  <2> QED BY <2>2, <2>3, <2>4 DEF Stamps
<1>5. CASE ~Waits(t)
  <2>1. Pending' = Pending \ {p}
    BY <1>1, <1>5 DEF Pending, Waits
  <2>2. PICK S : S = Pending'
    OBVIOUS
  <2>3. /\ IsFiniteSet(S) /\ Cardinality(S) \in Nat
        /\ Cardinality(S) = IF p \in Pending THEN Cardinality(Pending) - 1
                                             ELSE Cardinality(Pending)
    <3>1. IsFiniteSet(Pending \ {p})
          /\ Cardinality(Pending \ {p}) =
               IF p \in Pending THEN Cardinality(Pending) - 1 ELSE Cardinality(Pending)
      BY <1>2, FS_RemoveElement
    <3>2. Cardinality(Pending \ {p}) \in Nat
      BY <3>1, FS_CardinalityType
    <3> QED BY <2>1, <2>2, <3>1, <3>2
  <2>4. stamp' + Cardinality(S) <= issued' + 1
    BY <1>2, <1>3, <1>5, <2>3
  <2> QED BY <2>2, <2>3, <2>4 DEF Stamps
<1> QED BY <1>4, <1>5

(* The others are where they were, and what their locks protect stays. *)
LEMMA OthersSound ==
  ASSUME IInv, NEW p \in Procs, NEW t \in Process, proc' = [proc EXCEPT ![p] = t],
         OthersKeep(p), stamp' \in Nat, stamp <= stamp',
         reg' = reg \/ store = p,
         UNCHANGED <<idx, idxNew, fragment>> \/ engine = p,
         NEW q \in Procs, q # p
  PROVE  Sound(proc[q], q)'
<1>1. PICK u : u = proc[q] /\ u = proc'[q]
  BY DEF IInv, TypeOK
<1>2. Sound(u, q) /\ u \in Process /\ stamp \in Nat
  BY <1>1, MaxCommandsAssumption DEF IInv, TypeOK, Gens
<1>3. Kind(u)
  BY <1>2 DEF Sound
<1>4. u.rec.gen <= stamp'
  <2>1. u.rec \in Project /\ u.rec.gen <= stamp
    BY <1>2 DEF Sound, Process
  <2>2. u.rec.gen \in Nat
    BY <2>1, MaxCommandsAssumption DEF Project, Gens
  <2> QED BY <1>2, <2>1, <2>2
<1>5. GateHeld(u, q)'
  BY <1>2, <1>3 DEF Sound, GateHeld, Locked, Kind, OthersKeep
<1>6. StoreHeld(u, q)'
  BY <1>2 DEF Sound, StoreHeld, OthersKeep
<1>7. EngineHeld(u, q)'
  BY <1>2 DEF Sound, EngineHeld, OthersKeep
<1>8. Sound(u, q)'
  BY <1>3, <1>4, <1>5, <1>6, <1>7 DEF Sound
<1> QED BY <1>1, <1>8

(* A step that leaves the registry and the databases; who has the lock of  *)
(* index-engine may change its files.                                      *)
LEMMA FilesStep ==
  ASSUME IInv, NEW p \in Procs, NEW t \in Process, proc' = [proc EXCEPT ![p] = t],
         UNCHANGED <<reg, cdb, stamp, crossed>>,
         UNCHANGED <<idx, idxNew, fragment>> \/ engine = p,
         idx' \in [Keys -> Texts],
         idxNew' \in [Keys -> Staged],
         fragment' \in Fragment, MountedIndexWhole',
         OthersKeep(p), LockTypes', Sound(t, p)',
         crossed \/ (Unchanged(t) /\ Promoted(t)),
         \/ issued' = issued /\ (Waits(t) => Waits(proc[p]))
         \/ issued' = issued + 1 /\ issued < MaxCommands
  PROVE  IInv'
<1>0. stamp \in Nat /\ stamp <= stamp'
  BY MaxCommandsAssumption DEF IInv, TypeOK, Gens
<1>1. \A q \in Procs : proc'[q] = IF q = p THEN t ELSE proc[q]
  BY DEF IInv, TypeOK
<1>2. TypeOK'
  <2>1. issued' \in 0..MaxCommands
    BY MaxCommandsAssumption DEF IInv, TypeOK
  <2>2. proc' \in [Procs -> Process]
    BY DEF IInv, TypeOK
  <2>3. reg' \in Seq(Project) /\ cdb' \in [Ids -> Database] /\ stamp' \in Gens /\ crossed' \in BOOLEAN
    BY DEF IInv, TypeOK
  <2> QED BY <2>1, <2>2, <2>3 DEF TypeOK, LockTypes
<1>3. Registered'
  BY DEF IInv, Registered, normalizeAndValidate
<1>4. Stamps'
  BY StampsKept
<1>5. Databases'
  BY <1>1 DEF IInv, Databases, Own, Unchanged, Promoted
<1>6. Sound(proc[p], p)'
  BY <1>1
<1>7. ASSUME NEW q \in Procs PROVE Sound(proc[q], q)'
  BY <1>0, <1>6, OthersSound
<1> QED BY <1>2, <1>3, <1>4, <1>5, <1>7 DEF IInv

(* A step of one process that leaves the files alone keeps the invariant   *)
(* if the process has the locks its next step relies on and takes none     *)
(* from another.                                                           *)
LEMMA QuietStep ==
  ASSUME IInv, NEW p \in Procs, NEW t \in Process, proc' = [proc EXCEPT ![p] = t],
         UNCHANGED <<reg, cdb, idx, idxNew, fragment, stamp, crossed>>,
         OthersKeep(p), LockTypes', Sound(t, p)',
         crossed \/ (Unchanged(t) /\ Promoted(t)),
         \/ issued' = issued /\ (Waits(t) => Waits(proc[p]))
         \/ issued' = issued + 1 /\ issued < MaxCommands
  PROVE  IInv'
<1>1. /\ idx' \in [Keys -> Texts]
      /\ idxNew' \in [Keys -> Staged]
      /\ fragment' \in Fragment /\ MountedIndexWhole'
  BY DEF IInv, TypeOK, MountedIndexWhole
<1> QED BY <1>1, FilesStep

(* A process without a command relies on nothing. *)
LEMMA IdleQuiet ==
  /\ Idle \in Process /\ Idle.pc = "idle" /\ Idle.cmd = "none" /\ Idle.rec.gen = 0
  /\ Kind(Idle) /\ ~Locked(Idle) /\ ~Making(Idle) /\ ~Waits(Idle)
<1>1. Dirs # {}
  <2>1. Dirs = {} => Cardinality(Dirs) = 0
    BY FS_EmptySet
  <2> QED BY <2>1, DirsAssumption
<1>2. NoProject \in Project /\ NoProject.gen = 0
  BY <1>1, MaxCommandsAssumption DEF NoProject, NewProject, Project, Names, Gens
<1>3. (CHOOSE k \in Keys : TRUE) \in Keys
  BY KeysAssumption
<1>4. /\ Idle.pc = "idle" /\ Idle.cmd = "none" /\ Idle.rec = NoProject
  BY DEF Idle
<1>5. Idle \in Process
  BY <1>2, <1>3 DEF Idle, Process, Names
<1> QED BY <1>2, <1>4, <1>5 DEF Kind, Locked, Making, Waits, Gen

(* The deferred releases free what p holds and no lock of another. *)
LEMMA LeaveLocks ==
  ASSUME TypeOK, NEW p \in Procs, Leave(p)
  PROVE  OthersKeep(p) /\ LockTypes'
<1>1. OthersKeep(p)
  BY DEF TypeOK, Leave, Freed, OthersKeep
<1>2. LockTypes'
  BY DEF TypeOK, Leave, Freed, LockTypes
<1> QED BY <1>1, <1>2

(* ... so a command may end at any point. *)
LEMMA LeaveSound ==
  ASSUME NEW p \in Procs, stamp' \in Nat
  PROVE  Sound(Idle, p)' /\ Unchanged(Idle)' /\ Promoted(Idle)'
BY IdleQuiet DEF Sound, GateHeld, StoreHeld, EngineHeld, Unchanged, Promoted, Indexing, Gen

(* A command ends, in whatever it was doing, and has changed no file. *)
LEMMA LeaveStep ==
  ASSUME IInv, NEW p \in Procs, Leave(p),
         UNCHANGED <<reg, cdb, idx, idxNew, fragment, issued, stamp, crossed>>
  PROVE  IInv'
<1>1. stamp' \in Nat
  BY MaxCommandsAssumption DEF IInv, TypeOK, Gens
<1>2. proc' = [proc EXCEPT ![p] = Idle] /\ OthersKeep(p) /\ LockTypes'
  BY LeaveLocks DEF IInv, Leave
<1>3. Unchanged(Idle) /\ Promoted(Idle)
  BY IdleQuiet DEF Unchanged, Promoted, Gen
<1> QED BY <1>1, <1>2, <1>3, LeaveSound, IdleQuiet, QuietStep

(* What stands in the registry has an id and a name that can be asked for. *)
LEMMA RegisteredAsked ==
  ASSUME IInv, NEW x \in Range(reg)
  PROVE  x \in Project /\ x.id \in Ids /\ x.name \in Names /\ x.gen <= stamp
<1>1. PICK k \in DOMAIN reg : x = reg[k]
  BY DEF Range
<1>2. reg[k] \in Project
  BY DEF IInv, TypeOK
<1> QED BY <1>1, <1>2 DEF IInv, Registered, Project

(* A new command holds no lock and knows no record that has a database. *)
LEMMA IssueStep ==
  ASSUME IInv, NEW p \in Procs, Issue(p)
  PROVE  IInv'
<1>1. PICK me \in Process : me = proc[p]
  BY DEF IInv, TypeOK
<1>2. Sound(me, p) /\ proc \in [Procs -> Process] /\ stamp \in Nat
  BY <1>1, MaxCommandsAssumption DEF IInv, TypeOK, Gens
<1>3. /\ UNCHANGED <<reg, store, gate, cdb, engine, idx, idxNew, fragment, stamp, crossed>>
      /\ issued' = issued + 1 /\ issued < MaxCommands
  BY DEF Issue, indexVars
<1>4. OthersKeep(p) /\ LockTypes'
  BY <1>3 DEF IInv, TypeOK, OthersKeep, LockTypes
<1>5. ASSUME NEW t \in Process, proc' = [proc EXCEPT ![p] = t], Kind(t),
             t.pc \in {"find", "gate"} \/ (t.pc = "update" /\ t.cmd \in {"add", "remove"}),
             t.rec.gen = 0 \/ t.rec = me.rec
      PROVE  IInv'
  <2>1. Sound(t, p)'
    BY <1>2, <1>3, <1>5 DEF Sound, GateHeld, Locked, StoreHeld, EngineHeld, Indexing, Gen
  <2>2. Unchanged(t) /\ Promoted(t)
    BY <1>5 DEF Unchanged, Promoted, Making, Gen
  <2> QED BY <1>3, <1>4, <1>5, <2>1, <2>2, QuietStep
<1>6. ASSUME NEW d \in Dirs, NEW n \in Names,
             proc' = [proc EXCEPT ![p].cmd = "add", ![p].pc = "update",
                                  ![p].rec = NewProject(d, n)]
      PROVE  IInv'
  <2> DEFINE t == [me EXCEPT !.cmd = "add", !.pc = "update", !.rec = NewProject(d, n)]
  <2>1. proc' = [proc EXCEPT ![p] = t]
    BY <1>1, <1>2, <1>6
  <2>2. NewProject(d, n) \in Project /\ NewProject(d, n).gen = 0
    BY MaxCommandsAssumption DEF NewProject, Project, Gens
  <2>3. t \in Process /\ t.cmd = "add" /\ t.pc = "update" /\ t.rec.gen = 0
    BY <2>2 DEF Process
  <2>4. Kind(t)
    <3> HIDE DEF t
    <3> QED BY <2>3 DEF Kind, Gen, Making
  <2> HIDE DEF t
  <2>5. /\ t.pc \in {"find", "gate"} \/ (t.pc = "update" /\ t.cmd \in {"add", "remove"})
        /\ t.rec.gen = 0 \/ t.rec = me.rec
    BY <2>3
  <2> QED BY <1>5, <2>1, <2>3, <2>4, <2>5
<1>7. ASSUME NEW x \in Range(reg), NEW w \in {x.id, x.name},
             proc' = [proc EXCEPT ![p].cmd = "remove", ![p].pc = "update", ![p].want = w]
      PROVE  IInv'
  <2> DEFINE t == [me EXCEPT !.cmd = "remove", !.pc = "update", !.want = w]
  <2>1. proc' = [proc EXCEPT ![p] = t]
    BY <1>1, <1>2, <1>7
  <2>2. w \in Names \cup Ids
    BY RegisteredAsked
  <2>3. t \in Process /\ t.cmd = "remove" /\ t.pc = "update" /\ t.rec = me.rec
    BY <2>2 DEF Process
  <2>4. Kind(t)
    <3> HIDE DEF t
    <3> QED BY <2>3 DEF Kind, Gen, Making
  <2> HIDE DEF t
  <2>5. /\ t.pc \in {"find", "gate"} \/ (t.pc = "update" /\ t.cmd \in {"add", "remove"})
        /\ t.rec.gen = 0 \/ t.rec = me.rec
    BY <2>3
  <2> QED BY <1>5, <2>1, <2>3, <2>4, <2>5
<1>8. ASSUME NEW x \in Range(reg), NEW c \in {"generate", "index"}, NEW w \in {x.id, x.name},
             proc' = [proc EXCEPT ![p].cmd = c, ![p].pc = "find", ![p].want = w]
      PROVE  IInv'
  <2> DEFINE t == [me EXCEPT !.cmd = c, !.pc = "find", !.want = w]
  <2>1. proc' = [proc EXCEPT ![p] = t]
    BY <1>1, <1>2, <1>8
  <2>2. w \in Names \cup Ids
    BY RegisteredAsked
  <2>3. t \in Process /\ t.cmd \in {"generate", "index"} /\ t.pc = "find" /\ t.rec = me.rec
    BY <2>2 DEF Process
  <2>4. Kind(t)
    <3> HIDE DEF t
    <3> QED BY <2>3 DEF Kind, Gen, Making
  <2> HIDE DEF t
  <2>5. /\ t.pc \in {"find", "gate"} \/ (t.pc = "update" /\ t.cmd \in {"add", "remove"})
        /\ t.rec.gen = 0 \/ t.rec = me.rec
    BY <2>3
  <2> QED BY <1>5, <2>1, <2>3, <2>4, <2>5
<1>9. ASSUME proc' = [proc EXCEPT ![p].cmd = "doctor", ![p].pc = "find"]
      PROVE  IInv'
  <2> DEFINE t == [me EXCEPT !.cmd = "doctor", !.pc = "find"]
  <2>1. proc' = [proc EXCEPT ![p] = t]
    BY <1>1, <1>2, <1>9
  <2>3. t \in Process /\ t.cmd = "doctor" /\ t.pc = "find" /\ t.rec = me.rec
    BY DEF Process
  <2>4. Kind(t)
    <3> HIDE DEF t
    <3> QED BY <2>3 DEF Kind, Gen, Making
  <2> HIDE DEF t
  <2>5. /\ t.pc \in {"find", "gate"} \/ (t.pc = "update" /\ t.cmd \in {"add", "remove"})
        /\ t.rec.gen = 0 \/ t.rec = me.rec
    BY <2>3
  <2> QED BY <1>5, <2>1, <2>3, <2>4, <2>5
<1>10. ASSUME NEW x \in Range(reg),
              proc' = [proc EXCEPT ![p].cmd = "watch", ![p].pc = "gate", ![p].id = x.id]
       PROVE  IInv'
  <2> DEFINE t == [me EXCEPT !.cmd = "watch", !.pc = "gate", !.id = x.id]
  <2>1. proc' = [proc EXCEPT ![p] = t]
    BY <1>1, <1>2, <1>10
  <2>2. x.id \in Ids
    BY RegisteredAsked
  <2>3. t \in Process /\ t.cmd = "watch" /\ t.pc = "gate" /\ t.rec = me.rec /\ t.id \in Ids
    BY <2>2 DEF Process
  <2>4. Kind(t)
    <3> HIDE DEF t
    <3> QED BY <2>3 DEF Kind, Gen, Making
  <2> HIDE DEF t
  <2>5. /\ t.pc \in {"find", "gate"} \/ (t.pc = "update" /\ t.cmd \in {"add", "remove"})
        /\ t.rec.gen = 0 \/ t.rec = me.rec
    BY <2>3
  <2> QED BY <1>5, <2>1, <2>3, <2>4, <2>5
<1> QED BY <1>6, <1>7, <1>8, <1>9, <1>10 DEF Issue

(* What the invariant says of the process that takes a step. *)
LEMMA Mine ==
  ASSUME IInv, NEW p \in Procs
  PROVE  /\ \E me \in Process : /\ me = proc[p] /\ Sound(me, p) /\ Kind(me)
                                /\ crossed \/ (Unchanged(me) /\ Promoted(me))
         /\ proc \in [Procs -> Process] /\ stamp \in Nat /\ issued \in Nat
         /\ LockTypes /\ reg \in Seq(Project)
<1>1. proc \in [Procs -> Process] /\ stamp \in Nat /\ issued \in Nat
  BY MaxCommandsAssumption DEF IInv, TypeOK, Gens
<1>2. LockTypes /\ reg \in Seq(Project)
  BY DEF IInv, TypeOK, LockTypes
<1>3. Sound(proc[p], p) /\ (crossed \/ (Unchanged(proc[p]) /\ Promoted(proc[p])))
  BY DEF IInv, Databases
<1> QED BY <1>1, <1>2, <1>3 DEF Sound

(* A step that touches no lock leaves those of the others. *)
LEMMA LocksKept ==
  ASSUME LockTypes, NEW p \in Procs, UNCHANGED <<store, gate, engine>>
  PROVE  OthersKeep(p) /\ LockTypes'
BY DEF OthersKeep, LockTypes

(* What Find saw is only a hint: all that is kept of it is an id. *)
LEMMA FindStep ==
  ASSUME IInv, NEW p \in Procs, Find(p)
  PROVE  IInv'
<1>1. PICK me \in Process : /\ me = proc[p] /\ Sound(me, p) /\ Kind(me)
                            /\ crossed \/ (Unchanged(me) /\ Promoted(me))
  BY Mine
<1>2. /\ UNCHANGED <<reg, store, gate, cdb, engine, idx, idxNew, fragment, issued, stamp, crossed>>
      /\ me.pc = "find" /\ me.cmd \in {"generate", "index"} /\ find(reg, me.want) # 0
  BY <1>1 DEF Find, indexVars
<1>3. OthersKeep(p) /\ LockTypes' /\ proc \in [Procs -> Process]
  BY <1>2, Mine, LocksKept
<1>4. PICK x : x = reg[find(reg, me.want)] /\ x \in Range(reg)
  <2>1. find(reg, me.want) \in DOMAIN reg
    BY <1>2, Mine, FindFound
  <2> QED BY <2>1 DEF Range
<1>5. x \in Project /\ x.id \in Ids /\ x.gen <= stamp
  BY <1>4, RegisteredAsked
<1>6. CASE me.cmd = "generate" /\ proc' = [proc EXCEPT ![p].pc = "gate", ![p].id = x.id]
  <2> DEFINE t == [me EXCEPT !.pc = "gate", !.id = x.id]
  <2>1. proc' = [proc EXCEPT ![p] = t]
    BY <1>1, <1>3, <1>6
  <2>2. t \in Process /\ t.cmd = "generate" /\ t.pc = "gate" /\ t.rec = me.rec /\ t.id \in Ids
    BY <1>5, <1>6 DEF Process
  <2> HIDE DEF t
  <2>3. Sound(t, p)'
    BY <1>1, <1>2, <2>2 DEF Sound, Kind, Making, GateHeld, Locked, StoreHeld, EngineHeld, Indexing, Gen
  <2>4. Unchanged(t) /\ Promoted(t) /\ Waits(proc[p])
    BY <1>1, <1>2, <1>6, <2>2 DEF Unchanged, Promoted, Making, Waits, Gen
  <2> QED BY <1>2, <1>3, <2>1, <2>2, <2>3, <2>4, QuietStep
<1>7. CASE me.cmd = "index" /\ proc' = [proc EXCEPT ![p].pc = "engine", ![p].rec = x]
  <2> DEFINE t == [me EXCEPT !.pc = "engine", !.rec = x]
  <2>1. proc' = [proc EXCEPT ![p] = t]
    BY <1>1, <1>3, <1>7
  <2>2. t \in Process /\ t.cmd = "index" /\ t.pc = "engine" /\ t.rec = x
    BY <1>5, <1>7 DEF Process
  <2> HIDE DEF t
  <2>3. Sound(t, p)'
    BY <1>2, <1>5, <2>2 DEF Sound, Kind, Making, GateHeld, Locked, StoreHeld, EngineHeld, Indexing, Gen
  <2>4. Unchanged(t) /\ Promoted(t) /\ ~Waits(t)
    BY <2>2 DEF Unchanged, Promoted, Making, Waits, Gen
  <2> QED BY <1>2, <1>3, <2>1, <2>2, <2>3, <2>4, QuietStep
<1> QED BY <1>1, <1>4, <1>6, <1>7 DEF Find

(* doctor keeps ids, which Store.Update looks up again. *)
LEMMA DoctorStep ==
  ASSUME IInv, NEW p \in Procs, Doctor(p)
  PROVE  IInv'
<1>1. PICK me \in Process : /\ me = proc[p] /\ Sound(me, p) /\ Kind(me)
                            /\ crossed \/ (Unchanged(me) /\ Promoted(me))
  BY Mine
<1>2. /\ UNCHANGED <<reg, store, gate, cdb, engine, idx, idxNew, fragment, issued, stamp, crossed>>
      /\ me.cmd = "doctor"
  BY <1>1 DEF Doctor, indexVars
<1>3. OthersKeep(p) /\ LockTypes' /\ proc \in [Procs -> Process]
  BY <1>2, Mine, LocksKept
<1>4. PICK missing : /\ missing = {reg[k].id : k \in {j \in DOMAIN reg : reg[j].tool = 0}}
                     /\ proc' = [proc EXCEPT ![p].pc = "update", ![p].ids = missing]
  BY DEF Doctor
<1>5. missing \in SUBSET Ids
  BY <1>4 DEF IInv, Registered
<1> DEFINE t == [me EXCEPT !.pc = "update", !.ids = missing]
<1>6. proc' = [proc EXCEPT ![p] = t]
  BY <1>1, <1>3, <1>4
<1>7. t \in Process /\ t.cmd = "doctor" /\ t.pc = "update" /\ t.rec = me.rec
  BY <1>2, <1>5 DEF Process
<1> HIDE DEF t
<1>8. Sound(t, p)'
  BY <1>1, <1>2, <1>7 DEF Sound, Kind, Making, GateHeld, Locked, StoreHeld, EngineHeld, Indexing, Gen
<1>9. Unchanged(t) /\ Promoted(t) /\ ~Waits(t)
  BY <1>7 DEF Unchanged, Promoted, Making, Waits, Gen
<1> QED BY <1>2, <1>3, <1>6, <1>7, <1>8, <1>9, QuietStep

(* The generation lock is taken only when nobody has it. *)
LEMMA GateStep ==
  ASSUME IInv, NEW p \in Procs, withProjectGenerationLock(p)
  PROVE  IInv'
<1>1. PICK me \in Process : /\ me = proc[p] /\ Sound(me, p) /\ Kind(me)
                            /\ crossed \/ (Unchanged(me) /\ Promoted(me))
  BY Mine
<1>2. /\ UNCHANGED <<reg, store, cdb, engine, idx, idxNew, fragment, issued, stamp, crossed>>
      /\ me.pc = "gate" /\ gate[me.id] = Nobody /\ gate' = [gate EXCEPT ![me.id] = p]
      /\ me.cmd \in Gen /\ me.id \in Ids
  BY <1>1 DEF withProjectGenerationLock, indexVars, Kind
<1>3. OthersKeep(p) /\ LockTypes' /\ proc \in [Procs -> Process] /\ gate'[me.id] = p
  BY <1>2, Mine, NobodyAssumption DEF OthersKeep, LockTypes
<1> DEFINE t == [me EXCEPT !.pc = "refind"]
<1>6. proc' = [proc EXCEPT ![p] = t]
  BY <1>1, <1>3 DEF withProjectGenerationLock, Goto
<1>7. t \in Process /\ t.cmd = me.cmd /\ t.pc = "refind" /\ t.rec = me.rec /\ t.id = me.id
  BY DEF Process
<1> HIDE DEF t
<1>8. Sound(t, p)'
  BY <1>1, <1>2, <1>3, <1>7 DEF Sound, Kind, Making, GateHeld, Locked, StoreHeld, EngineHeld, Indexing, Gen
<1>9. Unchanged(t) /\ Promoted(t) /\ Waits(proc[p])
  BY <1>1, <1>2, <1>7 DEF Unchanged, Promoted, Making, Waits, Gen
<1> QED BY <1>2, <1>3, <1>6, <1>7, <1>8, <1>9, QuietStep

(* The record is read under the generation lock, so that the record of     *)
(* this id cannot get a database from another generation afterwards.       *)
LEMMA RefindStep ==
  ASSUME IInv, NEW p \in Procs, Refind(p)
  PROVE  IInv'
<1>1. PICK me \in Process : /\ me = proc[p] /\ Sound(me, p) /\ Kind(me)
                            /\ crossed \/ (Unchanged(me) /\ Promoted(me))
  BY Mine
<1>2. /\ UNCHANGED <<reg, store, gate, cdb, engine, idx, idxNew, fragment, issued, stamp, crossed>>
      /\ me.pc = "refind" /\ find(reg, me.id) # 0 /\ me.cmd \in Gen /\ me.id \in Ids
  BY <1>1 DEF Refind, indexVars, Kind
<1>3. OthersKeep(p) /\ LockTypes' /\ proc \in [Procs -> Process]
  BY <1>2, Mine, LocksKept
<1>4. PICK at \in DOMAIN reg : at = find(reg, me.id)
  BY <1>2, Mine, FindFound
<1>5. PICK x : x = reg[at] /\ x \in Range(reg)
  BY DEF Range
<1>50. x \in Project /\ x.id \in Ids /\ x.gen <= stamp
  BY <1>5, RegisteredAsked
<1> DEFINE t == [me EXCEPT !.pc = "generate", !.rec = x]
<1>6. proc' = [proc EXCEPT ![p] = t]
  BY <1>1, <1>3, <1>4, <1>5 DEF Refind
<1>7. t \in Process /\ t.cmd = me.cmd /\ t.pc = "generate" /\ t.rec = x /\ t.id = me.id
  BY <1>50 DEF Process
<1> HIDE DEF t
<1>8. Sound(t, p)'
  BY <1>1, <1>2, <1>50, <1>7 DEF Sound, Kind, Making, GateHeld, Locked, StoreHeld, EngineHeld, Indexing, Gen
<1>9. Unchanged(t)
  BY <1>5, <1>7 DEF Unchanged, IInv, Registered, normalizeAndValidate
<1>10. Promoted(t) /\ Waits(proc[p])
  BY <1>1, <1>2, <1>7 DEF Promoted, Waits, Gen
<1> QED BY <1>2, <1>3, <1>6, <1>7, <1>8, <1>9, <1>10, QuietStep

(* From Rider metadata to UnrealBuildTool: the lock is kept. *)
LEMMA FallBackStep ==
  ASSUME IInv, NEW p \in Procs, FallBack(p)
  PROVE  IInv'
<1>1. PICK me \in Process : /\ me = proc[p] /\ Sound(me, p) /\ Kind(me)
                            /\ crossed \/ (Unchanged(me) /\ Promoted(me))
  BY Mine
<1>2. /\ UNCHANGED <<reg, store, gate, cdb, engine, idx, idxNew, fragment, issued, stamp, crossed>>
      /\ me.pc = "generate" /\ me.cmd \in Gen
  BY <1>1 DEF FallBack, indexVars, Kind
<1>3. OthersKeep(p) /\ LockTypes' /\ proc \in [Procs -> Process]
  BY <1>2, Mine, LocksKept
<1> DEFINE t == [me EXCEPT !.pc = "ubt"]
<1>6. proc' = [proc EXCEPT ![p] = t]
  BY <1>1, <1>3 DEF FallBack, Goto
<1>7. t \in Process /\ t.cmd = me.cmd /\ t.pc = "ubt" /\ t.rec = me.rec /\ t.id = me.id
  BY DEF Process
<1> HIDE DEF t
<1>8. Sound(t, p)'
  BY <1>1, <1>2, <1>7 DEF Sound, Kind, Making, GateHeld, Locked, StoreHeld, EngineHeld, Indexing, Gen
<1>9. crossed \/ (Unchanged(t) /\ Promoted(t))
  BY <1>1, <1>2, <1>7 DEF Unchanged, Promoted, Making, Gen
<1>10. Waits(proc[p])
  BY <1>1, <1>2 DEF Waits, Gen
<1> QED BY <1>2, <1>3, <1>6, <1>7, <1>8, <1>9, <1>10, QuietStep

(* A failed generation has written no database; the daemon keeps its lock  *)
(* to note the reason.                                                     *)
LEMMA GenerateFailsStep ==
  ASSUME IInv, NEW p \in Procs, GenerateFails(p)
  PROVE  IInv'
<1>1. PICK me \in Process : /\ me = proc[p] /\ Sound(me, p) /\ Kind(me)
                            /\ crossed \/ (Unchanged(me) /\ Promoted(me))
  BY Mine
<1>2. CASE Leave(p)
  BY <1>2, LeaveStep DEF GenerateFails
<1>3. CASE me.cmd = "watch" /\ Goto(p, "persist") /\ UNCHANGED <<store, gate, engine>>
  <2>1. /\ UNCHANGED <<reg, store, gate, cdb, engine, idx, idxNew, fragment, issued, stamp, crossed>>
        /\ me.pc \in {"generate", "ubt"}
    BY <1>1, <1>3 DEF GenerateFails
  <2>2. OthersKeep(p) /\ LockTypes' /\ proc \in [Procs -> Process]
    BY <2>1, Mine, LocksKept
  <2> DEFINE t == [me EXCEPT !.pc = "persist"]
  <2>3. proc' = [proc EXCEPT ![p] = t]
    BY <1>1, <1>3, <2>2 DEF Goto
  <2>4. t \in Process /\ t.cmd = "watch" /\ t.pc = "persist" /\ t.rec = me.rec /\ t.id = me.id
    BY <1>3 DEF Process
  <2> HIDE DEF t
  <2>5. Sound(t, p)'
    BY <1>1, <1>3, <2>1, <2>4
       DEF Sound, Kind, Making, GateHeld, Locked, StoreHeld, EngineHeld, Indexing, Gen
  <2>6. Unchanged(t) /\ Promoted(t) /\ ~Waits(t)
    BY <2>4 DEF Unchanged, Promoted, Making, Waits, Gen
  <2> QED BY <2>1, <2>2, <2>3, <2>4, <2>5, <2>6, QuietStep
<1> QED BY <1>1, <1>2, <1>3 DEF GenerateFails

(* The registry is loaded under its lock and stays as loaded. *)
LEMMA UpdateLoadStep ==
  ASSUME IInv, NEW p \in Procs, UpdateLoad(p)
  PROVE  IInv'
<1>1. PICK me \in Process : /\ me = proc[p] /\ Sound(me, p) /\ Kind(me)
                            /\ crossed \/ (Unchanged(me) /\ Promoted(me))
  BY Mine
<1>2. /\ UNCHANGED <<reg, gate, cdb, engine, idx, idxNew, fragment, issued, stamp, crossed>>
      /\ me.pc \in {"update", "persist"} /\ store = Nobody /\ store' = p
  BY <1>1 DEF UpdateLoad, indexVars
<1>3. OthersKeep(p) /\ LockTypes' /\ proc \in [Procs -> Process]
  BY <1>2, Mine, NobodyAssumption DEF OthersKeep, LockTypes
<1>4. PICK r \in Seq(Project) : r = reg /\ r = reg'
  BY <1>2, Mine
<1>5. PICK c \in {"mutate", "note"} : c = IF me.pc = "update" THEN "mutate" ELSE "note"
  OBVIOUS
<1> DEFINE t == [me EXCEPT !.snap = r, !.pc = c]
<1>6. proc' = [proc EXCEPT ![p] = t]
  BY <1>1, <1>3, <1>4, <1>5 DEF UpdateLoad
<1>7. t \in Process /\ t.cmd = me.cmd /\ t.pc = c /\ t.rec = me.rec /\ t.id = me.id /\ t.snap = r
  BY DEF Process
<1> HIDE DEF t
<1>8. Sound(t, p)'
  <2>1. Kind(t)
    BY <1>1, <1>2, <1>5, <1>7 DEF Kind, Making, Gen
  <2>2. GateHeld(t, p)'
    BY <1>1, <1>2, <1>5, <1>7 DEF Sound, GateHeld, Locked, Gen
  <2>3. StoreHeld(t, p)' /\ EngineHeld(t, p)'
    BY <1>2, <1>4, <1>7 DEF StoreHeld, EngineHeld, Indexing
  <2> QED BY <1>1, <1>2, <1>7, <2>1, <2>2, <2>3 DEF Sound
<1>9. crossed \/ (Unchanged(t) /\ Promoted(t))
  BY <1>1, <1>2, <1>5, <1>7 DEF Unchanged, Promoted, Making, Gen
<1>10. ~Waits(t)
  BY <1>7 DEF Waits
<1> QED BY <1>2, <1>3, <1>6, <1>7, <1>8, <1>9, <1>10, QuietStep

(* Nothing was saved, and the registry lock is given up. *)
LEMMA UpdateFailsStep ==
  ASSUME IInv, NEW p \in Procs, UpdateFails(p)
  PROVE  IInv'
<1>1. PICK me \in Process : /\ me = proc[p] /\ Sound(me, p) /\ Kind(me)
                            /\ crossed \/ (Unchanged(me) /\ Promoted(me))
  BY Mine
<1>2. CASE Leave(p)
  BY <1>2, LeaveStep DEF UpdateFails
<1>3. CASE /\ me.pc = "note" /\ me.tries < 2
           /\ proc' = [proc EXCEPT ![p].pc = "persist", ![p].tries = @ + 1]
           /\ store' = Freed(store, p) /\ UNCHANGED <<gate, engine>>
  <2>1. UNCHANGED <<reg, gate, cdb, engine, idx, idxNew, fragment, issued, stamp, crossed>>
    BY <1>3 DEF UpdateFails
  <2>2. OthersKeep(p) /\ LockTypes' /\ proc \in [Procs -> Process]
    BY <1>3, <2>1, Mine DEF OthersKeep, LockTypes, Freed
  <2> DEFINE t == [me EXCEPT !.pc = "persist", !.tries = @ + 1]
  <2>3. proc' = [proc EXCEPT ![p] = t]
    BY <1>1, <1>3, <2>2
  <2>4. t \in Process /\ t.cmd = me.cmd /\ t.pc = "persist" /\ t.rec = me.rec /\ t.id = me.id
    <3>1. me.tries \in 0..2
      BY DEF Process
    <3>2. me.tries + 1 \in 0..2
      BY <1>3, <3>1
    <3> QED BY <3>2 DEF Process
  <2> HIDE DEF t
  <2>5. Sound(t, p)'
    BY <1>1, <1>3, <2>1, <2>4
       DEF Sound, Kind, Making, GateHeld, Locked, StoreHeld, EngineHeld, Indexing, Gen
  <2>6. Unchanged(t) /\ Promoted(t) /\ ~Waits(t)
    BY <2>4 DEF Unchanged, Promoted, Making, Waits, Gen
  <2> QED BY <2>1, <2>2, <2>3, <2>4, <2>5, <2>6, QuietStep
<1> QED BY <1>1, <1>2, <1>3 DEF UpdateFails

(* A command that does not get the registry lock has done nothing to the   *)
(* registry.                                                               *)
LEMMA LockUnavailableStep ==
  ASSUME IInv, NEW p \in Procs, LockUnavailable(p)
  PROVE  IInv'
<1>1. PICK me \in Process : /\ me = proc[p] /\ Sound(me, p) /\ Kind(me)
                            /\ crossed \/ (Unchanged(me) /\ Promoted(me))
  BY Mine
<1>2. CASE Leave(p)
  BY <1>2, LeaveStep DEF LockUnavailable
<1>3. CASE /\ me.pc = "persist" /\ me.tries < 2
           /\ proc' = [proc EXCEPT ![p].tries = @ + 1]
           /\ UNCHANGED <<store, gate, engine>>
  <2>1. UNCHANGED <<reg, store, gate, cdb, engine, idx, idxNew, fragment, issued, stamp, crossed>>
    BY <1>3 DEF LockUnavailable
  <2>2. OthersKeep(p) /\ LockTypes' /\ proc \in [Procs -> Process]
    BY <2>1, Mine, LocksKept
  <2> DEFINE t == [me EXCEPT !.tries = @ + 1]
  <2>3. proc' = [proc EXCEPT ![p] = t]
    BY <1>1, <1>3, <2>2
  <2>4. t \in Process /\ t.cmd = me.cmd /\ t.pc = "persist" /\ t.rec = me.rec /\ t.id = me.id
    <3>1. me.tries \in 0..2
      BY DEF Process
    <3>2. me.tries + 1 \in 0..2
      BY <1>3, <3>1
    <3> QED BY <1>3, <3>2 DEF Process
  <2> HIDE DEF t
  <2>5. Sound(t, p)'
    BY <1>1, <1>3, <2>1, <2>4
       DEF Sound, Kind, Making, GateHeld, Locked, StoreHeld, EngineHeld, Indexing, Gen
  <2>6. Unchanged(t) /\ Promoted(t) /\ ~Waits(t)
    BY <2>4 DEF Unchanged, Promoted, Making, Waits, Gen
  <2> QED BY <2>1, <2>2, <2>3, <2>4, <2>5, <2>6, QuietStep
<1> QED BY <1>1, <1>2, <1>3 DEF LockUnavailable

(* The engine's lock is taken only when nobody has it, so no other run of  *)
(* index-engine is past it.                                                *)
LEMMA EngineLockStep ==
  ASSUME IInv, NEW p \in Procs, tryEngineIndexLock(p)
  PROVE  IInv'
<1>1. PICK me \in Process : /\ me = proc[p] /\ Sound(me, p) /\ Kind(me)
                            /\ crossed \/ (Unchanged(me) /\ Promoted(me))
  BY Mine
<1>2. /\ UNCHANGED <<reg, store, gate, cdb, idx, idxNew, fragment, issued, stamp, crossed>>
      /\ me.pc = "engine" /\ engine = Nobody /\ engine' = p
  BY <1>1 DEF tryEngineIndexLock
<1>3. OthersKeep(p) /\ LockTypes' /\ proc \in [Procs -> Process]
  BY <1>2, Mine, NobodyAssumption DEF OthersKeep, LockTypes
<1>4. PICK k \in Keys : proc' = [proc EXCEPT ![p].pc = "build", ![p].key = k]
  BY DEF tryEngineIndexLock
<1> DEFINE t == [me EXCEPT !.pc = "build", !.key = k]
<1>6. proc' = [proc EXCEPT ![p] = t]
  BY <1>1, <1>3, <1>4
<1>7. t \in Process /\ t.cmd = me.cmd /\ t.pc = "build" /\ t.rec = me.rec /\ t.id = me.id
  BY DEF Process
<1> HIDE DEF t
<1>8. Sound(t, p)'
  BY <1>1, <1>2, <1>7 DEF Sound, Kind, Making, GateHeld, Locked, StoreHeld, EngineHeld, Indexing, Gen
<1>9. Unchanged(t) /\ Promoted(t) /\ ~Waits(t)
  BY <1>7 DEF Unchanged, Promoted, Making, Waits, Gen
<1> QED BY <1>2, <1>3, <1>6, <1>7, <1>8, <1>9, QuietStep

(* The index is built in a file of its own; no fragment mounts it yet. *)
LEMMA BuildIndexStep ==
  ASSUME IInv, NEW p \in Procs, BuildIndex(p)
  PROVE  IInv'
<1>1. PICK me \in Process : /\ me = proc[p] /\ Sound(me, p) /\ Kind(me)
                            /\ crossed \/ (Unchanged(me) /\ Promoted(me))
  BY Mine
<1>2. UNCHANGED <<reg, store, gate, cdb, engine, idx, fragment, issued, stamp, crossed>>
  BY DEF BuildIndex
<1>3. OthersKeep(p) /\ LockTypes' /\ proc \in [Procs -> Process]
  BY <1>2, Mine, LocksKept
<1>4. PICK c \in {"indexing", "built"}, v \in Texts :
        /\ Goto(p, c) /\ idxNew' = [idxNew EXCEPT ![me.key].text = v]
        /\ c = "built" => v \in Finished
        /\ me.pc \in {"build", "indexing"}
  BY <1>1 DEF BuildIndex, Texts, Finished
<1>5. /\ idxNew' \in [Keys -> Staged] /\ idxNew'[me.key].text = v
      /\ idx' \in [Keys -> Texts]
      /\ fragment' \in Fragment /\ MountedIndexWhole'
  BY <1>2, <1>4 DEF IInv, TypeOK, Process, MountedIndexWhole, Staged
<1>6. engine = p
  BY <1>1, <1>4 DEF Sound, EngineHeld, Indexing
<1> DEFINE t == [me EXCEPT !.pc = c]
<1>7. proc' = [proc EXCEPT ![p] = t]
  BY <1>1, <1>3, <1>4 DEF Goto
<1>8. t \in Process /\ t.cmd = me.cmd /\ t.pc = c /\ t.rec = me.rec /\ t.id = me.id /\ t.key = me.key
  BY DEF Process
<1> HIDE DEF t
<1>9. Sound(t, p)'
  BY <1>1, <1>2, <1>4, <1>5, <1>6, <1>8
     DEF Sound, Kind, Making, GateHeld, Locked, StoreHeld, EngineHeld, Indexing, Gen
<1>10. Unchanged(t) /\ Promoted(t) /\ ~Waits(t)
  BY <1>8 DEF Unchanged, Promoted, Making, Waits, Gen
<1> QED BY <1>2, <1>3, <1>5, <1>6, <1>7, <1>8, <1>9, <1>10, FilesStep

(* The rename replaces an index by a finished one. *)
LEMMA RenameIndexStep ==
  ASSUME IInv, NEW p \in Procs, RenameIndex(p)
  PROVE  IInv'
<1>1. PICK me \in Process : /\ me = proc[p] /\ Sound(me, p) /\ Kind(me)
                            /\ crossed \/ (Unchanged(me) /\ Promoted(me))
  BY Mine
<1>2. /\ UNCHANGED <<reg, store, gate, cdb, engine, fragment, issued, stamp, crossed>>
      /\ me.pc = "built"
  BY <1>1 DEF RenameIndex
<1>3. OthersKeep(p) /\ LockTypes' /\ proc \in [Procs -> Process]
  BY <1>2, Mine, LocksKept
<1>4. engine = p /\ idxNew[me.key].text \in Finished /\ me.key \in Keys
  BY <1>1, <1>2 DEF Sound, EngineHeld, Indexing, Process
<1>5. /\ idxNew' \in [Keys -> Staged] /\ idx'[me.key] \in Finished
      /\ idx' \in [Keys -> Texts]
  BY <1>1, <1>4 DEF IInv, TypeOK, RenameIndex, Texts, Finished, Staged, NotStaged
<1>6. fragment' \in Fragment /\ MountedIndexWhole'
  <2>1. fragment.kind = "ours" => fragment.key \in Keys /\ idx[fragment.key] \in Finished
    BY DEF IInv, TypeOK, Fragment, MountedIndexWhole, Finished
  <2>2. \A k \in Keys : idx[k] \in Finished => idx'[k] \in Finished
    BY <1>1, <1>4, <1>5 DEF IInv, TypeOK, RenameIndex
  <2> QED BY <1>2, <2>1, <2>2 DEF IInv, TypeOK, MountedIndexWhole, Finished
<1> DEFINE t == [me EXCEPT !.pc = "check"]
<1>7. proc' = [proc EXCEPT ![p] = t]
  BY <1>1, <1>3 DEF RenameIndex, Goto
<1>8. /\ t \in Process /\ t.cmd = me.cmd /\ t.pc = "check" /\ t.rec = me.rec
      /\ t.id = me.id /\ t.key = me.key
  BY DEF Process
<1> HIDE DEF t
<1>9. Sound(t, p)'
  BY <1>1, <1>2, <1>4, <1>5, <1>8
     DEF Sound, Kind, Making, GateHeld, Locked, StoreHeld, EngineHeld, Indexing, Gen
<1>10. Unchanged(t) /\ Promoted(t) /\ ~Waits(t)
  BY <1>8 DEF Unchanged, Promoted, Making, Waits, Gen
<1> QED BY <1>2, <1>3, <1>4, <1>5, <1>6, <1>7, <1>8, <1>9, <1>10, FilesStep

(* The run that has the lock ends and leaves in the new file what it will; *)
(* a mounted index stays.                                                  *)
LEMMA StagedLeft ==
  ASSUME IInv, NEW p \in Procs, Leave(p), engine = p, idxNew' \in [Keys -> Staged],
         UNCHANGED <<reg, cdb, idx, fragment, issued, stamp, crossed>>
  PROVE  IInv'
<1>3. /\ idx' \in [Keys -> Texts]
      /\ fragment' \in Fragment /\ MountedIndexWhole'
  BY DEF IInv, TypeOK, MountedIndexWhole
<1>4. proc' = [proc EXCEPT ![p] = Idle] /\ OthersKeep(p) /\ LockTypes' /\ stamp' \in Nat
  BY LeaveLocks, Mine DEF IInv, Leave
<1>5. Unchanged(Idle) /\ Promoted(Idle)
  BY IdleQuiet DEF Unchanged, Promoted, Gen
<1> QED BY <1>3, <1>4, <1>5, LeaveSound, IdleQuiet, FilesStep

(* Only the new file is removed. *)
LEMMA BuildFailsStep ==
  ASSUME IInv, NEW p \in Procs, BuildFails(p)
  PROVE  IInv'
<1>1. PICK me \in Process : me = proc[p] /\ Sound(me, p)
  BY Mine
<1>2. /\ UNCHANGED <<reg, cdb, idx, fragment, issued, stamp, crossed>>
      /\ engine = p /\ Leave(p)
  BY <1>1 DEF BuildFails, Sound, EngineHeld, Indexing
<1>3. idxNew' \in [Keys -> Staged]
  BY <1>1 DEF IInv, TypeOK, BuildFails, Staged, NotStaged, Texts
<1> QED BY <1>2, <1>3, StagedLeft

(* A run can be killed while its indexer goes on. *)
LEMMA KilledStep ==
  ASSUME IInv, NEW p \in Procs, Killed(p)
  PROVE  IInv'
<1>1. PICK me \in Process : me = proc[p] /\ Sound(me, p)
  BY Mine
<1>2. UNCHANGED <<reg, cdb, idx, fragment, issued, stamp, crossed>> /\ Leave(p)
  BY DEF Killed
<1>3. CASE UNCHANGED idxNew
  BY <1>2, <1>3, LeaveStep
<1>4. CASE me.pc = "indexing" /\ idxNew' = [idxNew EXCEPT ![me.key].stray = TRUE]
  <2>1. engine = p
    BY <1>1, <1>4 DEF Sound, EngineHeld, Indexing
  <2>2. idxNew' \in [Keys -> Staged]
    BY <1>4 DEF IInv, TypeOK, Staged
  <2> QED BY <1>2, <2>1, <2>2, StagedLeft
<1> QED BY <1>1, <1>3, <1>4 DEF Killed

(* An indexer that has outlived its run changes a file that is not mounted *)
(* and leaves a finished one finished.                                     *)
LEMMA StrayIndexerStep ==
  ASSUME IInv, NEW k \in Keys, StrayIndexer(k)
  PROVE  IInv'
<1>1. UNCHANGED <<reg, store, gate, cdb, engine, idx, fragment, proc, issued, stamp, crossed>>
  BY DEF StrayIndexer
<1>2. /\ idxNew' \in [Keys -> Staged]
      /\ \A j \in Keys : idxNew[j].text \in Finished => idxNew'[j].text \in Finished
  <2>1. PICK v \in Staged : /\ idxNew' = [idxNew EXCEPT ![k] = v]
                            /\ v.text \in {idxNew[k].text, "mixed"}
    <3>1. idxNew \in [Keys -> Staged] /\ idxNew[k] \in Staged
      BY DEF IInv, TypeOK
    <3>2. CASE idxNew' = [idxNew EXCEPT ![k].text = "mixed"]
      <4> DEFINE v == [idxNew[k] EXCEPT !.text = "mixed"]
      <4>1. v \in Staged /\ v.text = "mixed" /\ idxNew' = [idxNew EXCEPT ![k] = v]
        BY <3>1, <3>2 DEF Staged, Texts
      <4> QED BY <4>1
    <3>3. CASE idxNew' = [idxNew EXCEPT ![k].stray = FALSE]
      <4> DEFINE v == [idxNew[k] EXCEPT !.stray = FALSE]
      <4>1. v \in Staged /\ v.text = idxNew[k].text /\ idxNew' = [idxNew EXCEPT ![k] = v]
        BY <3>1, <3>3 DEF Staged
      <4> QED BY <4>1
    <3> QED BY <3>2, <3>3 DEF StrayIndexer
  <2> QED BY <2>1 DEF IInv, TypeOK, Finished
<1>3. TypeOK'
  BY <1>1, <1>2 DEF IInv, TypeOK
<1>4. Registered' /\ Stamps' /\ MountedIndexWhole'
  BY <1>1 DEF IInv, Registered, normalizeAndValidate, Stamps, Pending, MountedIndexWhole
<1>5. Databases'
  BY <1>1 DEF IInv, Databases, Own, Unchanged, Promoted
<1>6. ASSUME NEW q \in Procs PROVE Sound(proc[q], q)'
  <2>1. PICK u \in Process : u = proc[q] /\ u = proc'[q] /\ Sound(u, q)
    BY <1>1, Mine
  <2>2. u.key \in Keys
    BY DEF Process
  <2>3. EngineHeld(u, q)'
    BY <1>1, <1>2, <2>1, <2>2 DEF Sound, EngineHeld
  <2>4. GateHeld(u, q)' /\ StoreHeld(u, q)'
    BY <1>1, <2>1 DEF Sound, GateHeld, StoreHeld
  <2> QED BY <1>1, <2>1, <2>3, <2>4 DEF Sound
<1> QED BY <1>3, <1>4, <1>5, <1>6 DEF IInv

(* The index was finished when the fragment was checked, and the engine's  *)
(* lock has kept both as they were.                                        *)
LEMMA WriteFragmentStep ==
  ASSUME IInv, NEW p \in Procs, WriteFragment(p)
  PROVE  IInv'
<1>1. PICK me \in Process : /\ me = proc[p] /\ Sound(me, p) /\ Kind(me)
                            /\ crossed \/ (Unchanged(me) /\ Promoted(me))
  BY Mine
<1>2. UNCHANGED <<reg, cdb, idx, idxNew, issued, stamp, crossed>>
  BY DEF WriteFragment
<1>3. CASE /\ me.pc = "check" /\ Replaceable(fragment, me.key, me.rec.id) /\ Goto(p, "write")
           /\ UNCHANGED <<fragment, store, gate, engine>>
  <2>1. OthersKeep(p) /\ LockTypes' /\ proc \in [Procs -> Process]
    BY <1>3, Mine, LocksKept
  <2> DEFINE t == [me EXCEPT !.pc = "write"]
  <2>2. proc' = [proc EXCEPT ![p] = t]
    BY <1>1, <1>3, <2>1 DEF Goto
  <2>3. /\ t \in Process /\ t.cmd = me.cmd /\ t.pc = "write" /\ t.rec = me.rec
        /\ t.id = me.id /\ t.key = me.key
    BY DEF Process
  <2> HIDE DEF t
  <2>4. Replaceable(fragment', t.key, t.rec.id)
    BY <1>3, <2>3 DEF Replaceable
  <2>5. Sound(t, p)'
    BY <1>1, <1>2, <1>3, <2>3, <2>4
       DEF Sound, Kind, Making, GateHeld, Locked, StoreHeld, EngineHeld, Indexing, Gen
  <2>6. Unchanged(t) /\ Promoted(t) /\ ~Waits(t)
    BY <2>3 DEF Unchanged, Promoted, Making, Waits, Gen
  <2> QED BY <1>2, <1>3, <2>1, <2>2, <2>3, <2>5, <2>6, QuietStep
<1>4. CASE /\ me.pc = "write" /\ Leave(p)
           /\ fragment' = [kind |-> "ours", key |-> me.key, owner |-> me.rec.id]
  <2>1. engine = p /\ idx[me.key] \in Finished /\ me.key \in Keys /\ me.rec.id \in Ids \cup {0}
    BY <1>1, <1>4 DEF Sound, EngineHeld, Indexing, Process, Project
  <2>2. /\ idxNew' \in [Keys -> Staged]
        /\ idx' \in [Keys -> Texts]
        /\ fragment' \in Fragment /\ MountedIndexWhole'
    BY <1>2, <1>4, <2>1 DEF IInv, TypeOK, MountedIndexWhole, Fragment, Finished
  <2>3. proc' = [proc EXCEPT ![p] = Idle] /\ OthersKeep(p) /\ LockTypes' /\ stamp' \in Nat
    BY <1>2, <1>4, LeaveLocks, Mine DEF IInv, Leave
  <2>4. Unchanged(Idle) /\ Promoted(Idle)
    BY IdleQuiet DEF Unchanged, Promoted, Gen
  <2> QED BY <1>2, <2>1, <2>2, <2>3, <2>4, LeaveSound, IdleQuiet, FilesStep
<1> QED BY <1>1, <1>3, <1>4 DEF WriteFragment

(* What the user leaves mounts nothing, and no run that is about to write  *)
(* has checked anything else.                                              *)
LEMMA EditFragmentStep ==
  ASSUME IInv, EditFragment
  PROVE  IInv'
<1>1. UNCHANGED <<reg, store, gate, cdb, engine, idx, idxNew, proc, issued, stamp, crossed>>
  BY DEF EditFragment
<1>2. /\ fragment' \in Fragment /\ fragment'.kind # "ours"
      /\ fragment'.kind = "none" \/ \A q \in Procs : proc[q].pc # "write"
  BY KeysAssumption DEF EditFragment, FragmentOf, Fragment
<1>3. TypeOK'
  BY <1>1, <1>2 DEF IInv, TypeOK
<1>4. Registered' /\ Stamps' /\ MountedIndexWhole'
  BY <1>1, <1>2 DEF IInv, Registered, normalizeAndValidate, Stamps, Pending, MountedIndexWhole
<1>5. Databases'
  BY <1>1 DEF IInv, Databases, Own, Unchanged, Promoted
<1>6. ASSUME NEW q \in Procs PROVE Sound(proc[q], q)'
  BY <1>1, <1>2 DEF IInv, Sound, GateHeld, StoreHeld, EngineHeld, Replaceable
<1> QED BY <1>3, <1>4, <1>5, <1>6 DEF IInv

-----------------------------------------------------------------------------
(* A database is moved into the cache of p's project.  Unless it found the *)
(* project by name, p has the lock of that cache: nobody else has an       *)
(* unrecorded database there, and the record that is there is p's own.     *)
LEMMA PromoteStep ==
  ASSUME IInv, NEW p \in Procs, ValidateAndPromote(p)
  PROVE  IInv'
<1>1. PICK me \in Process : /\ me = proc[p] /\ Sound(me, p) /\ Kind(me)
                            /\ crossed \/ (Unchanged(me) /\ Promoted(me))
  BY Mine
<1>2. /\ UNCHANGED <<reg, store, gate, engine, idx, idxNew, fragment, issued>>
      /\ me.pc \in {"generate", "ubt"} /\ stamp' = stamp + 1
      /\ crossed' = (crossed \/ me.rec.id # me.id)
      /\ cdb' = [cdb EXCEPT ![me.rec.id] = [dir |-> me.rec.dir, gen |-> stamp + 1]]
      /\ proc' = [proc EXCEPT ![p].pc = "update",
                    ![p].rec = [me.rec EXCEPT !.gen = stamp + 1, !.tool = 1, !.reason = FALSE]]
  BY <1>1 DEF ValidateAndPromote, indexVars, Shadowed
<1>3. me.cmd \in Gen /\ Making(me) /\ Waits(me) /\ me.rec.id \in Ids /\ me.id \in Ids
      /\ gate[me.id] = p /\ me.rec \in Project
  BY <1>1, <1>2 DEF Sound, Kind, Making, Waits, GateHeld, Locked, Gen, Process
<1>4. OthersKeep(p) /\ LockTypes' /\ proc \in [Procs -> Process] /\ stamp \in Nat /\ issued \in Nat
  BY <1>2, Mine, LocksKept
<1>5. PICK x : x = [me.rec EXCEPT !.gen = stamp + 1, !.tool = 1, !.reason = FALSE]
  OBVIOUS
<1>6. /\ x.gen = stamp + 1 /\ x.id = me.rec.id /\ x.dir = me.rec.dir
      /\ stamp + 1 \in Gens => x \in Project
  BY <1>3, <1>5 DEF Project
<1>7. Stamps' /\ stamp + 1 \in Gens
  <2> DEFINE u == [me EXCEPT !.pc = "update", !.rec = x]
  <2>1. PICK n \in Nat : n = Cardinality(Pending)
    BY FS_CardinalityType DEF IInv, Stamps
  <2>2. n # 0
    BY <1>1, <1>3, <2>1, FS_EmptySet DEF IInv, Stamps, Pending, Waits
  <2>3. stamp + n <= issued + 1 /\ issued <= MaxCommands
    BY <2>1, MaxCommandsAssumption DEF IInv, Stamps, TypeOK
  <2>4. stamp + 1 \in Gens
    BY <1>4, <2>1, <2>2, <2>3, MaxCommandsAssumption DEF Gens
  <2>5. x \in Project
    BY <1>6, <2>4
  <2>6. proc' = [proc EXCEPT ![p] = u] /\ u \in Process /\ ~Waits(u)
    BY <1>1, <1>2, <1>4, <1>5, <2>5 DEF Process, Waits
  <2> HIDE DEF u
  <2> QED BY <1>1, <1>2, <1>3, <2>4, <2>6, StampsKept
<1>8. x \in Project
  BY <1>6, <1>7
<1> DEFINE t == [me EXCEPT !.pc = "update", !.rec = x]
<1>9. proc' = [proc EXCEPT ![p] = t]
  BY <1>1, <1>2, <1>4, <1>5
<1>10. t \in Process /\ t.cmd = me.cmd /\ t.pc = "update" /\ t.rec = x /\ t.id = me.id
  BY <1>8 DEF Process
<1> HIDE DEF t
<1>11. Sound(t, p)'
  BY <1>1, <1>2, <1>3, <1>4, <1>6, <1>10
     DEF Sound, Kind, Making, GateHeld, Locked, StoreHeld, EngineHeld, Indexing, Gen
<1>12. \A q \in Procs : proc'[q] = IF q = p THEN t ELSE proc[q]
  BY <1>4, <1>9
<1>13. ASSUME NEW q \in Procs PROVE Sound(proc[q], q)'
  <2>1. Sound(proc[p], p)'
    BY <1>11, <1>12
  <2>2. stamp' \in Nat /\ stamp <= stamp'
    BY <1>2, <1>4
  <2> QED BY <1>2, <1>4, <1>9, <1>10, <2>1, <2>2, OthersSound
<1>14. TypeOK'
  <2>1. [dir |-> me.rec.dir, gen |-> stamp + 1] \in Database
    BY <1>3, <1>7 DEF Database, Project
  <2>2. cdb' \in [Ids -> Database] /\ stamp' \in Gens /\ crossed' \in BOOLEAN
    BY <1>2, <1>7, <2>1 DEF IInv, TypeOK
  <2>3. proc' \in [Procs -> Process]
    BY <1>4, <1>9, <1>10
  <2> QED BY <1>2, <2>2, <2>3 DEF IInv, TypeOK
<1>15. \A k \in DOMAIN reg : reg[k] \in Project /\ reg[k].id \in Ids /\ reg[k].gen <= stamp
                             /\ reg[k].gen \in Nat
  <2>1. \A k \in DOMAIN reg : reg[k] \in Project
    BY Mine
  <2>2. \A y \in Project : y.gen \in Nat
    BY MaxCommandsAssumption DEF Project, Gens
  <2> QED BY <2>1, <2>2 DEF IInv, Registered
<1>16. Registered' /\ MountedIndexWhole'
  BY <1>2, <1>4, <1>15 DEF IInv, Registered, normalizeAndValidate, MountedIndexWhole
<1>17. Databases'
  <2> SUFFICES ASSUME ~crossed, me.rec.id = me.id
               PROVE  /\ \A k \in DOMAIN reg : Own(reg[k])'
                      /\ \A q \in Procs : Unchanged(proc[q])' /\ Promoted(proc[q])'
    BY <1>2 DEF Databases
  <2>1. \A i \in Ids : cdb'[i] = IF i = me.id THEN [dir |-> me.rec.dir, gen |-> stamp + 1] ELSE cdb[i]
    BY <1>2 DEF IInv, TypeOK
  <2>2. ASSUME NEW k \in DOMAIN reg PROVE Own(reg[k])'
    <3>1. CASE reg[k].id = me.id
      <4>1. reg[k].gen # 0 => reg[k].dir = me.rec.dir
        BY <1>1, <1>3, <3>1 DEF Unchanged
      <4>2. reg[k].gen <= stamp + 1
        BY <1>4, <1>15
      <4> QED BY <1>2, <1>15, <2>1, <3>1, <4>1, <4>2 DEF Own
    <3>2. CASE reg[k].id # me.id
      BY <1>2, <1>15, <2>1, <3>2 DEF Own, IInv, Databases
    <3> QED BY <3>1, <3>2
  <2>3. Unchanged(t)' /\ Promoted(t)'
    BY <1>1, <1>2, <1>3, <1>6, <1>10, <2>1 DEF Unchanged, Promoted, Making, Gen
  <2>4. ASSUME NEW q \in Procs, q # p PROVE Unchanged(proc[q])' /\ Promoted(proc[q])'
    <3>1. PICK u : u = proc[q] /\ u = proc'[q] /\ Unchanged(u) /\ Promoted(u) /\ Sound(u, q)
      BY <1>12, <2>4 DEF IInv, Databases
    <3>2. Unchanged(u)'
      BY <1>2, <3>1 DEF Unchanged
    <3>3. Locked(u) => u.id \in Ids /\ u.id # me.id
      BY <1>3, <2>4, <3>1 DEF Sound, Kind, GateHeld, Locked
    <3>4. Promoted(u)'
      BY <2>1, <3>1, <3>3 DEF Promoted, Locked
    <3> QED BY <3>1, <3>2, <3>4
  <2>5. ASSUME NEW q \in Procs PROVE Unchanged(proc[q])' /\ Promoted(proc[q])'
    BY <1>12, <2>3, <2>4
  <2> QED BY <2>2, <2>5
<1> QED BY <1>7, <1>13, <1>14, <1>16, <1>17 DEF IInv

-----------------------------------------------------------------------------
(* x and y are of one project and one generation. *)
SameRecord(x, y) == x.dir = y.dir /\ x.id = y.id /\ x.gen = y.gen

(* Where the records of a mutated registry come from. *)
From(me, x) ==
  \/ \E k \in DOMAIN reg : SameRecord(x, reg[k])
  \/ x.gen = 0 /\ x.id \in Ids
  \/ me.cmd \in Gen /\ me.pc = "mutate" /\ x = me.rec

(* What a mutation may take out of the registry: a remove that names it,   *)
(* or a generation of the project that had its id.                         *)
Taken(me, x) ==
  me.pc = "mutate" /\ \/ me.cmd = "remove" /\ me.want \in {x.id, x.name}
                      \/ me.cmd \in Gen /\ me.id = x.id

Mutation(me, r) ==
  /\ r \in Seq(Project)
  /\ \A j \in DOMAIN r : From(me, r[j])
  /\ \A k \in DOMAIN reg : (\E j \in DOMAIN r : r[j].dir = reg[k].dir) \/ Taken(me, reg[k])

(* What is left of a sequence without its i-th element. *)
LEMMA RemoveAtProperties ==
  ASSUME NEW S, NEW r \in Seq(S), NEW i \in 1..Len(r)
  PROVE  /\ RemoveAt(r, i) \in Seq(S) /\ Len(RemoveAt(r, i)) = Len(r) - 1
         /\ DOMAIN RemoveAt(r, i) = 1..(Len(r) - 1)
         /\ \A j \in 1..(Len(r) - 1) :
              RemoveAt(r, i)[j] = IF j < i THEN r[j] ELSE r[j + 1]
<1>1. PICK n \in Nat : n = Len(r) /\ i \in 1..n /\ \A j \in 1..n : r[j] \in S
  BY LenProperties, ElementOfSeq
<1>2. PICK a : a = SubSeq(r, 1, i - 1)
  OBVIOUS
<1>3. PICK b : b = SubSeq(r, i + 1, n)
  OBVIOUS
<1>4. a \in Seq(S) /\ Len(a) = i - 1 /\ \A j \in 1..(i - 1) : a[j] = r[j]
  <2>1. 1 \in Int /\ i - 1 \in Int /\ \A j \in 1..(i - 1) : r[j] \in S
    BY <1>1
  <2>2. /\ a \in Seq(S) /\ Len(a) = IF 1 <= i - 1 THEN i - 1 - 1 + 1 ELSE 0
        /\ \A j \in 1..(i - 1 - 1 + 1) : a[j] = r[1 + j - 1]
    BY <1>2, <2>1, SubSeqProperties
  <2> QED BY <1>1, <2>2
<1>5. b \in Seq(S) /\ Len(b) = n - i /\ \A j \in 1..(n - i) : b[j] = r[i + j]
  <2>1. i + 1 \in Int /\ n \in Int /\ \A j \in (i + 1)..n : r[j] \in S
    BY <1>1
  <2>2. /\ b \in Seq(S) /\ Len(b) = IF i + 1 <= n THEN n - (i + 1) + 1 ELSE 0
        /\ \A j \in 1..(n - (i + 1) + 1) : b[j] = r[i + 1 + j - 1]
    BY <1>3, <2>1, SubSeqProperties
  <2> QED BY <1>1, <2>2
<1>6. PICK c : c = RemoveAt(r, i) /\ c = a \o b
  BY <1>1, <1>2, <1>3 DEF RemoveAt
<1>7. /\ c \in Seq(S) /\ Len(c) = n - 1
      /\ \A j \in 1..(n - 1) : c[j] = IF j <= i - 1 THEN a[j] ELSE b[j - (i - 1)]
  <2>1. /\ a \o b \in Seq(S) /\ Len(a \o b) = Len(a) + Len(b)
        /\ \A j \in 1..(Len(a) + Len(b)) :
             (a \o b)[j] = IF j <= Len(a) THEN a[j] ELSE b[j - Len(a)]
    BY <1>4, <1>5, ConcatProperties
  <2>2. Len(a) + Len(b) = n - 1
    BY <1>1, <1>4, <1>5
  <2> QED BY <1>4, <1>6, <2>1, <2>2
<1>8. DOMAIN c = 1..(n - 1)
  BY <1>7, LenProperties
<1>9. ASSUME NEW j \in 1..(n - 1) PROVE c[j] = IF j < i THEN r[j] ELSE r[j + 1]
  <2>1. CASE j < i
    BY <1>1, <1>4, <1>7, <2>1
  <2>2. CASE ~(j < i)
    <3>1. j - (i - 1) \in 1..(n - i) /\ i + (j - (i - 1)) = j + 1 /\ ~(j <= i - 1)
      BY <1>1, <2>2
    <3> QED BY <1>5, <1>7, <2>2, <3>1
  <2> QED BY <2>1, <2>2
<1> QED BY <1>1, <1>6, <1>7, <1>8, <1>9

(* Each of the functions that Store.Update applies is a Mutation of the    *)
(* registry as it is.                                                      *)
LEMMA Mutating ==
  ASSUME IInv, NEW p \in Procs, proc[p].pc \in {"mutate", "note"}, NEW r \in Mutations(p)
  PROVE  Mutation(proc[p], r)
<1>1. PICK me \in Process : me = proc[p] /\ Sound(me, p) /\ Kind(me)
  BY Mine
<1>2. /\ me.snap = reg /\ me.rec \in Project /\ me.pc \in {"mutate", "note"}
      /\ me.cmd \in {"add", "remove", "doctor"} \cup Gen
      /\ me.pc = "note" => me.cmd \in Gen
  BY <1>1 DEF Sound, Kind, StoreHeld, Process, Gen
<1>3. /\ reg \in Seq(Project) /\ normalizeAndValidate(reg) /\ Len(reg) \in Nat
      /\ DOMAIN reg = 1..Len(reg) /\ \A k \in DOMAIN reg : reg[k] \in Project
  BY Mine DEF IInv, Registered
<1>4. CASE me.cmd = "add"
  <2>1. PICK i \in Ids : i = stableID(reg)
    BY <1>3, StableID
  <2> DEFINE x == [me.rec EXCEPT !.id = i]
  <2>2. r = Append(reg, x)
    BY <1>1, <1>2, <1>4, <2>1 DEF Mutations, Mutated
  <2>3. x \in Project /\ x.gen = 0 /\ x.id \in Ids
    BY <1>1, <1>2, <1>4, <2>1 DEF Kind, Project
  <2> HIDE DEF x
  <2>4. /\ r \in Seq(Project) /\ Len(r) = Len(reg) + 1 /\ r[Len(reg) + 1] = x
        /\ DOMAIN r = 1..(Len(reg) + 1) /\ \A k \in DOMAIN reg : r[k] = reg[k]
    BY <1>3, <2>2, <2>3
  <2>5. ASSUME NEW j \in DOMAIN r PROVE From(me, r[j])
    <3>1. CASE j \in DOMAIN reg
      BY <2>4, <3>1 DEF From, SameRecord
    <3>2. CASE j = Len(reg) + 1
      BY <2>3, <2>4, <3>2 DEF From
    <3> QED BY <1>3, <2>4, <3>1, <3>2
  <2>6. ASSUME NEW k \in DOMAIN reg PROVE \E j \in DOMAIN r : r[j].dir = reg[k].dir
    <3>1. k \in DOMAIN r
      BY <1>3, <2>4
    <3> QED BY <2>4, <3>1
  <2> QED BY <1>1, <2>4, <2>5, <2>6 DEF Mutation
<1>5. CASE me.cmd = "doctor"
  <2>1. r = [k \in DOMAIN reg |-> [reg[k] EXCEPT !.tool = IF reg[k].id \in me.ids THEN 1 ELSE @]]
    BY <1>1, <1>2, <1>5 DEF Mutations, Mutated
  <2>2. DOMAIN r = DOMAIN reg /\ \A k \in DOMAIN reg : r[k] \in Project /\ SameRecord(r[k], reg[k])
    <3> SUFFICES ASSUME NEW k \in DOMAIN reg PROVE r[k] \in Project /\ SameRecord(r[k], reg[k])
      BY <2>1
    <3>1. PICK v \in {0, 1} : r[k] = [reg[k] EXCEPT !.tool = v]
      BY <1>3, <2>1 DEF Project
    <3> QED BY <1>3, <3>1 DEF Project, SameRecord
  <2>3. r \in Seq(Project)
    <3>1. r \in [1..Len(reg) -> Project]
      BY <1>3, <2>1, <2>2
    <3> QED BY <1>3, <3>1, SeqDef
  <2>4. \A j \in DOMAIN r : From(me, r[j])
    BY <2>2 DEF From
  <2>5. \A k \in DOMAIN reg : \E j \in DOMAIN r : r[j].dir = reg[k].dir
    BY <2>2 DEF SameRecord
  <2> QED BY <1>1, <2>3, <2>4, <2>5 DEF Mutation
<1>6. CASE me.cmd = "remove"
  <2>1. PICK i \in {find(reg, me.want)} \ {0} : r = RemoveAt(reg, i)
    BY <1>1, <1>2, <1>6 DEF Mutations, Mutated
  <2>2. i \in 1..Len(reg) /\ (reg[i].id = me.want \/ reg[i].name = me.want)
    BY <1>3, <2>1, FindFound
  <2>4. /\ r \in Seq(Project) /\ Len(r) = Len(reg) - 1 /\ DOMAIN r = 1..(Len(reg) - 1)
        /\ \A j \in 1..(Len(reg) - 1) : r[j] = IF j < i THEN reg[j] ELSE reg[j + 1]
    BY <1>3, <2>1, <2>2, RemoveAtProperties
  <2>5. ASSUME NEW j \in DOMAIN r PROVE From(me, r[j])
    <3>1. PICK k \in DOMAIN reg : r[j] = reg[k]
      <4>1. j \in DOMAIN reg /\ j + 1 \in DOMAIN reg
        BY <1>3, <2>4
      <4>2. r[j] = reg[j] \/ r[j] = reg[j + 1]
        BY <2>4
      <4> QED BY <4>1, <4>2
    <3> QED BY <3>1 DEF From, SameRecord
  <2>6. ASSUME NEW k \in DOMAIN reg PROVE (\E j \in DOMAIN r : r[j].dir = reg[k].dir) \/ Taken(me, reg[k])
    <3>1. CASE k < i
      <4>1. k \in DOMAIN r /\ r[k] = reg[k]
        BY <1>3, <2>2, <2>4, <3>1
      <4> QED BY <4>1
    <3>2. CASE k > i
      <4>1. k - 1 \in DOMAIN r /\ r[k - 1] = reg[k]
        BY <1>3, <2>2, <2>4, <3>2
      <4> QED BY <4>1
    <3>3. CASE k = i
      BY <1>2, <1>6, <2>2, <3>3 DEF Taken, Gen
    <3> QED BY <1>3, <2>2, <3>1, <3>2, <3>3
  <2> QED BY <1>1, <2>4, <2>5, <2>6 DEF Mutation
<1>7. CASE me.cmd \in Gen
  <2>1. PICK i \in {findID(reg, me.id)} \ {0} :
          r = ReplaceAt(reg, i, IF me.pc = "note" THEN [reg[i] EXCEPT !.reason = TRUE]
                                ELSE [x \in Range(reg) |-> me.rec][reg[i]])
    BY <1>1, <1>2, <1>7 DEF Mutations, Mutated, Gen
  <2>2. i \in DOMAIN reg /\ reg[i].id = me.id
    BY <1>3, <2>1, FindIDFound
  <2>3. PICK x : x = IF me.pc = "note" THEN [reg[i] EXCEPT !.reason = TRUE] ELSE me.rec
    OBVIOUS
  <2>4. r = [reg EXCEPT ![i] = x]
    BY <2>1, <2>2, <2>3 DEF ReplaceAt, Range
  <2>5. x \in Project /\ (me.pc = "note" => SameRecord(x, reg[i]))
    BY <1>2, <1>3, <2>2, <2>3 DEF Project, SameRecord
  <2>6. /\ r \in Seq(Project) /\ DOMAIN r = DOMAIN reg /\ r[i] = x
        /\ \A k \in DOMAIN reg \ {i} : r[k] = reg[k]
    BY <1>3, <2>2, <2>4, <2>5
  <2>7. From(me, x)
    BY <1>2, <1>7, <2>2, <2>3, <2>5 DEF From
  <2>8. ASSUME NEW j \in DOMAIN r PROVE From(me, r[j])
    <3>1. CASE j # i
      BY <2>6, <3>1 DEF From, SameRecord
    <3> QED BY <2>6, <2>7, <3>1
  <2>9. ASSUME NEW k \in DOMAIN reg PROVE (\E j \in DOMAIN r : r[j].dir = reg[k].dir) \/ Taken(me, reg[k])
    <3>1. CASE k # i
      BY <2>6, <3>1
    <3>2. CASE k = i /\ me.pc = "note"
      BY <2>2, <2>5, <2>6, <3>2 DEF SameRecord
    <3>3. CASE k = i /\ me.pc = "mutate"
      BY <1>7, <2>2, <3>3 DEF Taken
    <3> QED BY <1>2, <3>1, <3>2, <3>3
  <2> QED BY <1>1, <2>6, <2>8, <2>9 DEF Mutation
<1> QED BY <1>2, <1>4, <1>5, <1>6, <1>7

(* The record of a generation is of the database in the cache whose lock   *)
(* the command holds, so that no other command has generated for that id.  *)
LEMMA UpdateSaveStep ==
  ASSUME IInv, NEW p \in Procs, UpdateSave(p)
  PROVE  IInv'
<1>1. PICK me \in Process : /\ me = proc[p] /\ Sound(me, p) /\ Kind(me)
                            /\ crossed \/ (Unchanged(me) /\ Promoted(me))
  BY Mine
<1>2. /\ UNCHANGED <<cdb, idx, idxNew, fragment, issued, stamp, crossed>> /\ Leave(p)
      /\ me.pc \in {"mutate", "note"}
  BY <1>1 DEF UpdateSave
<1>3. PICK r : r = reg' /\ r \in Mutations(p) /\ normalizeAndValidate(r)
  BY DEF UpdateSave
<1>4. Mutation(me, r)
  BY <1>1, <1>2, <1>3, Mutating
<1>5. r \in Seq(Project) /\ \A j \in DOMAIN r : From(me, r[j])
  BY <1>4 DEF Mutation
<1>6. proc' = [proc EXCEPT ![p] = Idle] /\ OthersKeep(p) /\ LockTypes'
  BY <1>2, LeaveLocks DEF IInv, Leave
<1>7. stamp \in Nat /\ stamp' = stamp /\ proc \in [Procs -> Process] /\ stamp <= stamp'
  BY <1>2, Mine
<1>8. \A q \in Procs : proc'[q] = IF q = p THEN Idle ELSE proc[q]
  BY <1>6, <1>7
<1>9. store = p
  BY <1>1, <1>2 DEF Sound, StoreHeld
<1>10. TypeOK'
  <2>1. proc' \in [Procs -> Process]
    BY <1>6, <1>7, IdleQuiet
  <2> QED BY <1>2, <1>3, <1>5, <1>6, <2>1 DEF IInv, TypeOK, LockTypes
<1>11. Registered' /\ MountedIndexWhole'
  <2>1. ASSUME NEW j \in DOMAIN r PROVE r[j].id \in Ids /\ r[j].gen <= stamp
    <3>1. CASE \E k \in DOMAIN reg : SameRecord(r[j], reg[k])
      BY <3>1 DEF IInv, Registered, SameRecord
    <3>2. CASE r[j].gen = 0 /\ r[j].id \in Ids
      BY <1>7, <3>2
    <3>3. CASE me.cmd \in Gen /\ me.pc = "mutate" /\ r[j] = me.rec
      BY <1>1, <3>3 DEF Sound, Kind, Making
    <3> QED BY <1>5, <3>1, <3>2, <3>3 DEF From
  <2>2. MountedIndexWhole'
    BY <1>2 DEF IInv, MountedIndexWhole
  <2>3. Registered'
    BY <1>2, <1>3, <2>1 DEF Registered, normalizeAndValidate
  <2> QED BY <2>2, <2>3
<1>12. Stamps'
  BY <1>2, <1>6, IdleQuiet, StampsKept
<1>13. Databases'
  <2> SUFFICES ASSUME ~crossed
               PROVE  /\ \A j \in DOMAIN r : Own(r[j])
                      /\ \A q \in Procs : Unchanged(proc[q])' /\ Promoted(proc[q])'
    BY <1>2, <1>3 DEF Databases, Own
  <2>1. ASSUME NEW j \in DOMAIN r PROVE Own(r[j])
    <3>1. CASE \E k \in DOMAIN reg : SameRecord(r[j], reg[k])
      BY <3>1 DEF IInv, Databases, Own, SameRecord
    <3>2. CASE r[j].gen = 0
      BY <3>2 DEF Own
    <3>3. CASE me.cmd \in Gen /\ me.pc = "mutate" /\ r[j] = me.rec
      <4>1. cdb[me.rec.id] = [dir |-> me.rec.dir, gen |-> me.rec.gen]
        BY <1>1, <3>3 DEF Promoted
      <4>2. me.rec.gen \in Nat
        BY MaxCommandsAssumption DEF Process, Project, Gens
      <4> QED BY <3>3, <4>1, <4>2 DEF Own
    <3> QED BY <1>5, <3>1, <3>2, <3>3 DEF From
  <2>2. Unchanged(Idle)' /\ Promoted(Idle)'
    BY <1>7, LeaveSound
  <2>3. ASSUME NEW q \in Procs, q # p PROVE Unchanged(proc[q])' /\ Promoted(proc[q])'
    <3>1. PICK u : u = proc[q] /\ u = proc'[q] /\ Unchanged(u) /\ Promoted(u) /\ Sound(u, q)
      BY <1>8, <2>3 DEF IInv, Databases
    <3>2. Promoted(u)'
      BY <1>2, <3>1 DEF Promoted
    <3>3. ASSUME Making(u), u.rec.id = u.id, NEW j \in DOMAIN r, r[j].id = u.id, r[j].gen # 0
          PROVE  r[j].dir = u.rec.dir
      <4>1. CASE \E k \in DOMAIN reg : SameRecord(r[j], reg[k])
        BY <3>1, <3>3, <4>1 DEF Unchanged, SameRecord
      <4>2. CASE me.cmd \in Gen /\ me.pc = "mutate" /\ r[j] = me.rec
        <5>1. gate[me.id] = p /\ me.rec.id = me.id
          BY <1>1, <4>2 DEF Sound, GateHeld, Locked, Promoted
        <5>2. gate[u.id] = q
          BY <3>1, <3>3 DEF Sound, GateHeld, Locked, Making
        <5> QED BY <2>3, <3>3, <4>2, <5>1, <5>2
      <4> QED BY <1>5, <3>3, <4>1, <4>2 DEF From
    <3>4. Unchanged(u)'
      BY <1>3, <3>3 DEF Unchanged
    <3> QED BY <3>1, <3>2, <3>4
  <2>4. ASSUME NEW q \in Procs PROVE Unchanged(proc[q])' /\ Promoted(proc[q])'
    BY <1>8, <2>2, <2>3
  <2> QED BY <2>1, <2>4
<1>14. ASSUME NEW q \in Procs PROVE Sound(proc[q], q)'
  <2>1. Sound(proc[p], p)'
    BY <1>7, <1>8, LeaveSound
  <2> QED BY <1>2, <1>6, <1>7, <1>9, <2>1, IdleQuiet, OthersSound
<1> QED BY <1>10, <1>11, <1>12, <1>13, <1>14 DEF IInv

-----------------------------------------------------------------------------
(* The registries that earlier commands may have left are valid. *)
LEMMA EarlierRegistry ==
  ASSUME NEW r \in Earlier
  PROVE  /\ r \in Seq(Project) /\ normalizeAndValidate(r)
         /\ \A k \in DOMAIN r : r[k].id \in Ids /\ r[k].gen \in {0, 1}
<1>1. PICK d, e \in Dirs :
        /\ d # e
        /\ r \in {<<>>, <<[NewProject(d, 1) EXCEPT !.id = 2]>>, <<Generated(d, 1, 1)>>,
                  <<Generated(d, 1, 1), Generated(e, 1, 2)>>}
  <2> DEFINE d == CHOOSE d \in Dirs : TRUE
             e == CHOOSE e \in Dirs : e # d
  <2>1. Dirs # {}
    BY FS_EmptySet, DirsAssumption
  <2>2. d \in Dirs
    BY <2>1
  <2>3. \E x \in Dirs : x # d
    <3> HIDE DEF d
    <3>1. Cardinality({d}) = 1
      BY FS_Singleton
    <3>2. Dirs # {d}
      BY <3>1, DirsAssumption
    <3> QED BY <2>2, <3>2
  <2>4. e \in Dirs /\ e # d
    <3> HIDE DEF d
    <3> QED BY <2>3
  <2>5. r \in {<<>>, <<[NewProject(d, 1) EXCEPT !.id = 2]>>, <<Generated(d, 1, 1)>>,
               <<Generated(d, 1, 1), Generated(e, 1, 2)>>}
    BY DEF Earlier
  <2> HIDE DEF d, e
  <2> QED BY <2>2, <2>4, <2>5
<1>2. {1, 2} \subseteq Ids /\ {0, 1} \subseteq Gens
  BY DirsAssumption, FS_CardinalityType, MaxCommandsAssumption DEF Ids, Gens
<1>3. ASSUME NEW x \in Dirs, NEW i \in {1, 2}
      PROVE  /\ Generated(x, 1, i) \in Project /\ Generated(x, 1, i).id = i
             /\ Generated(x, 1, i).dir = x /\ Generated(x, 1, i).gen = 1
  BY <1>2 DEF Generated, NewProject, Project, Names
<1>4. PICK y \in Project : y = [NewProject(d, 1) EXCEPT !.id = 2] /\ y.id = 2 /\ y.gen = 0
  <2> DEFINE z == [NewProject(d, 1) EXCEPT !.id = 2]
  <2>1. z \in Project /\ z.id = 2 /\ z.gen = 0
    BY <1>2 DEF NewProject, Project, Names
  <2> QED BY <2>1
<1>5. CASE r = <<>>
  <2>1. r \in Seq(Project) /\ DOMAIN r = {}
    BY <1>5
  <2> QED BY <2>1 DEF normalizeAndValidate
<1>6. CASE r = <<y>>
  <2>1. r \in Seq(Project) /\ DOMAIN r = {1} /\ r[1] = y
    BY <1>4, <1>6
  <2> QED BY <1>2, <1>4, <2>1 DEF normalizeAndValidate
<1>7. CASE r = <<Generated(d, 1, 1)>>
  BY <1>2, <1>3, <1>7 DEF normalizeAndValidate
<1>8. CASE r = <<Generated(d, 1, 1), Generated(e, 1, 2)>>
  BY <1>1, <1>2, <1>3, <1>8 DEF normalizeAndValidate
<1> QED BY <1>1, <1>4, <1>5, <1>6, <1>7, <1>8

(* The invariant holds before the first command, *)
LEMMA InitHolds == Init => IInv
<1> SUFFICES ASSUME Init PROVE IInv
  OBVIOUS
<1>1. /\ reg \in Seq(Project) /\ normalizeAndValidate(reg)
      /\ \A k \in DOMAIN reg : reg[k] \in Project /\ reg[k].id \in Ids /\ reg[k].gen \in {0, 1}
  BY EarlierRegistry DEF Init
<1>2. {0, 1} \subseteq Gens /\ stamp = 1 /\ issued = 0 /\ crossed = FALSE /\ Dirs # {}
  BY MaxCommandsAssumption, DirsAssumption, FS_EmptySet DEF Gens, Init
<1>3. \A q \in Procs : proc[q] = Idle
  BY DEF Init
<1>4. \A k \in DOMAIN reg : reg[k].gen = 1 =>
        (CHOOSE x \in Range(reg) : x.id = reg[k].id) = reg[k]
  <2> SUFFICES ASSUME NEW k \in DOMAIN reg
               PROVE  \A x \in Range(reg) : x.id = reg[k].id => x = reg[k]
    BY DEF Range
  <2> QED BY <1>1 DEF normalizeAndValidate, Range
<1>5. \A k \in DOMAIN reg : reg[k].gen = 1 => cdb[reg[k].id] = [dir |-> reg[k].dir, gen |-> 1]
  BY <1>1, <1>4 DEF Init
<1>6. cdb \in [Ids -> Database]
  <2>1. NoDatabase \in Database
    BY <1>2 DEF NoDatabase, Database
  <2>2. ASSUME NEW i \in Ids PROVE cdb[i] \in Database
    <3>1. CASE \E k \in DOMAIN reg : reg[k].id = i /\ reg[k].gen = 1
      <4>1. PICK k \in DOMAIN reg : reg[k].id = i /\ reg[k].gen = 1
        BY <3>1
      <4>2. cdb[i] = [dir |-> reg[k].dir, gen |-> 1] /\ reg[k].dir \in Dirs
        BY <1>1, <1>5, <4>1 DEF Project
      <4> QED BY <1>2, <4>2 DEF Database
    <3>2. CASE ~\E k \in DOMAIN reg : reg[k].id = i /\ reg[k].gen = 1
      BY <2>1, <3>2 DEF Init
    <3> QED BY <3>1, <3>2
  <2> QED BY <2>2 DEF Init
<1>7. TypeOK
  <2>1. proc \in [Procs -> Process]
    BY IdleQuiet DEF Init
  <2>2. fragment \in Fragment
    BY KeysAssumption DEF Init, FragmentOf, Fragment
  <2>3. issued \in 0..MaxCommands /\ stamp \in Gens
    BY <1>2, MaxCommandsAssumption
  <2>4. crossed \in BOOLEAN
    BY <1>2
  <2>5. idx \in [Keys -> Texts] /\ idxNew \in [Keys -> Staged]
    BY DEF Init, Texts, Staged, NotStaged
  <2> QED BY <1>1, <1>6, <2>1, <2>2, <2>3, <2>4, <2>5 DEF TypeOK, Init
<1>8. Registered
  BY <1>1, <1>2 DEF Registered
<1>9. Stamps
  <2>1. Pending = {}
    BY <1>3, IdleQuiet DEF Pending, Waits
  <2> QED BY <1>2, <2>1, FS_EmptySet DEF Stamps
<1>10. Databases
  <2>1. ASSUME NEW k \in DOMAIN reg, reg[k].gen # 0
        PROVE  cdb[reg[k].id].dir = reg[k].dir /\ reg[k].gen <= cdb[reg[k].id].gen
    <3>1. reg[k].gen = 1
      BY <1>1, <2>1
    <3>2. cdb[reg[k].id] = [dir |-> reg[k].dir, gen |-> 1]
      BY <1>5, <3>1
    <3> QED BY <3>1, <3>2
  <2>2. Unchanged(Idle) /\ Promoted(Idle)
    BY IdleQuiet DEF Unchanged, Promoted, Gen
  <2> QED BY <1>3, <2>1, <2>2 DEF Databases, Own
<1>11. MountedIndexWhole
  BY DEF MountedIndexWhole, Init, FragmentOf
<1>12. ASSUME NEW q \in Procs PROVE Sound(proc[q], q)
  BY <1>2, <1>3, IdleQuiet DEF Sound, GateHeld, StoreHeld, EngineHeld, Indexing
<1> QED BY <1>7, <1>8, <1>9, <1>10, <1>11, <1>12 DEF IInv

(* and every step of every process keeps it. *)
LEMMA NextKeeps == IInv /\ [Next]_vars => IInv'
<1> SUFFICES ASSUME IInv, [Next]_vars PROVE IInv'
  OBVIOUS
<1>1. CASE UNCHANGED vars
  <2>1. TypeOK' /\ Registered' /\ MountedIndexWhole'
    BY <1>1 DEF vars, IInv, TypeOK, Registered, normalizeAndValidate, MountedIndexWhole
  <2>2. Stamps' /\ Databases'
    BY <1>1 DEF vars, IInv, Stamps, Pending, Databases, Own, Unchanged, Promoted
  <2>3. \A q \in Procs : Sound(proc[q], q)'
    BY <1>1 DEF vars, IInv, Sound, GateHeld, StoreHeld, EngineHeld
  <2> QED BY <2>1, <2>2, <2>3 DEF IInv
<1>2. CASE EditFragment
  BY <1>2, EditFragmentStep
<1>3. ASSUME NEW k \in Keys, StrayIndexer(k) PROVE IInv'
  BY <1>3, StrayIndexerStep
<1>4. ASSUME NEW p \in Procs, Issue(p) \/ Step(p) \/ CancelWatch(p) \/ Killed(p)
      PROVE  IInv'
  <2>1. CASE NotFound(p)
    BY <2>1, LeaveStep DEF NotFound
  <2>2. CASE IndexEngineFails(p)
    BY <2>2, LeaveStep DEF IndexEngineFails
  <2>3. CASE CancelWatch(p)
    BY <2>3, LeaveStep DEF CancelWatch
  <2>4. CASE Killed(p)
    BY <2>4, KilledStep
  <2> QED BY <1>4, <2>1, <2>2, <2>3, <2>4, IssueStep, FindStep, DoctorStep, GateStep, RefindStep,
             FallBackStep, PromoteStep, GenerateFailsStep, UpdateLoadStep, UpdateSaveStep,
             UpdateFailsStep, LockUnavailableStep, EngineLockStep, BuildIndexStep,
             RenameIndexStep, BuildFailsStep, WriteFragmentStep DEF Step
<1> QED BY <1>1, <1>2, <1>3, <1>4 DEF Next

(* IInv holds in every state the commands can reach. *)
THEOREM Invariance == Spec => []IInv
BY InitHolds, NextKeeps, PTL DEF Spec

(* Every file, lock and process stays within its type: in particular       *)
(* stableID always finds an id, and no command makes two databases.        *)
THEOREM CommandTypes == Spec => []TypeOK
<1>1. IInv => TypeOK
  BY DEF IInv
<1> QED BY <1>1, Invariance, PTL

(* The generation lock keeps two generations into one cache apart, in any  *)
(* order of add, remove, generate, watch and kill.                         *)
THEOREM GenerationExclusive == Spec => []CacheExclusive
<1>1. IInv => CacheExclusive
  <2> SUFFICES ASSUME IInv, NEW p \in Procs, NEW q \in Procs, p # q, Generating(p), Generating(q),
                      proc[p].rec.id = proc[q].rec.id, ~Shadowed(p), ~Shadowed(q)
               PROVE  FALSE
    BY DEF CacheExclusive
  <2>1. gate[proc[p].id] = p /\ gate[proc[q].id] = q
    BY DEF IInv, Sound, GateHeld, Locked, Generating, Gen
  <2> QED BY <2>1 DEF Shadowed
<1> QED BY <1>1, Invariance, PTL

(* A record of a generation speaks of a database of that project that is   *)
(* in its cache, whatever was killed, removed, added again or regenerated  *)
(* in between, as long as no generation found its project by name.         *)
THEOREM RecordedDatabase == Spec => []ReadyHasOwnDatabase
<1>1. IInv => ReadyHasOwnDatabase
  BY DEF IInv, Databases, Own, ReadyHasOwnDatabase
<1> QED BY <1>1, Invariance, PTL

(* A fragment never mounts an index that is missing or that its indexer    *)
(* has not finished, even when indexers outlive their runs.                *)
THEOREM MountedWhole == Spec => []MountedIndexWhole
<1>1. IInv => MountedIndexWhole
  BY DEF IInv
<1> QED BY <1>1, Invariance, PTL

(* What WriteFragment checked still holds when it writes. *)
THEOREM FragmentOwned == Spec => FragmentKept
<1>1. ASSUME IInv, [Next]_vars
      PROVE  [fragment' # fragment /\ fragment'.kind = "ours"
                => Replaceable(fragment, fragment'.key, fragment'.owner)]_vars
  <2> SUFFICES ASSUME fragment' # fragment, fragment'.kind = "ours"
               PROVE  Replaceable(fragment, fragment'.key, fragment'.owner)
    OBVIOUS
  <2>1. ~EditFragment
    BY DEF EditFragment, FragmentOf
  <2>2. PICK p \in Procs : WriteFragment(p)
    BY <1>1, <2>1 DEF Next, Step, vars, indexVars, Issue, Find, Doctor, NotFound,
       withProjectGenerationLock, Refind, FallBack, ValidateAndPromote, GenerateFails, UpdateLoad,
       UpdateSave, UpdateFails, LockUnavailable, tryEngineIndexLock, BuildIndex, RenameIndex,
       BuildFails, IndexEngineFails, CancelWatch, Killed, StrayIndexer
  <2>3. /\ proc[p].pc = "write"
        /\ fragment' = [kind |-> "ours", key |-> proc[p].key, owner |-> proc[p].rec.id]
    BY <2>2 DEF WriteFragment
  <2>4. Replaceable(fragment, proc[p].key, proc[p].rec.id)
    BY <1>1, <2>3 DEF IInv, Sound, EngineHeld, Indexing
  <2> QED BY <2>3, <2>4
<1> QED BY <1>1, Invariance, PTL DEF Spec, FragmentKept

(* No update of the registry by one process undoes that of another. *)
THEOREM UpdatesKept == Spec => RegistrationsKept
<1> DEFINE Lost(d) == (\E k \in DOMAIN reg : reg[k].dir = d) /\ ~(\E k \in DOMAIN reg' : reg'[k].dir = d)
           Meant(d) == \E p \in Procs, k \in DOMAIN reg :
            /\ reg[k].dir = d /\ proc[p].pc = "mutate"
            /\ \/ proc[p].cmd = "remove" /\ proc[p].want \in {reg[k].id, reg[k].name}
               \/ proc[p].cmd \in {"generate", "watch"} /\ proc[p].id = reg[k].id
<1>1. ASSUME IInv, [Next]_vars PROVE [\A d \in Dirs : Lost(d) => Meant(d)]_vars
  <2> SUFFICES ASSUME NEW d \in Dirs, Lost(d) PROVE Meant(d)
    OBVIOUS
  <2>1. reg' # reg
    OBVIOUS
  <2>2. PICK p \in Procs : UpdateSave(p)
    BY <1>1, <2>1 DEF Next, Step, vars, Issue, Find, Doctor, NotFound,
       withProjectGenerationLock, Refind, FallBack, ValidateAndPromote, GenerateFails, UpdateLoad,
       UpdateFails, LockUnavailable, tryEngineIndexLock, BuildIndex, RenameIndex,
       BuildFails, WriteFragment, IndexEngineFails, CancelWatch, Killed, StrayIndexer,
       EditFragment
  <2>3. Mutation(proc[p], reg')
    BY <1>1, <2>2, Mutating DEF UpdateSave
  <2>4. PICK k \in DOMAIN reg : reg[k].dir = d
    OBVIOUS
  <2>5. Taken(proc[p], reg[k])
    BY <2>3, <2>4 DEF Mutation
  <2> QED BY <2>4, <2>5 DEF Taken, Gen
<1> QED BY <1>1, Invariance, PTL DEF Spec, RegistrationsKept
=============================================================================
