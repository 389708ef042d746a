------------------------------- MODULE Commands -------------------------------
(***************************************************************************)
(* The commands of internal/app/app.go and what they share: the registry   *)
(* file with its lock (internal/registry), a generation lock and a         *)
(* database per project id, and per engine root the index-engine lock, the *)
(* index files and the .clangd fragment (internal/engineindex).            *)
(*                                                                         *)
(* Every process runs one command at a time; the daemon's generator (the   *)
(* coordinator calls it) is the command "watch".  A process may be killed  *)
(* at any point: the operating system then frees its locks.                *)
(*                                                                         *)
(* Ids and names are the numbers of one family: 1 is "foo", n > 1 is       *)
(* "foo-n", and 0 is the name "Foo", whose lower case is 1.  A .uproject   *)
(* is named by its directory.                                              *)
(***************************************************************************)
EXTENDS Naturals, FiniteSets, SequencesExt

CONSTANTS Procs,       \* processes
          Dirs,        \* directories with a .uproject
          Keys,        \* contents an engine's part of a database can have
          MaxCommands, \* bound: commands in a behaviour
          Nobody       \* no process

ASSUME DirsAssumption == IsFiniteSet(Dirs) /\ Cardinality(Dirs) > 1
ASSUME KeysAssumption == Keys # {}
ASSUME NobodyAssumption == Nobody \notin Procs
ASSUME MaxCommandsAssumption == MaxCommands \in Nat

VARIABLES
  reg,      \* registry.json: the projects, in order
  store,    \* who holds the registry lock
  gate,     \* who holds the generation lock of an id
  cdb,      \* the compilation database in the cache of an id
  engine,   \* who holds the index-engine lock
  idx,      \* engine.idx of a key
  idxNew,   \* engine.idx.new of a key
  fragment, \* .clangd at the engine root
  proc,     \* the processes
  issued,   \* number of commands so far
  stamp,    \* number of databases so far
  crossed   \* history: one was moved into a cache whose lock was not held

vars == <<reg, store, gate, cdb, engine, idx, idxNew, fragment, proc, issued, stamp, crossed>>

indexVars == <<engine, idx, idxNew, fragment>>

Ids == 1..(Cardinality(Dirs) + 1)  \* stableID gives no others
Names == {0, 1}
Gens == 0..(MaxCommands + 1)

(* gen stands for the Generation fields and tool for the Toolchain fields, *)
(* 0 for empty ones; reason says whether InvalidationReason is set.        *)
Project == [dir : Dirs, name : Names, id : Ids \cup {0},
            gen : Gens, tool : {0, 1}, reason : BOOLEAN]

NewProject(d, n) ==
  [dir |-> d, name |-> n, id |-> 0, gen |-> 0, tool |-> 0, reason |-> FALSE]

NoProject == NewProject(CHOOSE d \in Dirs : TRUE, 0)

(* A database: whose it is, and which; 0 when there is none. *)
Database == [dir : Dirs, gen : Gens]
NoDatabase == [dir |-> CHOOSE d \in Dirs : TRUE, gen |-> 0]

(* An index: what one indexer wrote, to the end or not, or what two did.   *)
Texts == {"none", "partial", "whole", "mixed"}

(* A file that is being built; stray says that the indexer of a run that   *)
(* was killed still has it open.                                           *)
Staged == [text : Texts, stray : BOOLEAN]
NotStaged == [text |-> "none", stray |-> FALSE]

Fragment == [kind : {"none", "hand", "ours"}, key : Keys, owner : Ids \cup {0}]
FragmentOf(kind) == [kind |-> kind, key |-> CHOOSE k \in Keys : TRUE, owner |-> 0]

Process ==
  [cmd : {"none", "add", "remove", "generate", "watch", "doctor", "index"},
   pc : {"idle", "find", "gate", "refind", "generate", "ubt", "update", "mutate",
         "persist", "note", "engine", "build", "indexing", "built", "check", "write"},
   want : Names \cup Ids, id : Ids \cup {0}, rec : Project, ids : SUBSET Ids,
   snap : Seq(Project), tries : 0..2, key : Keys]

Idle == [cmd |-> "none", pc |-> "idle", want |-> 0, id |-> 0, rec |-> NoProject,
         ids |-> {}, snap |-> <<>>, tries |-> 0, key |-> CHOOSE k \in Keys : TRUE]

Generated(d, n, i) == [NewProject(d, n) EXCEPT !.id = i, !.gen = 1, !.tool = 1]

(* What earlier commands can have left: nothing, the second of two         *)
(* namesakes, one generated project, two of them.                          *)
Earlier ==
  LET d == CHOOSE d \in Dirs : TRUE
      e == CHOOSE e \in Dirs : e # d
  IN {<<>>, <<[NewProject(d, 1) EXCEPT !.id = 2]>>, <<Generated(d, 1, 1)>>,
      <<Generated(d, 1, 1), Generated(e, 1, 2)>>}

Init ==
  /\ reg \in Earlier
  /\ store = Nobody /\ engine = Nobody
  /\ gate = [i \in Ids |-> Nobody]
  /\ cdb = [i \in Ids |->
              IF \E k \in DOMAIN reg : reg[k].id = i /\ reg[k].gen = 1
              THEN [dir |-> (CHOOSE x \in Range(reg) : x.id = i).dir, gen |-> 1]
              ELSE NoDatabase]
  /\ idx = [k \in Keys |-> "none"] /\ idxNew = [k \in Keys |-> NotStaged]
  /\ fragment = FragmentOf("none")
  /\ proc = [p \in Procs |-> Idle]
  /\ issued = 0 /\ stamp = 1 /\ crossed = FALSE

-----------------------------------------------------------------------------
(* Registry operations. *)

(* stableID: the first of foo, foo-2, foo-3, ... that is not in use. *)
stableID(r) ==
  CHOOSE i \in Ids : /\ \A k \in DOMAIN r : r[k].id # i
                     /\ \A j \in 1..(i - 1) : \E k \in DOMAIN r : r[k].id = j

(* find: the index of the first project with that id or that name, or 0. *)
find(r, t) == SelectInSeq(r, LAMBDA x : x.id = t \/ x.name = t)

findID(r, i) == SelectInSeq(r, LAMBDA x : x.id = i)

normalizeAndValidate(r) ==
  \A i, j \in DOMAIN r : i # j => r[i].id # r[j].id /\ r[i].dir # r[j].dir

(* What the mutation of p's command makes of the registry it has loaded,  *)
(* given what it does to the record of a generated project; nothing when   *)
(* the mutation returns an error.                                          *)
Mutated(p, written) ==
  LET me == proc[p] r == me.snap
      at == IF me.cmd = "remove" THEN find(r, me.want) ELSE findID(r, me.id)
  IN CASE me.cmd = "add" -> {Append(r, [me.rec EXCEPT !.id = stableID(r)])}
       [] me.cmd = "doctor" ->
            {[k \in DOMAIN r |-> [r[k] EXCEPT !.tool = IF r[k].id \in me.ids THEN 1 ELSE @]]}
       [] me.cmd = "remove" -> {RemoveAt(r, i) : i \in {at} \ {0}}
       [] me.cmd \in {"generate", "watch"} ->
            {ReplaceAt(r, i, IF me.pc = "note" THEN [r[i] EXCEPT !.reason = TRUE]
                                               ELSE written[r[i]]) : i \in {at} \ {0}}

\* Mutant: only the generation is written into the project that has the id now.
MutatedInPlace(p) ==
  Mutated(p, [x \in Range(proc[p].snap) |-> [x EXCEPT !.gen = proc[p].rec.gen]])

Mutations(p) == Mutated(p, [x \in Range(proc[p].snap) |-> proc[p].rec])

(* Project.Ready: a recorded generation, and the file is still there. *)
Ready(x) == x.gen # 0 /\ cdb[x.id].gen # 0

Goto(p, pc) == proc' = [proc EXCEPT ![p].pc = pc]

Freed(holder, p) == IF holder = p THEN Nobody ELSE holder

\* Mutant: a command that fails keeps its generation lock until it exits.
LeaveLocked(p) ==
  /\ proc' = [proc EXCEPT ![p] = Idle]
  /\ store' = Freed(store, p) /\ engine' = Freed(engine, p)
  /\ UNCHANGED gate

(* The command is over: deferred releases, or the operating system's. *)
Leave(p) ==
  /\ proc' = [proc EXCEPT ![p] = Idle]
  /\ store' = Freed(store, p) /\ engine' = Freed(engine, p)
  /\ gate' = [i \in Ids |-> Freed(gate[i], p)]

-----------------------------------------------------------------------------
(* Commands begin.  add has found the project on disk; the others name a   *)
(* project that is registered as they begin (one that is not is NotFound   *)
(* at once); the daemon's generator is called with the id of one.          *)
Issue(p) ==
  /\ proc[p].pc = "idle" /\ issued < MaxCommands
  /\ issued' = issued + 1
  /\ \/ \E d \in Dirs, n \in Names :
          proc' = [proc EXCEPT ![p].cmd = "add", ![p].pc = "update", ![p].rec = NewProject(d, n)]
     \/ \E x \in Range(reg) : \E t \in {x.id, x.name} :
          proc' = [proc EXCEPT ![p].cmd = "remove", ![p].pc = "update", ![p].want = t]
     \/ \E x \in Range(reg), c \in {"generate", "index"} : \E t \in {x.id, x.name} :
          proc' = [proc EXCEPT ![p].cmd = c, ![p].pc = "find", ![p].want = t]
     \/ proc' = [proc EXCEPT ![p].cmd = "doctor", ![p].pc = "find"]
     \/ \E x \in Range(reg) :
          proc' = [proc EXCEPT ![p].cmd = "watch", ![p].pc = "gate", ![p].id = x.id]
  /\ UNCHANGED <<reg, store, gate, cdb, indexVars, stamp, crossed>>

(* Load reads the registry under its lock. *)
Load(p) == proc[p].pc \in {"find", "refind"} /\ store = Nobody

(* generate and index-engine look up their project. *)
Find(p) ==
  LET at == find(reg, proc[p].want) IN
  /\ Load(p) /\ proc[p].cmd \in {"generate", "index"} /\ proc[p].pc = "find"
  /\ at # 0
  /\ \/ /\ proc[p].cmd = "generate"
        /\ proc' = [proc EXCEPT ![p].pc = "gate", ![p].id = reg[at].id]
     \/ /\ proc[p].cmd = "index" /\ Ready(reg[at])
        /\ proc' = [proc EXCEPT ![p].pc = "engine", ![p].rec = reg[at]]
  /\ UNCHANGED <<reg, store, gate, cdb, indexVars, issued, stamp, crossed>>

(* doctor selects a clangd for projects whose recorded one differs. *)
Doctor(p) ==
  LET missing == {reg[k].id : k \in {j \in DOMAIN reg : reg[j].tool = 0}} IN
  /\ Load(p) /\ proc[p].cmd = "doctor"
  /\ missing # {}
  /\ proc' = [proc EXCEPT ![p].pc = "update", ![p].ids = missing]
  /\ UNCHANGED <<reg, store, gate, cdb, indexVars, issued, stamp, crossed>>

-----------------------------------------------------------------------------
(* Generation. *)

\* Mutant: the generation lock is not taken.
PassGate(p) ==
  /\ proc[p].pc = "gate"
  /\ Goto(p, "refind")
  /\ UNCHANGED <<reg, store, gate, cdb, indexVars, issued, stamp, crossed>>

(* withProjectGenerationLock: polls until the lock is free. *)
withProjectGenerationLock(p) ==
  /\ proc[p].pc = "gate" /\ gate[proc[p].id] = Nobody
  /\ gate' = [gate EXCEPT ![proc[p].id] = p]
  /\ Goto(p, "refind")
  /\ UNCHANGED <<reg, store, cdb, indexVars, issued, stamp, crossed>>

(* Refind matched a project by its name that has another id than the one   *)
(* whose generation lock is held.                                          *)
Shadowed(p) == proc[p].rec.id # proc[p].id

(* The project is looked up again, by id or name, under the lock. *)
Refind(p) ==
  LET at == find(reg, proc[p].id) IN
  /\ Load(p) /\ proc[p].pc = "refind"
  /\ at # 0
  /\ proc' = [proc EXCEPT ![p].pc = "generate", ![p].rec = reg[at]]
  /\ UNCHANGED <<reg, store, gate, cdb, indexVars, issued, stamp, crossed>>

(* No Rider metadata, or stale, or unusable; the bundled dotnet was found  *)
(* and ubtguard.Wait has seen no competing build.                          *)
FallBack(p) ==
  /\ proc[p].pc = "generate"
  /\ Goto(p, "ubt")
  /\ UNCHANGED <<reg, store, gate, cdb, indexVars, issued, stamp, crossed>>

(* A staged database, from Rider metadata or from UBT, was validated and   *)
(* moved into the cache of the project's id.                               *)
ValidateAndPromote(p) ==
  LET x == proc[p].rec IN
  /\ proc[p].pc \in {"generate", "ubt"}
  /\ stamp' = stamp + 1
  /\ crossed' = (crossed \/ Shadowed(p))
  /\ cdb' = [cdb EXCEPT ![x.id] = [dir |-> x.dir, gen |-> stamp']]
  /\ proc' = [proc EXCEPT ![p].pc = "update",
                ![p].rec = [x EXCEPT !.gen = stamp', !.tool = 1, !.reason = FALSE]]
  /\ UNCHANGED <<reg, store, gate, indexVars, issued>>

(* Any step of the generation fails; the daemon then notes the reason. *)
GenerateFails(p) ==
  /\ proc[p].pc \in {"generate", "ubt"}
  /\ \/ proc[p].cmd = "watch" /\ Goto(p, "persist") /\ UNCHANGED <<store, gate, engine>>
     \/ proc[p].cmd = "generate" /\ Leave(p)
  /\ UNCHANGED <<reg, cdb, idx, idxNew, fragment, issued, stamp, crossed>>

-----------------------------------------------------------------------------
(* Store.Update. *)

\* Mutant: the registry is loaded without its lock.
LoadUnlocked(p) ==
  /\ proc[p].pc \in {"update", "persist"}
  /\ proc' = [proc EXCEPT ![p].snap = reg,
                          ![p].pc = IF @ = "update" THEN "mutate" ELSE "note"]
  /\ UNCHANGED <<reg, store, gate, cdb, indexVars, issued, stamp, crossed>>

UpdateLoad(p) ==
  /\ proc[p].pc \in {"update", "persist"} /\ store = Nobody
  /\ store' = p
  /\ proc' = [proc EXCEPT ![p].snap = reg,
                          ![p].pc = IF @ = "update" THEN "mutate" ELSE "note"]
  /\ UNCHANGED <<reg, gate, cdb, indexVars, issued, stamp, crossed>>

(* The mutated registry is written beside the file and moved over it. *)
UpdateSave(p) ==
  /\ proc[p].pc \in {"mutate", "note"}
  /\ \E r \in Mutations(p) : normalizeAndValidate(r) /\ reg' = r
  /\ Leave(p)
  /\ UNCHANGED <<cdb, idx, idxNew, fragment, issued, stamp, crossed>>

(* The mutation or the validation refuses, or a file operation fails.      *)
(* persistWatchFailure tries three times.                                  *)
UpdateFails(p) ==
  /\ proc[p].pc \in {"mutate", "note"}
  /\ IF proc[p].pc = "note" /\ proc[p].tries < 2
     THEN /\ proc' = [proc EXCEPT ![p].pc = "persist", ![p].tries = @ + 1]
          /\ store' = Freed(store, p)
          /\ UNCHANGED <<gate, engine>>
     ELSE Leave(p)
  /\ UNCHANGED <<reg, cdb, idx, idxNew, fragment, issued, stamp, crossed>>

(* The registry lock stays contended for all retries, or for the 350 ms of *)
(* persistWatchFailure.                                                    *)
LockUnavailable(p) ==
  /\ proc[p].pc \in {"find", "refind", "update", "persist"}
  /\ store \notin {Nobody, p}
  /\ IF proc[p].pc = "persist" /\ proc[p].tries < 2
     THEN /\ proc' = [proc EXCEPT ![p].tries = @ + 1]
          /\ UNCHANGED <<store, gate, engine>>
     ELSE Leave(p)
  /\ UNCHANGED <<reg, cdb, idx, idxNew, fragment, issued, stamp, crossed>>

(* A lookup finds nothing to do: no such project, no database yet, no      *)
(* clangd to record.                                                       *)
NotFound(p) ==
  /\ Load(p)
  /\ \/ proc[p].pc = "refind" /\ find(reg, proc[p].id) = 0
     \/ proc[p].cmd = "doctor"
     \/ /\ proc[p].pc = "find" /\ proc[p].cmd \in {"generate", "index"}
        /\ \A at \in {find(reg, proc[p].want)} \ {0} :
             proc[p].cmd = "index" /\ ~Ready(reg[at])
  /\ Leave(p)
  /\ UNCHANGED <<reg, cdb, idx, idxNew, fragment, issued, stamp, crossed>>

-----------------------------------------------------------------------------
(* index-engine. *)

\* Mutant: runs on one engine root are not kept apart.
EnterEngine(p) ==
  /\ proc[p].pc = "engine"
  /\ \E k \in Keys : proc' = [proc EXCEPT ![p].pc = "build", ![p].key = k]
  /\ UNCHANGED <<reg, store, gate, cdb, indexVars, issued, stamp, crossed>>

(* tryEngineIndexLock; then the engine's part of the database is split off *)
(* and its content gives the key.                                          *)
tryEngineIndexLock(p) ==
  /\ proc[p].pc = "engine" /\ engine = Nobody
  /\ engine' = p
  /\ \E k \in Keys : proc' = [proc EXCEPT ![p].pc = "build", ![p].key = k]
  /\ UNCHANGED <<reg, store, gate, cdb, idx, idxNew, fragment, issued, stamp, crossed>>

(* BuildIndex truncates engine.idx.new, lets clangd-indexer fill it ... *)
BuildIndex(p) ==
  /\ \/ /\ proc[p].pc = "build" /\ Goto(p, "indexing")
        /\ idxNew' = [idxNew EXCEPT ![proc[p].key].text = "partial"]
     \/ /\ proc[p].pc = "indexing" /\ Goto(p, "built")
        /\ idxNew' = [idxNew EXCEPT ![proc[p].key].text = IF @ = "mixed" THEN @ ELSE "whole"]
  /\ UNCHANGED <<reg, store, gate, cdb, engine, idx, fragment, issued, stamp, crossed>>

(* ... and renames it, which Windows refuses for a file that another       *)
(* process has open.                                                       *)
RenameIndex(p) ==
  /\ proc[p].pc = "built" /\ ~idxNew[proc[p].key].stray
  /\ idx' = [idx EXCEPT ![proc[p].key] = idxNew[proc[p].key].text]
  /\ idxNew' = [idxNew EXCEPT ![proc[p].key] = NotStaged]
  /\ Goto(p, "check")
  /\ UNCHANGED <<reg, store, gate, cdb, engine, fragment, issued, stamp, crossed>>

(* The run or the rename fails: the new file is removed, if Windows does   *)
(* not refuse that too, and the old one kept.                              *)
BuildFails(p) ==
  /\ proc[p].pc \in {"indexing", "built"}
  /\ idxNew' = [idxNew EXCEPT ![proc[p].key] = IF @.stray THEN @ ELSE NotStaged]
  /\ Leave(p)
  /\ UNCHANGED <<reg, cdb, idx, fragment, issued, stamp, crossed>>

(* What WriteFragment may replace. *)
Replaceable(f, key, owner) ==
  f.kind = "none" \/ (f.kind = "ours" /\ (f.key = key \/ f.owner = owner))

WriteFragment(p) ==
  /\ \/ /\ proc[p].pc = "check" /\ Replaceable(fragment, proc[p].key, proc[p].rec.id)
        /\ Goto(p, "write")
        /\ UNCHANGED <<fragment, store, gate, engine>>
     \/ /\ proc[p].pc = "write"
        /\ fragment' = [kind |-> "ours", key |-> proc[p].key, owner |-> proc[p].rec.id]
        /\ Leave(p)
  /\ UNCHANGED <<reg, cdb, idx, idxNew, issued, stamp, crossed>>

(* The lock is held, there is nothing to index, the fragment is refused or *)
(* cannot be written.                                                      *)
IndexEngineFails(p) ==
  /\ proc[p].pc \in {"engine", "build", "check", "write"}
  /\ Leave(p)
  /\ UNCHANGED <<reg, cdb, idx, idxNew, fragment, issued, stamp, crossed>>

-----------------------------------------------------------------------------
(* The watcher is closed: a run that waits for a lock is given up. *)
CancelWatch(p) ==
  /\ proc[p].cmd = "watch" /\ proc[p].pc \in {"gate", "refind", "update", "mutate"}
  /\ Leave(p)
  /\ UNCHANGED <<reg, cdb, idx, idxNew, fragment, issued, stamp, crossed>>

(* The process is killed; nothing ends its clangd-indexer with it. *)
Killed(p) ==
  /\ proc[p].pc # "idle"
  /\ Leave(p)
  /\ \/ UNCHANGED idxNew
     \/ proc[p].pc = "indexing" /\ idxNew' = [idxNew EXCEPT ![proc[p].key].stray = TRUE]
  /\ UNCHANGED <<reg, cdb, idx, fragment, issued, stamp, crossed>>

(* External: such an indexer writes into the file of the next run, or      *)
(* ends.                                                                   *)
StrayIndexer(k) ==
  /\ idxNew[k].stray
  /\ \/ /\ \E p \in Procs : proc[p].pc \in {"indexing", "built"} /\ proc[p].key = k
        /\ idxNew' = [idxNew EXCEPT ![k].text = "mixed"]
     \/ idxNew' = [idxNew EXCEPT ![k].stray = FALSE]
  /\ UNCHANGED <<reg, store, gate, cdb, engine, idx, fragment, proc, issued, stamp, crossed>>

(* External: the user removes the fragment, or writes one by hand, though  *)
(* not in the moment between WriteFragment's check and its rename.         *)
EditFragment ==
  /\ \/ fragment.kind # "none" /\ fragment' = FragmentOf("none")
     \/ /\ fragment.kind # "hand" /\ fragment' = FragmentOf("hand")
        /\ \A p \in Procs : proc[p].pc # "write"
  /\ UNCHANGED <<reg, store, gate, cdb, engine, idx, idxNew, proc, issued, stamp, crossed>>

Step(p) ==
  \/ Find(p) \/ Doctor(p) \/ NotFound(p)
  \/ withProjectGenerationLock(p) \/ Refind(p) \/ FallBack(p)
  \/ ValidateAndPromote(p) \/ GenerateFails(p)
  \/ UpdateLoad(p) \/ UpdateSave(p) \/ UpdateFails(p) \/ LockUnavailable(p)
  \/ tryEngineIndexLock(p) \/ BuildIndex(p) \/ RenameIndex(p) \/ BuildFails(p)
  \/ WriteFragment(p) \/ IndexEngineFails(p)

Next ==
  \/ \E p \in Procs : Issue(p) \/ Step(p) \/ CancelWatch(p) \/ Killed(p)
  \/ \E k \in Keys : StrayIndexer(k)
  \/ EditFragment

Spec == Init /\ [][Next]_vars

(* A command goes on as long as it can; the others are finitely many. *)
FairSpec == Spec /\ \A p \in Procs : WF_vars(Step(p))

-----------------------------------------------------------------------------
TypeOK ==
  /\ reg \in Seq(Project) /\ proc \in [Procs -> Process]
  /\ {store, engine} \subseteq Procs \cup {Nobody}
  /\ gate \in [Ids -> Procs \cup {Nobody}]
  /\ cdb \in [Ids -> Database]
  /\ idx \in [Keys -> Texts] /\ idxNew \in [Keys -> Staged]
  /\ fragment \in Fragment
  /\ issued \in 0..MaxCommands /\ stamp \in Gens /\ crossed \in BOOLEAN

Generating(p) ==
  proc[p].cmd \in {"generate", "watch"} /\ proc[p].pc \in {"generate", "ubt", "update", "mutate"}

(* Two processes never generate into the same cache at the same time: the  *)
(* generation lock serializes them also when projects come and go.  The    *)
(* one exception is a project whose name is the id of the one asked for.   *)
CacheExclusive ==
  \A p, q \in Procs :
    p # q /\ Generating(p) /\ Generating(q) /\ proc[p].rec.id = proc[q].rec.id
      => Shadowed(p) \/ Shadowed(q)

(* A project that counts as generated has a database in its cache that was *)
(* made from its own .uproject and is not older than the record, although  *)
(* the database and the record are written in two steps, a process may die *)
(* between them, and ids are used again after remove.  This is so until a  *)
(* generation writes into the cache of a project it found by name.         *)
ReadyHasOwnDatabase ==
  crossed \/ \A k \in DOMAIN reg :
    reg[k].gen # 0 => cdb[reg[k].id].dir = reg[k].dir /\ reg[k].gen <= cdb[reg[k].id].gen

(* Updates of separate processes are not lost: a project leaves the        *)
(* registry only by a remove that names it, or because a generation that   *)
(* began before its id was used again writes its own project back.         *)
RegistrationsKept ==
  [][\A d \in Dirs :
       (\E k \in DOMAIN reg : reg[k].dir = d) /\ ~(\E k \in DOMAIN reg' : reg'[k].dir = d)
       => \E p \in Procs, k \in DOMAIN reg :
            /\ reg[k].dir = d /\ proc[p].pc = "mutate"
            /\ \/ proc[p].cmd = "remove" /\ proc[p].want \in {reg[k].id, reg[k].name}
               \/ proc[p].cmd \in {"generate", "watch"} /\ proc[p].id = reg[k].id]_vars

(* The index a fragment mounts is one that an indexer has finished,        *)
(* whichever runs of index-engine overlap, fail or die.  It can hold more  *)
(* than that indexer wrote only if one that outlived its run has gone on   *)
(* writing into the same file.                                             *)
MountedIndexWhole == fragment.kind = "ours" => idx[fragment.key] \in {"whole", "mixed"}

(* A fragment that is there is replaced only by its owner or by one that   *)
(* mounts the same content, and a hand-written one never, whatever the     *)
(* user and other runs did while the index was built.                      *)
FragmentKept ==
  [][fragment' # fragment /\ fragment'.kind = "ours"
       => Replaceable(fragment, fragment'.key, fragment'.owner)]_vars

(* Every command ends: no lock is left behind by one that failed or died. *)
CommandsEnd == \A p \in Procs : proc[p].pc # "idle" ~> proc[p].pc = "idle"
=============================================================================
