------------------------------- MODULE Watching -------------------------------
(***************************************************************************)
(* From a change on disk to clangd's view of it: the Watcher               *)
(* (internal/watch/watcher.go, classify.go) over the Windows backend, and  *)
(* the path of a source change through Manager.sourceFileChanged and the   *)
(* open documents of the LSP client.                                       *)
(*                                                                         *)
(* One project with one relevant directory, Source, that holds one source  *)
(* file.  The backend watches the project's root, where Source itself      *)
(* comes and goes, and Source recursively.  What Invalidate does is in     *)
(* module Coordinator, how a session starts and ends in SessionManager.    *)
(***************************************************************************)
EXTENDS WatchBackend

CONSTANT MaxChanges  \* bound: changes on disk

ASSUME RootsAssumption == Roots = {"project", "source"}
ASSUME MaxChangesAssumption == MaxChanges \in Nat

VARIABLES
  dir,        \* which directory is called Source now; 0: none
  file,       \* which text the file has; 0: there is no file
  changes,    \* number of changes on disk so far
  adding,     \* progress of AddProject
  dirs,       \* Watcher.dirs
  loop,       \* Watcher.loop: where it is
  reported,   \* whether Watcher.errors has its one element
  closing,    \* progress of Watcher.Close
  session,    \* the project's session: none, starting, up
  text,       \* clangd's text of the document; 0: it is not open
  carried,    \* the text the loop or a starting session has read
  overlooked, \* history: an event about Source was skipped over
  missed      \* history: a source change met a session without a client

diskVars == <<dir, file, changes>>
watcherVars == <<adding, dirs, loop, reported, closing, overlooked>>
docVars == <<session, text, carried, missed>>
vars == <<backendVars, diskVars, watcherVars, docVars>>

Init ==
  /\ BackendInit
  /\ dir \in {0, 1} /\ file = dir /\ changes = 1
  /\ adding = "root" /\ dirs = {} /\ loop = "select" /\ reported = FALSE /\ closing = "no"
  /\ session = "none" /\ text = 0 /\ carried = [loop |-> 0, seed |-> 0]
  /\ overlooked = FALSE /\ missed = FALSE

-----------------------------------------------------------------------------
(* External: the disk.  A watch sees what happens in the directory it has  *)
(* open, not in a later one of the same name.                              *)
InSource(what) ==
  IF watches["source"].of = dir THEN Notified(watches, "source", what) ELSE watches

(* AddProject has not listed the project yet, a session is there already. *)
Unseen == adding # "done" /\ session # "none"

Change(d, f) ==
  /\ changes < MaxChanges
  /\ changes' = changes + 1
  /\ dir' = d /\ file' = f

Edit ==
  /\ dir # 0
  /\ \/ file # 0 /\ Change(dir, changes') /\ watches' = InSource("write")
     \/ file = 0 /\ Change(dir, changes') /\ watches' = InSource("create")
     \/ file # 0 /\ Change(dir, 0) /\ watches' = InSource("remove")
  /\ missed' = (missed \/ Unseen)
  /\ UNCHANGED <<sending, events, errors, silent, watcherVars, session, text, carried>>

(* Source is deleted, renamed, or created or moved in with a file. *)
MoveSource ==
  /\ \/ dir # 0 /\ Change(0, 0) /\ watches' = Notified(InSource("remove"), "project", "rmdir")
     \/ dir # 0 /\ Change(0, 0) /\ watches' = Notified(watches, "project", "mvdir")
     \/ dir = 0 /\ Change(changes', changes') /\ watches' = Notified(watches, "project", "mkdir")
  /\ UNCHANGED <<sending, events, errors, silent, watcherVars, docVars>>

-----------------------------------------------------------------------------
(* AddProject: the project's root, the relevant trees that exist, and then *)
(* the list of projects that handleEvent goes by.                          *)
AddProject ==
  /\ closing = "no"
  /\ \/ /\ adding = "root"
        /\ watches' = Added(watches, "project", 1) /\ dirs' = dirs \cup {"project"}
        /\ adding' = "trees"
     \/ /\ adding = "trees"
        /\ IF dir = 0 THEN UNCHANGED <<watches, dirs>>
           ELSE watches' = Added(watches, "source", dir) /\ dirs' = dirs \cup {"source"}
        /\ adding' = "list"
     \/ /\ adding = "list" /\ adding' = "done"
        /\ UNCHANGED <<watches, dirs>>
  /\ UNCHANGED <<sending, events, errors, silent, diskVars, loop, reported, closing, overlooked, docVars>>

(* A root cannot be opened. *)
AddProjectFails ==
  /\ adding \in {"root", "trees"} /\ closing = "no"
  /\ adding' = "failed" /\ closing' = "wait"
  /\ UNCHANGED <<backendVars, diskVars, dirs, loop, reported, overlooked, docVars>>

Listed == adding = "done"

(* addRoot under a name that is in dirs does nothing. *)
addTree ==
  IF "source" \in dirs THEN UNCHANGED <<watches, dirs>>
  ELSE watches' = Added(watches, "source", dir) /\ dirs' = dirs \cup {"source"}

-----------------------------------------------------------------------------
(* handleEvent. *)

Took(what) ==
  /\ loop = "select" /\ events # <<>>
  /\ Head(events) \in what
  /\ events' = Tail(events)

(* Source is there when the event is handled: created, moved in, or, after *)
(* a rename, already replaced.                                             *)
SourceAppears ==
  /\ Took({"mkdir", "mvdir"}) /\ dir # 0
  /\ IF Listed THEN addTree ELSE UNCHANGED <<watches, dirs>>
  /\ overlooked' = (overlooked \/ ~Listed \/ Head(events) = "mvdir")
  /\ UNCHANGED <<sending, errors, silent, diskVars, adding, loop, reported, closing, docVars>>

(* attachTree fails: the Watcher reports it and goes on. *)
AttachFails ==
  /\ Took({"mkdir", "mvdir"}) /\ dir # 0 /\ Listed /\ "source" \notin dirs
  /\ reported' = TRUE
  /\ UNCHANGED <<watches, sending, errors, silent, diskVars, adding, dirs, loop, closing, overlooked, docVars>>

(* Source is gone: removeTree cancels its watch and waits. *)
SourceDisappears ==
  /\ Took({"rmdir", "mvdir"}) /\ (Head(events) = "rmdir" \/ dir = 0)
  /\ IF Listed /\ "source" \in dirs
     THEN watches' = Removed(watches, "source") /\ loop' = "removing"
     ELSE UNCHANGED <<watches, loop>>
  /\ overlooked' = (overlooked \/ ~Listed)
  /\ UNCHANGED <<sending, errors, silent, diskVars, adding, dirs, reported, closing, docVars>>

(* The event of a directory that is gone again. *)
NothingThere ==
  /\ Took({"mkdir"}) /\ dir = 0
  /\ UNCHANGED <<watches, sending, errors, silent, diskVars, watcherVars, docVars>>

\* Mutant: the name stays in dirs.
RemoveTreeKeepsName ==
  /\ loop = "removing" /\ watches["source"].st = "closed"
  /\ loop' = "select"
  /\ UNCHANGED <<backendVars, diskVars, dirs, adding, reported, closing, overlooked, docVars>>

removeTree ==
  /\ loop = "removing" /\ watches["source"].st = "closed"
  /\ loop' = "select" /\ dirs' = dirs \ {"source"}
  /\ UNCHANGED <<backendVars, diskVars, adding, reported, closing, overlooked, docVars>>

(* Remove gives up after five seconds; the watch stays in the backend's    *)
(* map, where it lets the next Add do nothing.                             *)
RemoveTimesOut ==
  /\ loop = "removing" /\ watches["source"].st # "closed"
  /\ loop' = "select" /\ dirs' = dirs \ {"source"} /\ overlooked' = TRUE
  /\ UNCHANGED <<backendVars, diskVars, adding, reported, closing, docVars>>

(* handleEvent looks up whether a removed file is there again. *)
FileRemoved == Head(events) = "remove" /\ file = 0

\* Mutant: only events that also invalidate are passed on.
SourceCreated ==
  /\ Took({"write", "create", "remove"})
  /\ IF file # 0 /\ Listed /\ session = "up" /\ Head(events) # "write"
     THEN loop' = "forward" /\ carried' = [carried EXCEPT !.loop = file] ELSE UNCHANGED <<loop, carried>>
  /\ text' = IF Listed /\ FileRemoved THEN 0 ELSE text
  /\ missed' = (missed \/ session = "starting" \/ Unseen)
  /\ UNCHANGED <<watches, sending, errors, silent, diskVars, adding, dirs, reported, closing, overlooked, session>>

(* A source file event.  The document of a removed file is closed; another *)
(* file is read by sourceFileChanged, if the session has a client.         *)
sourceFileChanged ==
  /\ Took({"write", "create", "remove"})
  /\ IF file # 0 /\ Listed /\ session = "up"
     THEN loop' = "forward" /\ carried' = [carried EXCEPT !.loop = file] ELSE UNCHANGED <<loop, carried>>
  /\ text' = IF Listed /\ FileRemoved THEN 0 ELSE text
  /\ missed' = (missed \/ session = "starting" \/ Unseen)
  /\ UNCHANGED <<watches, sending, errors, silent, diskVars, adding, dirs, reported, closing, overlooked, session>>

(* Client.SourceFileChanged: an open document gets the text that was read; *)
(* for a closed one clangd is only told that the file changed.             *)
SourceFileChanged ==
  /\ loop = "forward"
  /\ text' = IF text # 0 /\ carried.loop # 0 THEN carried.loop ELSE text
  /\ loop' = "select" /\ carried' = [carried EXCEPT !.loop = 0]
  /\ UNCHANGED <<backendVars, diskVars, adding, dirs, reported, closing, overlooked, session, missed>>

-----------------------------------------------------------------------------
(* Sessions and queries. *)

(* startSession reads the file as its seed, or another one. *)
selectIndexSeed ==
  /\ session = "none" /\ session' = "starting"
  /\ \E s \in {0, file} : carried' = [carried EXCEPT !.seed = s]
  /\ UNCHANGED <<backendVars, diskVars, watcherVars, text, missed>>

(* It opens the seed; finishStartup sets the client. *)
DidOpen ==
  /\ session = "starting" /\ session' = "up"
  /\ text' = carried.seed /\ carried' = [carried EXCEPT !.seed = 0]
  /\ UNCHANGED <<backendVars, diskVars, watcherVars, missed>>

(* A query opens the document, reading the file under openMu. *)
ensureDocumentOpen ==
  /\ session = "up" /\ text = 0 /\ file # 0
  /\ text' = file
  /\ UNCHANGED <<backendVars, diskVars, watcherVars, session, carried, missed>>

(* The session ends; what the loop carries will reach a closed client. *)
SessionEnds ==
  /\ session # "none" /\ session' = "none"
  /\ text' = 0 /\ carried' = [loop |-> 0, seed |-> 0] /\ missed' = FALSE
  /\ UNCHANGED <<backendVars, diskVars, watcherVars>>

-----------------------------------------------------------------------------
(* The end. *)

(* The loop passes a backend error on and ends. *)
LoopFails ==
  /\ loop = "select" /\ errors
  /\ loop' = "stopped" /\ errors' = FALSE /\ reported' = TRUE
  /\ UNCHANGED <<watches, sending, events, silent, diskVars, adding, dirs, closing, overlooked, docVars>>

(* watchRealWithSink returns: an error was reported, or, external, its     *)
(* context is cancelled.                                                   *)
watchRealWithSink ==
  /\ closing = "no" /\ Listed
  /\ closing' = "wait"
  /\ UNCHANGED <<backendVars, diskVars, adding, dirs, loop, reported, overlooked, docVars>>

(* Watcher.Close has closed done: the loop ends when it is back at select. *)
LoopEnds ==
  /\ loop = "select" /\ closing # "no"
  /\ loop' = "stopped"
  /\ UNCHANGED <<backendVars, diskVars, adding, dirs, reported, closing, overlooked, docVars>>

(* The backend's Close removes every watch and waits for each one; then    *)
(* the goroutine is told to return.  If a Remove has timed out it removes  *)
(* the others and returns the error: port and goroutine stay.              *)
Close ==
  /\ loop = "stopped" /\ closing \in {"wait", "late"}
  /\ \/ /\ \E r \in Roots : watches[r].st = "active" /\ watches' = Removed(watches, r)
        /\ UNCHANGED <<sending, closing>>
     \/ /\ closing = "wait" /\ \A r \in Roots : watches[r].st = "closed"
        /\ closing' = "closed" /\ sending' = <<>>
        /\ UNCHANGED watches
     \/ /\ closing = "late" /\ \A r \in Roots : watches[r].st # "active"
        /\ closing' = "failed"
        /\ UNCHANGED <<watches, sending>>
  /\ UNCHANGED <<events, errors, silent, diskVars, adding, dirs, loop, reported, overlooked, docVars>>

CloseTimesOut ==
  /\ loop = "stopped" /\ closing = "wait"
  /\ \E r \in Roots : watches[r].st = "canceling"
  /\ closing' = "late"
  /\ UNCHANGED <<backendVars, diskVars, adding, dirs, loop, reported, overlooked, docVars>>

-----------------------------------------------------------------------------
BackendStep ==
  /\ (\E r \in Roots : readCompletions(r)) \/ Send
  /\ UNCHANGED <<diskVars, watcherVars, docVars>>

SystemStep ==
  /\ \E r \in Roots : ReadCompletes(r)
  /\ UNCHANGED <<diskVars, watcherVars, docVars>>

WatcherStep ==
  \/ AddProject \/ SourceAppears \/ SourceDisappears \/ NothingThere \/ removeTree
  \/ sourceFileChanged \/ SourceFileChanged \/ LoopFails \/ LoopEnds \/ Close
  \/ reported /\ watchRealWithSink

Next ==
  \/ BackendStep \/ SystemStep \/ WatcherStep
  \/ Edit \/ MoveSource \/ AddProjectFails \/ AttachFails \/ RemoveTimesOut \/ CloseTimesOut \/ watchRealWithSink
  \/ selectIndexSeed \/ DidOpen \/ ensureDocumentOpen \/ SessionEnds

Spec == Init /\ [][Next]_vars

(* The goroutines run, and the system completes reads. *)
FairSpec == Spec /\ WF_vars(BackendStep) /\ WF_vars(SystemStep) /\ WF_vars(WatcherStep)

-----------------------------------------------------------------------------
(* The watching as a whole is over or was lost in a way that is reported,  *)
(* or a completion has hidden changes.                                     *)
Excused == closing # "no" \/ reported \/ errors \/ silent

(* A Source directory that appears, or replaces another one, comes to be   *)
(* the one that is watched, or it disappears again.  Exceptions: it came   *)
(* before AddProject had listed the project, it replaced a renamed one     *)
(* before that event was handled, or Remove timed out.                     *)
TreeWatched ==
  dir # 0 ~> \/ dir = 0 \/ Excused \/ overlooked
             \/ watches["source"].st = "active" /\ watches["source"].of = dir

(* A document that is open in clangd with an old text is brought up to     *)
(* date or closed, whichever of queries, sessions and changes come between *)
(* the reading of a file and the sending of its text.  Exceptions: a       *)
(* change before AddProject had listed the project, or handled while the   *)
(* session was starting, or Source moved.                                  *)
DocumentsCatchUp ==
  text # 0 /\ text # file ~> text \in {0, file} \/ dir # 1 \/ Excused \/ missed

(* Stopping the watchers ends the loop and closes every watch, without the *)
(* help of any timeout: the goroutine that drains completions never waits  *)
(* for the one that waits for it.                                          *)
CloseReturns == closing # "no" ~> closing \in {"closed", "failed"}
=============================================================================
