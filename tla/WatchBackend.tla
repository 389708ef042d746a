----------------------------- MODULE WatchBackend -----------------------------
(***************************************************************************)
(* The Windows watch backend (internal/watch/backend_windows.go): one      *)
(* overlapped ReadDirectoryChanges per watched root, one goroutine that    *)
(* drains the completion port, and the channels to the Watcher.            *)
(*                                                                         *)
(* A watch's structure holds the buffer and the OVERLAPPED the system      *)
(* writes to: it may be given up only when no read is outstanding.  The    *)
(* actions here are the backend's and the system's; module Watching        *)
(* composes them with the Watcher that calls Add, Remove and Close.        *)
(***************************************************************************)
EXTENDS Naturals, Sequences

CONSTANTS Roots,    \* directories that can be watched
          EventCap  \* capacity of the channel events (256)

ASSUME EventCapAssumption == EventCap \in Nat

VARIABLES
  watches, \* the watch of a root
  sending, \* events the goroutine has taken from a completion
  events,  \* the channel events
  errors,  \* whether the channel errors has its one element
  silent   \* history: a completion of no bytes has hidden changes

backendVars == <<watches, sending, events, errors, silent>>

(* What a notification says: of the source file, and of the directory      *)
(* Source in the project's root.                                           *)
What == {"write", "create", "remove", "mkdir", "rmdir", "mvdir"}

(* io is the outstanding read: in progress, or a packet in the port that   *)
(* says done, failed or aborted.  buf is what happened below the root and  *)
(* was not read yet; of tells the incarnations of a directory apart.       *)
Watch == [st : {"closed", "active", "canceling"},
          io : {"none", "pending", "done", "failed", "aborted"},
          buf : Seq(What), of : Nat]

NoWatch == [st |-> "closed", io |-> "none", buf |-> <<>>, of |-> 0]

BackendInit ==
  /\ watches = [r \in Roots |-> NoWatch]
  /\ sending = <<>> /\ events = <<>> /\ errors = FALSE /\ silent = FALSE

Active(dir) == [st |-> "active", io |-> "pending", buf |-> <<>>, of |-> dir]

(* Add: the directory dir is opened under root's name and the first read   *)
(* begins; a root that is watched already, or still being cancelled, is    *)
(* left as it is.                                                          *)
Added(ws, root, dir) ==
  IF ws[root].st # "closed" THEN ws ELSE [ws EXCEPT ![root] = Active(dir)]

\* Mutant: a read that cannot be cancelled any more is taken to be over.
RemovedAtOnce(ws, root) ==
  CASE ws[root].st = "closed" -> ws
    [] ws[root].io = "pending" -> [ws EXCEPT ![root].st = "canceling", ![root].io = "aborted"]
    [] OTHER -> [ws EXCEPT ![root].st = "closed"]

(* Remove, up to its wait: CancelIoEx aborts a read in progress; when the  *)
(* packet is in the port already it finds nothing.                         *)
Removed(ws, root) ==
  IF ws[root].st # "active" THEN ws
  ELSE [ws EXCEPT ![root].st = "canceling",
                  ![root].io = IF @ = "pending" THEN "aborted" ELSE @]

(* External: something happens below the directory a watch has open. *)
Notified(ws, root, what) ==
  IF ws[root].st = "closed" THEN ws ELSE [ws EXCEPT ![root].buf = Append(@, what)]

-----------------------------------------------------------------------------
(* External: the read of a root completes, with what has happened, with an *)
(* error, or, when that did not fit the buffer, with no bytes at all.      *)
ReadCompletes(r) ==
  /\ watches[r].io = "pending" /\ watches[r].buf # <<>>
  /\ \/ watches' = [watches EXCEPT ![r].io = "done"] /\ UNCHANGED silent
     \/ watches' = [watches EXCEPT ![r].io = "failed"] /\ UNCHANGED silent
     \/ watches' = [watches EXCEPT ![r].io = "done", ![r].buf = <<>>] /\ silent' = TRUE
  /\ UNCHANGED <<sending, events, errors>>

(* readCompletions takes a packet.  A watch that is being cancelled, or    *)
(* whose read failed, is finished: handle closed, waiters of Remove woken. *)
readCompletions(r) ==
  LET w == watches[r] IN
  /\ sending = <<>>
  /\ w.io \in {"done", "failed", "aborted"}
  /\ \/ /\ w.st = "active" /\ w.io = "done"
        /\ sending' = w.buf
        /\ watches' = [watches EXCEPT ![r].io = "pending", ![r].buf = <<>>]
        /\ UNCHANGED errors
     \/ /\ w.st # "active" \/ w.io # "done"
        /\ watches' = [watches EXCEPT ![r] = NoWatch]
        /\ errors' = (errors \/ (w.st = "active" /\ w.io = "failed"))
        /\ UNCHANGED sending
  /\ UNCHANGED <<events, silent>>

\* Mutant: the goroutine waits for room in the channel.
SendBlocking ==
  /\ sending # <<>>
  /\ Len(events) < EventCap /\ events' = Append(events, Head(sending))
  /\ sending' = Tail(sending)
  /\ UNCHANGED <<watches, silent, errors>>

(* It passes the events on without ever waiting: one that finds the        *)
(* channel full is dropped and reported as an error.                       *)
Send ==
  /\ sending # <<>>
  /\ \/ Len(events) < EventCap /\ events' = Append(events, Head(sending)) /\ UNCHANGED errors
     \/ Len(events) >= EventCap /\ errors' = TRUE /\ UNCHANGED events
  /\ sending' = Tail(sending)
  /\ UNCHANGED <<watches, silent>>

-----------------------------------------------------------------------------
(* No watch is given up, and its memory with it, while the system still    *)
(* has a read into its buffer or a packet that points to it: Remove,       *)
(* failing reads and Close in every order.                                 *)
NoDanglingRead == \A r \in Roots : watches[r].st = "closed" => watches[r].io = "none"
=============================================================================
