-------------------------------- MODULE Daemon --------------------------------
(***************************************************************************)
(* The per-user daemon (internal/daemon, runDaemon of internal/app/app.go) *)
(* and the commands that find, start, use and stop it.                     *)
(*                                                                         *)
(* Daemon processes own the lifetime lock, the named pipe, the session     *)
(* manager and the watchers.  The commands mcp, daemon status, daemon stop *)
(* and the foreground watch are clients.  What the watchers do is in       *)
(* Reconcile and what the manager does in SessionManager; here they only   *)
(* begin and end.                                                          *)
(***************************************************************************)
EXTENDS Naturals, FiniteSets

CONSTANTS Daemons,        \* processes of "daemon run"
          Clients,        \* processes of the other commands
          Conns,          \* bound: connections that exist at a time
          MaxConnections, \* maxDaemonConnections
          MaxCommands,    \* bound: commands in a behaviour
          Nobody          \* no process, no connection

ASSUME NobodyAssumption == Nobody \notin Daemons \cup Clients \cup Conns
ASSUME ProcessesAssumption == Daemons # {} /\ Daemons \cap Clients = {}
ASSUME LimitsAssumption == {MaxConnections, MaxCommands} \subseteq Nat

VARIABLES
  lifetime, \* who holds daemon.lock
  startup,  \* who holds startup.lock
  pipe,     \* who listens on the named pipe
  daemon,   \* the daemon processes
  conns,    \* the connections
  client,   \* the commands
  issued    \* number of commands so far

vars == <<lifetime, startup, pipe, daemon, conns, client, issued>>

(* cancelled is runCtx of runDaemon, stopping is serverCtx of              *)
(* ListenAndServe, slots its limit.                                        *)
DaemonState ==
  [pc : {"off", "starting", "running", "draining", "closing"},
   watch : {"off", "on", "done"},
   serve : {"off", "listen", "accept", "wait", "done"},
   cancelled : BOOLEAN, stopping : BOOLEAN,
   slots : 0..MaxConnections]

Off == [pc |-> "off", watch |-> "off", serve |-> "off", cancelled |-> FALSE,
        stopping |-> FALSE, slots |-> 0]

(* srv is where the daemon is with a connection; open says that neither    *)
(* side has closed it.                                                     *)
Connection ==
  [d : Daemons \cup {Nobody}, cmd : {"none", "status", "stop", "mcp"},
   srv : {"none", "queued", "reading", "session", "ending"},
   open : BOOLEAN, reply : {"none", "ok", "err"}]

NoConnection == [d |-> Nobody, cmd |-> "none", srv |-> "none",
                 open |-> FALSE, reply |-> "none"]

Command ==
  [pc : {"idle", "status", "lock", "recheck", "start", "poll", "connect", "proxy",
         "drain", "stop", "watching"},
   conn : Conns \cup {Nobody}]

Idle == [pc |-> "idle", conn |-> Nobody]

Serving == [Off EXCEPT !.pc = "running", !.watch = "on", !.serve = "accept"]

(* No daemon yet, or one that an earlier command started. *)
Init ==
  /\ startup = Nobody
  /\ \/ /\ daemon = [d \in Daemons |-> Off]
        /\ lifetime = Nobody /\ pipe = Nobody
     \/ LET d == CHOOSE d \in Daemons : TRUE IN
        /\ daemon = [[e \in Daemons |-> Off] EXCEPT ![d] = Serving]
        /\ lifetime = d /\ pipe = d
  /\ conns = [k \in Conns |-> NoConnection]
  /\ client = [c \in Clients |-> Idle]
  /\ issued = 0

Handled(k) == conns[k].srv \in {"reading", "session", "ending"}
Handlers(d) == {k \in Conns : conns[k].d = d /\ Handled(k)}
Held(k) == \E c \in Clients : client[c].conn = k

Freed(holder, p) == IF holder = p THEN Nobody ELSE holder

(* Nothing is left of connection k but an answer its client may read.      *)
Over(k) == [NoConnection EXCEPT !.reply = IF Held(k) THEN conns[k].reply ELSE @]

(* The connections of ks are closed; a handler still has to notice.        *)
Closed(ks) ==
  [k \in Conns |-> IF k \notin ks THEN conns[k]
                   ELSE IF Handled(k) THEN [conns[k] EXCEPT !.open = FALSE] ELSE Over(k)]

-----------------------------------------------------------------------------
(* runDaemon. *)

AcquireLifetimeLock(d) ==
  /\ daemon[d].pc = "starting"
  /\ \/ /\ lifetime = Nobody
        /\ lifetime' = d
        /\ daemon' = [daemon EXCEPT ![d].pc = "running", ![d].watch = "on", ![d].serve = "listen"]
     \/ /\ lifetime # Nobody
        /\ daemon' = [daemon EXCEPT ![d] = Off]
        /\ UNCHANGED lifetime
  /\ UNCHANGED <<startup, pipe, conns, client, issued>>

(* What the end of watch or serve makes of a daemon: the select of         *)
(* runDaemon lets whichever ends first cancel the other.                   *)
Ended(s) ==
  IF s.pc = "running" THEN [s EXCEPT !.pc = "draining", !.cancelled = TRUE, !.stopping = TRUE] ELSE s

(* watchRegistry ends when runCtx is cancelled ... *)
WatchEnds(d) ==
  /\ daemon[d].watch = "on" /\ daemon[d].cancelled
  /\ daemon' = [daemon EXCEPT ![d] = Ended([@ EXCEPT !.watch = "done"])]
  /\ UNCHANGED <<lifetime, startup, pipe, conns, client, issued>>

(* ... and at its first error, for instance one failed load.               *)
WatchFails(d) ==
  /\ daemon[d].watch = "on" /\ ~daemon[d].cancelled
  /\ daemon' = [daemon EXCEPT ![d] = Ended([@ EXCEPT !.watch = "done"])]
  /\ UNCHANGED <<lifetime, startup, pipe, conns, client, issued>>

\* Mutant: the lifetime lock is given up before the manager is closed.
BothEndedUnlocked(d) ==
  /\ daemon[d].pc = "draining" /\ {daemon[d].watch, daemon[d].serve} = {"done"}
  /\ daemon' = [daemon EXCEPT ![d].pc = "closing"]
  /\ lifetime' = Nobody
  /\ UNCHANGED <<startup, pipe, conns, client, issued>>

(* The other one ended too; the deferred manager.Close begins. *)
BothEnded(d) ==
  /\ daemon[d].pc = "draining" /\ {daemon[d].watch, daemon[d].serve} = {"done"}
  /\ daemon' = [daemon EXCEPT ![d].pc = "closing"]
  /\ UNCHANGED <<lifetime, startup, pipe, conns, client, issued>>

(* manager.Close has returned; releaseOwnership is the last deferred call. *)
ReleaseOwnership(d) ==
  /\ daemon[d].pc = "closing"
  /\ daemon' = [daemon EXCEPT ![d] = Off]
  /\ lifetime' = Freed(lifetime, d)
  /\ UNCHANGED <<startup, pipe, conns, client, issued>>

(* External: an interrupt cancels the context runDaemon was given. *)
Interrupt(d) ==
  /\ daemon[d].pc = "running" /\ ~daemon[d].cancelled
  /\ daemon' = [daemon EXCEPT ![d].cancelled = TRUE, ![d].stopping = TRUE]
  /\ UNCHANGED <<lifetime, startup, pipe, conns, client, issued>>

(* External: the daemon is killed; the system frees its locks and handles. *)
DaemonKilled(d) ==
  /\ daemon[d].pc # "off"
  /\ daemon' = [daemon EXCEPT ![d] = Off]
  /\ lifetime' = Freed(lifetime, d) /\ pipe' = Freed(pipe, d)
  /\ conns' = [k \in Conns |-> IF conns[k].d = d THEN Over(k) ELSE conns[k]]
  /\ UNCHANGED <<startup, client, issued>>

-----------------------------------------------------------------------------
(* ListenAndServe. *)

Listen(d) ==
  /\ daemon[d].serve = "listen"
  /\ \/ /\ pipe = Nobody
        /\ pipe' = d
        /\ daemon' = [daemon EXCEPT ![d].serve = "accept"]
     \/ /\ UNCHANGED pipe  \* listenPipe fails
        /\ daemon' = [daemon EXCEPT ![d] = Ended([@ EXCEPT !.serve = "done"])]
  /\ UNCHANGED <<lifetime, startup, conns, client, issued>>

\* Mutant: connections are not counted against the limit.
AcceptUnlimited(d) ==
  /\ daemon[d].serve = "accept" /\ pipe = d
  /\ \E k \in Conns :
       /\ conns[k].d = d /\ conns[k].srv = "queued"
       /\ conns' = [conns EXCEPT ![k].srv = "reading"]
       /\ daemon' = [daemon EXCEPT ![d].slots = @ + 1]
  /\ UNCHANGED <<lifetime, startup, pipe, client, issued>>

(* A connection beyond the limit is closed without an answer. *)
Accept(d) ==
  /\ daemon[d].serve = "accept" /\ pipe = d
  /\ \E k \in Conns :
       /\ conns[k].d = d /\ conns[k].srv = "queued"
       /\ \/ /\ daemon[d].slots < MaxConnections
             /\ conns' = [conns EXCEPT ![k].srv = "reading"]
             /\ daemon' = [daemon EXCEPT ![d].slots = @ + 1]
          \/ /\ daemon[d].slots >= MaxConnections
             /\ conns' = Closed({k})
             /\ UNCHANGED daemon
  /\ UNCHANGED <<lifetime, startup, pipe, client, issued>>

(* The goroutine that waits for serverCtx closes the listener. *)
CloseListener(d) ==
  /\ daemon[d].stopping /\ pipe = d
  /\ pipe' = Nobody
  /\ conns' = Closed({k \in Conns : conns[k].d = d /\ conns[k].srv = "queued"})
  /\ UNCHANGED <<lifetime, startup, daemon, client, issued>>

\* Mutant: the connections that are still served are left open.
AcceptFailsOpen(d) ==
  /\ daemon[d].serve = "accept"
  /\ pipe' = Freed(pipe, d)
  /\ daemon' = [daemon EXCEPT ![d].serve = "wait", ![d].stopping = TRUE]
  /\ conns' = Closed({k \in Conns : conns[k].d = d /\ conns[k].srv = "queued"})
  /\ UNCHANGED <<lifetime, startup, client, issued>>

(* Accept returns an error, because the listener was closed or by itself:  *)
(* cancel, listener.Close, closeConnections.                               *)
AcceptFails(d) ==
  /\ daemon[d].serve = "accept"
  /\ pipe' = Freed(pipe, d)
  /\ daemon' = [daemon EXCEPT ![d].serve = "wait", ![d].stopping = TRUE]
  /\ conns' = Closed({k \in Conns : conns[k].d = d})
  /\ UNCHANGED <<lifetime, startup, client, issued>>

\* Mutant: the handlers are not waited for.
ServeReturnsEarly(d) ==
  /\ daemon[d].serve = "wait"
  /\ daemon' = [daemon EXCEPT ![d] = Ended([@ EXCEPT !.serve = "done"])]
  /\ UNCHANGED <<lifetime, startup, pipe, conns, client, issued>>

(* wg.Wait: every handler has returned. *)
ServeReturns(d) ==
  /\ daemon[d].serve = "wait" /\ Handlers(d) = {}
  /\ daemon' = [daemon EXCEPT ![d] = Ended([@ EXCEPT !.serve = "done"])]
  /\ UNCHANGED <<lifetime, startup, pipe, conns, client, issued>>

-----------------------------------------------------------------------------
(* Server.handle and the MCP session. *)

(* The command was read, or the read failed; the answer is sent.  stop     *)
(* cancels serverCtx after its answer, also when the answer cannot be sent *)
(* because the client has gone after its command.                          *)
handle(k) ==
  LET d == conns[k].d IN
  /\ conns[k].srv = "reading"
  /\ \/ /\ conns[k].open /\ conns[k].cmd = "mcp"
        /\ conns' = [conns EXCEPT ![k].srv = "session", ![k].reply = "ok"]
        /\ UNCHANGED daemon
     \/ /\ conns[k].open /\ conns[k].cmd # "mcp"
        /\ conns' = [conns EXCEPT ![k].srv = "ending", ![k].reply = "ok", ![k].open = FALSE]
        /\ daemon' = [daemon EXCEPT ![d].stopping = @ \/ conns[k].cmd = "stop"]
     \/ /\ ~conns[k].open
        /\ conns' = [conns EXCEPT ![k].srv = "ending"]
        /\ \E read \in BOOLEAN :
             daemon' = [daemon EXCEPT ![d].stopping = @ \/ (read /\ conns[k].cmd = "stop")]
  /\ UNCHANGED <<lifetime, startup, pipe, client, issued>>

(* The command did not arrive before the deadline. *)
HandleTimesOut(k) ==
  /\ conns[k].srv = "reading" /\ conns[k].open
  /\ conns' = [conns EXCEPT ![k].srv = "ending", ![k].reply = "err", ![k].open = FALSE]
  /\ UNCHANGED <<lifetime, startup, pipe, daemon, client, issued>>

(* RunIO returns.  Its reader and writer do not close the connection, so   *)
(* the SDK ends a session for certain only when the connection is closed.  *)
SessionEnds(k) ==
  /\ conns[k].srv = "session" /\ ~conns[k].open
  /\ conns' = [conns EXCEPT ![k].srv = "ending"]
  /\ UNCHANGED <<lifetime, startup, pipe, daemon, client, issued>>

(* A frame is refused, or the SDK follows the context. *)
SessionAborts(k) ==
  /\ conns[k].srv = "session" /\ conns[k].open
  /\ conns' = [conns EXCEPT ![k].srv = "ending", ![k].open = FALSE]
  /\ UNCHANGED <<lifetime, startup, pipe, daemon, client, issued>>

(* The deferred function: the slot, the map and the wait group. *)
HandlerReturns(k) ==
  /\ conns[k].srv = "ending"
  /\ daemon' = [daemon EXCEPT ![conns[k].d].slots = @ - 1]
  /\ conns' = [conns EXCEPT ![k] = Over(k)]
  /\ UNCHANGED <<lifetime, startup, pipe, client, issued>>

-----------------------------------------------------------------------------
(* Commands. *)

(* The command is over: what it held is closed and released. *)
Return(c) ==
  /\ client' = [client EXCEPT ![c] = Idle]
  /\ startup' = Freed(startup, c)
  /\ lifetime' = Freed(lifetime, c)

(* c closes its connection. *)
Dropped(c) ==
  [k \in Conns |-> IF client[c].conn # k THEN conns[k]
                   ELSE IF Handled(k) THEN [conns[k] EXCEPT !.open = FALSE, !.reply = "none"]
                   ELSE NoConnection]

(* A new process of "daemon run".  Processes, like connections, differ     *)
(* only by name: which unused one is taken does not matter.                *)
Launch ==
  LET off == {d \in Daemons : daemon[d].pc = "off"} IN
  off # {} /\ daemon' = [daemon EXCEPT ![CHOOSE d \in off : TRUE].pc = "starting"]

(* "daemon run" by hand goes straight to the lifetime lock. *)
Issue(c) ==
  /\ client[c].pc = "idle" /\ issued < MaxCommands
  /\ issued' = issued + 1
  /\ \/ /\ \/ client' = [client EXCEPT ![c].pc = "status"]  \* mcp
           \/ client' = [client EXCEPT ![c].pc = "stop"]
        /\ UNCHANGED daemon
     \/ Launch /\ UNCHANGED client
  /\ UNCHANGED <<lifetime, startup, pipe, conns>>

(* The control command a command is about to send. *)
Sends(c) == CASE client[c].pc \in {"status", "recheck", "poll"} -> "status"
              [] client[c].pc = "connect" -> "mcp"
              [] client[c].pc = "stop" -> "stop"
              [] OTHER -> "none"

Unused == {k \in Conns : conns[k] = NoConnection /\ ~Held(k)}

Dial(c) ==
  /\ Sends(c) # "none" /\ client[c].conn = Nobody /\ pipe # Nobody
  /\ Unused # {}
  /\ LET k == CHOOSE k \in Unused : TRUE IN
       /\ conns' = [conns EXCEPT ![k].d = pipe, ![k].cmd = Sends(c), ![k].srv = "queued", ![k].open = TRUE]
       /\ client' = [client EXCEPT ![c].conn = k]
  /\ UNCHANGED <<lifetime, startup, pipe, daemon, issued>>

(* The control call succeeds.  EnsureRunning ends at the first status that *)
(* does, and gives up the startup lock.                                    *)
ControlSucceeds(c) ==
  /\ Sends(c) # "none"
  /\ client[c].conn # Nobody /\ conns[client[c].conn].reply = "ok"
  /\ CASE client[c].pc = "connect" ->
            client' = [client EXCEPT ![c].pc = "proxy"] /\ UNCHANGED <<conns, startup, lifetime>>
       [] client[c].pc = "stop" -> Return(c) /\ conns' = Dropped(c)
       [] OTHER -> /\ client' = [client EXCEPT ![c] = [Idle EXCEPT !.pc = "connect"]]
                   /\ startup' = Freed(startup, c)
                   /\ conns' = Dropped(c) /\ UNCHANGED lifetime
  /\ UNCHANGED <<pipe, daemon, issued>>

(* Nobody listens, the connection broke or was refused, the answer is an   *)
(* error, or none came in time.                                            *)
ControlFails(c) ==
  /\ \/ client[c].conn = Nobody /\ Sends(c) # "none" /\ pipe = Nobody
     \/ /\ client[c].conn # Nobody /\ client[c].pc \notin {"proxy", "drain"}
        /\ conns[client[c].conn].reply # "ok"
  /\ conns' = Dropped(c)
  /\ \/ /\ client[c].pc \in {"status", "recheck", "poll"}
        /\ client' = [client EXCEPT ![c].conn = Nobody,
                        ![c].pc = CASE @ = "status" -> "lock" [] @ = "recheck" -> "start" [] OTHER -> "poll"]
        /\ UNCHANGED <<startup, lifetime>>
     \/ client[c].pc \in {"connect", "stop"} /\ Return(c)
  /\ UNCHANGED <<pipe, daemon, issued>>

startupLock(c) ==
  /\ client[c].pc = "lock"
  /\ \/ /\ startup = Nobody
        /\ startup' = c /\ client' = [client EXCEPT ![c].pc = "recheck"]
     \/ /\ startup # Nobody
        /\ client' = [client EXCEPT ![c].pc = "poll"] /\ UNCHANGED startup
  /\ UNCHANGED <<lifetime, pipe, daemon, conns, issued>>

(* StartDetached. *)
Start(c) ==
  /\ client[c].pc = "start"
  /\ \/ /\ Launch
        /\ client' = [client EXCEPT ![c].pc = "poll"]
        /\ UNCHANGED <<startup, lifetime>>
     \/ Return(c) /\ UNCHANGED daemon
  /\ UNCHANGED <<pipe, conns, issued>>

(* The poll window has passed; it is looked at between two status calls.   *)
StartupTimesOut(c) ==
  /\ client[c].pc = "poll" /\ client[c].conn = Nobody
  /\ Return(c)
  /\ UNCHANGED <<pipe, daemon, conns, issued>>

-----------------------------------------------------------------------------
(* ProxyFrames. *)

\* Mutant: only the end of the requests ends the proxy.
ResponsesUnnoticed(c) ==
  /\ client[c].pc = "proxy" /\ ~conns[client[c].conn].open
  /\ UNCHANGED vars

(* The response copier ends when the daemon closes the connection. *)
ResponsesEnd(c) ==
  /\ client[c].pc = "proxy" /\ ~conns[client[c].conn].open
  /\ client' = [client EXCEPT ![c].pc = "drain"]
  /\ UNCHANGED <<lifetime, startup, pipe, daemon, conns, issued>>

(* Standard input ends, a frame in either direction is refused, or the     *)
(* context is cancelled: ProxyFrames closes its endpoints.                 *)
RequestsEnd(c) ==
  /\ client[c].pc = "proxy" /\ conns[client[c].conn].open
  /\ client' = [client EXCEPT ![c].pc = "drain"]
  /\ conns' = Closed({client[c].conn})
  /\ UNCHANGED <<lifetime, startup, pipe, daemon, issued>>

(* The second copier was interrupted by the closed endpoints. *)
ProxyReturns(c) ==
  /\ client[c].pc = "drain" /\ ~conns[client[c].conn].open
  /\ Return(c) /\ conns' = Dropped(c)
  /\ UNCHANGED <<pipe, daemon, issued>>

-----------------------------------------------------------------------------
(* The foreground watch. *)
WatchOwns(c) ==
  /\ client[c].pc = "idle" /\ issued < MaxCommands
  /\ lifetime = Nobody  \* otherwise "watch already running"
  /\ issued' = issued + 1
  /\ lifetime' = c /\ client' = [client EXCEPT ![c].pc = "watching"]
  /\ UNCHANGED <<startup, pipe, daemon, conns>>

WatchReturns(c) ==
  /\ client[c].pc = "watching"
  /\ Return(c)
  /\ UNCHANGED <<pipe, daemon, conns, issued>>

(* External: a command is killed. *)
ClientKilled(c) ==
  /\ client[c].pc # "idle"
  /\ Return(c) /\ conns' = Dropped(c)
  /\ UNCHANGED <<pipe, daemon, issued>>

-----------------------------------------------------------------------------
DaemonStep(d) ==
  \/ AcquireLifetimeLock(d) \/ WatchEnds(d) \/ BothEnded(d)
  \/ ReleaseOwnership(d) \/ Listen(d) \/ Accept(d) \/ CloseListener(d)
  \/ (pipe # d /\ AcceptFails(d)) \/ ServeReturns(d)

HandlerStep(k) == handle(k) \/ SessionEnds(k) \/ HandlerReturns(k)

ClientStep(c) ==
  \/ Dial(c) \/ ControlSucceeds(c) \/ ControlFails(c) \/ startupLock(c) \/ Start(c)
  \/ ResponsesEnd(c) \/ ProxyReturns(c)

Next ==
  \/ \E d \in Daemons : \/ DaemonStep(d) \/ AcceptFails(d) \/ WatchFails(d)
                        \/ Interrupt(d) \/ DaemonKilled(d)
  \/ \E k \in Conns : HandlerStep(k) \/ HandleTimesOut(k) \/ SessionAborts(k)
  \/ \E c \in Clients : \/ Issue(c) \/ WatchOwns(c) \/ ClientStep(c) \/ StartupTimesOut(c)
                        \/ RequestsEnd(c) \/ WatchReturns(c) \/ ClientKilled(c)

Spec == Init /\ [][Next]_vars

(* Goroutines and commands go on and timers fire; nothing is assumed of    *)
(* users and failures.                                                     *)
FairSpec ==
  /\ Spec
  /\ \A d \in Daemons : WF_vars(DaemonStep(d))
  /\ \A k \in Conns : WF_vars(HandlerStep(k))
  /\ \A c \in Clients : WF_vars(ClientStep(c)) /\ SF_vars(StartupTimesOut(c))

-----------------------------------------------------------------------------
(* Types, and the limits on connections. *)
TypeOK ==
  /\ lifetime \in Daemons \cup Clients \cup {Nobody}
  /\ startup \in Clients \cup {Nobody} /\ pipe \in Daemons \cup {Nobody}
  /\ daemon \in [Daemons -> DaemonState]
  /\ conns \in [Conns -> Connection]
  /\ client \in [Clients -> Command]
  /\ issued \in 0..MaxCommands

(* Processes that have watchers or a session manager. *)
Owners ==
  {d \in Daemons : daemon[d].pc \in {"running", "draining", "closing"}}
  \cup {c \in Clients : client[c].pc = "watching"}

(* One process at a time owns watchers and clangd sessions, daemon or      *)
(* foreground watch, and only it listens on the pipe: also when several    *)
(* commands start daemons at once, when one starts while another is still  *)
(* closing, and when processes die.                                        *)
OneOwner == Owners \subseteq {lifetime} /\ pipe \in Owners \cup {Nobody}

(* The session manager is closed only when no connection is served any     *)
(* more and the watchers have ended: nothing uses it afterwards.           *)
ManagerClosedLast ==
  \A d \in Daemons :
    daemon[d].pc = "closing" => /\ daemon[d].watch = "done" /\ pipe # d
                                /\ Handlers(d) = {} /\ daemon[d].slots = 0

(* A daemon that was told to stop, or whose watchers failed, exits and     *)
(* frees the lifetime lock, whatever its clients do.                       *)
StopEndsDaemon ==
  \A d \in Daemons :
    daemon[d].stopping \/ daemon[d].watch = "done" ~> daemon[d].pc = "off" /\ lifetime # d

(* A proxy whose daemon has not closed the connection. *)
Connected(c) == client[c].pc = "proxy" /\ conns[client[c].conn].open

(* Every command returns: finding, starting and asking the daemon is       *)
(* bounded, and a proxy ends with its connection, whichever side closes    *)
(* it.                                                                     *)
CommandsReturn ==
  \A c \in Clients :
    client[c].pc # "idle" ~> client[c].pc \in {"idle", "watching"} \/ Connected(c)
=============================================================================
