---------------------------- MODULE SessionManager ----------------------------
(***************************************************************************)
(* The clangd session manager of internal/lsp/manager.go, for one project  *)
(* id (sessions of different ids share nothing but m.closed).              *)
(*                                                                         *)
(* Requests ask for a client (Client), use it and give it back (Release,   *)
(* which names the project and not the session).  A session object is      *)
(* started by a goroutine (startSession) that spawns clangd, publishes the *)
(* process, initializes it and ends in finishStartup; a goroutine per      *)
(* process (watch) notices its exit; an idle timer calls stop; Invalidate, *)
(* a changed configuration and Close retire the session at any moment.     *)
(*                                                                         *)
(* Every startup has its own goroutine, waiter channel, context, process   *)
(* and client, so one number, the startup's, names all of them; 0 is nil.  *)
(* A session object is named by its first startup.  Every critical section *)
(* of m.mu is one action.                                                  *)
(***************************************************************************)
EXTENDS Naturals, FiniteSets

CONSTANTS Requests,   \* concurrent callers
          Configs,    \* values a ProjectConfig can take
          MaxStarts,  \* bound: startups in a behaviour
          MaxEdition, \* bound: changes of the registry record
          MaxStops    \* bound: fired idle timers of a session waiting for m.mu

ASSUME MaxStartsAssumption == MaxStarts \in Nat \ {0}
ASSUME MaxEditionAssumption == MaxEdition \in Nat
ASSUME MaxStopsAssumption == MaxStops \in Nat
ASSUME ConfigsAssumption == Configs # {}

VARIABLES
  cur,     \* m.sessions[id]: a session, or 0
  sess,    \* the session objects
  start,   \* the startups
  used,    \* number of startups so far
  req,     \* the requests
  closed,  \* m.closed
  reaping, \* what Close took from the session and has not yet cleaned up
  record,  \* external: the project's registry record, its cfg and its edition
  told     \* the edition of the last record Invalidate was called for

daemon == <<record, told>>
vars == <<cur, sess, start, used, req, closed, reaping, daemon>>

Ids == 1..MaxStarts

Session == [cfg : Configs,
            client : 0..MaxStarts, process : 0..MaxStarts,
            starting : 0..MaxStarts, cancel : 0..MaxStarts,
            refs : Nat,
            timer : {"nil", "armed", "spent"},  \* as in Coordinator
            stops : Nat,          \* fired idle timers whose stop waits for m.mu
            backoff : BOOLEAN,    \* nextStart lies in the future
            startErr : BOOLEAN, stale : BOOLEAN]

(* The goroutine's place: before the spawn, before the publishing check,   *)
(* in Initialize, in cleanupStartup, ended.                                *)
Startup == [owner : 0..MaxStarts,
            pc : {"none", "begin", "spawned", "initializing", "cleanup", "done"},
            woken : BOOLEAN,      \* the waiter channel is closed
            cancelled : BOOLEAN,  \* the session context is cancelled
            proc : {"none", "alive", "exited", "killed"},
            shut : BOOLEAN,       \* client.Close was called
            watched : BOOLEAN,    \* the watch goroutine is in p.Wait
            cfg : Configs, edition : 0..MaxEdition]

Request == [pc : {"idle", "calling", "waiting", "using"},
            cfg : Configs, edition : 0..MaxEdition,
            sess : 0..MaxStarts, start : 0..MaxStarts]

AnyConfig == CHOOSE c \in Configs : TRUE

NewSession(c, k) ==
  [cfg |-> c, client |-> 0, process |-> 0, starting |-> k, cancel |-> k,
   refs |-> 0, timer |-> "nil", stops |-> 0, backoff |-> FALSE,
   startErr |-> FALSE, stale |-> FALSE]

NoSession == [NewSession(AnyConfig, 0) EXCEPT !.starting = 0]

NewStartup(s, c) ==
  [owner |-> s, pc |-> "begin", woken |-> FALSE, cancelled |-> FALSE,
   proc |-> "none", shut |-> FALSE, watched |-> FALSE, cfg |-> c,
   edition |-> record.edition]

NoStartup == [owner |-> 0, pc |-> "none", woken |-> FALSE, cancelled |-> FALSE,
              proc |-> "none", shut |-> FALSE, watched |-> FALSE,
              cfg |-> AnyConfig, edition |-> 0]

(* What a session holds that must be torn down; 0 is nil. *)
Holdings == [client : 0..MaxStarts, process : 0..MaxStarts, cancel : 0..MaxStarts]
Nothing == [client |-> 0, process |-> 0, cancel |-> 0]

Idle == [pc |-> "idle", cfg |-> AnyConfig, edition |-> 0, sess |-> 0, start |-> 0]

Init ==
  /\ cur = 0 /\ used = 0 /\ closed = FALSE /\ reaping = Nothing
  /\ record = [cfg |-> AnyConfig, edition |-> 0] /\ told = 0
  /\ sess = [s \in Ids |-> NoSession]
  /\ start = [k \in Ids |-> NoStartup]
  /\ req = [r \in Requests |-> Idle]

-----------------------------------------------------------------------------
(* client.Close, process.Kill and cancel for what h (a session or the     *)
(* copy Close makes) holds.                                                *)
TearDownOf(h, c) ==
  [k \in Ids |->
    [start[k] EXCEPT
       !.shut = @ \/ k = c,
       !.proc = IF k = h.process /\ @ = "alive" THEN "killed" ELSE @,
       !.cancelled = @ \/ k = h.cancel]]

\* Mutant: the process is killed and the client left open.
TearDownProcess(h) == TearDownOf(h, 0)

TearDown(h) == TearDownOf(h, h.client)

(* A session object that has left the map.  Two things still refer to it: *)
(* its startup goroutine, which will look at starting, and the idle timers *)
(* that have fired, whose stop will find another session in its place.     *)
Detach(s) == [NoSession EXCEPT !.starting = sess[s].starting, !.stops = sess[s].stops]

(* retireLocked, of a session that is stale and has no refs.  The waiter   *)
(* channel of a startup under way stays open.                              *)
retireLocked(s) ==
  /\ sess' = [sess EXCEPT ![s] = Detach(s)]
  /\ start' = TearDown(sess[s])
  /\ cur' = 0

(* The session record after a caller has stopped the idle timer and counted *)
(* itself; a timer that has fired already still calls stop.                 *)
Claimed(s) == [sess[s] EXCEPT !.timer = "nil", !.refs = @ + 1]

Give(r, s) ==
  /\ sess' = [sess EXCEPT ![s] = Claimed(s)]
  /\ req' = [req EXCEPT ![r].pc = "using", ![r].sess = s, ![r].start = sess[s].client]

Answer(r) == req' = [req EXCEPT ![r] = Idle]

-----------------------------------------------------------------------------
(* Client: a request enters with the configuration it read in the registry. *)
Call(r) ==
  /\ req[r].pc = "idle"
  /\ req' = [req EXCEPT ![r].pc = "calling", ![r].cfg = record.cfg, ![r].edition = told]
  /\ UNCHANGED <<cur, sess, start, used, closed, reaping, daemon>>

Calling(r) == req[r].pc = "calling" /\ ~closed

\* Mutant: only a changed configuration counts, not stale.
OutdatedConfig(r) == cur # 0 /\ sess[cur].cfg # req[r].cfg

Outdated(r) == cur # 0 /\ (sess[cur].stale \/ sess[cur].cfg # req[r].cfg)
Usable(r) == cur # 0 /\ ~Outdated(r)

ClientClosed(r) ==
  /\ req[r].pc = "calling" /\ closed
  /\ Answer(r)
  /\ UNCHANGED <<cur, sess, start, used, closed, reaping, daemon>>

(* "project configuration changed; retry request" *)
ClientBusy(r) ==
  /\ Calling(r) /\ Outdated(r)
  /\ sess[cur].refs # 0
  /\ sess' = [sess EXCEPT ![cur].stale = TRUE]
  /\ Answer(r)
  /\ UNCHANGED <<cur, start, used, closed, reaping, daemon>>

(* The outdated session is retired and the loop runs again. *)
ClientRetire(r) ==
  /\ Calling(r) /\ Outdated(r)
  /\ sess[cur].refs = 0
  /\ retireLocked(cur)
  /\ UNCHANGED <<used, req, closed, reaping, daemon>>

ClientShare(r) ==
  /\ Calling(r) /\ Usable(r)
  /\ sess[cur].client # 0
  /\ Give(r, cur)
  /\ UNCHANGED <<cur, start, used, closed, reaping, daemon>>

Await(r, s, k) ==
  req' = [req EXCEPT ![r].pc = "waiting", ![r].sess = s, ![r].start = k]

ClientNew(r) ==
  /\ Calling(r) /\ cur = 0
  /\ used < MaxStarts
  /\ used' = used + 1
  /\ cur' = used + 1
  /\ sess' = [sess EXCEPT ![used + 1] = NewSession(req[r].cfg, used + 1)]
  /\ start' = [start EXCEPT ![used + 1] = NewStartup(used + 1, req[r].cfg)]
  /\ Await(r, used + 1, used + 1)
  /\ UNCHANGED <<closed, reaping, daemon>>

ClientJoin(r) ==
  /\ Calling(r) /\ Usable(r)
  /\ sess[cur].client = 0 /\ sess[cur].starting # 0
  /\ Await(r, cur, sess[cur].starting)
  /\ UNCHANGED <<cur, sess, start, used, closed, reaping, daemon>>

(* "clangd restart is backing off" *)
ClientBackoff(r) ==
  /\ Calling(r) /\ Usable(r)
  /\ sess[cur].client = 0 /\ sess[cur].starting = 0
  /\ sess[cur].backoff
  /\ Answer(r)
  /\ UNCHANGED <<cur, sess, start, used, closed, reaping, daemon>>

(* The same session object is started again: refs, timer and process are   *)
(* left as the previous run of clangd left them.                           *)
Restart(r) ==
  /\ Calling(r) /\ Usable(r)
  /\ sess[cur].client = 0
  /\ ~sess[cur].backoff
  /\ used < MaxStarts
  /\ used' = used + 1
  /\ sess' = [sess EXCEPT ![cur].cfg = req[r].cfg, ![cur].startErr = FALSE,
                          ![cur].starting = used + 1, ![cur].cancel = used + 1]
  /\ start' = [start EXCEPT ![used + 1] = NewStartup(cur, req[r].cfg)]
  /\ Await(r, cur, used + 1)
  /\ UNCHANGED <<cur, closed, reaping, daemon>>

\* Mutant: a startup under way is not looked for.
ClientRestartAnyway(r) == Restart(r)

ClientRestart(r) == Restart(r) /\ sess[cur].starting = 0

(* waitForStartup, or the first test of startupResult: the request's own   *)
(* context has ended.                                                      *)
Abandon(r) ==
  /\ req[r].pc = "waiting"
  /\ Answer(r)
  /\ UNCHANGED <<cur, start, used, closed, reaping, daemon>>

\* Mutant: startupResult counts the caller before it looks at the context.
WaitTimeoutCounted(r) ==
  /\ Abandon(r)
  /\ sess' = IF cur # 0 /\ cur = req[r].sess /\ sess[cur].client # 0
               THEN [sess EXCEPT ![cur] = Claimed(cur)] ELSE sess

WaitTimeout(r) == Abandon(r) /\ UNCHANGED sess

(* startupResult, once the waiter channel is closed: the client ... *)
WaitClaim(r) ==
  /\ req[r].pc = "waiting" /\ start[req[r].start].woken
  /\ ~closed /\ cur = req[r].sess
  /\ sess[cur].client # 0
  /\ Give(r, cur)
  /\ UNCHANGED <<cur, start, used, closed, reaping, daemon>>

(* ... or an error: the session is gone, or its startup failed. *)
WaitFail(r) ==
  /\ req[r].pc = "waiting" /\ start[req[r].start].woken
  /\ \/ closed \/ cur # req[r].sess
     \/ sess[req[r].sess].client = 0
  /\ Answer(r)
  /\ UNCHANGED <<cur, sess, start, used, closed, reaping, daemon>>

scheduleIdleLocked(t) == IF t = "nil" THEN "armed" ELSE t

(* Release finds the session by project id, whichever it is by now. *)
ReleaseUnless(r, nothingToRelease) ==
  /\ req[r].pc = "using"
  /\ Answer(r)
  /\ IF nothingToRelease
       THEN UNCHANGED <<cur, sess, start>>
       ELSE IF sess[cur].refs = 1 /\ sess[cur].stale
       THEN retireLocked(cur)
       ELSE /\ sess' = [sess EXCEPT ![cur].refs = @ - 1,
                          ![cur].timer = IF sess[cur].refs = 1 THEN scheduleIdleLocked(@) ELSE @]
            /\ UNCHANGED <<cur, start>>
  /\ UNCHANGED <<used, closed, reaping, daemon>>

\* Mutant: no test of refs = 0 before the decrement.
ReleaseBelowZero(r) == ReleaseUnless(r, cur = 0)

Release(r) == ReleaseUnless(r, cur = 0 \/ sess[cur].refs = 0)

-----------------------------------------------------------------------------
(* finishStartup of startup k, in the three cases of the code. *)
Detached(k) == closed \/ cur # start[k].owner

(* The session is gone: wake the waiters unless Close has done so. *)
FinishDetached(k, end) ==
  LET s == start[k].owner IN
  /\ sess' = [sess EXCEPT ![s].starting = 0]
  /\ start' = [start EXCEPT ![k].pc = end, ![k].woken = @ \/ sess[s].starting = k]

FinishFailed(k, end) ==
  LET s == start[k].owner IN
  /\ sess' = [sess EXCEPT ![s].backoff = TRUE, ![s].startErr = TRUE,
                          ![s].process = 0, ![s].client = 0,
                          ![s].cancel = 0, ![s].starting = 0]
  /\ start' = [start EXCEPT ![k].pc = end, ![k].woken = TRUE]

finishStartup(k, end) ==
  IF Detached(k) THEN FinishDetached(k, end) ELSE FinishFailed(k, end)

(* The context was cancelled first, or start (a missing database, a        *)
(* directory that cannot be made, exec) failed: there is no process.       *)
StartupNoProcess(k) ==
  /\ start[k].pc = "begin"
  /\ finishStartup(k, "done")
  /\ UNCHANGED <<cur, used, req, closed, reaping, daemon>>

Spawn(k) ==
  /\ start[k].pc = "begin"
  /\ ~start[k].cancelled
  /\ start' = [start EXCEPT ![k].pc = "spawned", ![k].proc = "alive"]
  /\ UNCHANGED <<cur, sess, used, req, closed, reaping, daemon>>

Publish(k) ==
  /\ start[k].pc = "spawned"
  /\ ~Detached(k)
  /\ sess' = [sess EXCEPT ![start[k].owner].process = k]
  /\ start' = [start EXCEPT ![k].pc = "initializing"]
  /\ UNCHANGED <<cur, used, req, closed, reaping, daemon>>

(* The publishing check fails: straight to cleanupStartup, finishStartup   *)
(* is not called.                                                          *)
Refused(k, end) ==
  /\ start[k].pc = "spawned"
  /\ Detached(k)
  /\ start' = [start EXCEPT ![k].pc = end]
  /\ UNCHANGED <<cur, sess, used, req, closed, reaping, daemon>>

\* Mutant: the goroutine returns without cleanupStartup.
PublishRefusedLeaking(k) == Refused(k, "done")

PublishRefused(k) == Refused(k, "cleanup")

(* Initialize, the seed's didOpen and finishStartup. *)
StartupFails(k) ==
  /\ start[k].pc = "initializing"
  /\ finishStartup(k, "cleanup")
  /\ UNCHANGED <<cur, used, req, closed, reaping, daemon>>

Initialized(k, idleTimer) ==
  LET s == start[k].owner IN
  /\ start[k].pc = "initializing" /\ start[k].proc = "alive"
  /\ IF Detached(k)
       THEN FinishDetached(k, "cleanup")
       ELSE /\ sess' = [sess EXCEPT ![s].client = k, ![s].startErr = FALSE, ![s].refs = 0,
                          ![s].timer = idleTimer, ![s].starting = 0]
            /\ start' = [start EXCEPT ![k].pc = "done", ![k].woken = TRUE, ![k].watched = TRUE]
  /\ UNCHANGED <<cur, used, req, closed, reaping, daemon>>

\* Mutant: only Release schedules the idle stop.
StartupSucceedsUntimed(k) == Initialized(k, sess[start[k].owner].timer)

StartupSucceeds(k) == Initialized(k, scheduleIdleLocked(sess[start[k].owner].timer))

Killed(p) == IF p = "alive" THEN "killed" ELSE p

cleanupStartup(k) ==
  /\ start[k].pc = "cleanup"
  /\ start' = [start EXCEPT ![k].pc = "done", ![k].cancelled = TRUE,
                            ![k].shut = TRUE, ![k].proc = Killed(@)]
  /\ UNCHANGED <<cur, sess, used, req, closed, reaping, daemon>>

-----------------------------------------------------------------------------
(* clangd exits on its own. *)
Crash(k) ==
  /\ start[k].proc = "alive"
  /\ start' = [start EXCEPT ![k].proc = "exited"]
  /\ UNCHANGED <<cur, sess, used, req, closed, reaping, daemon>>

(* exec.CommandContext kills the process of a cancelled context. *)
ContextKill(k) ==
  /\ start[k].cancelled /\ start[k].proc = "alive"
  /\ start' = [start EXCEPT ![k].proc = "killed"]
  /\ UNCHANGED <<cur, sess, used, req, closed, reaping, daemon>>

(* watch: p.Wait returns; refs, the idle timer and stale are left alone. *)
watch(k) ==
  LET s == start[k].owner
      c == sess[s].client IN
  /\ start[k].watched /\ start[k].proc # "alive"
  /\ IF cur # s
       THEN /\ start' = [start EXCEPT ![k].watched = FALSE]
            /\ UNCHANGED sess
       ELSE /\ start' = [j \in Ids |-> [start[j] EXCEPT
                           !.watched = @ /\ j # k,
                           !.shut = @ \/ j = c,
                           !.cancelled = @ \/ j = sess[s].cancel]]
            /\ sess' = [sess EXCEPT ![s].client = 0, ![s].process = 0,
                                    ![s].cancel = 0, ![s].backoff = TRUE]
  /\ UNCHANGED <<cur, used, req, closed, reaping, daemon>>

(* m.now() passes nextStart. *)
BackoffElapses(s) ==
  /\ cur = s /\ sess[s].backoff
  /\ sess' = [sess EXCEPT ![s].backoff = FALSE]
  /\ UNCHANGED <<cur, start, used, req, closed, reaping, daemon>>

IdleFires(s) ==
  /\ sess[s].timer = "armed"
  /\ sess[s].stops < MaxStops
  /\ sess' = [sess EXCEPT ![s].timer = "spent", ![s].stops = @ + 1]
  /\ UNCHANGED <<cur, start, used, req, closed, reaping, daemon>>

(* stop(id, s), the idle timer's callback. *)
stop(s) ==
  /\ sess[s].stops > 0
  /\ IF cur # s \/ sess[s].refs # 0
       THEN /\ sess' = [sess EXCEPT ![s].stops = @ - 1]
            /\ UNCHANGED <<cur, start>>
       ELSE /\ sess' = [sess EXCEPT ![s] = [Detach(s) EXCEPT !.stops = @ - 1]]
            /\ start' = TearDown(sess[s])
            /\ cur' = 0
  /\ UNCHANGED <<used, req, closed, reaping, daemon>>

(* External: the record changes, in a field of ProjectConfig or in another *)
(* part of the runtime identity (the engine).                              *)
RecordChanges ==
  /\ record.edition < MaxEdition
  /\ \E c \in Configs : record' = [cfg |-> c, edition |-> record.edition + 1]
  /\ UNCHANGED <<cur, sess, start, used, req, closed, reaping, told>>

(* Invalidate, called by the daemon when it sees that the record changed.  *)
Invalidate ==
  /\ told < record.edition
  /\ told' = record.edition
  /\ IF cur = 0
       THEN UNCHANGED <<cur, sess, start>>
       ELSE IF sess[cur].refs = 0
       THEN retireLocked(cur)
       ELSE /\ sess' = [sess EXCEPT ![cur].stale = TRUE]
            /\ UNCHANGED <<cur, start>>
  /\ UNCHANGED <<used, req, closed, reaping, record>>

(* Close, under the mutex: detach the session and wake its waiters ... *)
Close ==
  /\ ~closed
  /\ closed' = TRUE
  /\ cur' = 0
  /\ IF cur = 0
       THEN UNCHANGED <<sess, start, reaping>>
       ELSE LET h == sess[cur] IN
            /\ reaping' = [client |-> h.client, process |-> h.process, cancel |-> h.cancel]
            /\ sess' = [sess EXCEPT ![cur] = [Detach(cur) EXCEPT !.starting = 0]]
            /\ start' = [k \in Ids |-> [start[k] EXCEPT !.woken = @ \/ k = h.starting]]
  /\ UNCHANGED <<used, req, daemon>>

(* ... then cleanupStartup of what it held, outside the mutex. *)
\* Mutant: Close forgets the cleanups it collected.
CloseForgets ==
  /\ reaping # Nothing
  /\ reaping' = Nothing
  /\ UNCHANGED <<cur, sess, start, used, req, closed, daemon>>

CloseReap ==
  /\ reaping # Nothing
  /\ start' = TearDown(reaping)
  /\ reaping' = Nothing
  /\ UNCHANGED <<cur, sess, used, req, closed, daemon>>

-----------------------------------------------------------------------------
ClientStep(r) ==
  \/ ClientClosed(r) \/ ClientBusy(r) \/ ClientRetire(r) \/ ClientShare(r)
  \/ ClientNew(r) \/ ClientJoin(r) \/ ClientBackoff(r) \/ ClientRestart(r)
  \/ WaitClaim(r) \/ WaitFail(r)

StartupStep(k) ==
  \/ StartupNoProcess(k) \/ Spawn(k) \/ Publish(k) \/ PublishRefused(k)
  \/ StartupFails(k) \/ StartupSucceeds(k) \/ cleanupStartup(k)

Next ==
  \/ \E r \in Requests : Call(r) \/ ClientStep(r) \/ WaitTimeout(r) \/ Release(r)
  \/ \E k \in Ids : StartupStep(k) \/ Crash(k) \/ ContextKill(k) \/ watch(k)
  \/ \E s \in Ids : BackoffElapses(s) \/ IdleFires(s) \/ stop(s)
  \/ RecordChanges \/ Invalidate \/ Close \/ CloseReap

Spec == Init /\ [][Next]_vars

(* Goroutines that can run do, and timers fire.  clangd is not obliged to  *)
(* answer, to crash or to stay up, but Initialize and the seed's didOpen   *)
(* return: the client gives each of their frames and answers 30 seconds.   *)
(* Callers release what they hold (the deferred release of every query).   *)
Fairness ==
  /\ \A r \in Requests : WF_vars(ClientStep(r)) /\ WF_vars(Release(r))
  /\ \A k \in Ids :
       /\ WF_vars(StartupNoProcess(k) \/ Spawn(k))
       /\ WF_vars(Publish(k) \/ PublishRefused(k))
       /\ WF_vars(StartupFails(k) \/ StartupSucceeds(k)) /\ WF_vars(cleanupStartup(k))
       /\ WF_vars(ContextKill(k)) /\ WF_vars(watch(k))
       /\ WF_vars(IdleFires(k)) /\ WF_vars(stop(k))
  /\ WF_vars(CloseReap)

FairSpec == Spec /\ Fairness

-----------------------------------------------------------------------------
(* Types. *)
TypeOK ==
  /\ cur \in 0..MaxStarts /\ used \in 0..MaxStarts
  /\ sess \in [Ids -> Session]
  /\ start \in [Ids -> Startup]
  /\ req \in [Requests -> Request]
  /\ closed \in BOOLEAN /\ reaping \in Holdings
  /\ record \in [cfg : Configs, edition : 0..MaxEdition] /\ told \in 0..MaxEdition

Alive(k) == start[k].proc = "alive"
Using(r) == req[r].pc = "using"
Starting(k) == start[k].pc \in {"begin", "spawned", "initializing"}

(* No clangd is leaked: a live process has someone who will end it, namely *)
(* its startup goroutine, the current session (whose idle timer, crash or  *)
(* retirement ends it), or the Close that took it.                         *)
NoLeakedProcess ==
  \A k \in Ids : Alive(k) =>
    \/ start[k].pc # "done"
    \/ cur # 0 /\ sess[cur].process = k /\ sess[cur].client = k
    \/ reaping.process = k

(* "At most one lazy clangd session per active project" (README): a client *)
(* that is still open in some request's hands is the current session's, so *)
(* no two clangd processes ever serve the same project.                    *)
HeldClientIsCurrent ==
  \A r \in Requests : Using(r) =>
    \/ start[req[r].start].shut
    \/ cur # 0 /\ sess[cur].client = req[r].start
    \/ reaping.client = req[r].start

(* Simultaneous requests share one startup: a goroutine that is starting   *)
(* the current session is the one its waiter channel belongs to.           *)
OneStartup ==
  \A k \in Ids :
    Starting(k) /\ cur # 0 /\ start[k].owner = cur
      => sess[cur].starting = k /\ sess[cur].client = 0

(* A request gets what it asked for: a clangd started with the request's   *)
(* own configuration and not before the last Invalidate that preceded it.  *)
ServedAsAsked ==
  \A r \in Requests : Using(r) =>
    /\ start[req[r].start].cfg = req[r].cfg
    /\ start[req[r].start].edition >= req[r].edition

(* References are not leaked: the current session counts no more of them   *)
(* than there are requests to release them, so it can become idle.         *)
RefsCovered ==
  cur # 0 => sess[cur].refs <= Cardinality({r \in Requests : Using(r)})

(* A session nobody uses is stopped: when its requests are gone for good,  *)
(* the idle timer ends its process whatever crashes, restarts, lost waits  *)
(* and releases came before.                                               *)
IdleSessionStops ==
  \A k \in Ids :
    (Alive(k) /\ cur # 0 /\ sess[cur].client = k)
      ~> (~Alive(k) \/ \E r \in Requests : req[r].pc # "idle")

(* Close ends every clangd, the ones that are still starting too. *)
CloseEndsProcesses == closed ~> [](\A k \in Ids : ~Alive(k))

-----------------------------------------------------------------------------
(* What comments of the code say, and the code does not do. *)

(* "finishStartup is the only normal completion path for a session startup *)
(* ... closes the shared waiter exactly once": a startup goroutine that    *)
(* has ended has woken the requests that wait for it.                      *)
StartupWakesWaiters ==
  \A r \in Requests : req[r].pc = "waiting" /\ start[req[r].start].pc = "done"
    => start[req[r].start].woken

(* "Invalidate retires a project session once active requests release it": *)
(* while the manager is open it kills no clangd that a request still uses. *)
NotKilledInUse ==
  ~closed => \A r \in Requests : Using(r) => start[req[r].start].proc # "killed"
=============================================================================
