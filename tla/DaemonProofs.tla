----------------------------- MODULE DaemonProofs -----------------------------
(***************************************************************************)
(* Proofs about Daemon, for every number of daemon processes, commands,    *)
(* connections and slots.                                                  *)
(***************************************************************************)
EXTENDS Daemon, FiniteSetTheorems, TLAPS

(* The order of runDaemon: the watchers and the server begin when the      *)
(* lifetime lock is held, and the manager is closed when both have ended.  *)
Shape(s) ==
  /\ s.pc \in {"off", "starting"} => s.watch = "off" /\ s.serve = "off"
  /\ s.watch = "on" => s.pc \in {"running", "draining"}
  /\ s.serve \in {"listen", "accept", "wait"} => s.pc \in {"running", "draining"}
  /\ s.pc = "closing" => s.watch = "done" /\ s.serve = "done"

Shapes == \A d \in Daemons : Shape(daemon[d])

Owning == {"running", "draining", "closing"}

(* Who owns watchers and sessions holds the lifetime lock. *)
LockHeld ==
  /\ \A d \in Daemons : daemon[d].pc \in Owning => lifetime = d
  /\ \A c \in Clients : client[c].pc = "watching" => lifetime = c

(* Who listens is in its accept loop. *)
PipeServed == \A d \in Daemons : pipe = d => daemon[d].serve = "accept"

(* A connection the server knows of is a daemon's. *)
Wired == \A k \in Conns : conns[k].srv # "none" => conns[k].d \in Daemons

(* Handlers live only between Accept and wg.Wait, and each holds a slot. *)
Counted ==
  \A d \in Daemons :
    /\ Handlers(d) # {} => daemon[d].serve \in {"accept", "wait"}
    /\ IsFiniteSet(Handlers(d)) /\ daemon[d].slots = Cardinality(Handlers(d))

(* The inductive invariant. *)
IInv == TypeOK /\ Shapes /\ LockHeld /\ PipeServed /\ Wired /\ Counted

-----------------------------------------------------------------------------
(* A daemon without handlers has all its slots free. *)
LEMMA NoSlots ==
  ASSUME IInv, NEW d \in Daemons, Handlers(d) = {}
  PROVE  daemon[d].slots = 0
BY FS_EmptySet DEF IInv, Counted

(* What a step must see to when it changes one daemon and no connection. *)
LEMMA DaemonMoves ==
  ASSUME IInv, NEW d \in Daemons, NEW s \in DaemonState,
         daemon' = [daemon EXCEPT ![d] = s], Shape(s),
         s.slots = daemon[d].slots,
         Handlers(d) # {} => s.serve \in {"accept", "wait"},
         s.pc \in Owning => lifetime' = d,
         lifetime' = lifetime \/ (lifetime = Nobody /\ lifetime' = d)
           \/ lifetime' = Freed(lifetime, d),
         pipe' = pipe \/ (pipe = Nobody /\ pipe' = d) \/ pipe' = Nobody,
         pipe' = d => s.serve = "accept",
         UNCHANGED <<startup, conns, client, issued>>
  PROVE  IInv'
<1>1. TypeOK'
  BY DEF IInv, TypeOK, Freed
<1>2. \A e \in Daemons : daemon'[e] = IF e = d THEN s ELSE daemon[e]
  BY DEF IInv, TypeOK
<1>3. Shapes'
  BY <1>2 DEF IInv, Shapes
<1>4. LockHeld'
  BY <1>2, NobodyAssumption, ProcessesAssumption DEF IInv, LockHeld, Freed, Owning
<1>5. PipeServed' /\ Wired'
  BY <1>2, NobodyAssumption DEF IInv, PipeServed, Wired
<1>6. \A e \in Daemons : Handlers(e)' = Handlers(e)
  BY DEF Handlers, Handled
<1>7. Counted'
  BY <1>2, <1>6 DEF IInv, Counted
<1> QED BY <1>1, <1>3, <1>4, <1>5, <1>7 DEF IInv

(* The end of watch or serve. *)
LEMMA EndedState ==
  ASSUME NEW s \in DaemonState
  PROVE  /\ Ended(s) \in DaemonState
         /\ Ended(s).watch = s.watch /\ Ended(s).serve = s.serve /\ Ended(s).slots = s.slots
         /\ s.pc = "running" => Ended(s).pc = "draining"
         /\ s.pc # "running" => Ended(s).pc = s.pc
BY DEF Ended, DaemonState

(* The steps of runDaemon and the beginning and end of ListenAndServe. *)
LEMMA RunStep ==
  ASSUME IInv, NEW d \in Daemons,
         \/ AcquireLifetimeLock(d) \/ WatchEnds(d) \/ WatchFails(d) \/ BothEnded(d)
         \/ ReleaseOwnership(d) \/ Interrupt(d) \/ Listen(d) \/ ServeReturns(d)
  PROVE  IInv'
<1> DEFINE s == daemon[d]
<1>1. s \in DaemonState /\ Shape(s) /\ (s.pc \in Owning => lifetime = d)
      /\ (Handlers(d) # {} => s.serve \in {"accept", "wait"})
      /\ (pipe = d => s.serve = "accept")
  BY DEF IInv, TypeOK, Shapes, LockHeld, Counted, PipeServed
<1>2. CASE AcquireLifetimeLock(d)
  <2>1. CASE lifetime = Nobody
    <3> DEFINE t == [s EXCEPT !.pc = "running", !.watch = "on", !.serve = "listen"]
    <3>1. t \in DaemonState /\ Shape(t) /\ t.slots = s.slots /\ t.pc = "running" /\ t.serve = "listen"
      BY <1>1 DEF DaemonState, Shape
    <3>2. daemon' = [daemon EXCEPT ![d] = t]
      BY <1>2, <2>1, <1>1 DEF AcquireLifetimeLock, IInv, TypeOK, DaemonState
    <3>3. Handlers(d) = {} /\ pipe # d
      BY <1>1, <1>2 DEF Shape, AcquireLifetimeLock
    <3> HIDE DEF t
    <3> QED BY <1>2, <2>1, <3>1, <3>2, <3>3, DaemonMoves DEF AcquireLifetimeLock
  <2>2. CASE lifetime # Nobody
    <3>1. Handlers(d) = {} /\ pipe # d
      BY <1>1, <1>2 DEF Shape, AcquireLifetimeLock
    <3>2. Off \in DaemonState /\ Shape(Off) /\ Off.slots = 0 /\ Off.pc = "off" /\ Off.serve = "off"
      BY LimitsAssumption DEF Off, DaemonState, Shape
    <3> QED BY <1>2, <2>2, <3>1, <3>2, NoSlots, DaemonMoves DEF AcquireLifetimeLock, Owning
  <2> QED BY <2>1, <2>2
<1>3. CASE WatchEnds(d) \/ WatchFails(d)
  <2> DEFINE v == [s EXCEPT !.watch = "done"]
  <2>1. v \in DaemonState /\ v.slots = s.slots /\ v.pc = s.pc /\ v.serve = s.serve
        /\ v.watch = "done" /\ s.pc \in {"running", "draining"}
    BY <1>1, <1>3 DEF DaemonState, Shape, WatchEnds, WatchFails
  <2>2. daemon' = [daemon EXCEPT ![d] = Ended(v)]
    BY <1>3 DEF WatchEnds, WatchFails
  <2> HIDE DEF v
  <2>3. Ended(v) \in DaemonState /\ Shape(Ended(v)) /\ Ended(v).slots = s.slots
        /\ Ended(v).serve = s.serve
    BY <1>1, <2>1, EndedState DEF Shape
  <2> QED BY <1>1, <1>3, <2>1, <2>2, <2>3, DaemonMoves DEF WatchEnds, WatchFails, Owning
<1>4. CASE BothEnded(d)
  <2> DEFINE t == [s EXCEPT !.pc = "closing"]
  <2>0. s.watch = "done" /\ s.serve = "done" /\ s.pc = "draining"
    BY <1>4 DEF BothEnded
  <2>1. t \in DaemonState /\ t.slots = s.slots /\ t.pc = "closing" /\ t.serve = s.serve
        /\ t.watch = s.watch
    BY <1>1 DEF DaemonState
  <2>2. daemon' = [daemon EXCEPT ![d] = t]
    BY <1>4 DEF BothEnded
  <2> HIDE DEF t
  <2>3. Shape(t)
    BY <2>0, <2>1 DEF Shape
  <2> QED BY <1>1, <1>4, <2>0, <2>1, <2>2, <2>3, DaemonMoves DEF BothEnded, Owning
<1>5. CASE ReleaseOwnership(d)
  <2>1. Handlers(d) = {} /\ pipe # d
    BY <1>1, <1>5 DEF Shape, ReleaseOwnership
  <2>2. Off \in DaemonState /\ Shape(Off) /\ Off.slots = 0 /\ Off.pc = "off" /\ Off.serve = "off"
    BY LimitsAssumption DEF Off, DaemonState, Shape
  <2> QED BY <1>5, <2>1, <2>2, NoSlots, DaemonMoves DEF ReleaseOwnership, Owning
<1>6. CASE Interrupt(d)
  <2> DEFINE t == [s EXCEPT !.cancelled = TRUE, !.stopping = TRUE]
  <2>1. t \in DaemonState /\ t.slots = s.slots /\ t.pc = s.pc /\ t.serve = s.serve
        /\ t.watch = s.watch
    BY <1>1 DEF DaemonState
  <2>2. daemon' = [daemon EXCEPT ![d] = t]
    BY <1>1, <1>6 DEF Interrupt, IInv, TypeOK, DaemonState
  <2> HIDE DEF t
  <2>3. Shape(t)
    BY <1>1, <2>1 DEF Shape
  <2> QED BY <1>1, <1>6, <2>1, <2>2, <2>3, DaemonMoves DEF Interrupt
<1>7. CASE Listen(d)
  <2>0. s.serve = "listen" /\ s.pc \in {"running", "draining"} /\ Handlers(d) = {} /\ pipe # d
    BY <1>1, <1>7 DEF Listen, Shape
  <2>1. CASE pipe = Nobody /\ pipe' = d /\ daemon' = [daemon EXCEPT ![d].serve = "accept"]
    <3> DEFINE t == [s EXCEPT !.serve = "accept"]
    <3>1. t \in DaemonState /\ t.slots = s.slots /\ t.pc = s.pc /\ t.serve = "accept"
          /\ t.watch = s.watch
      BY <1>1 DEF DaemonState
    <3>2. daemon' = [daemon EXCEPT ![d] = t]
      BY <2>1
    <3> HIDE DEF t
    <3>3. Shape(t)
      BY <1>1, <2>0, <3>1 DEF Shape
    <3> QED BY <1>1, <1>7, <2>0, <2>1, <3>1, <3>2, <3>3, DaemonMoves DEF Listen
  <2>2. CASE UNCHANGED pipe /\ daemon' = [daemon EXCEPT ![d] = Ended([@ EXCEPT !.serve = "done"])]
    <3> DEFINE v == [s EXCEPT !.serve = "done"]
    <3>1. v \in DaemonState /\ v.slots = s.slots /\ v.pc = s.pc /\ v.serve = "done"
          /\ v.watch = s.watch
      BY <1>1 DEF DaemonState
    <3>2. daemon' = [daemon EXCEPT ![d] = Ended(v)]
      BY <2>2
    <3> HIDE DEF v
    <3>3. Ended(v) \in DaemonState /\ Shape(Ended(v)) /\ Ended(v).slots = s.slots
      BY <1>1, <2>0, <3>1, EndedState DEF Shape
    <3> QED BY <1>1, <1>7, <2>0, <2>2, <3>2, <3>3, DaemonMoves DEF Listen, Owning
  <2> QED BY <1>7, <2>1, <2>2 DEF Listen
<1>8. CASE ServeReturns(d)
  <2> DEFINE v == [s EXCEPT !.serve = "done"]
  <2>0. s.serve = "wait" /\ s.pc \in {"running", "draining"} /\ Handlers(d) = {} /\ pipe # d
    BY <1>1, <1>8 DEF ServeReturns, Shape
  <2>1. v \in DaemonState /\ v.slots = s.slots /\ v.pc = s.pc /\ v.serve = "done"
        /\ v.watch = s.watch
    BY <1>1 DEF DaemonState
  <2>2. daemon' = [daemon EXCEPT ![d] = Ended(v)]
    BY <1>8 DEF ServeReturns
  <2> HIDE DEF v
  <2>3. Ended(v) \in DaemonState /\ Shape(Ended(v)) /\ Ended(v).slots = s.slots
    BY <1>1, <2>0, <2>1, EndedState DEF Shape
  <2> QED BY <1>1, <1>8, <2>0, <2>2, <2>3, DaemonMoves DEF ServeReturns, Owning
<1> QED BY <1>2, <1>3, <1>4, <1>5, <1>6, <1>7, <1>8

-----------------------------------------------------------------------------
(* A step in which no handler begins or ends. *)
SameHandlers ==
  /\ conns' \in [Conns -> Connection]
  /\ \A k \in Conns :
       /\ conns'[k].srv \in {"reading", "session", "ending"}
            <=> conns[k].srv \in {"reading", "session", "ending"}
       /\ conns[k].srv \in {"reading", "session", "ending"} => conns'[k].d = conns[k].d
       /\ conns'[k].srv # "none" => conns'[k].d \in Daemons

(* A step in which no daemon gets or loses its server or its slots. *)
SameDaemons ==
  /\ daemon' \in [Daemons -> DaemonState]
  /\ \A d \in Daemons :
       /\ Shape(daemon'[d])
       /\ daemon'[d].slots = daemon[d].slots /\ daemon'[d].serve = daemon[d].serve
       /\ daemon'[d].pc \in Owning => daemon[d].pc \in Owning

(* Handlers are told by the server's side of the connections. *)
LEMMA HandlersStay ==
  ASSUME IInv, SameHandlers
  PROVE  Wired' /\ \A d \in Daemons : Handlers(d)' = Handlers(d)
<1>1. Wired'
  BY DEF SameHandlers, Wired
<1>2. ASSUME NEW d \in Daemons PROVE Handlers(d)' = Handlers(d)
  BY <1>2 DEF SameHandlers, Handlers, Handled
<1> QED BY <1>1, <1>2

(* What such a step must still see to. *)
LEMMA CalmStep ==
  ASSUME IInv, SameHandlers, SameDaemons, LockHeld', UNCHANGED pipe,
         client' \in [Clients -> Command], startup' \in Clients \cup {Nobody},
         lifetime' \in Daemons \cup Clients \cup {Nobody}, issued' \in 0..MaxCommands
  PROVE  IInv'
<1>1. TypeOK'
  BY DEF IInv, TypeOK, SameHandlers, SameDaemons
<1>2. Shapes' /\ PipeServed'
  BY DEF IInv, SameDaemons, Shapes, PipeServed
<1>3. Counted'
  BY HandlersStay DEF IInv, Counted, SameDaemons
<1> QED BY <1>1, <1>2, <1>3, HandlersStay DEF IInv

(* What is left of a connection that is over. *)
LEMMA OverState ==
  ASSUME IInv, NEW k \in Conns
  PROVE  Over(k) \in Connection /\ Over(k).srv = "none" /\ Over(k).d = Nobody
BY DEF IInv, TypeOK, Over, NoConnection, Connection

(* A daemon that closes connections ends no handler. *)
LEMMA ClosedStays ==
  ASSUME IInv, NEW ks, conns' = Closed(ks)
  PROVE  SameHandlers
<1> SUFFICES ASSUME NEW k \in Conns
             PROVE  /\ conns'[k] \in Connection
                    /\ conns'[k].srv \in {"reading", "session", "ending"}
                         <=> conns[k].srv \in {"reading", "session", "ending"}
                    /\ conns[k].srv \in {"reading", "session", "ending"} => conns'[k].d = conns[k].d
                    /\ conns'[k].srv # "none" => conns'[k].d \in Daemons
  BY DEF SameHandlers, Closed
<1>1. conns[k] \in Connection /\ (conns[k].srv # "none" => conns[k].d \in Daemons)
  BY DEF IInv, TypeOK, Wired
<1>2. CASE k \notin ks
  BY <1>1, <1>2 DEF Closed
<1>3. CASE k \in ks /\ Handled(k)
  <2>1. conns'[k] = [conns[k] EXCEPT !.open = FALSE]
    BY <1>3 DEF Closed
  <2> QED BY <1>1, <2>1 DEF Connection
<1>4. CASE k \in ks /\ ~Handled(k)
  <2>1. conns'[k] = Over(k)
    BY <1>4 DEF Closed
  <2> QED BY <1>4, <2>1, OverState DEF Handled
<1> QED BY <1>2, <1>3, <1>4

(* Neither does a command that closes its connection. *)
LEMMA DroppedStays ==
  ASSUME IInv, NEW c \in Clients, conns' = Dropped(c)
  PROVE  SameHandlers
<1> SUFFICES ASSUME NEW k \in Conns
             PROVE  /\ conns'[k] \in Connection
                    /\ conns'[k].srv \in {"reading", "session", "ending"}
                         <=> conns[k].srv \in {"reading", "session", "ending"}
                    /\ conns[k].srv \in {"reading", "session", "ending"} => conns'[k].d = conns[k].d
                    /\ conns'[k].srv # "none" => conns'[k].d \in Daemons
  BY DEF SameHandlers, Dropped
<1>1. conns[k] \in Connection /\ (conns[k].srv # "none" => conns[k].d \in Daemons)
  BY DEF IInv, TypeOK, Wired
<1>2. CASE client[c].conn # k
  BY <1>1, <1>2 DEF Dropped
<1>3. CASE client[c].conn = k /\ Handled(k)
  <2>1. conns'[k] = [conns[k] EXCEPT !.open = FALSE, !.reply = "none"]
    BY <1>3 DEF Dropped
  <2> QED BY <1>1, <2>1 DEF Connection
<1>4. CASE client[c].conn = k /\ ~Handled(k)
  <2>1. conns'[k] = NoConnection
    BY <1>4 DEF Dropped
  <2>2. NoConnection \in Connection /\ NoConnection.srv = "none"
    BY DEF NoConnection, Connection
  <2> QED BY <1>4, <2>1, <2>2 DEF Handled
<1> QED BY <1>2, <1>3, <1>4

(* Connections that are left alone. *)
LEMMA ConnsStay == IInv /\ UNCHANGED conns => SameHandlers
BY DEF IInv, TypeOK, Wired, SameHandlers

(* Daemons that are left alone. *)
LEMMA DaemonsStay == IInv /\ UNCHANGED daemon => SameDaemons
BY DEF IInv, TypeOK, Shapes, SameDaemons

(* A new process of "daemon run". *)
LEMMA LaunchStays == IInv /\ Launch => SameDaemons
<1> SUFFICES ASSUME IInv, Launch PROVE SameDaemons
  OBVIOUS
<1>1. PICK x \in Daemons : daemon[x].pc = "off" /\ daemon' = [daemon EXCEPT ![x].pc = "starting"]
  BY DEF Launch
<1> DEFINE t == [daemon[x] EXCEPT !.pc = "starting"]
<1>2. daemon[x] \in DaemonState /\ Shape(daemon[x])
  BY DEF IInv, TypeOK, Shapes
<1>3. t \in DaemonState /\ t.slots = daemon[x].slots /\ t.serve = daemon[x].serve
      /\ t.watch = daemon[x].watch /\ t.pc = "starting"
  BY <1>2 DEF DaemonState
<1>4. daemon' = [daemon EXCEPT ![x] = t]
  BY <1>1
<1> HIDE DEF t
<1>5. Shape(t)
  BY <1>1, <1>2, <1>3 DEF Shape
<1> QED BY <1>3, <1>4, <1>5 DEF IInv, TypeOK, Shapes, SameDaemons, Owning

(* What a step must see to when it changes one command and keeps servers   *)
(* and handlers.                                                           *)
LEMMA CommandMoves ==
  ASSUME IInv, NEW c \in Clients, NEW x \in Command,
         client' = [client EXCEPT ![c] = x],
         x.pc = "watching" => lifetime' = c,
         lifetime' = lifetime \/ lifetime' = Freed(lifetime, c)
           \/ (lifetime = Nobody /\ lifetime' = c),
         startup' = startup \/ startup' = c \/ startup' = Freed(startup, c),
         issued' \in 0..MaxCommands,
         SameHandlers, SameDaemons, UNCHANGED pipe
  PROVE  IInv'
<1>1. client' \in [Clients -> Command]
  BY DEF IInv, TypeOK
<1>2. \A e \in Clients : client'[e] = IF e = c THEN x ELSE client[e]
  BY DEF IInv, TypeOK
<1>3. /\ lifetime' \in Daemons \cup Clients \cup {Nobody}
      /\ startup' \in Clients \cup {Nobody}
  BY DEF IInv, TypeOK, Freed
<1>4. LockHeld'
  <2>1. ASSUME NEW d \in Daemons, daemon'[d].pc \in Owning PROVE lifetime' = d
    <3>1. lifetime = d
      BY <2>1 DEF IInv, LockHeld, SameDaemons
    <3> QED BY <3>1, NobodyAssumption, ProcessesAssumption DEF Freed
  <2>2. ASSUME NEW e \in Clients, client'[e].pc = "watching" PROVE lifetime' = e
    <3>1. e # c => lifetime = e
      BY <1>2, <2>2 DEF IInv, LockHeld
    <3> QED BY <1>2, <2>2, <3>1, NobodyAssumption DEF Freed
  <2> QED BY <2>1, <2>2 DEF LockHeld
<1> QED BY <1>1, <1>3, <1>4, CalmStep

(* The states a command can take. *)
LEMMA CommandStates ==
  ASSUME IInv, NEW c \in Clients
  PROVE  /\ client[c] \in Command
         /\ Idle \in Command /\ Idle.pc = "idle"
         /\ \A p \in {"idle", "status", "lock", "recheck", "start", "poll", "connect",
                      "proxy", "drain", "stop", "watching"} :
              /\ [client[c] EXCEPT !.pc = p] \in Command
              /\ [client[c] EXCEPT !.pc = p].pc = p
BY DEF IInv, TypeOK, Idle, Command

(* Return, together with what becomes of its connection and of the daemons. *)
LEMMA ReturnStep ==
  ASSUME IInv, NEW c \in Clients, Return(c), SameHandlers, SameDaemons,
         UNCHANGED <<pipe, issued>>
  PROVE  IInv'
<1>1. issued' \in 0..MaxCommands
  BY DEF IInv, TypeOK
<1> QED BY <1>1, CommandStates, CommandMoves DEF Return

(* A command goes on to its next step. *)
LEMMA GoOn ==
  ASSUME IInv, NEW c \in Clients,
         NEW p \in {"idle", "status", "lock", "recheck", "start", "poll", "connect",
                    "proxy", "drain", "stop"},
         client' = [client EXCEPT ![c].pc = p],
         SameHandlers, SameDaemons,
         startup' = startup \/ startup' = c, issued' \in 0..MaxCommands,
         UNCHANGED <<lifetime, pipe>>
  PROVE  IInv'
<1> DEFINE x == [client[c] EXCEPT !.pc = p]
<1>0. client[c] \in Command
  BY DEF IInv, TypeOK
<1>1. x \in Command /\ x.pc = p
  BY <1>0 DEF Command
<1>2. client' = [client EXCEPT ![c] = x]
  OBVIOUS
<1> HIDE DEF x
<1> QED BY <1>1, <1>2, CommandMoves

(* The steps of the commands that use no connection. *)
LEMMA CommandStep ==
  ASSUME IInv, NEW c \in Clients,
         \/ Issue(c) \/ startupLock(c) \/ Start(c) \/ StartupTimesOut(c)
         \/ ResponsesEnd(c) \/ WatchOwns(c) \/ WatchReturns(c)
  PROVE  IInv'
<1>1. issued' \in 0..MaxCommands
  BY LimitsAssumption DEF IInv, TypeOK, Issue, startupLock, Start, StartupTimesOut,
     ResponsesEnd, WatchOwns, WatchReturns
<1>2. SameHandlers
  BY ConnsStay DEF Issue, startupLock, Start, StartupTimesOut, ResponsesEnd, WatchOwns, WatchReturns
<1>3. SameDaemons
  BY DaemonsStay, LaunchStays DEF Issue, startupLock, Start, StartupTimesOut, ResponsesEnd,
     WatchOwns, WatchReturns
<1>4. CASE Issue(c)
  <2>1. CASE UNCHANGED client
    <3>1. LockHeld'
      BY <1>3, <1>4, <2>1 DEF IInv, LockHeld, SameDaemons, Issue
    <3> QED BY <1>1, <1>2, <1>3, <1>4, <2>1, <3>1, CalmStep DEF Issue, IInv, TypeOK
  <2>2. CASE client' = [client EXCEPT ![c].pc = "status"]
    BY <1>1, <1>2, <1>3, <1>4, <2>2, GoOn DEF Issue
  <2>3. CASE client' = [client EXCEPT ![c].pc = "stop"]
    BY <1>1, <1>2, <1>3, <1>4, <2>3, GoOn DEF Issue
  <2> QED BY <1>4, <2>1, <2>2, <2>3 DEF Issue
<1>5. CASE startupLock(c)
  <2>1. CASE client' = [client EXCEPT ![c].pc = "recheck"] /\ startup' = c
    BY <1>1, <1>2, <1>3, <1>5, <2>1, GoOn DEF startupLock
  <2>2. CASE client' = [client EXCEPT ![c].pc = "poll"] /\ UNCHANGED startup
    BY <1>1, <1>2, <1>3, <1>5, <2>2, GoOn DEF startupLock
  <2> QED BY <1>5, <2>1, <2>2 DEF startupLock
<1>6. CASE Start(c)
  <2>1. CASE client' = [client EXCEPT ![c].pc = "poll"] /\ UNCHANGED <<startup, lifetime>>
    BY <1>1, <1>2, <1>3, <1>6, <2>1, GoOn DEF Start
  <2>2. CASE Return(c)
    BY <1>2, <1>3, <1>6, <2>2, ReturnStep DEF Start
  <2> QED BY <1>6, <2>1, <2>2 DEF Start
<1>7. CASE StartupTimesOut(c) \/ WatchReturns(c)
  BY <1>2, <1>3, <1>7, ReturnStep DEF StartupTimesOut, WatchReturns
<1>8. CASE ResponsesEnd(c)
  BY <1>1, <1>2, <1>3, <1>8, GoOn DEF ResponsesEnd
<1>9. CASE WatchOwns(c)
  <2> DEFINE x == [client[c] EXCEPT !.pc = "watching"]
  <2>1. x \in Command /\ x.pc = "watching"
    BY CommandStates
  <2>2. client' = [client EXCEPT ![c] = x]
    BY <1>9 DEF WatchOwns
  <2> HIDE DEF x
  <2> QED BY <1>1, <1>2, <1>3, <1>9, <2>1, <2>2, CommandMoves DEF WatchOwns
<1> QED BY <1>4, <1>5, <1>6, <1>7, <1>8, <1>9

(* The steps of the commands on their connection. *)
LEMMA ConnectionStep ==
  ASSUME IInv, NEW c \in Clients,
         \/ Dial(c) \/ ControlSucceeds(c) \/ ControlFails(c) \/ RequestsEnd(c)
         \/ ProxyReturns(c) \/ ClientKilled(c)
  PROVE  IInv'
<1>1. issued' \in 0..MaxCommands /\ UNCHANGED pipe
  BY DEF IInv, TypeOK, Dial, ControlSucceeds, ControlFails, RequestsEnd, ProxyReturns, ClientKilled
<1>2. SameDaemons
  BY DaemonsStay DEF Dial, ControlSucceeds, ControlFails, RequestsEnd, ProxyReturns, ClientKilled
<1>3. CASE Dial(c)
  <2>1. PICK k \in Conns :
          /\ conns[k] = NoConnection /\ pipe # Nobody /\ Sends(c) # "none"
          /\ conns' = [conns EXCEPT ![k].d = pipe, ![k].cmd = Sends(c), ![k].srv = "queued", ![k].open = TRUE]
          /\ client' = [client EXCEPT ![c].conn = k]
    BY <1>3 DEF Dial, Unused
  <2> DEFINE n == [conns[k] EXCEPT !.d = pipe, !.cmd = Sends(c), !.srv = "queued", !.open = TRUE]
             x == [client[c] EXCEPT !.conn = k]
  <2>2. Sends(c) \in {"status", "stop", "mcp"}
    BY <2>1 DEF Sends
  <2>3. n \in Connection /\ n.srv = "queued" /\ n.d \in Daemons
    BY <2>1, <2>2 DEF IInv, TypeOK, Connection
  <2>4. conns' = [conns EXCEPT ![k] = n]
    BY <2>1 DEF IInv, TypeOK, Connection
  <2>5. conns[k].srv = "none"
    BY <2>1 DEF NoConnection
  <2>6. x \in Command /\ x.pc = client[c].pc
    BY DEF IInv, TypeOK, Command
  <2>7. client' = [client EXCEPT ![c] = x]
    BY <2>1
  <2>8. x.pc # "watching"
    BY <2>1, <2>6 DEF Sends
  <2> HIDE DEF n, x
  <2>9. SameHandlers
    BY <2>3, <2>4, <2>5 DEF SameHandlers, IInv, TypeOK, Wired
  <2> QED BY <1>1, <1>2, <1>3, <2>6, <2>7, <2>8, <2>9, CommandMoves DEF Dial
<1>4. CASE ControlSucceeds(c)
  <2>1. CASE client[c].pc = "connect"
    <3>1. client' = [client EXCEPT ![c].pc = "proxy"] /\ UNCHANGED <<conns, startup, lifetime>>
      BY <1>4, <2>1 DEF ControlSucceeds
    <3> QED BY <1>1, <1>2, <3>1, ConnsStay, GoOn
  <2>2. CASE client[c].pc = "stop"
    <3>1. Return(c) /\ conns' = Dropped(c) /\ UNCHANGED <<pipe, issued>>
      BY <1>4, <2>2 DEF ControlSucceeds
    <3> QED BY <1>2, <3>1, DroppedStays, ReturnStep
  <2>3. CASE client[c].pc \notin {"connect", "stop"}
    <3> DEFINE x == [Idle EXCEPT !.pc = "connect"]
    <3>1. client' = [client EXCEPT ![c] = x] /\ startup' = Freed(startup, c)
          /\ conns' = Dropped(c) /\ UNCHANGED lifetime
      BY <1>4, <2>3 DEF ControlSucceeds
    <3>2. x \in Command /\ x.pc = "connect"
      BY DEF Idle, Command
    <3> HIDE DEF x
    <3> QED BY <1>1, <1>2, <3>1, <3>2, DroppedStays, CommandMoves
  <2> QED BY <2>1, <2>2, <2>3
<1>5. CASE ControlFails(c)
  <2>1. SameHandlers /\ UNCHANGED <<pipe, issued>>
    BY <1>5, DroppedStays DEF ControlFails
  <2>2. CASE Return(c)
    BY <1>2, <2>1, <2>2, ReturnStep
  <2>3. CASE ~Return(c)
    <3> DEFINE q == CASE client[c].pc = "status" -> "lock"
                      [] client[c].pc = "recheck" -> "start" [] OTHER -> "poll"
               x == [client[c] EXCEPT !.conn = Nobody, !.pc = q]
    <3>1. q \in {"lock", "start", "poll"}
      OBVIOUS
    <3>2. client' = [client EXCEPT ![c] = x] /\ UNCHANGED <<startup, lifetime>>
      BY <1>5, <2>3 DEF ControlFails, IInv, TypeOK, Command
    <3> HIDE DEF q
    <3>3. x \in Command /\ x.pc = q
      BY <3>1 DEF IInv, TypeOK, Command
    <3> HIDE DEF x
    <3> QED BY <1>1, <1>2, <2>1, <3>1, <3>2, <3>3, CommandMoves
  <2> QED BY <2>2, <2>3
<1>6. CASE RequestsEnd(c)
  BY <1>1, <1>2, <1>6, ClosedStays, GoOn DEF RequestsEnd
<1>7. CASE ProxyReturns(c) \/ ClientKilled(c)
  BY <1>2, <1>7, DroppedStays, ReturnStep DEF ProxyReturns, ClientKilled
<1> QED BY <1>3, <1>4, <1>5, <1>6, <1>7

-----------------------------------------------------------------------------
(* A step of a handler that neither begins nor ends it. *)
LEMMA HandlerMoves ==
  ASSUME IInv, NEW k \in Conns, NEW n \in Connection,
         conns' = [conns EXCEPT ![k] = n], n.d = conns[k].d,
         conns[k].srv \in {"reading", "session", "ending"},
         n.srv \in {"reading", "session", "ending"},
         SameDaemons, UNCHANGED <<lifetime, startup, pipe, client, issued>>
  PROVE  IInv'
<1>1. SameHandlers
  BY DEF IInv, TypeOK, Wired, SameHandlers
<1>2. LockHeld'
  BY DEF IInv, LockHeld, SameDaemons
<1> QED BY <1>1, <1>2, CalmStep DEF IInv, TypeOK

(* Server.handle and the MCP session. *)
LEMMA ServingStep ==
  ASSUME IInv, NEW k \in Conns,
         handle(k) \/ HandleTimesOut(k) \/ SessionEnds(k) \/ SessionAborts(k)
  PROVE  IInv'
<1>1. conns[k] \in Connection /\ conns \in [Conns -> Connection]
  BY DEF IInv, TypeOK
<1>2. CASE UNCHANGED daemon
  <2>1. PICK n \in Connection :
          /\ conns' = [conns EXCEPT ![k] = n] /\ n.d = conns[k].d
          /\ n.srv \in {"reading", "session", "ending"}
    <3> DEFINE a == [conns[k] EXCEPT !.srv = "session", !.reply = "ok"]
               b == [conns[k] EXCEPT !.srv = "ending", !.reply = "ok", !.open = FALSE]
               e == [conns[k] EXCEPT !.srv = "ending"]
               g == [conns[k] EXCEPT !.srv = "ending", !.reply = "err", !.open = FALSE]
               h == [conns[k] EXCEPT !.srv = "ending", !.open = FALSE]
    <3>1. /\ a \in Connection /\ a.d = conns[k].d /\ a.srv = "session"
          /\ b \in Connection /\ b.d = conns[k].d /\ b.srv = "ending"
          /\ e \in Connection /\ e.d = conns[k].d /\ e.srv = "ending"
          /\ g \in Connection /\ g.d = conns[k].d /\ g.srv = "ending"
          /\ h \in Connection /\ h.d = conns[k].d /\ h.srv = "ending"
      BY <1>1 DEF Connection
    <3>2. \/ conns' = [conns EXCEPT ![k] = a] \/ conns' = [conns EXCEPT ![k] = b]
          \/ conns' = [conns EXCEPT ![k] = e] \/ conns' = [conns EXCEPT ![k] = g]
          \/ conns' = [conns EXCEPT ![k] = h]
      BY <1>1 DEF handle, HandleTimesOut, SessionEnds, SessionAborts, Connection
    <3> HIDE DEF a, b, e, g, h
    <3> QED BY <3>1, <3>2
  <2>2. /\ conns[k].srv \in {"reading", "session", "ending"}
        /\ UNCHANGED <<lifetime, startup, pipe, client, issued>>
    BY DEF handle, HandleTimesOut, SessionEnds, SessionAborts
  <2> QED BY <1>2, <2>1, <2>2, DaemonsStay, HandlerMoves
<1>3. CASE ~UNCHANGED daemon
  <2> DEFINE d == conns[k].d
             a == [conns[k] EXCEPT !.srv = "ending", !.reply = "ok", !.open = FALSE]
             b == [conns[k] EXCEPT !.srv = "ending"]
             t == [daemon[d] EXCEPT !.stopping = TRUE]
  <2>1. handle(k)
    BY <1>3 DEF HandleTimesOut, SessionEnds, SessionAborts
  <2>2. /\ conns[k].srv = "reading" /\ UNCHANGED <<lifetime, startup, pipe, client, issued>>
        /\ conns' = [conns EXCEPT ![k] = a] \/ conns' = [conns EXCEPT ![k] = b]
    BY <1>1, <1>3, <2>1 DEF handle, Connection
  <2>3. d \in Daemons
    BY <2>2 DEF IInv, Wired
  <2>4. daemon[d] \in DaemonState /\ Shape(daemon[d])
    BY <2>3 DEF IInv, TypeOK, Shapes
  <2>5. daemon' = [daemon EXCEPT ![d] = t]
    <3>1. PICK told \in BOOLEAN : daemon' = [daemon EXCEPT ![d].stopping = @ \/ told]
      BY <1>3, <2>1 DEF handle
    <3>2. CASE told
      BY <3>1, <3>2 DEF IInv, TypeOK
    <3>3. CASE ~told
      <4>1. daemon[d].stopping \in BOOLEAN
        BY <2>4 DEF DaemonState
      <4>2. daemon' = daemon
        BY <2>3, <2>4, <3>1, <3>3, <4>1 DEF IInv, TypeOK, DaemonState
      <4> QED BY <1>3, <4>2
    <3> QED BY <3>2, <3>3
  <2>6. PICK n \in Connection : /\ conns' = [conns EXCEPT ![k] = n]
                               /\ n.d = d /\ n.srv = "ending"
    <3>1. /\ a \in Connection /\ a.d = d /\ a.srv = "ending"
          /\ b \in Connection /\ b.d = d /\ b.srv = "ending"
      BY <1>1 DEF Connection
    <3> HIDE DEF a, b
    <3> QED BY <2>2, <3>1
  <2>7. t \in DaemonState /\ t.pc = daemon[d].pc /\ t.watch = daemon[d].watch
        /\ t.serve = daemon[d].serve /\ t.slots = daemon[d].slots
    BY <2>4 DEF DaemonState
  <2> HIDE DEF t
  <2>8. Shape(t)
    BY <2>4, <2>7 DEF Shape
  <2>9. SameDaemons
    BY <2>3, <2>7, <2>8, <2>5 DEF IInv, TypeOK, Shapes, SameDaemons
  <2> QED BY <2>2, <2>9, <2>6, HandlerMoves
<1> QED BY <1>2, <1>3

(* What a step must see to when it begins or ends a handler of daemon d. *)
LEMMA SlotMoves ==
  ASSUME IInv, NEW d \in Daemons, NEW m \in 0..MaxConnections,
         daemon' = [daemon EXCEPT ![d].slots = m],
         daemon[d].serve \in {"accept", "wait"},
         conns' \in [Conns -> Connection], Wired',
         IsFiniteSet(Handlers(d)'), m = Cardinality(Handlers(d)'),
         \A e \in Daemons : e # d => Handlers(e)' = Handlers(e),
         UNCHANGED <<lifetime, startup, pipe, client, issued>>
  PROVE  IInv'
<1> DEFINE t == [daemon[d] EXCEPT !.slots = m]
<1>1. daemon[d] \in DaemonState /\ Shape(daemon[d])
  BY DEF IInv, TypeOK, Shapes
<1>2. t \in DaemonState /\ t.pc = daemon[d].pc /\ t.watch = daemon[d].watch
      /\ t.serve = daemon[d].serve /\ t.slots = m
  BY <1>1 DEF DaemonState
<1>3. daemon' = [daemon EXCEPT ![d] = t]
  OBVIOUS
<1> HIDE DEF t
<1>4. Shape(t)
  BY <1>1, <1>2 DEF Shape
<1>5. TypeOK'
  BY <1>2, <1>3 DEF IInv, TypeOK
<1>6. \A e \in Daemons : daemon'[e] = IF e = d THEN t ELSE daemon[e]
  BY <1>3 DEF IInv, TypeOK
<1>7. Shapes' /\ LockHeld' /\ PipeServed'
  BY <1>2, <1>4, <1>6 DEF IInv, Shapes, LockHeld, PipeServed
<1>8. Counted'
  BY <1>2, <1>6 DEF IInv, Counted
<1> QED BY <1>5, <1>7, <1>8 DEF IInv

(* The deferred function of a handler gives its slot back. *)
LEMMA HandlerReturnsStep ==
  ASSUME IInv, NEW k \in Conns, HandlerReturns(k)
  PROVE  IInv'
<1>0. PICK d \in Daemons : d = conns[k].d
  BY DEF HandlerReturns, IInv, Wired
<1> DEFINE H == Handlers(d)
           m == daemon[d].slots - 1
<1>1. k \in H
  BY <1>0 DEF HandlerReturns, Handlers, Handled
<1>2. IsFiniteSet(H) /\ daemon[d].slots = Cardinality(H) /\ daemon[d].serve \in {"accept", "wait"}
  BY <1>1 DEF IInv, Counted
<1>3. conns' = [conns EXCEPT ![k] = Over(k)] /\ conns \in [Conns -> Connection]
  BY DEF HandlerReturns, IInv, TypeOK
<1>4. conns' \in [Conns -> Connection] /\ Wired'
  BY <1>3, OverState DEF IInv, Wired
<1>5. Handlers(d)' = H \ {k}
  BY <1>3, OverState, NobodyAssumption DEF Handlers, Handled
<1>6. \A e \in Daemons : e # d => Handlers(e)' = Handlers(e)
  BY <1>0, <1>3, OverState DEF Handlers, Handled
<1>7. IsFiniteSet(Handlers(d)') /\ Cardinality(Handlers(d)') = m
  <2>1. IsFiniteSet(H \ {k}) /\ Cardinality(H \ {k}) = Cardinality(H) - 1
    BY <1>1, <1>2, FS_RemoveElement
  <2> QED BY <1>2, <1>5, <2>1
<1>8. m \in 0..MaxConnections
  <2>1. Cardinality(H) # 0
    BY <1>1, <1>2, FS_EmptySet
  <2>2. daemon[d].slots \in 0..MaxConnections
    BY <1>1 DEF IInv, TypeOK, DaemonState
  <2> QED BY <1>2, <2>1, <2>2, LimitsAssumption
<1>9. daemon' = [daemon EXCEPT ![d].slots = m]
  BY <1>0 DEF HandlerReturns
<1>10. UNCHANGED <<lifetime, startup, pipe, client, issued>>
  BY DEF HandlerReturns
<1> HIDE DEF m
<1> QED BY <1>1, <1>2, <1>4, <1>6, <1>7, <1>8, <1>9, <1>10, SlotMoves

(* Accept begins a handler, or turns the connection away. *)
LEMMA AcceptStep ==
  ASSUME IInv, NEW d \in Daemons, Accept(d)
  PROVE  IInv'
<1>0. PICK k \in Conns :
        /\ conns[k].d = d /\ conns[k].srv = "queued"
        /\ \/ /\ daemon[d].slots < MaxConnections
              /\ conns' = [conns EXCEPT ![k].srv = "reading"]
              /\ daemon' = [daemon EXCEPT ![d].slots = @ + 1]
           \/ conns' = Closed({k}) /\ UNCHANGED daemon
  BY DEF Accept
<1>1. UNCHANGED <<lifetime, startup, pipe, client, issued>> /\ daemon[d].serve = "accept"
  BY DEF Accept
<1>2. CASE conns' = Closed({k}) /\ UNCHANGED daemon
  <2>1. LockHeld'
    BY <1>1, <1>2 DEF IInv, LockHeld
  <2> QED BY <1>1, <1>2, <2>1, ClosedStays, DaemonsStay, CalmStep DEF IInv, TypeOK
<1>3. CASE /\ daemon[d].slots < MaxConnections
           /\ conns' = [conns EXCEPT ![k].srv = "reading"]
           /\ daemon' = [daemon EXCEPT ![d].slots = @ + 1]
  <2> DEFINE n == [conns[k] EXCEPT !.srv = "reading"]
             H == Handlers(d)
             m == daemon[d].slots + 1
  <2>1. conns[k] \in Connection /\ conns \in [Conns -> Connection]
    BY DEF IInv, TypeOK
  <2>2. n \in Connection /\ n.d = d /\ n.srv = "reading"
    BY <1>0, <2>1 DEF Connection
  <2>3. conns' = [conns EXCEPT ![k] = n]
    BY <1>3
  <2> HIDE DEF n
  <2>4. conns' \in [Conns -> Connection] /\ Wired'
    BY <2>1, <2>2, <2>3 DEF IInv, Wired
  <2>5. Handlers(d)' = H \cup {k} /\ k \notin H
    BY <1>0, <2>1, <2>2, <2>3 DEF Handlers, Handled
  <2>6. \A e \in Daemons : e # d => Handlers(e)' = Handlers(e)
    BY <1>0, <2>1, <2>2, <2>3 DEF Handlers, Handled
  <2>7. IsFiniteSet(H) /\ daemon[d].slots = Cardinality(H)
    BY DEF IInv, Counted
  <2>8. IsFiniteSet(Handlers(d)') /\ Cardinality(Handlers(d)') = m
    <3>1. IsFiniteSet(H \cup {k}) /\ Cardinality(H \cup {k}) = Cardinality(H) + 1
      BY <2>5, <2>7, FS_AddElement
    <3> QED BY <2>5, <2>7, <3>1
  <2>9. m \in 0..MaxConnections
    <3>1. daemon[d].slots \in 0..MaxConnections
      BY DEF IInv, TypeOK, DaemonState
    <3> QED BY <1>3, <3>1, LimitsAssumption
  <2>10. daemon' = [daemon EXCEPT ![d].slots = m]
    BY <1>3
  <2> HIDE DEF m
  <2> QED BY <1>1, <2>4, <2>6, <2>8, <2>9, <2>10, SlotMoves
<1> QED BY <1>0, <1>2, <1>3

(* The listener is closed, and the accept loop ends. *)
LEMMA ListenerStep ==
  ASSUME IInv, NEW d \in Daemons, CloseListener(d) \/ AcceptFails(d)
  PROVE  IInv'
<1>1. PICK ks \in SUBSET Conns : conns' = Closed(ks)
  BY DEF CloseListener, AcceptFails
<1>2. SameHandlers
  BY <1>1, ClosedStays
<1>3. Wired' /\ \A e \in Daemons : Handlers(e)' = Handlers(e)
  BY <1>2, HandlersStay
<1>4. PICK t \in DaemonState :
        /\ daemon' = [daemon EXCEPT ![d] = t] /\ Shape(t)
        /\ t.pc = daemon[d].pc /\ t.slots = daemon[d].slots
        /\ \/ t.serve = daemon[d].serve
           \/ daemon[d].serve = "accept" /\ t.serve = "wait"
  <2>1. daemon[d] \in DaemonState /\ Shape(daemon[d]) /\ daemon \in [Daemons -> DaemonState]
    BY DEF IInv, TypeOK, Shapes
  <2>2. CASE CloseListener(d)
    BY <2>1, <2>2 DEF CloseListener
  <2>3. CASE AcceptFails(d)
    <3> DEFINE t == [daemon[d] EXCEPT !.serve = "wait", !.stopping = TRUE]
    <3>1. t \in DaemonState /\ t.pc = daemon[d].pc /\ t.watch = daemon[d].watch
          /\ t.slots = daemon[d].slots /\ t.serve = "wait"
      BY <2>1 DEF DaemonState
    <3>2. daemon' = [daemon EXCEPT ![d] = t] /\ daemon[d].serve = "accept"
      BY <2>1, <2>3 DEF AcceptFails, DaemonState
    <3> HIDE DEF t
    <3>3. Shape(t)
      BY <2>1, <3>1, <3>2 DEF Shape
    <3> QED BY <3>1, <3>2, <3>3
  <2> QED BY <2>2, <2>3
<1>5. /\ pipe' = pipe \/ pipe' = Nobody
      /\ pipe' # d
      /\ UNCHANGED <<lifetime, startup, client, issued>>
  BY NobodyAssumption DEF CloseListener, AcceptFails, Freed
<1>6. \A e \in Daemons : daemon'[e] = IF e = d THEN t ELSE daemon[e]
  BY <1>4 DEF IInv, TypeOK
<1>7. TypeOK'
  BY <1>2, <1>4, <1>5 DEF IInv, TypeOK, SameHandlers
<1>8. Shapes' /\ LockHeld'
  BY <1>4, <1>5, <1>6 DEF IInv, Shapes, LockHeld
<1>9. PipeServed'
  BY <1>4, <1>5, <1>6, NobodyAssumption DEF IInv, PipeServed
<1>10. Counted'
  BY <1>3, <1>4, <1>6 DEF IInv, Counted
<1> QED BY <1>3, <1>7, <1>8, <1>9, <1>10 DEF IInv

(* The system frees what a killed daemon held and ends its connections. *)
LEMMA DaemonKilledStep ==
  ASSUME IInv, NEW d \in Daemons, DaemonKilled(d)
  PROVE  IInv'
<1>1. conns' = [k \in Conns |-> IF conns[k].d = d THEN Over(k) ELSE conns[k]]
  BY DEF DaemonKilled
<1>2. \A e \in Daemons : daemon'[e] = IF e = d THEN Off ELSE daemon[e]
  BY DEF DaemonKilled, IInv, TypeOK
<1>3. Off \in DaemonState /\ Shape(Off) /\ Off.slots = 0 /\ Off.pc = "off" /\ Off.serve = "off"
  BY LimitsAssumption DEF Off, DaemonState, Shape
<1>4. TypeOK'
  <2>1. conns' \in [Conns -> Connection]
    BY <1>1, OverState DEF IInv, TypeOK
  <2> QED BY <1>3, <2>1 DEF DaemonKilled, IInv, TypeOK, Freed
<1>5. Shapes' /\ PipeServed'
  BY <1>2, <1>3, NobodyAssumption DEF IInv, Shapes, PipeServed, DaemonKilled, Freed
<1>6. LockHeld'
  BY <1>2, <1>3, NobodyAssumption, ProcessesAssumption
     DEF IInv, LockHeld, DaemonKilled, Freed, Owning
<1>7. Wired'
  BY <1>1, OverState DEF IInv, Wired
<1>8. Handlers(d)' = {}
  BY <1>1, OverState, NobodyAssumption DEF Handlers, Handled
<1>9. ASSUME NEW e \in Daemons, e # d PROVE Handlers(e)' = Handlers(e)
  BY <1>1, <1>9, OverState DEF Handlers, Handled
<1>10. Counted'
  <2>1. IsFiniteSet(Handlers(d)') /\ Cardinality(Handlers(d)') = 0
    BY <1>8, FS_EmptySet
  <2> QED BY <1>2, <1>3, <1>8, <1>9, <2>1 DEF IInv, Counted
<1> QED BY <1>4, <1>5, <1>6, <1>7, <1>10 DEF IInv

-----------------------------------------------------------------------------
(* The invariant holds with and without a running daemon, *)
LEMMA InitIInv == Init => IInv
<1> SUFFICES ASSUME Init PROVE IInv
  OBVIOUS
<1>1. Off \in DaemonState /\ Shape(Off) /\ Off.slots = 0 /\ Off.pc = "off" /\ Off.serve = "off"
  BY LimitsAssumption DEF Off, DaemonState, Shape
<1>2. /\ Serving \in DaemonState /\ Shape(Serving) /\ Serving.slots = 0
      /\ Serving.serve = "accept"
  <2>1. /\ Serving \in DaemonState /\ Serving.slots = 0 /\ Serving.serve = "accept"
        /\ Serving.pc = "running" /\ Serving.watch = "on"
    BY <1>1 DEF Serving, DaemonState
  <2> QED BY <2>1 DEF Shape
<1>3. PICK x \in Daemons :
        \/ daemon = [d \in Daemons |-> Off] /\ lifetime = Nobody /\ pipe = Nobody
        \/ /\ daemon = [[d \in Daemons |-> Off] EXCEPT ![x] = Serving]
           /\ lifetime = x /\ pipe = x
  BY ProcessesAssumption DEF Init
<1>4. \A d \in Daemons : daemon[d] = Off \/ (daemon[d] = Serving /\ d = x /\ lifetime = x)
  BY <1>3
<1>5. NoConnection \in Connection /\ NoConnection.srv = "none" /\ Idle \in Command /\ Idle.pc = "idle"
  BY DEF NoConnection, Connection, Idle, Command
<1>6. TypeOK
  <2>1. daemon \in [Daemons -> DaemonState]
    BY <1>1, <1>2, <1>3
  <2> QED BY <1>3, <1>5, <2>1, LimitsAssumption DEF Init, TypeOK
<1>7. Shapes /\ LockHeld
  BY <1>1, <1>2, <1>4, <1>5 DEF Shapes, LockHeld, Owning, Init
<1>8. PipeServed /\ Wired
  BY <1>2, <1>3, <1>5, NobodyAssumption DEF PipeServed, Wired, Init
<1>9. Counted
  <2>1. \A d \in Daemons : Handlers(d) = {}
    BY <1>5 DEF Init, Handlers, Handled
  <2> QED BY <1>1, <1>2, <1>4, <2>1, FS_EmptySet DEF Counted
<1> QED BY <1>6, <1>7, <1>8, <1>9 DEF IInv

(* and every step of daemons, clients and connections keeps it. *)
LEMMA NextIInv == IInv /\ [Next]_vars => IInv'
<1> SUFFICES ASSUME IInv, [Next]_vars PROVE IInv'
  OBVIOUS
<1>1. CASE UNCHANGED vars
  <2>1. LockHeld'
    BY <1>1 DEF vars, IInv, LockHeld
  <2> QED BY <1>1, <2>1, ConnsStay, DaemonsStay, CalmStep DEF vars, IInv, TypeOK
<1>2. ASSUME NEW d \in Daemons,
             DaemonStep(d) \/ AcceptFails(d) \/ WatchFails(d) \/ Interrupt(d) \/ DaemonKilled(d)
      PROVE  IInv'
  BY <1>2, RunStep, AcceptStep, ListenerStep, DaemonKilledStep DEF DaemonStep
<1>3. ASSUME NEW k \in Conns, HandlerStep(k) \/ HandleTimesOut(k) \/ SessionAborts(k)
      PROVE  IInv'
  BY <1>3, ServingStep, HandlerReturnsStep DEF HandlerStep
<1>4. ASSUME NEW c \in Clients,
             \/ Issue(c) \/ WatchOwns(c) \/ ClientStep(c) \/ StartupTimesOut(c)
             \/ RequestsEnd(c) \/ WatchReturns(c) \/ ClientKilled(c)
      PROVE  IInv'
  BY <1>4, CommandStep, ConnectionStep DEF ClientStep
<1> QED BY <1>1, <1>2, <1>3, <1>4 DEF Next

(* The inductive invariant holds in every reachable state. *)
THEOREM Invariance == Spec => []IInv
BY InitIInv, NextIInv, PTL DEF Spec

(* Types, and the limit on connections: a daemon never takes more than     *)
(* MaxConnections slots, and gives none back that it did not take.         *)
THEOREM DaemonTypes == Spec => []TypeOK
<1>1. IInv => TypeOK
  BY DEF IInv
<1> QED BY <1>1, Invariance, PTL

(* The lifetime lock works: one process at a time, daemon or foreground    *)
(* watch, owns watchers and clangd sessions, and only it listens.          *)
THEOREM SingleOwner == Spec => []OneOwner
<1>1. IInv => OneOwner
  <2> SUFFICES ASSUME IInv PROVE OneOwner
    OBVIOUS
  <2>1. Owners \subseteq {lifetime}
    BY DEF IInv, LockHeld, Owners, Owning
  <2>2. pipe \in Owners \cup {Nobody}
    BY DEF IInv, TypeOK, PipeServed, Shapes, Shape, Owners
  <2> QED BY <2>1, <2>2 DEF OneOwner
<1> QED BY <1>1, Invariance, PTL

(* runDaemon ends in the right order: when the session manager is closed,  *)
(* the watchers have ended, nobody listens and no handler is left.         *)
THEOREM ManagerOutlivesUsers == Spec => []ManagerClosedLast
<1>1. IInv => ManagerClosedLast
  <2> SUFFICES ASSUME IInv, NEW d \in Daemons, daemon[d].pc = "closing"
               PROVE  daemon[d].watch = "done" /\ pipe # d /\ Handlers(d) = {} /\ daemon[d].slots = 0
    BY DEF ManagerClosedLast
  <2>1. daemon[d].watch = "done" /\ daemon[d].serve = "done"
    BY DEF IInv, Shapes, Shape
  <2>2. pipe # d /\ Handlers(d) = {}
    BY <2>1 DEF IInv, PipeServed, Counted
  <2> QED BY <2>1, <2>2, NoSlots
<1> QED BY <1>1, Invariance, PTL
=============================================================================
