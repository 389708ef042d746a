------------------------- MODULE SessionManagerProofs -------------------------
(***************************************************************************)
(* Proofs about SessionManager, for every number of requests, startups,    *)
(* configurations and registry editions.                                   *)
(***************************************************************************)
EXTENDS SessionManager, FiniteSetTheorems, TLAPS

Users == {r \in Requests : Using(r)}

(* A startup belongs to a session that was created; its process is spawned *)
(* after "begin", and only one that has succeeded is watched.              *)
Owned(k) ==
  /\ start[k].owner <= used
  /\ start[k].pc # "none" => start[k].owner # 0
  /\ start[k].pc \in {"none", "begin"} => start[k].proc = "none"
  /\ start[k].watched => start[k].pc = "done"

(* The current session has the client of a startup of its own, or is       *)
(* started by exactly one goroutine, whose process is published before it  *)
(* is initialized; only the client's process is watched on its behalf.     *)
Wired ==
  cur # 0 =>
    /\ sess[cur].client <= used /\ sess[cur].starting <= used
    /\ sess[cur].starting # 0 =>
         /\ Starting(sess[cur].starting) /\ start[sess[cur].starting].owner = cur
         /\ sess[cur].client = 0
         /\ start[sess[cur].starting].cfg = sess[cur].cfg
         /\ start[sess[cur].starting].pc = "initializing" => sess[cur].process = sess[cur].starting
    /\ sess[cur].client # 0 =>
         /\ sess[cur].process = sess[cur].client
         /\ start[sess[cur].client].pc = "done"
         /\ start[sess[cur].client].cfg = sess[cur].cfg
    /\ \A k \in Ids : start[k].watched /\ start[k].owner = cur => sess[cur].client = k

(* The clangd a caller of the current session can get was started at the   *)
(* edition e or later.                                                     *)
Since(e) ==
  \A k \in {sess[cur].client, sess[cur].starting} \ {0} : start[k].edition >= e

(* Without a pending retirement that is the edition of the last Invalidate. *)
UpToDate == cur # 0 /\ ~sess[cur].stale => Since(told)

(* What a request knows is of the past. *)
Past(q) ==
  /\ q.sess <= used /\ q.start <= used
  /\ q.pc # "idle" => q.edition <= told
  /\ q.pc \in {"waiting", "using"} => q.start # 0
  /\ q.pc = "waiting" => q.sess # 0

(* It waits for a session that is started as it asked. *)
Waited(q) ==
  q.pc = "waiting" /\ cur # 0 /\ q.sess = cur =>
    sess[cur].cfg = q.cfg /\ Since(q.edition)

(* It uses a client it asked for, which is the session's until it is shut. *)
Held(q) ==
  q.pc = "using" =>
    /\ start[q.start].cfg = q.cfg /\ start[q.start].edition >= q.edition
    /\ \/ start[q.start].shut
       \/ cur # 0 /\ sess[cur].client = q.start
       \/ reaping.client = q.start

Sound(q) == Past(q) /\ Waited(q) /\ Held(q)

Closing ==
  /\ cur <= used /\ told <= record.edition
  /\ closed => cur = 0
  /\ ~closed => reaping = Nothing
  /\ reaping.client <= used

Counted == IsFiniteSet(Users) /\ RefsCovered

(* The sessions and their startups. *)
Core == Closing /\ Wired /\ OneStartup /\ UpToDate /\ NoLeakedProcess /\ \A k \in Ids : Owned(k)

(* The inductive invariant. *)
IInv == TypeOK /\ Core /\ Counted /\ \A r \in Requests : Sound(req[r])

-----------------------------------------------------------------------------
(* The session goes on with the startups it had, or with one of now. *)
Continues ==
  \/ cur' = 0 \/ cur' > used
  \/ /\ cur' = cur /\ cur # 0 /\ sess'[cur].cfg = sess[cur].cfg
     /\ \A k \in {sess'[cur].client, sess'[cur].starting} \ {0} :
          \/ k \in {sess[cur].client, sess[cur].starting} /\ k <= used
          \/ start'[k].edition = record.edition

(* A client that is let go is shut or taken by Close. *)
ClientsKept ==
  \A k \in Ids :
    (cur # 0 /\ sess[cur].client = k) \/ reaping.client = k
      => \/ start'[k].shut
         \/ cur' # 0 /\ sess'[cur'].client = k
         \/ reaping'.client = k

StartupsKept ==
  \A k \in Ids : k <= used =>
    /\ start'[k].cfg = start[k].cfg /\ start'[k].edition = start[k].edition
    /\ start[k].shut => start'[k].shut

(* Which numbers the types make natural, for the comparisons below. *)
LEMMA Numbers ==
  ASSUME TypeOK
  PROVE  /\ cur \in Nat /\ used \in Nat /\ told \in Nat /\ record.edition \in Nat
         /\ \A r \in Requests : req[r] \in Request
         /\ \A k \in Ids : start[k] \in Startup /\ start[k].edition \in Nat /\ start[k].owner \in Nat
         /\ \A s \in Ids : sess[s] \in Session /\ sess[s].client \in Nat /\ sess[s].starting \in Nat
                           /\ sess[s].process \in Nat /\ sess[s].refs \in Nat
         /\ \A q \in Request : q.edition \in Nat /\ q.start \in 0..MaxStarts /\ q.sess \in 0..MaxStarts
         /\ reaping \in Holdings /\ reaping.client \in Nat /\ reaping.process \in Nat
         /\ cur # 0 => cur \in Ids
<1>1. cur \in Nat /\ used \in Nat /\ told \in Nat /\ record.edition \in Nat /\ (cur # 0 => cur \in Ids)
  BY MaxStartsAssumption, MaxEditionAssumption DEF TypeOK, Ids
<1>2. \A r \in Requests : req[r] \in Request
  BY DEF TypeOK
<1>3. \A k \in Ids : start[k] \in Startup
  BY DEF TypeOK
<1>4. \A u \in Startup : u.edition \in Nat /\ u.owner \in Nat
  BY MaxStartsAssumption, MaxEditionAssumption DEF Startup
<1>5. \A s \in Ids : sess[s] \in Session
  BY DEF TypeOK
<1>6. \A t \in Session : t.client \in Nat /\ t.starting \in Nat /\ t.process \in Nat /\ t.refs \in Nat
  BY MaxStartsAssumption DEF Session
<1>7. \A q \in Request : q.edition \in Nat /\ q.start \in 0..MaxStarts /\ q.sess \in 0..MaxStarts
  BY MaxEditionAssumption DEF Request
<1>8. reaping \in Holdings
  BY DEF TypeOK
<1>9. \A h \in Holdings : h.client \in Nat /\ h.process \in Nat
  BY MaxStartsAssumption DEF Holdings
<1> QED BY <1>1, <1>2, <1>3, <1>4, <1>5, <1>6, <1>7, <1>8, <1>9

(* What a request relies on outlasts every step that keeps startups, lets  *)
(* go of clients only when they are shut or Close has them, and continues  *)
(* or replaces the session.                                                *)
LEMMA SoundKept ==
  ASSUME TypeOK, Core, NEW q \in Request, Sound(q),
         used' \in Nat, used <= used', told' \in Nat, told <= told',
         StartupsKept, Continues, ClientsKept
  PROVE  Sound(q)'
<1>1. /\ q.edition \in Nat /\ q.start \in 0..MaxStarts /\ q.sess \in 0..MaxStarts
      /\ used \in Nat /\ told \in Nat /\ record.edition \in Nat /\ MaxStarts \in Nat
      /\ told <= record.edition
  BY Numbers, MaxStartsAssumption DEF Core, Closing
<1>2. Past(q)'
  BY <1>1 DEF Sound, Past
<1>3. q.pc = "using" => q.start \in Ids /\ q.start <= used
  BY <1>1 DEF Sound, Past, Ids
<1>4. Held(q)'
  BY <1>3 DEF Sound, Held, StartupsKept, ClientsKept
<1>5. Waited(q)'
  <2> SUFFICES ASSUME q.pc = "waiting", cur' # 0, q.sess = cur'
               PROVE  sess'[cur'].cfg = q.cfg /\ Since(q.edition)'
    BY DEF Waited
  <2>1. q.sess <= used /\ q.edition <= told
    BY DEF Sound, Past
  <2>2. /\ cur' = cur /\ cur # 0 /\ sess'[cur].cfg = sess[cur].cfg
        /\ \A k \in {sess'[cur].client, sess'[cur].starting} \ {0} :
             \/ k \in {sess[cur].client, sess[cur].starting} /\ k <= used
             \/ start'[k].edition = record.edition
    BY <1>1, <2>1 DEF Continues
  <2>3. sess[cur].cfg = q.cfg /\ Since(q.edition)
    BY <2>2 DEF Sound, Waited
  <2>4. ASSUME NEW k \in {sess'[cur].client, sess'[cur].starting} \ {0}
        PROVE  start'[k].edition >= q.edition
    <3>1. CASE k \in {sess[cur].client, sess[cur].starting} /\ k <= used
      <4>1. k \in Ids
        <5>1. cur \in Ids /\ sess[cur] \in Session
          BY <2>2, Numbers
        <5> QED BY <2>4, <3>1, <5>1 DEF Session, Ids
      <4> QED BY <2>3, <2>4, <3>1, <4>1 DEF Since, StartupsKept
    <3>2. CASE start'[k].edition = record.edition
      BY <1>1, <2>1, <3>2
    <3> QED BY <2>2, <2>4, <3>1, <3>2
  <2> QED BY <2>2, <2>3, <2>4 DEF Since
<1> QED BY <1>2, <1>4, <1>5 DEF Sound

(* The requests but r stay as they are. *)
LEMMA RequestsSound ==
  ASSUME TypeOK, Core, \A r \in Requests : Sound(req[r]),
         used' \in Nat, used <= used', told' \in Nat, told <= told',
         StartupsKept, Continues, ClientsKept,
         \/ req' = req
         \/ \E r \in Requests, q \in Request : req' = [req EXCEPT ![r] = q] /\ Sound(q)'
  PROVE  \A r \in Requests : Sound(req[r])'
<1>1. \A q \in Request : Sound(q) => Sound(q)'
  BY SoundKept
<1>2. \A r \in Requests : req[r] \in Request
  BY Numbers
<1>3. CASE req' = req
  BY <1>1, <1>2, <1>3
<1>4. ASSUME NEW r \in Requests, NEW q \in Request, req' = [req EXCEPT ![r] = q], Sound(q)'
      PROVE  \A x \in Requests : Sound(req[x])'
  <2>1. \A x \in Requests : req'[x] = IF x = r THEN q ELSE req[x]
    BY <1>4 DEF TypeOK
  <2> SUFFICES ASSUME NEW x \in Requests PROVE Sound(req[x])'
    OBVIOUS
  <2>2. CASE x = r
    BY <1>4, <2>1, <2>2
  <2>3. CASE x # r
    <3>1. PICK y \in Request : y = req[x] /\ y = req'[x]
      BY <1>2, <2>1, <2>3
    <3>2. Sound(y)'
      BY <1>1, <3>1
    <3> QED BY <3>1, <3>2
  <2> QED BY <2>2, <2>3
<1> QED BY <1>3, <1>4

(* References: a caller is counted at most once, and so is its release. *)
LEMMA UsersSame ==
  ASSUME TypeOK, Counted,
         \/ req' = req
         \/ \E r \in Requests, q \in Request :
              req' = [req EXCEPT ![r] = q] /\ q.pc # "using" /\ req[r].pc # "using",
         \/ cur' = 0
         \/ sess'[cur'].refs = 0
         \/ cur' = cur /\ sess'[cur].refs = sess[cur].refs
  PROVE  Counted'
<1>1. Users' = Users
  BY DEF Users, Using, TypeOK
<1>2. Cardinality(Users) \in Nat /\ IsFiniteSet(Users)
  BY FS_CardinalityType DEF Counted
<1>3. RefsCovered <=> (cur # 0 => sess[cur].refs <= Cardinality(Users))
  BY DEF RefsCovered, Users
<1>4. RefsCovered' <=> (cur' # 0 => sess'[cur'].refs <= Cardinality(Users))
  BY <1>1 DEF RefsCovered, Users
<1> QED BY <1>1, <1>2, <1>3, <1>4 DEF Counted

(* A reference that is counted has a new user, *)
LEMMA UserComes ==
  ASSUME TypeOK, Counted, NEW r \in Requests, NEW q \in Request,
         req' = [req EXCEPT ![r] = q], q.pc = "using", req[r].pc # "using",
         cur' = cur, cur # 0, sess'[cur].refs = sess[cur].refs + 1
  PROVE  Counted'
<1>1. Users' = Users \cup {r} /\ r \notin Users
  BY DEF Users, Using, TypeOK
<1>2. Cardinality(Users) \in Nat /\ IsFiniteSet(Users)
  BY FS_CardinalityType DEF Counted
<1>3. IsFiniteSet(Users \cup {r}) /\ Cardinality(Users \cup {r}) = Cardinality(Users) + 1
  BY <1>1, <1>2, FS_AddElement
<1>4. sess[cur].refs <= Cardinality(Users) /\ sess[cur].refs \in Nat
  BY Numbers DEF RefsCovered, Users, Counted
<1>5. RefsCovered' <=> (cur' # 0 => sess'[cur'].refs <= Cardinality(Users'))
  BY DEF RefsCovered, Users
<1> QED BY <1>1, <1>2, <1>3, <1>4, <1>5 DEF Counted

(* and a user that goes takes at most the one reference it may have. *)
LEMMA UserGoes ==
  ASSUME TypeOK, Counted, NEW r \in Requests, NEW q \in Request,
         req' = [req EXCEPT ![r] = q], q.pc # "using", req[r].pc = "using",
         \/ cur' = 0
         \/ cur' = cur /\ cur # 0 /\ sess'[cur].refs = 0
         \/ cur' = cur /\ cur # 0 /\ sess'[cur].refs = sess[cur].refs - 1
  PROVE  Counted'
<1>1. Users' = Users \ {r} /\ r \in Users
  BY DEF Users, Using, TypeOK
<1>2. Cardinality(Users) \in Nat /\ IsFiniteSet(Users)
  BY FS_CardinalityType DEF Counted
<1>3. IsFiniteSet(Users \ {r}) /\ Cardinality(Users \ {r}) = Cardinality(Users) - 1
  BY <1>1, <1>2, FS_RemoveElement
<1>4. Cardinality(Users \ {r}) \in Nat
  BY <1>3, FS_CardinalityType
<1>5. cur # 0 => sess[cur].refs <= Cardinality(Users) /\ sess[cur].refs \in Nat
  BY Numbers DEF RefsCovered, Users, Counted
<1>6. RefsCovered' <=> (cur' # 0 => sess'[cur'].refs <= Cardinality(Users'))
  BY DEF RefsCovered, Users
<1> QED BY <1>1, <1>2, <1>3, <1>4, <1>5, <1>6 DEF Counted

-----------------------------------------------------------------------------
(* A request that has been answered *)
LEMMA IdleRequest == Idle \in Request /\ Idle.pc = "idle" /\ Idle.sess = 0 /\ Idle.start = 0
<1>1. AnyConfig \in Configs
  BY ConfigsAssumption DEF AnyConfig
<1> QED BY <1>1, MaxStartsAssumption, MaxEditionAssumption DEF Idle, Request

(* relies on nothing. *)
LEMMA IdleSound ==
  ASSUME used' \in Nat
  PROVE  Sound(Idle)'
BY IdleRequest DEF Sound, Past, Waited, Held

(* The fields of the current session, as the proofs use them. *)
LEMMA CurrentStartups ==
  ASSUME TypeOK, Core, cur # 0
  PROVE  /\ cur \in Ids /\ cur <= used /\ sess[cur] \in Session
         /\ sess[cur].client <= used /\ sess[cur].starting <= used
         /\ sess[cur].client # 0 => sess[cur].client \in Ids
         /\ sess[cur].starting # 0 => sess[cur].starting \in Ids
         /\ ~closed /\ reaping = Nothing
<1>1. cur \in Ids /\ sess[cur] \in Session /\ MaxStarts \in Nat
  BY Numbers, MaxStartsAssumption
<1>2. sess[cur].client \in 0..MaxStarts /\ sess[cur].starting \in 0..MaxStarts
  BY <1>1 DEF Session
<1> QED BY <1>1, <1>2 DEF Core, Wired, Closing, Ids

(* A step of one request alone, which neither gets nor gives up a client. *)
LEMMA RequestOnly ==
  ASSUME IInv, NEW r \in Requests, NEW q \in Request, req' = [req EXCEPT ![r] = q],
         q.pc # "using", req[r].pc # "using", Sound(q),
         UNCHANGED <<cur, sess, start, used, closed, reaping, record, told>>
  PROVE  IInv'
<1>1. TypeOK'
  BY DEF IInv, TypeOK
<1>2. Core'
  BY DEF IInv, Core, Closing, Wired, OneStartup, UpToDate, Since, NoLeakedProcess, Owned, Starting, Alive
<1>3. Counted'
  BY UsersSame DEF IInv
<1>4. used' \in Nat /\ used <= used' /\ told' \in Nat /\ told <= told'
  BY Numbers DEF IInv
<1>5. StartupsKept /\ ClientsKept
  BY DEF StartupsKept, ClientsKept
<1>6. Continues
  BY CurrentStartups DEF IInv, Continues
<1>7. Sound(q)'
  BY <1>4, <1>5, <1>6, SoundKept DEF IInv
<1>8. \A x \in Requests : Sound(req[x])'
  BY <1>4, <1>5, <1>6, <1>7, RequestsSound DEF IInv
<1> QED BY <1>1, <1>2, <1>3, <1>8 DEF IInv

(* Such a request may be answered with an error at any time. *)
LEMMA AnswerOnly ==
  ASSUME IInv, NEW r \in Requests, Answer(r), req[r].pc # "using",
         UNCHANGED <<cur, sess, start, used, closed, reaping, record, told>>
  PROVE  IInv'
<1>1. Sound(Idle)
  BY IdleRequest, Numbers DEF IInv, Sound, Past, Waited, Held
<1> QED BY <1>1, IdleRequest, RequestOnly DEF Answer

(* A request notes what the record and the last Invalidate are now. *)
LEMMA CallStep ==
  ASSUME IInv, NEW r \in Requests, Call(r)
  PROVE  IInv'
<1>1. PICK me \in Request : me = req[r] /\ Sound(me)
  BY Numbers DEF IInv
<1> DEFINE q == [me EXCEPT !.pc = "calling", !.cfg = record.cfg, !.edition = told]
<1>2. req' = [req EXCEPT ![r] = q]
  BY <1>1 DEF Call, IInv, TypeOK
<1>3. record.cfg \in Configs /\ told \in 0..MaxEdition /\ told \in Nat
  BY MaxEditionAssumption DEF IInv, TypeOK
<1>4. q \in Request /\ q.pc = "calling" /\ q.edition = told /\ q.sess = me.sess /\ q.start = me.start
  BY <1>3 DEF Request
<1> HIDE DEF q
<1>5. Sound(q)
  BY <1>1, <1>3, <1>4 DEF Sound, Past, Waited, Held
<1> QED BY <1>2, <1>4, <1>5, RequestOnly DEF Call, daemon

(* It joins a startup of the current session, of its configuration and not *)
(* stale.                                                                  *)
LEMMA JoinStep ==
  ASSUME IInv, NEW r \in Requests, ClientJoin(r)
  PROVE  IInv'
<1>1. PICK me \in Request : me = req[r] /\ Sound(me)
  BY Numbers DEF IInv
<1>2. /\ me.pc = "calling" /\ cur # 0 /\ ~sess[cur].stale /\ sess[cur].cfg = me.cfg
      /\ sess[cur].client = 0 /\ sess[cur].starting # 0
  BY <1>1 DEF ClientJoin, Calling, Usable, Outdated
<1>3. cur \in Ids /\ cur <= used /\ sess[cur].starting \in Ids /\ sess[cur].starting <= used
  BY <1>2, CurrentStartups DEF IInv
<1> DEFINE q == [me EXCEPT !.pc = "waiting", !.sess = cur, !.start = sess[cur].starting]
<1>4. req' = [req EXCEPT ![r] = q]
  BY <1>1 DEF ClientJoin, Await, IInv, TypeOK
<1>5. /\ q \in Request /\ q.pc = "waiting" /\ q.edition = me.edition /\ q.cfg = me.cfg
      /\ q.sess = cur /\ q.start = sess[cur].starting
  <2>1. cur \in 0..MaxStarts /\ sess[cur].starting \in 0..MaxStarts
    BY <1>3, MaxStartsAssumption DEF Ids
  <2> QED BY <2>1 DEF Request
<1> HIDE DEF q
<1>6. Past(q) /\ Held(q)
  BY <1>1, <1>2, <1>3, <1>5 DEF Sound, Past, Held
<1>7. Since(q.edition)
  <2>1. Since(told)
    BY <1>2 DEF IInv, Core, UpToDate
  <2>2. q.edition <= told /\ q.edition \in Nat /\ told \in Nat
    BY <1>1, <1>2, <1>5, Numbers DEF Sound, Past, IInv
  <2>3. start[sess[cur].starting].edition \in Nat
    BY <1>3, Numbers DEF IInv
  <2> QED BY <1>2, <2>1, <2>2, <2>3 DEF Since
<1>8. Sound(q)
  BY <1>2, <1>5, <1>6, <1>7 DEF Sound, Waited
<1> QED BY <1>1, <1>2, <1>4, <1>5, <1>8, RequestOnly DEF ClientJoin, daemon

-----------------------------------------------------------------------------
(* A session is touched that keeps its startups. *)
LEMMA SessionTouched ==
  ASSUME TypeOK, Core, NEW s \in Ids, NEW t \in Session, sess' = [sess EXCEPT ![s] = t],
         t.client = sess[s].client, t.process = sess[s].process,
         t.starting = sess[s].starting, t.cfg = sess[s].cfg, sess[s].stale => t.stale,
         UNCHANGED <<cur, start, used, closed, reaping, record>>,
         told' = told \/ (told' = record.edition /\ s = cur /\ t.stale)
  PROVE  /\ Core' /\ StartupsKept /\ Continues /\ ClientsKept
         /\ used' \in Nat /\ used <= used' /\ told' \in Nat /\ told <= told'
         /\ sess' \in [Ids -> Session]
<1>1. \A x \in Ids : sess'[x] = IF x = s THEN t ELSE sess[x]
  BY DEF TypeOK
<1>2. used \in Nat /\ told \in Nat /\ record.edition \in Nat /\ told <= record.edition
  BY Numbers DEF Core, Closing
<1>3. /\ StartupsKept /\ used' \in Nat /\ used <= used' /\ told' \in Nat /\ told <= told'
      /\ sess' \in [Ids -> Session]
  BY <1>2 DEF StartupsKept, TypeOK
<1>4. cur # 0 => /\ cur \in Ids /\ sess'[cur].client = sess[cur].client
                 /\ sess'[cur].process = sess[cur].process
                 /\ sess'[cur].starting = sess[cur].starting /\ sess'[cur].cfg = sess[cur].cfg
                 /\ sess[cur].stale => sess'[cur].stale
                 /\ told' # told => sess'[cur].stale
  BY <1>1, CurrentStartups
<1>5. Continues /\ ClientsKept
  BY <1>4, CurrentStartups DEF Continues, ClientsKept
<1>6. Closing' /\ Wired' /\ OneStartup'
  BY <1>2, <1>4 DEF Core, Closing, Wired, OneStartup, Starting
<1>7. UpToDate'
  <2> SUFFICES ASSUME cur # 0, ~sess'[cur].stale PROVE Since(told)'
    BY DEF UpToDate
  <2>1. told' = told /\ ~sess[cur].stale
    BY <1>4
  <2>2. Since(told)
    BY <2>1 DEF Core, UpToDate
  <2> QED BY <1>4, <2>1, <2>2 DEF Since
<1>8. NoLeakedProcess' /\ \A k \in Ids : Owned(k)'
  BY <1>4 DEF Core, NoLeakedProcess, Owned, Alive
<1> QED BY <1>3, <1>5, <1>6, <1>7, <1>8 DEF Core

(* The session leaves the map and what it holds is torn down. *)
LEMMA TornDown ==
  ASSUME TypeOK, NEW h, start' = TearDown(h)
  PROVE  /\ start' \in [Ids -> Startup]
         /\ \A k \in Ids :
              /\ start'[k].owner = start[k].owner /\ start'[k].pc = start[k].pc
              /\ start'[k].cfg = start[k].cfg /\ start'[k].edition = start[k].edition
              /\ start'[k].watched = start[k].watched
              /\ (start[k].shut \/ k = h.client) => start'[k].shut
              /\ start[k].proc = "none" => start'[k].proc = "none"
              /\ start'[k].proc = "alive" => start[k].proc = "alive" /\ k # h.process
<1> DEFINE u(k) == [start[k] EXCEPT !.shut = @ \/ k = h.client,
                      !.proc = IF k = h.process /\ @ = "alive" THEN "killed" ELSE @,
                      !.cancelled = @ \/ k = h.cancel]
<1>1. start' = [k \in Ids |-> u(k)]
  BY DEF TearDown, TearDownOf
<1>2. ASSUME NEW k \in Ids
      PROVE  /\ u(k) \in Startup
             /\ u(k).owner = start[k].owner /\ u(k).pc = start[k].pc
             /\ u(k).cfg = start[k].cfg /\ u(k).edition = start[k].edition
             /\ u(k).watched = start[k].watched
             /\ (start[k].shut \/ k = h.client) => u(k).shut
             /\ start[k].proc = "none" => u(k).proc = "none"
             /\ u(k).proc = "alive" => start[k].proc = "alive" /\ k # h.process
  <2>1. start[k] \in Startup
    BY DEF TypeOK
  <2> QED BY <2>1 DEF Startup
<1> HIDE DEF u
<1> QED BY <1>1, <1>2

(* A retired session leaves the map, and what it had is shut or cancelled. *)
LEMMA Retired ==
  ASSUME TypeOK, Core, cur # 0, cur' = 0, start' = TearDown(sess[cur]),
         UNCHANGED <<used, closed, reaping, record>>, told' \in {told, record.edition}
  PROVE  /\ Core' /\ StartupsKept /\ Continues /\ ClientsKept /\ start' \in [Ids -> Startup]
         /\ used' \in Nat /\ used <= used' /\ told' \in Nat /\ told <= told'
<1>1. used \in Nat /\ told \in Nat /\ record.edition \in Nat /\ told <= record.edition
  BY Numbers DEF Core, Closing
<1>2. reaping = Nothing /\ reaping.client = 0 /\ reaping.process = 0
  BY CurrentStartups DEF Nothing
<1>3. StartupsKept /\ Continues /\ ClientsKept
  <2>1. StartupsKept
    BY TornDown DEF StartupsKept
  <2>2. ClientsKept
    BY <1>2, TornDown DEF ClientsKept, Ids
  <2> QED BY <2>1, <2>2 DEF Continues
<1>4. Closing' /\ Wired' /\ OneStartup' /\ UpToDate'
  BY <1>1 DEF Core, Closing, Wired, OneStartup, UpToDate
<1>5. \A k \in Ids : Owned(k)'
  BY TornDown DEF Core, Owned
<1>6. NoLeakedProcess'
  BY <1>2, TornDown DEF Core, NoLeakedProcess, Alive
<1> QED BY <1>1, <1>3, <1>4, <1>5, <1>6, TornDown DEF Core

(* One session is touched and no request moves. *)
LEMMA TouchStep ==
  ASSUME IInv, NEW s \in Ids, NEW t \in Session, sess' = [sess EXCEPT ![s] = t],
         t.client = sess[s].client, t.process = sess[s].process, t.starting = sess[s].starting,
         t.cfg = sess[s].cfg, t.refs = sess[s].refs, sess[s].stale => t.stale,
         UNCHANGED <<cur, start, used, req, closed, reaping, record>>,
         told' = told \/ (told' = record.edition /\ s = cur /\ t.stale)
  PROVE  IInv'
<1>1. /\ Core' /\ StartupsKept /\ Continues /\ ClientsKept
      /\ used' \in Nat /\ used <= used' /\ told' \in Nat /\ told <= told'
      /\ sess' \in [Ids -> Session]
  BY SessionTouched DEF IInv
<1>2. TypeOK'
  <2>1. told' \in 0..MaxEdition
    BY DEF IInv, TypeOK
  <2> QED BY <1>1, <2>1 DEF IInv, TypeOK
<1>3. Counted'
  <2>1. cur' = 0 \/ (cur' = cur /\ sess'[cur].refs = sess[cur].refs)
    BY Numbers DEF IInv, TypeOK
  <2> QED BY <2>1, UsersSame DEF IInv
<1>4. \A r \in Requests : Sound(req[r])'
  BY <1>1, RequestsSound DEF IInv
<1> QED BY <1>1, <1>2, <1>3, <1>4 DEF IInv

(* An outdated session in use is only marked stale; the request fails. *)
LEMMA BusyStep ==
  ASSUME IInv, NEW r \in Requests, ClientBusy(r)
  PROVE  IInv'
<1>1. cur # 0 /\ cur \in Ids /\ sess[cur] \in Session
  BY CurrentStartups DEF ClientBusy, Outdated, IInv
<1>2. PICK t \in Session :
        /\ t = [sess[cur] EXCEPT !.stale = TRUE] /\ t.client = sess[cur].client
        /\ t.process = sess[cur].process /\ t.starting = sess[cur].starting
        /\ t.cfg = sess[cur].cfg /\ t.refs = sess[cur].refs /\ t.stale
  <2> DEFINE t == [sess[cur] EXCEPT !.stale = TRUE]
  <2>1. /\ t \in Session /\ t.client = sess[cur].client
        /\ t.process = sess[cur].process /\ t.starting = sess[cur].starting
        /\ t.cfg = sess[cur].cfg /\ t.refs = sess[cur].refs /\ t.stale
    BY <1>1 DEF Session
  <2> QED BY <2>1
<1>3. /\ sess' = [sess EXCEPT ![cur] = t] /\ Answer(r) /\ req[r].pc = "calling"
      /\ UNCHANGED <<cur, start, used, closed, reaping, record, told>>
  BY <1>1, <1>2 DEF ClientBusy, Calling, daemon, IInv, TypeOK
<1>4. /\ Core' /\ StartupsKept /\ Continues /\ ClientsKept
      /\ used' \in Nat /\ used <= used' /\ told' \in Nat /\ told <= told'
      /\ sess' \in [Ids -> Session]
  BY <1>1, <1>2, <1>3, SessionTouched DEF IInv
<1>5. req' = [req EXCEPT ![r] = Idle] /\ Idle \in Request /\ Idle.pc # "using" /\ Sound(Idle)'
  BY <1>3, <1>4, IdleRequest, IdleSound DEF Answer
<1>6. TypeOK'
  BY <1>3, <1>4, <1>5 DEF IInv, TypeOK
<1>7. Counted'
  <2>1. cur' = cur /\ sess'[cur].refs = sess[cur].refs
    BY <1>1, <1>2, <1>3 DEF IInv, TypeOK
  <2> QED BY <1>3, <1>5, <2>1, UsersSame DEF IInv
<1>8. \A x \in Requests : Sound(req[x])'
  BY <1>4, <1>5, RequestsSound DEF IInv
<1> QED BY <1>4, <1>6, <1>7, <1>8 DEF IInv

(* A session that has left the map is still a session. *)
LEMMA DetachedSession ==
  ASSUME TypeOK, NEW s \in Ids
  PROVE  /\ Detach(s) \in Session /\ Detach(s).stops = sess[s].stops
         /\ [Detach(s) EXCEPT !.starting = 0] \in Session
         /\ \A n \in Nat : [Detach(s) EXCEPT !.stops = n] \in Session
<1>1. AnyConfig \in Configs /\ 0 \in 0..MaxStarts
  BY ConfigsAssumption, MaxStartsAssumption DEF AnyConfig
<1>2. NoSession \in Session
  BY <1>1 DEF NoSession, NewSession, Session
<1>3. sess[s].starting \in 0..MaxStarts /\ sess[s].stops \in Nat
  BY DEF TypeOK, Session
<1>4. PICK x \in Session : x = NoSession
  BY <1>2
<1>5. [x EXCEPT !.starting = sess[s].starting, !.stops = sess[s].stops] \in Session
  BY <1>3 DEF Session
<1>6. Detach(s) \in Session
  BY <1>4, <1>5 DEF Detach
<1>7. Detach(s).stops = sess[s].stops
  BY <1>4 DEF Detach, Session
<1>8. PICK y \in Session : y = Detach(s)
  BY <1>6
<1>9. /\ [y EXCEPT !.starting = 0] \in Session
      /\ \A n \in Nat : [y EXCEPT !.stops = n] \in Session
  BY <1>1 DEF Session
<1> QED BY <1>6, <1>7, <1>8, <1>9

(* Whoever retires the session. *)
LEMMA RetireStep ==
  ASSUME IInv, cur # 0, cur' = 0, start' = TearDown(sess[cur]),
         NEW t \in Session, sess' = [sess EXCEPT ![cur] = t],
         UNCHANGED <<used, closed, reaping, record>>, told' \in {told, record.edition},
         \/ req' = req
         \/ \E r \in Requests : req' = [req EXCEPT ![r] = Idle]
  PROVE  IInv'
<1>1. /\ Core' /\ StartupsKept /\ Continues /\ ClientsKept /\ start' \in [Ids -> Startup]
      /\ used' \in Nat /\ used <= used' /\ told' \in Nat /\ told <= told'
  BY Retired DEF IInv
<1>2. Idle \in Request /\ Idle.pc # "using" /\ Sound(Idle)'
  BY <1>1, IdleRequest, IdleSound
<1>3. TypeOK'
  <2>1. sess' \in [Ids -> Session] /\ req' \in [Requests -> Request]
    BY <1>2 DEF IInv, TypeOK
  <2>2. cur' \in 0..MaxStarts /\ told' \in 0..MaxEdition
    BY MaxStartsAssumption DEF IInv, TypeOK
  <2> QED BY <1>1, <2>1, <2>2 DEF IInv, TypeOK
<1>4. Counted'
  <2>1. CASE req' = req
    BY <2>1, UsersSame DEF IInv
  <2>2. ASSUME NEW r \in Requests, req' = [req EXCEPT ![r] = Idle] PROVE Counted'
    BY <1>2, <2>2, UsersSame, UserGoes DEF IInv
  <2> QED BY <2>1, <2>2
<1>5. \A x \in Requests : Sound(req[x])'
  BY <1>1, <1>2, RequestsSound DEF IInv
<1> QED BY <1>1, <1>3, <1>4, <1>5 DEF IInv

(* A request is given the client of the current session, which has the     *)
(* configuration and the edition it asked for.                             *)
LEMMA GiveStep ==
  ASSUME IInv, NEW r \in Requests, Give(r, cur), req[r].pc \in {"calling", "waiting"},
         cur # 0, sess[cur].client # 0,
         sess[cur].cfg = req[r].cfg, Since(req[r].edition),
         UNCHANGED <<cur, start, used, closed, reaping, record, told>>
  PROVE  IInv'
<1>1. /\ cur \in Ids /\ sess[cur] \in Session /\ cur <= used
      /\ sess[cur].client \in Ids /\ sess[cur].client <= used
  BY CurrentStartups DEF IInv
<1>2. PICK me \in Request : me = req[r] /\ Sound(me)
  BY Numbers DEF IInv
<1>3. PICK t \in Session :
        /\ t = Claimed(cur) /\ t.client = sess[cur].client
        /\ t.process = sess[cur].process /\ t.starting = sess[cur].starting
        /\ t.cfg = sess[cur].cfg /\ t.refs = sess[cur].refs + 1 /\ t.stale = sess[cur].stale
  <2> DEFINE t == [sess[cur] EXCEPT !.timer = "nil", !.refs = @ + 1]
  <2>1. sess[cur].refs \in Nat
    BY <1>1 DEF Session
  <2>2. sess[cur].refs + 1 \in Nat
    BY <2>1
  <2>3. /\ t \in Session /\ t.client = sess[cur].client
        /\ t.process = sess[cur].process /\ t.starting = sess[cur].starting
        /\ t.cfg = sess[cur].cfg /\ t.refs = sess[cur].refs + 1 /\ t.stale = sess[cur].stale
    BY <1>1, <2>2 DEF Session
  <2> QED BY <2>3 DEF Claimed
<1>4. sess' = [sess EXCEPT ![cur] = t]
  BY <1>3 DEF Give
<1>5. /\ Core' /\ StartupsKept /\ Continues /\ ClientsKept
      /\ used' \in Nat /\ used <= used' /\ told' \in Nat /\ told <= told'
      /\ sess' \in [Ids -> Session]
  BY <1>1, <1>3, <1>4, SessionTouched DEF IInv
<1>6. PICK c : c = sess[cur].client
  OBVIOUS
<1>7. PICK s : s = cur
  OBVIOUS
<1> DEFINE q == [me EXCEPT !.pc = "using", !.sess = s, !.start = c]
<1>8. req' = [req EXCEPT ![r] = q]
  BY <1>2, <1>6, <1>7 DEF Give, IInv, TypeOK
<1>9. /\ q \in Request /\ q.pc = "using" /\ q.sess = cur /\ q.start = sess[cur].client
      /\ q.cfg = me.cfg /\ q.edition = me.edition
  <2>1. s \in 0..MaxStarts /\ c \in 0..MaxStarts
    BY <1>1, <1>6, <1>7, MaxStartsAssumption DEF Ids
  <2> QED BY <1>6, <1>7, <2>1 DEF Request
<1> HIDE DEF q
<1>10. Sound(q)'
  <2>1. Past(q)'
    BY <1>1, <1>2, <1>9 DEF Sound, Past
  <2>2. start[q.start].cfg = q.cfg
    BY <1>2, <1>9 DEF IInv, Core, Wired
  <2>3. start[q.start].edition >= q.edition
    BY <1>2, <1>9 DEF Since
  <2>4. sess'[cur].client = q.start
    BY <1>1, <1>3, <1>4, <1>9 DEF IInv, TypeOK
  <2>5. Held(q)'
    BY <2>2, <2>3, <2>4 DEF Held
  <2> QED BY <1>9, <2>1, <2>5 DEF Sound, Waited
<1>11. TypeOK'
  BY <1>5, <1>8, <1>9 DEF IInv, TypeOK
<1>12. Counted'
  <2>1. sess'[cur].refs = sess[cur].refs + 1
    BY <1>1, <1>3, <1>4 DEF IInv, TypeOK
  <2> QED BY <1>8, <1>9, <2>1, UserComes DEF IInv
<1>13. \A x \in Requests : Sound(req[x])'
  BY <1>5, <1>8, <1>9, <1>10, RequestsSound DEF IInv
<1> QED BY <1>5, <1>11, <1>12, <1>13 DEF IInv

(* It shares the client of a session of its configuration, *)
LEMMA ShareStep ==
  ASSUME IInv, NEW r \in Requests, ClientShare(r)
  PROVE  IInv'
<1>1. /\ req[r].pc = "calling" /\ cur # 0 /\ ~sess[cur].stale /\ sess[cur].cfg = req[r].cfg
      /\ sess[cur].client # 0 /\ Give(r, cur)
      /\ UNCHANGED <<cur, start, used, closed, reaping, record, told>>
  BY DEF ClientShare, Calling, Usable, Outdated, daemon
<1>2. Since(req[r].edition)
  <2>1. Since(told)
    BY <1>1 DEF IInv, Core, UpToDate
  <2>2. req[r].edition <= told /\ req[r].edition \in Nat /\ told \in Nat
    BY <1>1, Numbers DEF IInv, Sound, Past
  <2>3. \A k \in {sess[cur].client, sess[cur].starting} \ {0} : start[k].edition \in Nat
    BY <1>1, CurrentStartups, Numbers DEF IInv
  <2> QED BY <2>1, <2>2, <2>3 DEF Since
<1> QED BY <1>1, <1>2, GiveStep

(* or claims the one it has waited for. *)
LEMMA ClaimStep ==
  ASSUME IInv, NEW r \in Requests, WaitClaim(r)
  PROVE  IInv'
<1>1. /\ req[r].pc = "waiting" /\ cur = req[r].sess /\ sess[cur].client # 0 /\ Give(r, cur)
      /\ UNCHANGED <<cur, start, used, closed, reaping, record, told>>
  BY DEF WaitClaim, daemon
<1>2. cur # 0
  BY <1>1 DEF IInv, Sound, Past
<1>3. sess[cur].cfg = req[r].cfg /\ Since(req[r].edition)
  BY <1>1, <1>2 DEF IInv, Sound, Waited
<1> QED BY <1>1, <1>2, <1>3, GiveStep

(* Release gives up one reference of the session that is current now,      *)
(* which need not be the one the request has used.                         *)
LEMMA ReleaseStep ==
  ASSUME IInv, NEW r \in Requests, Release(r)
  PROVE  IInv'
<1>1. /\ req[r].pc = "using" /\ req' = [req EXCEPT ![r] = Idle]
      /\ UNCHANGED <<used, closed, reaping, record, told>>
  BY DEF Release, ReleaseUnless, Answer, daemon
<1>2. Idle \in Request /\ Idle.pc # "using" /\ used \in Nat /\ told \in Nat
  BY IdleRequest, Numbers DEF IInv
<1>3. CASE (cur = 0 \/ sess[cur].refs = 0) /\ UNCHANGED <<cur, sess, start>>
  <2>1. TypeOK'
    BY <1>1, <1>2, <1>3 DEF IInv, TypeOK
  <2>2. Core'
    BY <1>1, <1>3
       DEF IInv, Core, Closing, Wired, OneStartup, UpToDate, Since, NoLeakedProcess, Owned, Starting, Alive
  <2>3. Counted'
    BY <1>1, <1>2, <1>3, UserGoes DEF IInv
  <2>4. StartupsKept /\ ClientsKept /\ Continues
    BY <1>1, <1>3, CurrentStartups DEF IInv, StartupsKept, ClientsKept, Continues
  <2>5. used' \in Nat /\ used <= used' /\ told' \in Nat /\ told <= told'
    BY <1>1, <1>2
  <2>6. Sound(Idle)'
    BY <2>5, IdleSound
  <2>7. \A x \in Requests : Sound(req[x])'
    BY <1>1, <1>2, <2>4, <2>5, <2>6, RequestsSound DEF IInv
  <2> QED BY <2>1, <2>2, <2>3, <2>7 DEF IInv
<1>4. CASE cur # 0 /\ retireLocked(cur)
  <2>1. cur \in Ids
    BY <1>4, CurrentStartups DEF IInv
  <2>2. Detach(cur) \in Session
    BY <2>1, DetachedSession DEF IInv
  <2> QED BY <1>1, <1>4, <2>2, RetireStep DEF retireLocked
<1>5. CASE /\ cur # 0 /\ sess[cur].refs # 0 /\ UNCHANGED <<cur, start>>
           /\ sess' = [sess EXCEPT ![cur].refs = @ - 1,
                         ![cur].timer = IF sess[cur].refs = 1 THEN scheduleIdleLocked(@) ELSE @]
  <2>1. cur \in Ids /\ sess[cur] \in Session
    BY <1>5, CurrentStartups DEF IInv
  <2>2. PICK v \in {"nil", "armed", "spent"} :
          v = IF sess[cur].refs = 1 THEN scheduleIdleLocked(sess[cur].timer) ELSE sess[cur].timer
    BY <2>1 DEF scheduleIdleLocked, Session
  <2>3. PICK t \in Session :
          /\ t = [sess[cur] EXCEPT !.refs = @ - 1, !.timer = v] /\ t.client = sess[cur].client
          /\ t.process = sess[cur].process /\ t.starting = sess[cur].starting
          /\ t.cfg = sess[cur].cfg /\ t.refs = sess[cur].refs - 1 /\ t.stale = sess[cur].stale
    <3> DEFINE t == [sess[cur] EXCEPT !.refs = @ - 1, !.timer = v]
    <3>1. sess[cur].refs \in Nat
      BY <2>1 DEF Session
    <3>2. sess[cur].refs - 1 \in Nat
      BY <1>5, <3>1
    <3>3. /\ t \in Session /\ t.client = sess[cur].client
          /\ t.process = sess[cur].process /\ t.starting = sess[cur].starting
          /\ t.cfg = sess[cur].cfg /\ t.refs = sess[cur].refs - 1 /\ t.stale = sess[cur].stale
      BY <2>1, <3>2 DEF Session
    <3> QED BY <3>3
  <2>4. sess' = [sess EXCEPT ![cur] = t]
    BY <1>5, <2>1, <2>2, <2>3 DEF IInv, TypeOK
  <2>5. /\ Core' /\ StartupsKept /\ Continues /\ ClientsKept
        /\ used' \in Nat /\ used <= used' /\ told' \in Nat /\ told <= told'
        /\ sess' \in [Ids -> Session]
    <3>1. /\ UNCHANGED <<cur, start, used, closed, reaping, record>> /\ told' = told
          /\ sess[cur].stale => t.stale
      BY <1>1, <1>5, <2>3
    <3>2. /\ t.client = sess[cur].client /\ t.process = sess[cur].process
          /\ t.starting = sess[cur].starting /\ t.cfg = sess[cur].cfg
      BY <2>3
    <3> QED BY <2>1, <2>4, <3>1, <3>2, SessionTouched DEF IInv
  <2>6. TypeOK'
    BY <1>1, <1>2, <1>5, <2>5 DEF IInv, TypeOK
  <2>7. Counted'
    <3>1. sess'[cur].refs = sess[cur].refs - 1
      BY <2>1, <2>3, <2>4 DEF IInv, TypeOK
    <3> QED BY <1>1, <1>2, <1>5, <3>1, UserGoes DEF IInv
  <2>8. Sound(Idle)'
    BY <2>5, IdleSound
  <2>9. \A x \in Requests : Sound(req[x])'
    BY <1>1, <1>2, <2>5, <2>8, RequestsSound DEF IInv
  <2> QED BY <2>5, <2>6, <2>7, <2>9 DEF IInv
<1> QED BY <1>3, <1>4, <1>5 DEF Release, ReleaseUnless

(* The end of a back-off, the idle timer, and the stop it leads to. *)
LEMMA TimerSteps ==
  ASSUME IInv, NEW s \in Ids, BackoffElapses(s) \/ IdleFires(s) \/ stop(s)
  PROVE  IInv'
<1>1. sess[s] \in Session /\ sess[s].stops \in Nat
  BY DEF IInv, TypeOK, Session
<1>2. ASSUME NEW b \in BOOLEAN, NEW v \in {"nil", "armed", "spent"}, NEW n \in Nat,
             sess' = [sess EXCEPT ![s] = [sess[s] EXCEPT !.backoff = b, !.timer = v, !.stops = n]],
             UNCHANGED <<cur, start, used, req, closed, reaping, record, told>>
      PROVE  IInv'
  <2> DEFINE t == [sess[s] EXCEPT !.backoff = b, !.timer = v, !.stops = n]
  <2>1. /\ t \in Session /\ t.client = sess[s].client
        /\ t.process = sess[s].process /\ t.starting = sess[s].starting
        /\ t.cfg = sess[s].cfg /\ t.refs = sess[s].refs /\ t.stale = sess[s].stale
    BY <1>1 DEF Session
  <2>2. sess' = [sess EXCEPT ![s] = t]
    BY <1>2
  <2> HIDE DEF t
  <2> QED BY <1>2, <2>1, <2>2, TouchStep
<1>3. CASE BackoffElapses(s)
  <2>1. sess' = [sess EXCEPT ![s] = [sess[s] EXCEPT !.backoff = FALSE, !.timer = @, !.stops = @]]
    BY <1>1, <1>3 DEF BackoffElapses, Session, IInv, TypeOK
  <2>2. sess[s].timer \in {"nil", "armed", "spent"}
    BY <1>1 DEF Session
  <2> QED BY <1>1, <1>2, <1>3, <2>1, <2>2 DEF BackoffElapses, daemon
<1>4. CASE IdleFires(s)
  <2>1. sess' = [sess EXCEPT ![s] = [sess[s] EXCEPT !.backoff = @, !.timer = "spent", !.stops = @ + 1]]
    BY <1>1, <1>4 DEF IdleFires, Session, IInv, TypeOK
  <2>2. sess[s].backoff \in BOOLEAN /\ sess[s].stops + 1 \in Nat
    BY <1>1 DEF Session
  <2> QED BY <1>2, <1>4, <2>1, <2>2 DEF IdleFires, daemon
<1>5. CASE stop(s) /\ (cur # s \/ sess[s].refs # 0)
  <2>1. sess' = [sess EXCEPT ![s] = [sess[s] EXCEPT !.backoff = @, !.timer = @, !.stops = @ - 1]]
    BY <1>1, <1>5 DEF stop, Session, IInv, TypeOK
  <2>2. sess[s].backoff \in BOOLEAN /\ sess[s].timer \in {"nil", "armed", "spent"}
    BY <1>1 DEF Session
  <2>3. sess[s].stops - 1 \in Nat
    BY <1>1, <1>5 DEF stop
  <2> QED BY <1>2, <1>5, <2>1, <2>2, <2>3 DEF stop, daemon
<1>6. CASE stop(s) /\ ~(cur # s \/ sess[s].refs # 0)
  <2>1. cur = s /\ cur # 0
    BY <1>6 DEF Ids
  <2>2. sess[s].stops - 1 \in Nat
    BY <1>1, <1>6 DEF stop
  <2>3. PICK t \in Session : t = [Detach(s) EXCEPT !.stops = @ - 1]
    BY <2>2, DetachedSession DEF IInv
  <2> QED BY <1>6, <2>1, <2>3, RetireStep DEF stop, daemon
<1> QED BY <1>3, <1>4, <1>5, <1>6

(* Client retires a session it cannot use and calls again. *)
LEMMA ClientRetireStep ==
  ASSUME IInv, NEW r \in Requests, ClientRetire(r)
  PROVE  IInv'
<1>1. cur # 0 /\ retireLocked(cur) /\ UNCHANGED <<used, req, closed, reaping, record, told>>
  BY DEF ClientRetire, Outdated, daemon
<1>2. Detach(cur) \in Session
  BY <1>1, CurrentStartups, DetachedSession DEF IInv
<1> QED BY <1>1, <1>2, RetireStep DEF retireLocked

(* The record changes before Invalidate says so. *)
LEMMA RecordStep ==
  ASSUME IInv, RecordChanges
  PROVE  IInv'
<1>1. UNCHANGED <<cur, sess, start, used, req, closed, reaping, told>>
  BY DEF RecordChanges
<1>2. PICK c \in Configs : record' = [cfg |-> c, edition |-> record.edition + 1]
  BY DEF RecordChanges
<1>3. record.edition \in 0..MaxEdition /\ record.edition < MaxEdition
  BY DEF RecordChanges, IInv, TypeOK
<1>4. record' \in [cfg : Configs, edition : 0..MaxEdition] /\ record.edition <= record'.edition
      /\ record'.edition \in Nat
  BY <1>2, <1>3, MaxEditionAssumption
<1>5. TypeOK'
  BY <1>1, <1>4 DEF IInv, TypeOK
<1>6. Core'
  <2>1. Closing'
    BY <1>1, <1>4, Numbers DEF IInv, Core, Closing
  <2>2. Wired' /\ OneStartup' /\ UpToDate' /\ NoLeakedProcess' /\ \A k \in Ids : Owned(k)'
    BY <1>1 DEF IInv, Core, Wired, OneStartup, UpToDate, Since, NoLeakedProcess, Owned, Starting, Alive
  <2> QED BY <2>1, <2>2 DEF Core
<1>7. Counted'
  BY <1>1, UsersSame DEF IInv
<1>8. \A x \in Requests : Sound(req[x])'
  BY <1>1 DEF IInv, Sound, Past, Waited, Since, Held
<1> QED BY <1>5, <1>6, <1>7, <1>8 DEF IInv

(* Invalidate retires a session, or marks it stale while it is in use. *)
LEMMA InvalidateStep ==
  ASSUME IInv, Invalidate
  PROVE  IInv'
<1>1. /\ told' = record.edition /\ told <= record.edition
      /\ UNCHANGED <<used, req, closed, reaping, record>>
  BY DEF Invalidate, IInv, Core, Closing
<1>2. /\ used \in Nat /\ told \in Nat /\ record.edition \in Nat
      /\ told' \in 0..MaxEdition
  BY <1>1, Numbers DEF IInv, TypeOK
<1>3. CASE cur = 0 /\ UNCHANGED <<cur, sess, start>>
  <2>1. TypeOK'
    BY <1>1, <1>2, <1>3 DEF IInv, TypeOK
  <2>2. Core'
    BY <1>1, <1>2, <1>3
       DEF IInv, Core, Closing, Wired, OneStartup, UpToDate, NoLeakedProcess, Owned, Alive
  <2>3. Counted'
    BY <1>1, <1>3, UsersSame DEF IInv
  <2>4. StartupsKept /\ ClientsKept /\ Continues
    BY <1>1, <1>3 DEF StartupsKept, ClientsKept, Continues
  <2>5. used' \in Nat /\ used <= used' /\ told' \in Nat /\ told <= told'
    BY <1>1, <1>2
  <2>6. \A x \in Requests : Sound(req[x])'
    BY <1>1, <2>4, <2>5, RequestsSound DEF IInv
  <2> QED BY <2>1, <2>2, <2>3, <2>6 DEF IInv
<1>4. CASE cur # 0 /\ retireLocked(cur)
  <2>1. Detach(cur) \in Session
    BY <1>4, CurrentStartups, DetachedSession DEF IInv
  <2> QED BY <1>1, <1>4, <2>1, RetireStep DEF retireLocked
<1>5. CASE cur # 0 /\ sess' = [sess EXCEPT ![cur].stale = TRUE] /\ UNCHANGED <<cur, start>>
  <2>1. cur \in Ids /\ sess[cur] \in Session
    BY <1>5, CurrentStartups DEF IInv
  <2> DEFINE t == [sess[cur] EXCEPT !.stale = TRUE]
  <2>2. /\ t \in Session /\ t.client = sess[cur].client
        /\ t.process = sess[cur].process /\ t.starting = sess[cur].starting
        /\ t.cfg = sess[cur].cfg /\ t.refs = sess[cur].refs /\ t.stale
    BY <2>1 DEF Session
  <2>3. sess' = [sess EXCEPT ![cur] = t]
    BY <1>5, <2>1 DEF IInv, TypeOK
  <2> HIDE DEF t
  <2> QED BY <1>1, <1>5, <2>1, <2>2, <2>3, TouchStep
<1> QED BY <1>3, <1>4, <1>5 DEF Invalidate

(* Close takes the session out of the map, with its client and its         *)
(* process,                                                                *)
LEMMA CloseStep ==
  ASSUME IInv, Close
  PROVE  IInv'
<1>1. /\ ~closed /\ closed' = TRUE /\ cur' = 0 /\ UNCHANGED <<used, req, record, told>>
      /\ used \in Nat /\ told \in Nat /\ record.edition \in Nat
  BY Numbers DEF Close, daemon, IInv
<1>2. used' \in Nat /\ used <= used' /\ told' \in Nat /\ told <= told' /\ Continues
  BY <1>1 DEF Continues
<1>3. reaping = Nothing /\ reaping.client = 0 /\ reaping.process = 0
  BY <1>1 DEF IInv, Core, Closing, Nothing
<1>4. ASSUME reaping' \in Holdings, reaping'.client <= used, sess' \in [Ids -> Session],
             start' \in [Ids -> Startup],
             \A k \in Ids : /\ start'[k].owner = start[k].owner /\ start'[k].pc = start[k].pc
                            /\ start'[k].cfg = start[k].cfg /\ start'[k].edition = start[k].edition
                            /\ start'[k].watched = start[k].watched
                            /\ start'[k].shut = start[k].shut /\ start'[k].proc = start[k].proc,
             cur # 0 => reaping'.client = sess[cur].client /\ reaping'.process = sess[cur].process
      PROVE  IInv'
  <2>1. TypeOK'
    BY <1>1, <1>4, MaxStartsAssumption DEF IInv, TypeOK
  <2>2. StartupsKept /\ ClientsKept
    BY <1>3, <1>4 DEF StartupsKept, ClientsKept, Ids
  <2>3. Closing' /\ Wired' /\ OneStartup' /\ UpToDate'
    BY <1>1, <1>4 DEF IInv, Core, Closing, Wired, OneStartup, UpToDate
  <2>4. \A k \in Ids : Owned(k)'
    BY <1>1, <1>4 DEF IInv, Core, Owned
  <2>5. NoLeakedProcess'
    BY <1>3, <1>4 DEF IInv, Core, NoLeakedProcess, Alive, Ids
  <2>6. Counted'
    BY <1>1, UsersSame DEF IInv
  <2>7. \A x \in Requests : Sound(req[x])'
    BY <1>1, <1>2, <2>2, RequestsSound DEF IInv
  <2> QED BY <2>1, <2>3, <2>4, <2>5, <2>6, <2>7 DEF IInv, Core
<1>5. CASE cur = 0
  BY <1>1, <1>3, <1>4, <1>5 DEF Close, IInv, TypeOK
<1>6. CASE cur # 0
  <2>1. cur \in Ids /\ sess[cur] \in Session /\ sess[cur].client <= used
    BY <1>6, CurrentStartups DEF IInv
  <2>2. /\ reaping' = [client |-> sess[cur].client, process |-> sess[cur].process,
                       cancel |-> sess[cur].cancel]
        /\ sess' = [sess EXCEPT ![cur] = [Detach(cur) EXCEPT !.starting = 0]]
        /\ start' = [k \in Ids |-> [start[k] EXCEPT !.woken = @ \/ k = sess[cur].starting]]
    BY <1>6 DEF Close
  <2>3. reaping' \in Holdings
    BY <2>1, <2>2 DEF Holdings, Session
  <2>4. sess' \in [Ids -> Session]
    BY <2>1, <2>2, DetachedSession DEF IInv, TypeOK
  <2>5. \A k \in Ids : start[k] \in Startup
    BY DEF IInv, TypeOK
  <2>6. ASSUME NEW k \in Ids
        PROVE  /\ start'[k] \in Startup
               /\ start'[k].owner = start[k].owner /\ start'[k].pc = start[k].pc
               /\ start'[k].cfg = start[k].cfg /\ start'[k].edition = start[k].edition
               /\ start'[k].watched = start[k].watched
               /\ start'[k].shut = start[k].shut /\ start'[k].proc = start[k].proc
    <3>1. PICK b \in BOOLEAN : start'[k] = [start[k] EXCEPT !.woken = b]
      BY <2>2, <2>5 DEF Startup
    <3> QED BY <2>5, <3>1 DEF Startup
  <2>7. start' \in [Ids -> Startup]
    BY <2>2, <2>6
  <2> QED BY <1>4, <2>1, <2>2, <2>3, <2>4, <2>6, <2>7
<1> QED BY <1>5, <1>6

(* and shuts and ends them outside the mutex. *)
LEMMA CloseReapStep ==
  ASSUME IInv, CloseReap
  PROVE  IInv'
<1>1. /\ start' = TearDown(reaping) /\ reaping' = Nothing
      /\ UNCHANGED <<cur, sess, used, req, closed, record, told>> /\ closed /\ cur = 0
      /\ reaping'.client = 0 /\ reaping'.process = 0
  BY DEF CloseReap, daemon, IInv, Core, Closing, Nothing
<1>2. /\ used \in Nat /\ told \in Nat
      /\ used' \in Nat /\ used <= used' /\ told' \in Nat /\ told <= told' /\ Continues
  BY <1>1, Numbers DEF IInv, Continues
<1>3. TypeOK'
  <2>1. Nothing \in Holdings
    BY MaxStartsAssumption DEF Nothing, Holdings
  <2> QED BY <1>1, <2>1, TornDown DEF IInv, TypeOK
<1>4. StartupsKept /\ ClientsKept
  BY <1>1, TornDown DEF IInv, StartupsKept, ClientsKept
<1>5. Closing' /\ Wired' /\ OneStartup' /\ UpToDate'
  BY <1>1, <1>2 DEF IInv, Core, Closing, Wired, OneStartup, UpToDate
<1>6. \A k \in Ids : Owned(k)'
  BY <1>1, TornDown DEF IInv, Core, Owned
<1>7. NoLeakedProcess'
  BY <1>1, TornDown DEF IInv, Core, NoLeakedProcess, Alive
<1>8. Counted'
  BY <1>1, UsersSame DEF IInv
<1>9. \A x \in Requests : Sound(req[x])'
  BY <1>1, <1>2, <1>4, RequestsSound DEF IInv
<1> QED BY <1>3, <1>5, <1>6, <1>7, <1>8, <1>9 DEF IInv, Core

-----------------------------------------------------------------------------
(* A request starts clangd, for a new session or for the current one. *)
LEMMA NewStartupFields ==
  ASSUME TypeOK, NEW s \in Ids, NEW c \in Configs
  PROVE  /\ NewStartup(s, c) \in Startup /\ NewStartup(s, c).owner = s
         /\ NewStartup(s, c).pc = "begin" /\ NewStartup(s, c).proc = "none"
         /\ NewStartup(s, c).watched = FALSE /\ NewStartup(s, c).cfg = c
         /\ NewStartup(s, c).edition = record.edition
<1>1. s \in 0..MaxStarts /\ record.edition \in 0..MaxEdition
  BY MaxStartsAssumption DEF Ids, TypeOK
<1> QED BY <1>1 DEF NewStartup, Startup

(* A new startup, of a new session or of one that has lost its clangd,     *)
(* begins with the record of now and has its first waiter.                 *)
LEMMA Begun ==
  ASSUME IInv, NEW r \in Requests, req[r].pc = "calling", ~closed,
         used < MaxStarts, used' = used + 1,
         cur' \in Ids, (cur = 0 /\ cur' = used + 1) \/ (cur' = cur /\ cur # 0),
         NEW t \in Session, sess' = [sess EXCEPT ![cur'] = t],
         t.client = 0, t.starting = used + 1, t.cfg = req[r].cfg,
         cur' = used + 1 => t.refs = 0,
         cur' = cur => /\ t.refs = sess[cur].refs /\ sess[cur].cfg = req[r].cfg
                       /\ sess[cur].client = 0 /\ sess[cur].starting = 0,
         start' = [start EXCEPT ![used + 1] = NewStartup(cur', req[r].cfg)],
         Await(r, cur', used + 1),
         UNCHANGED <<closed, reaping, record, told>>
  PROVE  IInv'
<1>1. /\ used \in Nat /\ told \in Nat /\ record.edition \in Nat /\ told <= record.edition
      /\ MaxStarts \in Nat /\ cur <= used /\ cur \in Nat
  BY Numbers, MaxStartsAssumption DEF IInv, Core, Closing
<1>2. used + 1 \in Ids /\ used' \in Nat /\ used <= used' /\ told' \in Nat /\ told <= told'
  BY <1>1 DEF Ids
<1>3. PICK n \in Ids : n = used + 1 /\ ~(n <= used) /\ n # 0 /\ n \in 0..MaxStarts
  BY <1>1, <1>2 DEF Ids
<1>4. PICK c \in Ids : c = cur'
  OBVIOUS
<1>5. PICK me \in Request : me = req[r] /\ Sound(me)
  BY Numbers DEF IInv
<1>6. PICK u \in Startup : /\ start' = [start EXCEPT ![n] = u]
                           /\ u.owner = c /\ u.pc = "begin" /\ u.proc = "none" /\ u.watched = FALSE
                           /\ u.cfg = me.cfg /\ u.edition = record.edition
  <2>1. me.cfg \in Configs
    BY DEF Request
  <2>2. PICK u \in Startup : u = NewStartup(c, me.cfg)
    BY <2>1, NewStartupFields DEF IInv
  <2>3. /\ u.owner = c /\ u.pc = "begin" /\ u.proc = "none" /\ u.watched = FALSE
        /\ u.cfg = me.cfg /\ u.edition = record.edition
    BY <2>1, <2>2, NewStartupFields DEF IInv
  <2>4. start' = [start EXCEPT ![n] = u]
    BY <1>3, <1>4, <1>5, <2>2
  <2> QED BY <2>3, <2>4
<1>7. \A k \in Ids : start'[k] = IF k = n THEN u ELSE start[k]
  BY <1>6 DEF IInv, TypeOK
<1>8. /\ \A x \in Ids : sess'[x] = IF x = c THEN t ELSE sess[x]
      /\ sess'[c] = t /\ t.client = 0 /\ t.starting = n /\ t.cfg = me.cfg
  BY <1>3, <1>4, <1>5 DEF IInv, TypeOK
<1>9. \A k \in Ids : start[k].owner \in Nat /\ start[k].owner <= used
  BY Numbers DEF IInv, Core, Owned
<1>10. Core'
  <2>1. Closing'
    <3>1. cur' <= used'
      BY <1>1
    <3>2. reaping.client <= used' /\ reaping' = reaping
      BY <1>1, Numbers DEF IInv, Core, Closing
    <3> QED BY <1>1, <3>1, <3>2 DEF IInv, Core, Closing
  <2>2. \A k \in Ids : Owned(k)'
    <3> SUFFICES ASSUME NEW k \in Ids PROVE Owned(k)'
      OBVIOUS
    <3>1. CASE k = n
      <4>1. c # 0 /\ c <= used'
        BY <1>1, <1>4 DEF Ids
      <4> QED BY <1>6, <1>7, <3>1, <4>1 DEF Owned
    <3>2. CASE k # n
      <4>1. start[k].owner <= used'
        BY <1>1, <1>9
      <4> QED BY <1>7, <3>2, <4>1 DEF Owned, IInv, Core
    <3> QED BY <3>1, <3>2
  <2>3. \A k \in Ids : k # n /\ start[k].owner = c =>
          /\ ~start[k].watched
          /\ ~Starting(k)
    <3> SUFFICES ASSUME NEW k \in Ids, k # n, start[k].owner = c
                 PROVE  ~start[k].watched /\ ~Starting(k)
      OBVIOUS
    <3>1. c = cur /\ cur # 0
      BY <1>1, <1>4, <1>9
    <3>2. sess[cur].client = 0 /\ sess[cur].starting = 0
      BY <1>4, <3>1
    <3> QED BY <3>1, <3>2 DEF IInv, Core, Wired, OneStartup, Ids
  <2>4. OneStartup'
    BY <1>4, <1>6, <1>7, <1>8, <2>3 DEF OneStartup, Starting
  <2>5. Wired'
    <3>1. t.client <= used' /\ t.starting <= used'
      BY <1>1
    <3> QED BY <1>3, <1>4, <1>6, <1>7, <1>8, <2>3, <3>1 DEF Wired, Starting
  <2>6. UpToDate'
    BY <1>1, <1>4, <1>6, <1>7, <1>8 DEF UpToDate, Since
  <2>7. NoLeakedProcess'
    <3> SUFFICES ASSUME NEW k \in Ids, start'[k].proc = "alive", start'[k].pc = "done"
                 PROVE  reaping'.process = k
      BY DEF NoLeakedProcess, Alive
    <3>1. k # n /\ start[k].proc = "alive" /\ start[k].pc = "done"
      BY <1>6, <1>7
    <3>2. ~(cur # 0 /\ sess[cur].client = k)
      BY DEF Ids
    <3> QED BY <3>1, <3>2 DEF IInv, Core, NoLeakedProcess, Alive
  <2> QED BY <2>1, <2>2, <2>4, <2>5, <2>6, <2>7 DEF Core
<1>11. StartupsKept /\ ClientsKept /\ Continues
  <2>1. StartupsKept
    BY <1>3, <1>7 DEF StartupsKept
  <2>2. ClientsKept
    BY DEF ClientsKept, Ids
  <2>3. CASE cur = 0 /\ cur' = used + 1
    BY <1>1, <2>1, <2>2, <2>3 DEF Continues
  <2>4. CASE cur' = cur /\ cur # 0
    BY <1>4, <1>5, <1>6, <1>7, <1>8, <2>1, <2>2, <2>4 DEF Continues
  <2> QED BY <2>3, <2>4
<1> DEFINE q == [me EXCEPT !.pc = "waiting", !.sess = c, !.start = n]
<1>12. req' = [req EXCEPT ![r] = q]
  BY <1>3, <1>4, <1>5 DEF Await, IInv, TypeOK
<1>13. /\ q \in Request /\ q.pc = "waiting" /\ q.sess = c /\ q.start = n
       /\ q.cfg = me.cfg /\ q.edition = me.edition
  <2>1. c \in 0..MaxStarts
    BY <1>1 DEF Ids
  <2> QED BY <1>3, <2>1 DEF Request
<1> HIDE DEF q
<1>14. me.edition \in Nat /\ me.edition <= told
  BY <1>5, Numbers DEF IInv, Sound, Past
<1>15. Sound(q)'
  <2>1. c <= used' /\ n <= used' /\ c # 0
    BY <1>1, <1>3, <1>4 DEF Ids
  <2>2. Past(q)'
    BY <1>3, <1>13, <1>14, <2>1 DEF Past
  <2>3. u.edition >= me.edition
    BY <1>1, <1>6, <1>14
  <2>4. Since(q.edition)'
    BY <1>4, <1>7, <1>8, <1>13, <2>3 DEF Since
  <2> QED BY <1>4, <1>8, <1>13, <2>2, <2>4 DEF Sound, Waited, Held
<1>16. TypeOK'
  <2>1. start' \in [Ids -> Startup] /\ sess' \in [Ids -> Session] /\ req' \in [Requests -> Request]
    BY <1>6, <1>12, <1>13 DEF IInv, TypeOK
  <2>2. cur' \in 0..MaxStarts /\ used' \in 0..MaxStarts
    BY <1>1 DEF Ids
  <2> QED BY <2>1, <2>2 DEF IInv, TypeOK
<1>17. Counted'
  <2>1. sess'[cur'].refs = 0 \/ (cur' = cur /\ sess'[cur].refs = sess[cur].refs)
    BY <1>4, <1>8
  <2> QED BY <1>12, <1>13, <2>1, UsersSame DEF IInv
<1>18. \A x \in Requests : Sound(req[x])'
  BY <1>2, <1>11, <1>12, <1>13, <1>15, RequestsSound DEF IInv
<1> QED BY <1>10, <1>16, <1>17, <1>18 DEF IInv

(* The first startup of a session. *)
LEMMA NewStep ==
  ASSUME IInv, NEW r \in Requests, ClientNew(r)
  PROVE  IInv'
<1>1. /\ req[r].pc = "calling" /\ ~closed /\ cur = 0 /\ used < MaxStarts /\ used' = used + 1
      /\ cur' = used + 1 /\ sess' = [sess EXCEPT ![cur'] = NewSession(req[r].cfg, used + 1)]
      /\ start' = [start EXCEPT ![used + 1] = NewStartup(cur', req[r].cfg)]
      /\ Await(r, cur', used + 1) /\ UNCHANGED <<closed, reaping, record, told>>
  BY DEF ClientNew, Calling, daemon
<1>2. cur' \in Ids /\ used + 1 \in 0..MaxStarts /\ 0 \in 0..MaxStarts /\ cur' # cur
  BY <1>1, MaxStartsAssumption, Numbers DEF IInv, Ids
<1>3. req[r].cfg \in Configs
  BY Numbers DEF IInv, Request
<1>4. PICK t \in Session : /\ t = NewSession(req[r].cfg, used + 1) /\ t.client = 0
                           /\ t.starting = used + 1 /\ t.cfg = req[r].cfg /\ t.refs = 0
  <2> DEFINE t == NewSession(req[r].cfg, used + 1)
  <2>1. /\ t \in Session /\ t.client = 0 /\ t.starting = used + 1 /\ t.cfg = req[r].cfg
        /\ t.refs = 0
    BY <1>2, <1>3 DEF NewSession, Session
  <2> QED BY <2>1
<1> QED BY <1>1, <1>2, <1>4, Begun

(* A startup of a session whose clangd has ended. *)
LEMMA RestartStep ==
  ASSUME IInv, NEW r \in Requests, ClientRestart(r)
  PROVE  IInv'
<1>1. /\ req[r].pc = "calling" /\ ~closed /\ cur # 0 /\ used < MaxStarts /\ used' = used + 1
      /\ sess[cur].cfg = req[r].cfg /\ sess[cur].client = 0 /\ sess[cur].starting = 0
      /\ cur' = cur
      /\ start' = [start EXCEPT ![used + 1] = NewStartup(cur', req[r].cfg)]
      /\ Await(r, cur', used + 1) /\ UNCHANGED <<closed, reaping, record, told>>
  BY DEF ClientRestart, Restart, Calling, Usable, Outdated, daemon
<1>2. cur' \in Ids /\ used + 1 \in 0..MaxStarts /\ sess[cur] \in Session /\ cur # used + 1
  BY <1>1, MaxStartsAssumption, Numbers, CurrentStartups DEF IInv
<1>3. req[r].cfg \in Configs
  BY Numbers DEF IInv, Request
<1> DEFINE t == [sess[cur] EXCEPT !.cfg = req[r].cfg, !.startErr = FALSE,
                                  !.starting = used + 1, !.cancel = used + 1]
<1>4. /\ t \in Session /\ t.client = 0 /\ t.starting = used + 1 /\ t.cfg = req[r].cfg
      /\ t.refs = sess[cur].refs
  BY <1>1, <1>2, <1>3 DEF Session
<1>5. sess' = [sess EXCEPT ![cur'] = t]
  BY <1>1, <1>2 DEF ClientRestart, Restart, IInv, TypeOK
<1> HIDE DEF t
<1>6. cur' = used + 1 => t.refs = 0
  BY <1>1, <1>2
<1> QED BY <1>1, <1>2, <1>4, <1>5, <1>6, Begun

-----------------------------------------------------------------------------
(* A goroutine or its process moves, and the session records nothing. *)
LEMMA StartupOnly ==
  ASSUME IInv, NEW k \in Ids, NEW u \in Startup, start' = [start EXCEPT ![k] = u],
         u.owner = start[k].owner, u.cfg = start[k].cfg, u.edition = start[k].edition,
         start[k].shut => u.shut, u.watched = start[k].watched,
         \/ /\ u.pc = start[k].pc /\ start[k].proc = "alive" /\ u.proc # "alive"
         \/ start[k].pc = "begin" /\ u.pc = "spawned"
         \/ start[k].pc = "spawned" /\ u.pc = "cleanup" /\ cur # start[k].owner
         \/ start[k].pc = "cleanup" /\ u.pc = "done" /\ u.proc # "alive",
         UNCHANGED <<cur, sess, used, req, closed, reaping, record, told>>
  PROVE  IInv'
<1>1. \A j \in Ids : start'[j] = IF j = k THEN u ELSE start[j]
  BY DEF IInv, TypeOK
<1>2. used' \in Nat /\ used <= used' /\ told' \in Nat /\ told <= told'
  BY Numbers DEF IInv
<1>3. StartupsKept /\ ClientsKept /\ Continues
  <2>1. StartupsKept /\ ClientsKept
    BY <1>1 DEF StartupsKept, ClientsKept
  <2>2. Continues
    BY CurrentStartups DEF IInv, Continues
  <2> QED BY <2>1, <2>2
<1>4. Closing' /\ \A j \in Ids : Owned(j)'
  BY <1>1 DEF IInv, Core, Closing, Owned
<1>5. OneStartup'
  BY <1>1 DEF IInv, Core, OneStartup, Starting
<1>6. Wired'
  <2>1. cur # 0 => /\ sess[cur].starting # 0 => sess[cur].starting \in Ids
                   /\ sess[cur].client # 0 => sess[cur].client \in Ids
    BY CurrentStartups DEF IInv
  <2> QED BY <1>1, <2>1 DEF IInv, Core, Wired, Starting
<1>7. UpToDate'
  <2>1. cur # 0 => /\ sess[cur].starting # 0 => sess[cur].starting \in Ids
                   /\ sess[cur].client # 0 => sess[cur].client \in Ids
    BY CurrentStartups DEF IInv
  <2> QED BY <1>1, <2>1 DEF IInv, Core, UpToDate, Since
<1>8. NoLeakedProcess'
  BY <1>1 DEF IInv, Core, NoLeakedProcess, Alive
<1>9. TypeOK'
  BY DEF IInv, TypeOK
<1>10. Counted'
  BY UsersSame DEF IInv
<1>11. \A x \in Requests : Sound(req[x])'
  BY <1>2, <1>3, RequestsSound DEF IInv
<1> QED BY <1>4, <1>5, <1>6, <1>7, <1>8, <1>9, <1>10, <1>11 DEF IInv, Core

(* Steps of a startup and its process that touch no session. *)
LEMMA ProcessSteps ==
  ASSUME IInv, NEW k \in Ids,
         Spawn(k) \/ PublishRefused(k) \/ cleanupStartup(k) \/ Crash(k) \/ ContextKill(k)
  PROVE  IInv'
<1>1. start[k] \in Startup /\ start \in [Ids -> Startup]
  BY DEF IInv, TypeOK
<1>2. CASE Spawn(k)
  <2> DEFINE u == [start[k] EXCEPT !.pc = "spawned", !.proc = "alive"]
  <2>1. start' = [start EXCEPT ![k] = u] /\ start[k].pc = "begin"
    BY <1>1, <1>2 DEF Spawn
  <2>2. /\ u \in Startup /\ u.owner = start[k].owner /\ u.cfg = start[k].cfg
        /\ u.edition = start[k].edition /\ u.shut = start[k].shut
        /\ u.watched = start[k].watched /\ u.pc = "spawned"
    BY <1>1 DEF Startup
  <2> HIDE DEF u
  <2>4. UNCHANGED <<cur, sess, used, req, closed, reaping, record, told>>
    BY <1>2 DEF Spawn, daemon
  <2> QED BY <2>1, <2>2, <2>4, StartupOnly
<1>3. CASE PublishRefused(k)
  <2> DEFINE u == [start[k] EXCEPT !.pc = "cleanup"]
  <2>1. start' = [start EXCEPT ![k] = u] /\ start[k].pc = "spawned"
    BY <1>1, <1>3 DEF PublishRefused, Refused
  <2>2. /\ u \in Startup /\ u.owner = start[k].owner /\ u.cfg = start[k].cfg
        /\ u.edition = start[k].edition /\ u.shut = start[k].shut
        /\ u.watched = start[k].watched /\ u.pc = "cleanup"
    BY <1>1 DEF Startup
  <2>3. cur # start[k].owner
    BY <1>3, <2>1 DEF PublishRefused, Refused, Detached, IInv, Core, Closing, Owned
  <2> HIDE DEF u
  <2>4. UNCHANGED <<cur, sess, used, req, closed, reaping, record, told>>
    BY <1>3 DEF PublishRefused, Refused, daemon
  <2> QED BY <2>1, <2>2, <2>3, <2>4, StartupOnly
<1>4. CASE cleanupStartup(k)
  <2> DEFINE u == [start[k] EXCEPT !.pc = "done", !.cancelled = TRUE, !.shut = TRUE,
                                   !.proc = Killed(@)]
  <2>1. start' = [start EXCEPT ![k] = u] /\ start[k].pc = "cleanup"
    BY <1>1, <1>4 DEF cleanupStartup
  <2>2. /\ u \in Startup /\ u.owner = start[k].owner /\ u.cfg = start[k].cfg
        /\ u.edition = start[k].edition /\ u.shut
        /\ u.watched = start[k].watched /\ u.pc = "done" /\ u.proc # "alive"
    BY <1>1 DEF Startup, Killed
  <2> HIDE DEF u
  <2>4. UNCHANGED <<cur, sess, used, req, closed, reaping, record, told>>
    BY <1>4 DEF cleanupStartup, daemon
  <2> QED BY <2>1, <2>2, <2>4, StartupOnly
<1>5. CASE Crash(k)
  <2> DEFINE u == [start[k] EXCEPT !.proc = "exited"]
  <2>1. start' = [start EXCEPT ![k] = u] /\ start[k].proc = "alive"
    BY <1>1, <1>5 DEF Crash
  <2>2. /\ u \in Startup /\ u.owner = start[k].owner /\ u.cfg = start[k].cfg
        /\ u.edition = start[k].edition /\ u.shut = start[k].shut
        /\ u.watched = start[k].watched /\ u.pc = start[k].pc /\ u.proc # "alive"
    BY <1>1 DEF Startup
  <2> HIDE DEF u
  <2>4. UNCHANGED <<cur, sess, used, req, closed, reaping, record, told>>
    BY <1>5 DEF Crash, daemon
  <2> QED BY <2>1, <2>2, <2>4, StartupOnly
<1>6. CASE ContextKill(k)
  <2> DEFINE u == [start[k] EXCEPT !.proc = "killed"]
  <2>1. start' = [start EXCEPT ![k] = u] /\ start[k].proc = "alive"
    BY <1>1, <1>6 DEF ContextKill
  <2>2. /\ u \in Startup /\ u.owner = start[k].owner /\ u.cfg = start[k].cfg
        /\ u.edition = start[k].edition /\ u.shut = start[k].shut
        /\ u.watched = start[k].watched /\ u.pc = start[k].pc /\ u.proc # "alive"
    BY <1>1 DEF Startup
  <2> HIDE DEF u
  <2>4. UNCHANGED <<cur, sess, used, req, closed, reaping, record, told>>
    BY <1>6 DEF ContextKill, daemon
  <2> QED BY <2>1, <2>2, <2>4, StartupOnly
<1> QED BY <1>2, <1>3, <1>4, <1>5, <1>6

(* The startup ends for a session that has left the map. *)
LEMMA FinishDetachedStep ==
  ASSUME IInv, NEW k \in Ids, Starting(k), Detached(k), NEW end, FinishDetached(k, end),
         \/ end = "cleanup"
         \/ end = "done" /\ start[k].pc = "begin",
         UNCHANGED <<cur, used, req, closed, reaping, record, told>>
  PROVE  IInv'
<1>1. PICK s \in Ids : s = start[k].owner /\ s # cur
  <2>1. start[k].owner # 0 /\ start[k].owner \in 0..MaxStarts
    BY DEF IInv, Core, Owned, Starting, TypeOK, Startup
  <2>2. start[k].owner \in Ids
    BY <2>1, MaxStartsAssumption DEF Ids
  <2> QED BY <2>1, <2>2 DEF Detached, IInv, Core, Closing
<1>2. start[k] \in Startup /\ start \in [Ids -> Startup] /\ sess[s] \in Session
  BY DEF IInv, TypeOK
<1>3. PICK u \in Startup :
        /\ start' = [start EXCEPT ![k] = u] /\ u.owner = start[k].owner /\ u.cfg = start[k].cfg
        /\ u.edition = start[k].edition /\ u.shut = start[k].shut
        /\ u.watched = start[k].watched /\ u.pc = end /\ u.proc = start[k].proc
  <2> DEFINE u == [start[k] EXCEPT !.pc = end, !.woken = @ \/ sess[s].starting = k]
  <2>1. start' = [start EXCEPT ![k] = u]
    BY <1>1, <1>2 DEF FinishDetached
  <2>2. /\ u \in Startup /\ u.owner = start[k].owner /\ u.cfg = start[k].cfg
        /\ u.edition = start[k].edition /\ u.shut = start[k].shut
        /\ u.watched = start[k].watched /\ u.pc = end /\ u.proc = start[k].proc
    BY <1>2 DEF Startup
  <2> QED BY <2>1, <2>2
<1>4. PICK t \in Session : sess' = [sess EXCEPT ![s] = t]
  <2> DEFINE t == [sess[s] EXCEPT !.starting = 0]
  <2>1. t \in Session
    BY <1>2, MaxStartsAssumption DEF Session
  <2>2. sess' = [sess EXCEPT ![s] = t]
    BY <1>1, <1>2 DEF FinishDetached, IInv, TypeOK
  <2> QED BY <2>1, <2>2
<1>5. /\ \A j \in Ids : start'[j] = IF j = k THEN u ELSE start[j]
      /\ cur # 0 => sess'[cur] = sess[cur]
  BY <1>1, <1>3, <1>4, CurrentStartups DEF IInv, TypeOK
<1>6. used' \in Nat /\ used <= used' /\ told' \in Nat /\ told <= told'
  BY Numbers DEF IInv
<1>7. start[k].pc = "begin" => start[k].proc = "none"
  BY DEF IInv, Core, Owned
<1>8. ~start[k].watched
  BY DEF IInv, Core, Owned, Starting
<1>9. cur # 0 => /\ sess[cur].starting # 0 => sess[cur].starting \in Ids
                 /\ sess[cur].client # 0 => sess[cur].client \in Ids
  BY CurrentStartups DEF IInv
<1>10. StartupsKept /\ ClientsKept /\ Continues
  <2>1. StartupsKept /\ ClientsKept
    BY <1>3, <1>5 DEF StartupsKept, ClientsKept
  <2>2. Continues
    BY <1>5, CurrentStartups DEF IInv, Continues
  <2> QED BY <2>1, <2>2
<1>11. Closing' /\ \A j \in Ids : Owned(j)'
  BY <1>3, <1>5, <1>7, <1>8 DEF IInv, Core, Closing, Owned, Starting
<1>12. OneStartup'
  BY <1>3, <1>5 DEF IInv, Core, OneStartup, Starting
<1>13. Wired'
  BY <1>1, <1>3, <1>5, <1>8, <1>9 DEF IInv, Core, Wired, Starting
<1>14. UpToDate'
  BY <1>3, <1>5, <1>9 DEF IInv, Core, UpToDate, Since
<1>15. NoLeakedProcess'
  BY <1>3, <1>5, <1>7 DEF IInv, Core, NoLeakedProcess, Alive
<1>16. TypeOK'
  BY <1>3, <1>4 DEF IInv, TypeOK
<1>17. Counted'
  BY <1>5, UsersSame DEF IInv
<1>18. \A x \in Requests : Sound(req[x])'
  BY <1>6, <1>10, RequestsSound DEF IInv
<1> QED BY <1>11, <1>12, <1>13, <1>14, <1>15, <1>16, <1>17, <1>18 DEF IInv, Core

(* The startup moves or ends for the current session: it is its only one. *)
LEMMA CurrentStartupStep ==
  ASSUME IInv, NEW k \in Ids, Starting(k), ~Detached(k),
         NEW u \in Startup, start' = [start EXCEPT ![k] = u],
         u.owner = start[k].owner, u.cfg = start[k].cfg, u.edition = start[k].edition,
         u.shut = start[k].shut, u.proc = start[k].proc,
         NEW t \in Session, sess' = [sess EXCEPT ![cur] = t],
         t.cfg = sess[cur].cfg, t.stale = sess[cur].stale,
         t.refs = 0 \/ t.refs = sess[cur].refs,
         \/ /\ u.pc = "initializing" /\ start[k].pc = "spawned" /\ ~u.watched
            /\ t.starting = k /\ t.client = 0 /\ t.process = k
         \/ /\ u.pc = "done" /\ start[k].pc = "initializing" /\ u.watched
            /\ t.starting = 0 /\ t.client = k /\ t.process = sess[cur].process
         \/ /\ u.pc = "cleanup" \/ (u.pc = "done" /\ start[k].pc = "begin")
            /\ ~u.watched /\ t.starting = 0 /\ t.client = 0,
         UNCHANGED <<cur, used, req, closed, reaping, record, told>>
  PROVE  IInv'
<1>1. cur # 0 /\ cur \in Ids /\ start[k].owner = cur
  <2>1. start[k].owner # 0
    BY DEF IInv, Core, Owned, Starting
  <2> QED BY <2>1, CurrentStartups DEF IInv, Detached
<1>2. /\ sess[cur].starting = k /\ sess[cur].client = 0 /\ k <= used /\ k # 0
      /\ start[k].cfg = sess[cur].cfg
      /\ start[k].pc = "initializing" => sess[cur].process = k
  BY <1>1 DEF IInv, Core, Wired, OneStartup, Ids
<1>3. \A j \in Ids : start'[j] = IF j = k THEN u ELSE start[j]
  BY DEF IInv, TypeOK
<1>4. sess'[cur] = t
  BY <1>1 DEF IInv, TypeOK
<1>5. used' \in Nat /\ used <= used' /\ told' \in Nat /\ told <= told' /\ 0 <= used
  BY Numbers DEF IInv
<1>6. \A j \in Ids : start[j].owner = cur => ~start[j].watched /\ (j # k => ~Starting(j))
  BY <1>1, <1>2 DEF IInv, Core, Wired, OneStartup, Ids
<1>7. start[k].pc = "begin" => start[k].proc = "none"
  BY DEF IInv, Core, Owned
<1>8. StartupsKept /\ ClientsKept /\ Continues
  <2>1. StartupsKept
    BY <1>3 DEF StartupsKept
  <2>2. ClientsKept
    BY <1>2 DEF ClientsKept, Ids
  <2>3. Continues
    BY <1>1, <1>2, <1>4 DEF Continues
  <2> QED BY <2>1, <2>2, <2>3
<1>9. Closing' /\ \A j \in Ids : Owned(j)'
  BY <1>3, <1>7 DEF IInv, Core, Closing, Owned, Starting
<1>10. OneStartup'
  BY <1>1, <1>3, <1>4, <1>6 DEF OneStartup, Starting
<1>11. Wired'
  BY <1>1, <1>2, <1>3, <1>4, <1>5, <1>6 DEF Wired, Starting
<1>12. UpToDate'
  BY <1>1, <1>2, <1>3, <1>4 DEF IInv, Core, UpToDate, Since
<1>13. NoLeakedProcess'
  BY <1>1, <1>2, <1>3, <1>4, <1>7 DEF IInv, Core, NoLeakedProcess, Alive, Ids
<1>14. TypeOK'
  BY DEF IInv, TypeOK
<1>15. Counted'
  BY <1>4, UsersSame DEF IInv
<1>16. \A x \in Requests : Sound(req[x])'
  BY <1>5, <1>8, RequestsSound DEF IInv
<1> QED BY <1>9, <1>10, <1>11, <1>12, <1>13, <1>14, <1>15, <1>16 DEF IInv, Core

(* A startup that is not detached is that of the current session. *)
LEMMA CurrentOwner ==
  ASSUME IInv, NEW k \in Ids, Starting(k), ~Detached(k)
  PROVE  cur = start[k].owner /\ cur \in Ids /\ sess[cur] \in Session
<1>1. start[k].owner # 0
  BY DEF IInv, Core, Owned, Starting
<1> QED BY <1>1, CurrentStartups DEF IInv, Detached

(* finishStartup with an error leaves the session without a client, a      *)
(* process or a startup.                                                   *)
LEMMA FinishFailedStep ==
  ASSUME IInv, NEW k \in Ids, Starting(k), ~Detached(k), NEW end, FinishFailed(k, end),
         end = "cleanup" \/ (end = "done" /\ start[k].pc = "begin"),
         UNCHANGED <<cur, used, req, closed, reaping, record, told>>
  PROVE  IInv'
<1>1. /\ cur = start[k].owner /\ cur \in Ids /\ sess[cur] \in Session
      /\ start[k] \in Startup /\ ~start[k].watched
  BY CurrentOwner DEF IInv, TypeOK, Core, Owned, Starting
<1> DEFINE t == [sess[cur] EXCEPT !.backoff = TRUE, !.startErr = TRUE, !.process = 0,
                                  !.client = 0, !.cancel = 0, !.starting = 0]
           u == [start[k] EXCEPT !.pc = end, !.woken = TRUE]
<1>2. sess' = [sess EXCEPT ![cur] = t] /\ start' = [start EXCEPT ![k] = u]
  BY <1>1 DEF FinishFailed, IInv, TypeOK
<1>3. /\ t \in Session /\ t.cfg = sess[cur].cfg /\ t.stale = sess[cur].stale
      /\ t.refs = sess[cur].refs /\ t.starting = 0 /\ t.client = 0
  <2>1. 0 \in 0..MaxStarts
    BY MaxStartsAssumption
  <2> QED BY <1>1, <2>1 DEF Session
<1>4. /\ u \in Startup /\ u.owner = start[k].owner /\ u.cfg = start[k].cfg
      /\ u.edition = start[k].edition /\ u.shut = start[k].shut /\ u.proc = start[k].proc
      /\ u.pc = end /\ ~u.watched
  BY <1>1 DEF Startup
<1> HIDE DEF t, u
<1>5. /\ u.pc = "cleanup" \/ (u.pc = "done" /\ start[k].pc = "begin")
      /\ ~u.watched /\ t.starting = 0 /\ t.client = 0
  BY <1>3, <1>4
<1> QED BY <1>2, <1>3, <1>4, <1>5, CurrentStartupStep

(* The two ways to get there. *)
LEMMA FailSteps ==
  ASSUME IInv, NEW k \in Ids, StartupNoProcess(k) \/ StartupFails(k)
  PROVE  IInv'
<1>1. PICK end \in {"cleanup", "done"} :
        /\ end = "cleanup" \/ (end = "done" /\ start[k].pc = "begin")
        /\ finishStartup(k, end) /\ Starting(k)
  BY DEF StartupNoProcess, StartupFails, Starting
<1>2. UNCHANGED <<cur, used, req, closed, reaping, record, told>>
  BY DEF StartupNoProcess, StartupFails, daemon
<1>3. CASE Detached(k)
  BY <1>1, <1>2, <1>3, FinishDetachedStep DEF finishStartup
<1>4. CASE ~Detached(k)
  BY <1>1, <1>2, <1>4, FinishFailedStep DEF finishStartup
<1> QED BY <1>3, <1>4

(* The process is published before clangd is initialized, so that a        *)
(* teardown finds it.                                                      *)
LEMMA PublishStep ==
  ASSUME IInv, NEW k \in Ids, Publish(k)
  PROVE  IInv'
<1>1. /\ start[k].pc = "spawned" /\ Starting(k) /\ ~Detached(k)
      /\ UNCHANGED <<cur, used, req, closed, reaping, record, told>>
  BY DEF Publish, Starting, daemon
<1>2. /\ cur = start[k].owner /\ cur \in Ids /\ sess[cur] \in Session /\ cur # 0
      /\ start[k] \in Startup /\ ~start[k].watched
  BY <1>1, CurrentOwner DEF IInv, TypeOK, Core, Owned, Starting, Ids
<1>3. sess[cur].starting = k /\ sess[cur].client = 0
  BY <1>1, <1>2 DEF IInv, Core, OneStartup
<1> DEFINE t == [sess[cur] EXCEPT !.process = k]
           u == [start[k] EXCEPT !.pc = "initializing"]
<1>4. sess' = [sess EXCEPT ![cur] = t] /\ start' = [start EXCEPT ![k] = u]
  BY <1>2 DEF Publish, IInv, TypeOK
<1>5. /\ t \in Session /\ t.cfg = sess[cur].cfg /\ t.stale = sess[cur].stale
      /\ t.refs = sess[cur].refs /\ t.starting = k /\ t.client = 0 /\ t.process = k
  <2>1. k \in 0..MaxStarts
    BY MaxStartsAssumption DEF Ids
  <2> QED BY <1>2, <1>3, <2>1 DEF Session
<1>6. /\ u \in Startup /\ u.owner = start[k].owner /\ u.cfg = start[k].cfg
      /\ u.edition = start[k].edition /\ u.shut = start[k].shut /\ u.proc = start[k].proc
      /\ u.pc = "initializing" /\ ~u.watched
  BY <1>2 DEF Startup
<1> HIDE DEF t, u
<1> QED BY <1>1, <1>4, <1>5, <1>6, CurrentStartupStep

(* finishStartup without an error: the startup becomes the client, unless  *)
(* it was detached in the meantime.                                        *)
LEMMA SucceedStep ==
  ASSUME IInv, NEW k \in Ids, StartupSucceeds(k)
  PROVE  IInv'
<1>1. /\ start[k].pc = "initializing" /\ Starting(k)
      /\ UNCHANGED <<cur, used, req, closed, reaping, record, told>>
  BY DEF StartupSucceeds, Initialized, Starting, daemon
<1>2. CASE Detached(k)
  BY <1>1, <1>2, FinishDetachedStep DEF StartupSucceeds, Initialized
<1>3. CASE ~Detached(k)
  <2>1. /\ cur = start[k].owner /\ cur \in Ids /\ sess[cur] \in Session /\ start[k] \in Startup
    BY <1>1, <1>3, CurrentOwner DEF IInv, TypeOK
  <2>2. PICK v \in {"nil", "armed", "spent"} : v = scheduleIdleLocked(sess[cur].timer)
    BY <2>1 DEF scheduleIdleLocked, Session
  <2> DEFINE t == [sess[cur] EXCEPT !.client = k, !.startErr = FALSE, !.refs = 0,
                                    !.timer = v, !.starting = 0]
             u == [start[k] EXCEPT !.pc = "done", !.woken = TRUE, !.watched = TRUE]
  <2>3. sess' = [sess EXCEPT ![cur] = t] /\ start' = [start EXCEPT ![k] = u]
    BY <1>3, <2>1, <2>2 DEF StartupSucceeds, Initialized, IInv, TypeOK
  <2>4. /\ t \in Session /\ t.cfg = sess[cur].cfg /\ t.stale = sess[cur].stale
        /\ t.refs = 0 /\ t.starting = 0 /\ t.client = k /\ t.process = sess[cur].process
    <3>1. k \in 0..MaxStarts /\ 0 \in 0..MaxStarts
      BY MaxStartsAssumption DEF Ids
    <3> QED BY <2>1, <3>1 DEF Session
  <2>5. /\ u \in Startup /\ u.owner = start[k].owner /\ u.cfg = start[k].cfg
        /\ u.edition = start[k].edition /\ u.shut = start[k].shut /\ u.proc = start[k].proc
        /\ u.pc = "done" /\ u.watched
    BY <2>1 DEF Startup
  <2> HIDE DEF t, u
  <2> QED BY <1>1, <1>3, <2>3, <2>4, <2>5, CurrentStartupStep
<1> QED BY <1>2, <1>3

(* The watched process of the current session is its client's: what watch  *)
(* clears is what has exited.                                              *)
LEMMA WatchStep ==
  ASSUME IInv, NEW k \in Ids, watch(k)
  PROVE  IInv'
<1>1. /\ start[k].watched /\ start[k].proc # "alive" /\ start[k] \in Startup
      /\ UNCHANGED <<cur, used, req, closed, reaping, record, told>>
      /\ used' \in Nat /\ used <= used' /\ told' \in Nat /\ told <= told'
  <2>1. /\ start[k].watched /\ start[k].proc # "alive"
        /\ UNCHANGED <<cur, used, req, closed, reaping, daemon>>
    BY DEF watch
  <2>2. UNCHANGED <<cur, used, req, closed, reaping, record, told>>
    BY <2>1 DEF daemon
  <2>3. start[k] \in Startup
    BY DEF IInv, TypeOK
  <2>4. used \in Nat /\ told \in Nat
    BY Numbers DEF IInv
  <2> QED BY <2>1, <2>2, <2>3, <2>4
<1>2. start[k].pc = "done" /\ start[k].owner # 0
  BY <1>1 DEF IInv, Core, Owned
<1>3. ASSUME start' \in [Ids -> Startup], sess' \in [Ids -> Session],
             \A j \in Ids : /\ start'[j].owner = start[j].owner /\ start'[j].pc = start[j].pc
                            /\ start'[j].cfg = start[j].cfg /\ start'[j].edition = start[j].edition
                            /\ start'[j].proc = start[j].proc
                            /\ start'[j].watched => start[j].watched /\ j # k
                            /\ start[j].shut => start'[j].shut,
             cur # 0 =>
               /\ sess'[cur].cfg = sess[cur].cfg /\ sess'[cur].stale = sess[cur].stale
               /\ sess'[cur].refs = sess[cur].refs /\ sess'[cur].starting = sess[cur].starting
               /\ \/ sess'[cur].client = sess[cur].client /\ sess'[cur].process = sess[cur].process
                  \/ /\ sess'[cur].client = 0 /\ start[k].owner = cur
                     /\ start'[k].shut
      PROVE  IInv'
  <2>1. cur # 0 /\ start[k].owner = cur =>
          sess[cur].client = k /\ sess[cur].process = k /\ sess[cur].starting = 0
    BY <1>1 DEF IInv, Core, Wired, Ids
  <2>2. TypeOK'
    BY <1>1, <1>3 DEF IInv, TypeOK
  <2>3. StartupsKept /\ ClientsKept /\ Continues
    <3>1. StartupsKept
      BY <1>3 DEF StartupsKept
    <3>2. ClientsKept
      BY <1>1, <1>3, <2>1 DEF ClientsKept
    <3>3. Continues
      BY <1>1, <1>3, CurrentStartups DEF IInv, Continues
    <3> QED BY <3>1, <3>2, <3>3
  <2>4. cur # 0 => /\ sess[cur].starting # 0 => sess[cur].starting \in Ids
                   /\ sess[cur].client # 0 => sess[cur].client \in Ids
    BY CurrentStartups DEF IInv
  <2>5. Closing' /\ \A j \in Ids : Owned(j)'
    BY <1>1, <1>3 DEF IInv, Core, Closing, Owned
  <2>6. OneStartup'
    BY <1>1, <1>3, <2>1 DEF IInv, Core, OneStartup, Starting
  <2>7. Wired'
    <3>1. CASE cur # 0 /\ sess'[cur].client = sess[cur].client /\ sess'[cur].process = sess[cur].process
      BY <1>1, <1>3, <2>4, <3>1 DEF IInv, Core, Wired, Starting
    <3>2. CASE cur # 0 /\ sess'[cur].client = 0 /\ start[k].owner = cur
      <4>1. sess'[cur].client <= used /\ sess'[cur].starting = 0 /\ 0 <= used
        BY <1>1, <1>3, <2>1, <3>2, Numbers DEF IInv
      <4>2. \A j \in Ids : start'[j].watched /\ start'[j].owner = cur => FALSE
        BY <1>3, <2>1, <3>2 DEF IInv, Core, Wired
      <4> QED BY <1>1, <3>2, <4>1, <4>2 DEF Wired
    <3> QED BY <1>1, <1>3, <3>1, <3>2 DEF Wired
  <2>8. UpToDate'
    BY <1>1, <1>3, <2>1, <2>4 DEF IInv, Core, UpToDate, Since
  <2>9. NoLeakedProcess'
    BY <1>1, <1>3, <2>1 DEF IInv, Core, NoLeakedProcess, Alive
  <2>10. Counted'
    BY <1>1, <1>3, UsersSame DEF IInv
  <2>11. \A x \in Requests : Sound(req[x])'
    BY <1>1, <2>3, RequestsSound DEF IInv
  <2> QED BY <2>2, <2>5, <2>6, <2>7, <2>8, <2>9, <2>10, <2>11 DEF IInv, Core
<1>4. CASE cur # start[k].owner
  <2> DEFINE u == [start[k] EXCEPT !.watched = FALSE]
  <2>1. start' = [start EXCEPT ![k] = u] /\ sess' = sess
    BY <1>1, <1>4 DEF watch, IInv, TypeOK
  <2>2. /\ u \in Startup /\ u.owner = start[k].owner /\ u.pc = start[k].pc /\ u.cfg = start[k].cfg
        /\ u.edition = start[k].edition /\ u.proc = start[k].proc /\ ~u.watched
        /\ u.shut = start[k].shut
    BY <1>1 DEF Startup
  <2> HIDE DEF u
  <2>3. start' \in [Ids -> Startup] /\ sess' \in [Ids -> Session]
    BY <2>1, <2>2 DEF IInv, TypeOK
  <2>4. \A j \in Ids : start'[j] = IF j = k THEN u ELSE start[j]
    BY <2>1 DEF IInv, TypeOK
  <2> QED BY <1>3, <2>1, <2>2, <2>3, <2>4
<1>5. CASE cur = start[k].owner
  <2>1. /\ cur # 0 /\ cur \in Ids /\ sess[cur] \in Session
        /\ sess[cur].client = k
    BY <1>1, <1>2, <1>5, CurrentStartups DEF IInv, Core, Wired
  <2> DEFINE t == [sess[cur] EXCEPT !.client = 0, !.process = 0, !.cancel = 0, !.backoff = TRUE]
             u(j) == [start[j] EXCEPT !.watched = @ /\ j # k, !.shut = @ \/ j = k,
                                      !.cancelled = @ \/ j = sess[cur].cancel]
  <2>2. sess' = [sess EXCEPT ![cur] = t] /\ start' = [j \in Ids |-> u(j)]
    <3>1. sess' = [sess EXCEPT ![cur].client = 0, ![cur].process = 0,
                              ![cur].cancel = 0, ![cur].backoff = TRUE]
      BY <1>5 DEF watch
    <3>2. start' = [j \in Ids |-> u(j)]
      <4>1. start' = [j \in Ids |-> [start[j] EXCEPT
                       !.watched = @ /\ j # k, !.shut = @ \/ j = sess[cur].client,
                       !.cancelled = @ \/ j = sess[cur].cancel]]
        BY <1>5 DEF watch
      <4> QED BY <2>1, <4>1, Zenon
    <3> QED BY <2>1, <3>1, <3>2 DEF IInv, TypeOK
  <2>3. /\ t \in Session /\ t.cfg = sess[cur].cfg /\ t.stale = sess[cur].stale
        /\ t.refs = sess[cur].refs /\ t.starting = sess[cur].starting /\ t.client = 0
    <3>1. 0 \in 0..MaxStarts
      BY MaxStartsAssumption
    <3> QED BY <2>1, <3>1 DEF Session
  <2>4. ASSUME NEW j \in Ids
        PROVE  /\ u(j) \in Startup /\ u(j).owner = start[j].owner /\ u(j).pc = start[j].pc
               /\ u(j).cfg = start[j].cfg /\ u(j).edition = start[j].edition
               /\ u(j).proc = start[j].proc /\ (u(j).watched => start[j].watched /\ j # k)
               /\ (start[j].shut \/ j = k => u(j).shut)
    <3>1. start[j] \in Startup
      BY DEF IInv, TypeOK
    <3> QED BY <3>1 DEF Startup
  <2> HIDE DEF t, u
  <2>5. start' \in [Ids -> Startup] /\ sess' \in [Ids -> Session] /\ sess'[cur] = t
    BY <2>1, <2>2, <2>3, <2>4 DEF IInv, TypeOK
  <2>6. \A j \in Ids : start'[j] = u(j)
    BY <2>2
  <2> QED BY <1>3, <1>5, <2>3, <2>4, <2>5, <2>6
<1> QED BY <1>4, <1>5

-----------------------------------------------------------------------------
(* The invariant holds for a new manager, *)
LEMMA InitHolds == Init => IInv
<1> SUFFICES ASSUME Init PROVE IInv
  OBVIOUS
<1>1. AnyConfig \in Configs /\ 0 \in 0..MaxStarts /\ 0 \in 0..MaxEdition
  BY ConfigsAssumption, MaxStartsAssumption, MaxEditionAssumption DEF AnyConfig
<1>2. NoSession \in Session
  BY <1>1 DEF NoSession, NewSession, Session
<1>3. /\ NoStartup \in Startup /\ NoStartup.owner = 0 /\ NoStartup.pc = "none"
      /\ NoStartup.proc = "none" /\ NoStartup.watched = FALSE
  BY <1>1 DEF NoStartup, Startup
<1>4. Nothing \in Holdings /\ Nothing.client = 0
  BY <1>1 DEF Nothing, Holdings
<1>5. TypeOK
  <2>1. closed \in BOOLEAN
    BY DEF Init
  <2> QED BY <1>1, <1>2, <1>3, <1>4, <2>1, IdleRequest DEF Init, TypeOK
<1>6. Core
  <2>1. Closing /\ Wired /\ OneStartup /\ UpToDate
    BY <1>4 DEF Init, Closing, Wired, OneStartup, UpToDate
  <2>2. \A k \in Ids : Owned(k)
    BY <1>3 DEF Init, Owned
  <2>3. NoLeakedProcess
    BY <1>3 DEF Init, NoLeakedProcess, Alive
  <2> QED BY <2>1, <2>2, <2>3 DEF Core
<1>7. Counted
  <2>1. Users = {}
    BY IdleRequest DEF Init, Users, Using
  <2> QED BY <2>1, FS_EmptySet DEF Counted, RefsCovered, Init
<1>8. \A r \in Requests : Sound(req[r])
  BY IdleRequest DEF Init, Sound, Past, Waited, Held
<1> QED BY <1>5, <1>6, <1>7, <1>8 DEF IInv

(* and every step of requests, startups, timers, clangd, Invalidate and    *)
(* Close keeps it.                                                         *)
LEMMA NextKeeps == IInv /\ [Next]_vars => IInv'
<1> SUFFICES ASSUME IInv, [Next]_vars PROVE IInv'
  OBVIOUS
<1>1. CASE UNCHANGED vars
  <2>1. TypeOK' /\ Counted'
    BY <1>1, UsersSame DEF vars, daemon, IInv, TypeOK
  <2>2. Core'
    BY <1>1 DEF vars, daemon, IInv, Core, Closing, Wired, OneStartup, UpToDate, Since,
                NoLeakedProcess, Owned, Starting, Alive
  <2>3. \A r \in Requests : Sound(req[r])'
    BY <1>1 DEF vars, daemon, IInv, Sound, Past, Waited, Since, Held
  <2> QED BY <2>1, <2>2, <2>3 DEF IInv
<1>2. ASSUME NEW r \in Requests, Call(r) \/ ClientStep(r) \/ WaitTimeout(r) \/ Release(r)
      PROVE  IInv'
  <2>1. CASE ClientClosed(r)
    BY <2>1, AnswerOnly DEF ClientClosed, daemon
  <2>2. CASE ClientBackoff(r)
    BY <2>2, AnswerOnly DEF ClientBackoff, Calling, daemon
  <2>3. CASE WaitFail(r)
    BY <2>3, AnswerOnly DEF WaitFail, daemon
  <2>4. CASE WaitTimeout(r)
    BY <2>4, AnswerOnly DEF WaitTimeout, Abandon, daemon
  <2> QED BY <1>2, <2>1, <2>2, <2>3, <2>4, CallStep, BusyStep, ClientRetireStep, ShareStep,
             NewStep, JoinStep, RestartStep, ClaimStep, ReleaseStep DEF ClientStep
<1>3. ASSUME NEW k \in Ids, StartupStep(k) \/ Crash(k) \/ ContextKill(k) \/ watch(k)
      PROVE  IInv'
  BY <1>3, FailSteps, ProcessSteps, PublishStep, SucceedStep, WatchStep DEF StartupStep
<1>4. ASSUME NEW s \in Ids, BackoffElapses(s) \/ IdleFires(s) \/ stop(s)
      PROVE  IInv'
  BY <1>4, TimerSteps
<1> QED BY <1>1, <1>2, <1>3, <1>4, RecordStep, InvalidateStep, CloseStep, CloseReapStep DEF Next

(* IInv holds in every state the session manager can reach. *)
THEOREM Invariance == Spec => []IInv
BY InitHolds, NextKeeps, PTL DEF Spec

(* Sessions, startups and requests keep their types: in particular refs    *)
(* and the fired idle timers never go below zero.                          *)
THEOREM SessionTypes == Spec => []TypeOK
<1>1. IInv => TypeOK
  BY DEF IInv
<1> QED BY <1>1, Invariance, PTL

(* Every live clangd has someone who will end it. *)
THEOREM ProcessesOwned == Spec => []NoLeakedProcess
<1>1. IInv => NoLeakedProcess
  BY DEF IInv, Core
<1> QED BY <1>1, Invariance, PTL

(* No two open clients of one project are ever in the hands of requests. *)
THEOREM ClientCurrent == Spec => []HeldClientIsCurrent
<1>1. IInv => HeldClientIsCurrent
  BY DEF IInv, Sound, Held, HeldClientIsCurrent, Using
<1> QED BY <1>1, Invariance, PTL

(* A session has one startup at a time, and none while it has a client. *)
THEOREM SharedStartup == Spec => []OneStartup
<1>1. IInv => OneStartup
  BY DEF IInv, Core
<1> QED BY <1>1, Invariance, PTL

(* A request is served with its own configuration, and by a clangd started *)
(* no earlier than the last Invalidate before the request.                 *)
THEOREM Served == Spec => []ServedAsAsked
<1>1. IInv => ServedAsAsked
  BY DEF IInv, Sound, Held, ServedAsAsked, Using
<1> QED BY <1>1, Invariance, PTL

(* References never outnumber the requests that will release them. *)
THEOREM ReferencesCovered == Spec => []RefsCovered
<1>1. IInv => RefsCovered
  BY DEF IInv, Counted
<1> QED BY <1>1, Invariance, PTL
=============================================================================
