---------------------------- MODULE LspClientProofs ----------------------------
(***************************************************************************)
(* Proofs about LspClient, for every number of calls, of requests from     *)
(* clangd, and every capacity of the two channels.                         *)
(***************************************************************************)
EXTENDS LspClient, FiniteSetTheorems, TLAPS

Items(s) == {s[i] : i \in 1..Len(s)}

(* e is in s once at most. *)
Once(s, e) == \A i, j \in 1..Len(s) : s[i] = e /\ s[j] = e => i = j

Started == {c \in Calls : pc[c] # "new"}

(* Every call that has begun has an id of its own, and c.next counts them. *)
IdsTaken ==
  /\ next = Cardinality(Started)
  /\ \A c \in Started : id[c] \in 1..next
  /\ \A c, d \in Started : id[c] = id[d] => c = d

(* A channel holds at most the answer to its own call's request, and a     *)
(* call succeeds only with one.                                            *)
OwnReplies ==
  \A c \in Calls : reply[c] \in {c, None} /\ (pc[c] = "ok" => reply[c] # None)

(* The frames writeLoop has or will take. *)
Carried == Items(writes) \cup {writer}
Untouched(e) == send[e] = "none" /\ e \notin Carried

(* clangd has seen only requests of calls that have begun. *)
CallFrames ==
  /\ served \subseteq Started
  /\ \A c \in Calls : pc[c] = "new" => Untouched(<<c, "call">>)

(* The requests of clangd's that nobody has taken up. *)
Fresh == unasked \cup Items(requests)
Kinds == {"refuse", "answer"}
AskSends == Asks \X Kinds

(* A request of clangd's is taken up once, either to refuse or to answer   *)
(* it, and the frame of that is written once.                              *)
Asking ==
  /\ \A q \in Asks : Once(requests, q) /\ (q \in unasked => q \notin Items(requests))
  /\ \A q \in Fresh : answers[q] = 0 /\ \A k \in Kinds : Untouched(<<q, k>>)
  /\ \A e \in AskSends :
       /\ send[e] = "queue" => e \notin Carried /\ answers[e[1]] = 0
       /\ e \in Carried => answers[e[1]] = 0
       /\ Once(writes, e) /\ (e = writer => e \notin Items(writes))
  /\ \A q \in Asks : Untouched(<<q, "refuse">>) \/ Untouched(<<q, "answer">>)
  /\ AnsweredOnce

(* The inductive invariant. *)
CallInv == IdsTaken /\ NoStaleRegistration /\ OwnReplies
IInv == TypeOK /\ CallInv /\ CallFrames /\ Asking

-----------------------------------------------------------------------------
(* Queues. *)
LEMMA AppendItems ==
  ASSUME NEW S, NEW s \in Seq(S), NEW e \in S
  PROVE  /\ Append(s, e) \in Seq(S) /\ Len(Append(s, e)) = Len(s) + 1
         /\ Items(Append(s, e)) = Items(s) \cup {e}
         /\ \A x : Once(s, x) /\ (x = e => x \notin Items(s)) => Once(Append(s, e), x)
<1> DEFINE t == Append(s, e)
<1>1. t \in Seq(S) /\ Len(t) = Len(s) + 1 /\ Len(s) \in Nat
  OBVIOUS
<1>2. \A i \in 1..Len(t) : t[i] = IF i <= Len(s) THEN s[i] ELSE e
  OBVIOUS
<1> HIDE DEF t
<1>3. 1..Len(t) = (1..Len(s)) \cup {Len(s) + 1}
  BY <1>1
<1>4. Items(t) = Items(s) \cup {e}
  BY <1>1, <1>2, <1>3 DEF Items
<1>5. ASSUME NEW x, Once(s, x), x = e => x \notin Items(s) PROVE Once(t, x)
  BY <1>1, <1>2, <1>3, <1>5 DEF Once, Items
<1> QED BY <1>1, <1>4, <1>5 DEF t

(* Taking the head leaves the other elements. *)
LEMMA TailItems ==
  ASSUME NEW S, NEW s \in Seq(S), s # <<>>
  PROVE  /\ Head(s) \in S /\ Tail(s) \in Seq(S) /\ Len(Tail(s)) = Len(s) - 1
         /\ Items(s) = {Head(s)} \cup Items(Tail(s))
         /\ \A x : Once(s, x) => Once(Tail(s), x) /\ (x = Head(s) => x \notin Items(Tail(s)))
<1> DEFINE t == Tail(s)
<1>1. t \in Seq(S) /\ Len(t) = Len(s) - 1 /\ Len(s) \in Nat \ {0} /\ Head(s) \in S /\ Head(s) = s[1]
  OBVIOUS
<1>2. \A i \in 1..Len(t) : t[i] = s[i + 1]
  OBVIOUS
<1> HIDE DEF t
<1>3. Items(s) = {Head(s)} \cup Items(t)
  <2>1. ASSUME NEW x \in Items(s) PROVE x \in {Head(s)} \cup Items(t)
    <3>1. PICK i \in 1..Len(s) : x = s[i]
      BY <2>1 DEF Items
    <3>2. CASE i = 1
      BY <1>1, <3>1, <3>2
    <3>3. CASE i # 1
      <4>1. i - 1 \in 1..Len(t) /\ t[i - 1] = s[i]
        BY <1>1, <1>2, <3>3
      <4> QED BY <3>1, <4>1 DEF Items
    <3> QED BY <3>2, <3>3
  <2>2. ASSUME NEW i \in 1..Len(t) PROVE t[i] \in Items(s)
    <3>1. i + 1 \in 1..Len(s) /\ t[i] = s[i + 1]
      BY <1>1, <1>2
    <3> QED BY <3>1 DEF Items
  <2>3. Head(s) \in Items(s)
    BY <1>1 DEF Items
  <2> QED BY <2>1, <2>2, <2>3 DEF Items
<1>4. ASSUME NEW x, Once(s, x) PROVE Once(t, x) /\ (x = Head(s) => x \notin Items(t))
  <2>1. \A i \in 1..Len(t) : i + 1 \in 1..Len(s) /\ t[i] = s[i + 1]
    BY <1>1, <1>2
  <2>2. Once(t, x)
    BY <1>1, <1>4, <2>1 DEF Once
  <2>3. x = Head(s) => x \notin Items(t)
    <3> SUFFICES ASSUME x = s[1], NEW i \in 1..Len(t), x = t[i] PROVE FALSE
      BY <1>1 DEF Items
    <3>1. 1 \in 1..Len(s) /\ i + 1 \in 1..Len(s) /\ s[i + 1] = x
      BY <1>1, <2>1
    <3>2. 1 = i + 1
      BY <1>4, <3>1 DEF Once
    <3> QED BY <3>2, <1>1
  <2> QED BY <2>2, <2>3
<1> QED BY <1>1, <1>3, <1>4 DEF t

-----------------------------------------------------------------------------
(* Calls that have begun stay so. *)
BegunStay == Started \subseteq Started'

(* sendContext returns, or ends without a frame of its own. *)
LEMMA SendEnds ==
  ASSUME TypeOK, CallFrames, Asking, BegunStay,
         NEW e \in Sends, NEW v \in {"none", "sent", "failed"},
         send' = [send EXCEPT ![e] = v], v = "none" \/ send[e] # "none",
         UNCHANGED <<writes, writer, requests, clangd>>
  PROVE  CallFrames' /\ Asking'
<1>1. /\ Carried' = Carried /\ Fresh' = Fresh
      /\ \A x \in Sends : Untouched(x) => Untouched(x)'
  BY DEF TypeOK, Carried, Items, Fresh, clangd, Untouched
<1>2. \A c \in Calls, k \in {"call", "cancel"} : <<c, k>> \in Sends
  BY DEF Sends
<1>3. \A q \in Asks, k \in Kinds : <<q, k>> \in Sends
  BY DEF Sends, Kinds
<1>4. \A x \in AskSends : x \in Sends /\ (send'[x] = "queue" => send[x] = "queue")
  BY DEF TypeOK, AskSends, Sends, Kinds
<1>5. CallFrames'
  BY <1>1, <1>2 DEF CallFrames, BegunStay, Started, clangd
<1>6. Asking'
  <2>1. Fresh \subseteq Asks
    BY DEF TypeOK, Fresh, Items
  <2>2. \A q \in Fresh : answers'[q] = 0 /\ \A k \in Kinds : Untouched(<<q, k>>)'
    BY <1>1, <1>3, <2>1 DEF Asking, clangd
  <2>3. \A q \in Asks : Untouched(<<q, "refuse">>)' \/ Untouched(<<q, "answer">>)'
    BY <1>1, <1>3 DEF Asking, Kinds
  <2> QED BY <1>1, <1>4, <2>2, <2>3 DEF Asking, AnsweredOnce, clangd, Once, Items
<1> QED BY <1>5, <1>6

(* The requests nobody has taken up are each in one place. *)
OnePlace == \A q \in Asks : Once(requests, q) /\ (q \in unasked => q \notin Items(requests))

(* No frame moves; a request of clangd's may go from one place to another. *)
LEMMA FramesStay ==
  ASSUME TypeOK, CallFrames, Asking, BegunStay,
         OnePlace', Fresh' \subseteq Fresh,
         UNCHANGED <<send, writes, writer, served, answers>>
  PROVE  CallFrames' /\ Asking'
<1>1. Carried' = Carried /\ \A x : Untouched(x)' <=> Untouched(x)
  BY DEF Carried, Items, Untouched
<1>2. CallFrames'
  BY <1>1 DEF CallFrames, BegunStay, Started
<1>3. Asking'
  BY <1>1 DEF Asking, AnsweredOnce, OnePlace, Once, Items
<1> QED BY <1>2, <1>3

(* sendContext begins: for a call, or for a request that is taken up now. *)
LEMMA SendBegins ==
  ASSUME TypeOK, CallFrames, Asking, BegunStay,
         OnePlace', Fresh' \subseteq Fresh,
         NEW e \in Sends, send' = Begun(e),
         e \in AskSends => e[1] \in Fresh /\ e[1] \notin Fresh',
         \A c \in Calls : e = <<c, "call">> => c \in Started',
         UNCHANGED <<writes, writer, served, answers>>
  PROVE  CallFrames' /\ Asking'
<1>1. /\ Carried' = Carried
      /\ \A x \in Sends : x # e => send'[x] = send[x] /\ (Untouched(x)' <=> Untouched(x))
  BY DEF TypeOK, Begun, Carried, Items, Untouched
<1>2. \A c \in Calls, k \in {"call", "cancel"} : <<c, k>> \in Sends
  BY DEF Sends
<1>3. \A q \in Asks, k \in Kinds : <<q, k>> \in Sends /\ <<q, k>> \in AskSends
  BY DEF Sends, Kinds, AskSends
<1>4. CallFrames'
  BY <1>1, <1>2 DEF CallFrames, BegunStay, Started
<1>5. Fresh \subseteq Asks
  BY DEF TypeOK, Fresh, Items
<1>6. \A q \in Fresh' : answers'[q] = 0 /\ \A k \in Kinds : Untouched(<<q, k>>)'
  <2> SUFFICES ASSUME NEW q \in Fresh', NEW k \in Kinds
               PROVE  answers'[q] = 0 /\ Untouched(<<q, k>>)'
    BY DEF Kinds
  <2>1. q \in Fresh /\ q \in Asks
    BY <1>5
  <2>2. <<q, k>> # e
    BY <1>3, <2>1
  <2> QED BY <1>1, <1>3, <2>1, <2>2 DEF Asking
<1>7. ASSUME NEW x \in AskSends
      PROVE  /\ send'[x] = "queue" => x \notin Carried' /\ answers'[x[1]] = 0
             /\ x \in Carried' => answers'[x[1]] = 0
             /\ Once(writes', x) /\ (x = writer' => x \notin Items(writes'))
  <2>1. x \in Sends
    BY DEF AskSends, Sends, Kinds
  <2>2. CASE x # e
    BY <1>1, <2>1, <2>2 DEF Asking
  <2>3. CASE x = e
    <3>1. x = <<x[1], x[2]>> /\ x[2] \in Kinds /\ x[1] \in Fresh
      BY <2>3 DEF AskSends
    <3>2. Untouched(x) /\ answers[x[1]] = 0
      BY <3>1 DEF Asking
    <3> QED BY <1>1, <3>2 DEF Asking, Untouched
  <2> QED BY <2>2, <2>3
<1>8. ASSUME NEW q \in Asks PROVE Untouched(<<q, "refuse">>)' \/ Untouched(<<q, "answer">>)'
  <2>1. CASE e \in {<<q, "refuse">>, <<q, "answer">>}
    <3>0. PICK k \in Kinds : e = <<q, k>>
      BY <2>1 DEF Kinds
    <3>1. e \in AskSends /\ e[1] = q
      BY <1>3, <3>0
    <3>2. Untouched(<<q, "refuse">>) /\ Untouched(<<q, "answer">>)
      BY <3>1 DEF Asking, Kinds
    <3> QED BY <1>1, <1>3, <2>1, <3>2 DEF Kinds
  <2>2. CASE e \notin {<<q, "refuse">>, <<q, "answer">>}
    BY <1>1, <1>3, <2>2 DEF Asking, Kinds
  <2> QED BY <2>1, <2>2
<1>9. Asking'
  BY <1>6, <1>7, <1>8 DEF Asking, AnsweredOnce, OnePlace
<1> QED BY <1>4, <1>9

(* The frame of a request that is taken up is written at most once: it is  *)
(* queued once ...                                                         *)
LEMMA QueueStep ==
  ASSUME TypeOK, CallFrames, Asking, NEW e \in Sends, Queue(e)
  PROVE  CallFrames' /\ Asking'
<1>0. Items(writes') = Items(writes) \cup {e}
  BY AppendItems DEF Queue, TypeOK
<1>1. /\ Carried' = Carried \cup {e} /\ Fresh' = Fresh
      /\ \A x \in Sends : x # e => send'[x] = send[x] /\ (Untouched(x)' <=> Untouched(x))
      /\ send'[e] = "write"
  <2>1. Carried' = Carried \cup {e}
    BY <1>0 DEF Queue, Carried
  <2>2. Fresh' = Fresh
    BY DEF Queue, Fresh, Items, clangd
  <2> QED BY <2>1, <2>2 DEF Queue, TypeOK, Untouched
<1>2. ~Untouched(e)
  BY DEF Queue, Untouched
<1>3. \A c \in Calls, k \in {"call", "cancel"} : <<c, k>> \in Sends
  BY DEF Sends
<1>4. \A q \in Asks, k \in Kinds : <<q, k>> \in Sends /\ <<q, k>> \in AskSends
  BY DEF Sends, Kinds, AskSends
<1>5. CallFrames'
  BY <1>1, <1>2, <1>3 DEF CallFrames, Started, Queue, callVars, clangd
<1>6. Fresh \subseteq Asks
  BY DEF TypeOK, Fresh, Items
<1>7. \A q \in Fresh : answers'[q] = 0 /\ \A k \in Kinds : Untouched(<<q, k>>)'
  BY <1>1, <1>2, <1>4, <1>6 DEF Asking, Queue, clangd
<1>8. ASSUME NEW x \in AskSends
      PROVE  /\ send'[x] = "queue" => x \notin Carried' /\ answers'[x[1]] = 0
             /\ x \in Carried' => answers'[x[1]] = 0
             /\ Once(writes', x) /\ (x = writer' => x \notin Items(writes'))
  <2>0. UNCHANGED <<answers, writer>> /\ writes' = Append(writes, e) /\ writes \in Seq(Sends)
    BY DEF Queue, clangd, TypeOK
  <2>1. x \in Sends
    BY DEF AskSends, Sends, Kinds
  <2>2. x = e => x \notin Carried /\ answers[x[1]] = 0
    BY DEF Queue, Asking
  <2>3. Once(writes', x)
    BY <2>0, <2>2, AppendItems DEF Asking, Carried
  <2>4. x = writer' => x \notin Items(writes')
    BY <1>0, <2>0, <2>2 DEF Asking, Carried
  <2>5. /\ send'[x] = "queue" => x \notin Carried' /\ answers'[x[1]] = 0
        /\ x \in Carried' => answers'[x[1]] = 0
    BY <1>1, <2>0, <2>1, <2>2 DEF Asking
  <2> QED BY <2>3, <2>4, <2>5
<1>9. \A q \in Asks : Untouched(<<q, "refuse">>)' \/ Untouched(<<q, "answer">>)'
  BY <1>1, <1>2, <1>4 DEF Asking, Kinds
<1> QED BY <1>1, <1>5, <1>7, <1>8, <1>9 DEF Asking, Queue, AnsweredOnce, clangd, Once

(* ... taken once ... *)
LEMMA TakeStep ==
  ASSUME TypeOK, CallFrames, Asking, WriterTakes
  PROVE  CallFrames' /\ Asking'
<1> DEFINE h == Head(writes)
<1>1. /\ h \in Sends /\ Items(writes) = {h} \cup Items(writes')
      /\ \A x : Once(writes, x) => Once(writes', x) /\ (x = h => x \notin Items(writes'))
      /\ writer' = h
  BY TailItems DEF WriterTakes, TypeOK
<1>2. Carried' \subseteq Carried
  BY <1>1 DEF Carried
<1>3. UNCHANGED <<callVars, send, requests, clangd>>
  BY DEF WriterTakes
<1>4. CallFrames' /\ \A x : Untouched(x) => Untouched(x)'
  BY <1>2, <1>3 DEF CallFrames, Started, callVars, clangd, Untouched
<1>5. Fresh' = Fresh
  BY <1>3 DEF Fresh, Items, clangd
<1> HIDE DEF h
<1>6. ASSUME NEW x \in AskSends
      PROVE  /\ send'[x] = "queue" => x \notin Carried' /\ answers'[x[1]] = 0
             /\ x \in Carried' => answers'[x[1]] = 0
             /\ Once(writes', x) /\ (x = writer' => x \notin Items(writes'))
  BY <1>1, <1>2, <1>3 DEF Asking, clangd
<1>7. OnePlace'
  BY <1>3 DEF Asking, OnePlace, Once, Items, clangd
<1>8. Asking'
  BY <1>3, <1>4, <1>5, <1>6, <1>7 DEF Asking, AnsweredOnce, OnePlace, clangd
<1> QED BY <1>4, <1>8

(* ... and written or lost, but not both. *)
LEMMA WriteStep ==
  ASSUME TypeOK, CallFrames, Asking, NEW e \in Sends, Written(e) \/ WriteFails(e)
  PROVE  CallFrames' /\ Asking'
<1>1. /\ writer = e /\ writer' \in {None, Ended} /\ UNCHANGED <<pc, writes, requests, unasked>>
      /\ \A x \in Sends : \/ send'[x] = send[x]
                          \/ x = e /\ send[x] = "write" /\ send'[x] \in {"sent", "failed"}
  BY DEF TypeOK, Written, WriteFails, callVars, clangd
<1>2. \A x \in Sends : x \in Carried' <=> x \in Items(writes)
  BY <1>1, NobodyAssumption DEF Carried, Items
<1>3. /\ Carried = Items(writes) \cup {e}
      /\ \A x \in Sends : Untouched(x) => Untouched(x)'
  BY <1>1, <1>2 DEF Carried, Untouched
<1>4. \A c \in Calls, k \in {"call", "cancel"} : <<c, k>> \in Sends
  BY DEF Sends
<1>5. \A q \in Asks, k \in Kinds : <<q, k>> \in Sends /\ <<q, k>> \in AskSends
  BY DEF Sends, Kinds, AskSends
<1>6. CallFrames'
  <2>1. served' \subseteq Started
    <3>1. CASE served' = served
      BY <3>1 DEF CallFrames
    <3>2. CASE served' # served
      <4>1. e[2] = "call" /\ served' = served \cup {e[1]}
        BY <3>2 DEF Written, WriteFails, clangd
      <4>2. e[1] \in Calls /\ e = <<e[1], "call">>
        BY <4>1 DEF Sends
      <4>3. pc[e[1]] # "new"
        BY <1>3, <4>2 DEF CallFrames, Untouched
      <4> QED BY <4>1, <4>2, <4>3 DEF CallFrames, Started
    <3> QED BY <3>1, <3>2
  <2> QED BY <1>1, <1>3, <1>4, <2>1 DEF CallFrames, Started
<1>7. /\ e \notin AskSends => answers' = answers
      /\ e \in AskSends => answers' \in {answers, [answers EXCEPT ![e[1]] = @ + 1]}
  <2>1. e[1] \in Asks => e \in AskSends
    BY CallsAssumption DEF Sends, AskSends, Kinds
  <2> QED BY <2>1 DEF Written, WriteFails, clangd
<1>8. ASSUME e \in AskSends
      PROVE  e[1] \in Asks /\ e[2] \in Kinds /\ e = <<e[1], e[2]>> /\ answers[e[1]] = 0
  BY <1>3, <1>8 DEF Asking, AskSends
<1>9. \A q \in Asks : (e \in AskSends /\ q = e[1]) \/ answers'[q] = answers[q]
  BY <1>7, <1>8 DEF TypeOK
<1>10. AnsweredOnce'
  BY <1>7, <1>8, <1>9 DEF Asking, AnsweredOnce, TypeOK
<1>11. Fresh' = Fresh /\ Fresh \subseteq Asks
  BY <1>1 DEF TypeOK, Fresh, Items
<1>12. \A q \in Fresh : answers'[q] = 0 /\ \A k \in Kinds : Untouched(<<q, k>>)'
  <2> SUFFICES ASSUME NEW q \in Fresh
               PROVE  answers'[q] = 0 /\ \A k \in Kinds : Untouched(<<q, k>>)'
    OBVIOUS
  <2>1. answers[q] = 0 /\ \A k \in Kinds : Untouched(<<q, k>>)
    BY DEF Asking
  <2>2. e \in AskSends => q # e[1]
    BY <1>3, <1>8, <2>1 DEF Untouched
  <2> QED BY <1>3, <1>5, <1>9, <1>11, <2>1, <2>2
<1>13. ASSUME NEW x \in AskSends
       PROVE  /\ send'[x] = "queue" => x \notin Carried' /\ answers'[x[1]] = 0
              /\ x \in Carried' => answers'[x[1]] = 0
              /\ Once(writes', x) /\ (x = writer' => x \notin Items(writes'))
  <2>1. x \in Sends /\ x[1] \in Asks /\ x[2] \in Kinds /\ x = <<x[1], x[2]>>
    BY DEF AskSends, Sends, Kinds
  <2>2. x # writer' /\ Once(writes', x)
    BY <1>1, <2>1, NobodyAssumption DEF Asking
  <2>3. CASE x = e
    <3>1. x \notin Carried'
      BY <1>1, <1>2, <2>1, <2>3 DEF Asking
    <3>2. send'[x] # "queue"
      BY <1>1, <1>3, <2>1, <2>3 DEF Asking
    <3> QED BY <2>2, <3>1, <3>2
  <2>4. CASE x # e /\ x[1] = e[1] /\ e \in AskSends
    <3>1. Untouched(x)
      <4>1. ~Untouched(e)
        BY <1>3 DEF Untouched
      <4>2. Untouched(<<x[1], "refuse">>) \/ Untouched(<<x[1], "answer">>)
        BY <2>1 DEF Asking
      <4>3. {x, e} = {<<x[1], "refuse">>, <<x[1], "answer">>}
        BY <1>8, <2>1, <2>4 DEF Kinds
      <4> QED BY <4>1, <4>2, <4>3
    <3>2. Untouched(x)'
      BY <1>3, <2>1, <3>1
    <3> QED BY <2>2, <3>2 DEF Untouched
  <2>5. CASE x # e /\ ~(x[1] = e[1] /\ e \in AskSends)
    <3>1. answers'[x[1]] = answers[x[1]] /\ send'[x] = send[x]
      BY <1>1, <1>9, <2>1, <2>5
    <3> QED BY <1>2, <1>3, <2>1, <2>2, <3>1 DEF Asking
  <2> QED BY <2>3, <2>4, <2>5
<1>14. \A q \in Asks : Untouched(<<q, "refuse">>)' \/ Untouched(<<q, "answer">>)'
  BY <1>3, <1>5 DEF Asking, Kinds
<1>15. OnePlace'
  BY <1>1 DEF Asking, OnePlace, Once, Items
<1>16. Asking'
  BY <1>10, <1>11, <1>12, <1>13, <1>14, <1>15 DEF Asking, OnePlace
<1> QED BY <1>6, <1>16

-----------------------------------------------------------------------------
(* What the calls' part of the invariant needs of a step in which no call  *)
(* begins: registrations only go, and only a call whose registration is    *)
(* gone returns.                                                           *)
LEMMA CallsGoOn ==
  ASSUME TypeOK, CallInv, Started' = Started, UNCHANGED <<next, id>>,
         \A c \in Calls : reply'[c] \in {reply[c], c} /\ (reply[c] # None => reply'[c] = reply[c]),
         \A c \in Calls : pc'[c] = "ok" => pc[c] = "ok" \/ reply[c] # None,
         \A i \in Ids : pending'[i] \in {pending[i], None},
         \A c \in Calls : \/ pc'[c] \in {"sending", "waiting", "cancelling"}
                          \/ pc'[c] = pc[c]
                          \/ id[c] \in Ids => pending'[id[c]] = None
  PROVE  CallInv'
<1>1. IdsTaken'
  BY DEF CallInv, IdsTaken
<1>2. NoStaleRegistration'
  <2> SUFFICES ASSUME NEW i \in Ids, pending'[i] # None
               PROVE  /\ pc'[pending'[i]] \in {"sending", "waiting", "cancelling"}
                      /\ id'[pending'[i]] = i
    BY DEF NoStaleRegistration
  <2> DEFINE c == pending[i]
  <2>1. pending'[i] = c /\ c \in Calls /\ c # None
    BY DEF TypeOK
  <2>2. pc[c] \in {"sending", "waiting", "cancelling"} /\ id[c] = i
    BY <2>1 DEF CallInv, NoStaleRegistration
  <2> HIDE DEF c
  <2> QED BY <2>1, <2>2
<1>3. OwnReplies'
  BY DEF CallInv, OwnReplies
<1> QED BY <1>1, <1>2, <1>3 DEF CallInv

(* Call takes the next id, and there is one. *)
LEMMA FreshId ==
  ASSUME TypeOK, CallInv, NEW c \in Calls, pc[c] = "new"
  PROVE  next + 1 \in Ids
<1>1. Started \subseteq Calls \ {c} /\ IsFiniteSet(Calls \ {c})
      /\ Cardinality(Calls \ {c}) = Cardinality(Calls) - 1
  BY CallsAssumption, FS_RemoveElement DEF Started
<1>2. Cardinality(Started) <= Cardinality(Calls \ {c})
  BY <1>1, FS_Subset
<1>3. Cardinality(Calls) \in Nat
  BY CallsAssumption, FS_CardinalityType
<1> QED BY <1>1, <1>2, <1>3 DEF TypeOK, CallInv, IdsTaken, Ids

(* A new call gets an id that no call has had, and registers under it. *)
LEMMA CallBegins ==
  ASSUME TypeOK, CallInv, NEW c \in Calls, Call(c)
  PROVE  TypeOK' /\ CallInv' /\ Started' = Started \cup {c}
<1>1. next + 1 \in Ids /\ pc[c] = "new" /\ next' = next + 1 /\ id' = [id EXCEPT ![c] = next + 1]
  BY FreshId DEF Call, Register
<1>2. PICK p \in {"error", "sending"} : pc' = [pc EXCEPT ![c] = p]
  BY DEF Call, Register
<1>3. /\ reply' = reply
      /\ \/ pending' = pending
         \/ pending' = [pending EXCEPT ![next + 1] = c] /\ pc' = [pc EXCEPT ![c] = "sending"]
  BY DEF Call, Register
<1>4. Started' = Started \cup {c} /\ c \notin Started
  BY <1>1, <1>2 DEF TypeOK, Started
<1>5. Cardinality(Calls) \in Nat
  BY CallsAssumption, FS_CardinalityType
<1>6. TypeOK'
  <2>1. /\ next' \in 0..Cardinality(Calls) /\ id' \in [Calls -> 0..Cardinality(Calls)]
        /\ pc' \in [Calls -> {"new", "sending", "waiting", "cancelling", "ok", "error"}]
        /\ pending' \in [Ids -> Calls \cup {None}]
    BY <1>1, <1>2, <1>3, <1>5 DEF TypeOK, Ids
  <2>2. send' \in [Sends -> {"none", "queue", "write", "sent", "failed"}]
    BY DEF TypeOK, Call, Register, Begun
  <2> QED BY <2>1, <2>2 DEF TypeOK, Call, Register, loopVars, clangd
<1>7. IdsTaken'
  <2>1. IsFiniteSet(Started) /\ Cardinality(Started \cup {c}) = Cardinality(Started) + 1
    <3>1. IsFiniteSet(Started)
      BY CallsAssumption, FS_Subset DEF Started
    <3> QED BY <1>4, <3>1, FS_AddElement
  <2>2. next \in Nat /\ \A d \in Started : id[d] \in 1..next /\ d \in Calls
    BY DEF TypeOK, CallInv, IdsTaken, Started
  <2>3. id'[c] = next + 1 /\ \A d \in Started : id'[d] = id[d]
    BY <1>1, <1>4, <2>2 DEF TypeOK
  <2>4. \A d \in Started' : id'[d] \in 1..next'
    BY <1>1, <1>4, <2>2, <2>3
  <2>5. \A d, f \in Started' : id'[d] = id'[f] => d = f
    <3>1. \A d \in Started : id'[d] # id'[c]
      BY <2>2, <2>3
    <3>2. \A d, f \in Started : id'[d] = id'[f] => d = f
      BY <2>3 DEF CallInv, IdsTaken
    <3> QED BY <1>4, <3>1, <3>2
  <2> QED BY <1>1, <1>4, <2>1, <2>4, <2>5 DEF CallInv, IdsTaken
<1>8. NoStaleRegistration'
  <2> SUFFICES ASSUME NEW i \in Ids, pending'[i] # None
               PROVE  /\ pc'[pending'[i]] \in {"sending", "waiting", "cancelling"}
                      /\ id'[pending'[i]] = i
    BY DEF NoStaleRegistration
  <2>1. CASE pending'[i] = pending[i]
    <3>1. PICK d \in Calls : d = pending[i] /\ d = pending'[i]
      BY <2>1 DEF TypeOK
    <3>2. pc[d] \in {"sending", "waiting", "cancelling"} /\ id[d] = i /\ d # c
      BY <1>1, <2>1, <3>1 DEF CallInv, NoStaleRegistration
    <3> QED BY <1>1, <1>2, <3>1, <3>2 DEF TypeOK
  <2>2. CASE pending'[i] # pending[i]
    BY <1>1, <1>3, <2>2 DEF TypeOK
  <2> QED BY <2>1, <2>2
<1>9. OwnReplies'
  BY <1>1, <1>2, <1>3 DEF TypeOK, CallInv, OwnReplies
<1> QED BY <1>4, <1>6, <1>7, <1>8, <1>9 DEF CallInv

(* Steps of the loops and of sendContext: all they do to the calls is to   *)
(* empty pending.                                                          *)
LEMMA QuietCalls ==
  ASSUME TypeOK, CallInv, UNCHANGED <<next, id, pc, reply>>,
         pending' = pending \/ pending' = [i \in Ids |-> None]
  PROVE  CallInv' /\ BegunStay
<1>1. Started' = Started
  BY DEF Started
<1>2. CallInv'
  BY <1>1, CallsGoOn DEF TypeOK
<1> QED BY <1>1, <1>2 DEF BegunStay

(* Its frame is one that nobody has sent before. *)
LEMMA CallStarts ==
  ASSUME IInv, NEW c \in Calls, Call(c)
  PROVE  IInv'
<1>1. TypeOK' /\ CallInv' /\ Started' = Started \cup {c} /\ BegunStay
  BY CallBegins DEF IInv, BegunStay
<1>2. UNCHANGED <<writes, writer, requests, clangd>>
  BY DEF Call, Register, loopVars
<1>3. OnePlace' /\ Fresh' = Fresh
  BY <1>2 DEF IInv, Asking, OnePlace, Fresh, Once, Items, clangd
<1>4. CASE closed
  <2>1. UNCHANGED send
    BY <1>4 DEF Call, Register
  <2> QED BY <1>1, <1>2, <1>3, <2>1, FramesStay DEF IInv, clangd
<1>5. CASE ~closed
  <2>1. send' = Begun(<<c, "call">>)
    BY <1>5 DEF Call, Register
  <2>2. <<c, "call">> \in Sends /\ <<c, "call">> \notin AskSends
    BY DEF Sends, AskSends, Kinds
  <2>3. \A d \in Calls : <<c, "call">> = <<d, "call">> => d \in Started'
    BY <1>1
  <2> QED BY <1>1, <1>2, <1>3, <2>1, <2>2, <2>3, SendBegins DEF IInv, clangd
<1> QED BY <1>4, <1>5

(* The return of a call: its registration is gone when it has its result.  *)
LEMMA ReturnCalls ==
  ASSUME TypeOK, CallInv, NEW c \in Calls, NEW r \in {"ok", "error"}, Return(c, r),
         pc[c] # "new", r = "ok" => reply[c] # None
  PROVE  CallInv' /\ BegunStay
<1>1. pc' = [pc EXCEPT ![c] = r] /\ pending' = [pending EXCEPT ![id[c]] = None]
      /\ UNCHANGED <<next, id, reply>>
  BY DEF Return
<1>2. Started' = Started
  BY <1>1 DEF TypeOK, Started
<1>3. /\ \A d \in Calls : pc'[d] = IF d = c THEN r ELSE pc[d]
      /\ \A i \in Ids : pending'[i] = IF i = id[c] THEN None ELSE pending[i]
  BY <1>1 DEF TypeOK
<1>4. CallInv'
  BY <1>1, <1>2, <1>3, CallsGoOn
<1> QED BY <1>2, <1>4 DEF BegunStay

(* A call that goes on waiting. *)
LEMMA WaitCalls ==
  ASSUME TypeOK, CallInv, NEW c \in Calls, NEW p \in {"waiting", "cancelling"},
         pc[c] # "new", pc' = [pc EXCEPT ![c] = p], UNCHANGED <<next, id, pending, reply>>
  PROVE  CallInv' /\ BegunStay
<1>1. Started' = Started
  BY DEF TypeOK, Started
<1>2. \A d \in Calls : pc'[d] = IF d = c THEN p ELSE pc[d]
  BY DEF TypeOK
<1>3. CallInv'
  BY <1>1, <1>2, CallsGoOn
<1> QED BY <1>1, <1>3 DEF BegunStay

(* A call that goes on or returns takes its registration with it. *)
LEMMA CallGoes ==
  ASSUME IInv, NEW c \in Calls, CallStep(c)
  PROVE  IInv'
<1>1. UNCHANGED <<writes, writer, requests, clangd>>
  BY DEF CallStep, CallSent, CallUnsent, CallAnswered, CallClosed, CallExpires, Cancel,
     CallCancelled, Return, loopVars
<1>2. OnePlace' /\ Fresh' = Fresh
  BY <1>1 DEF IInv, Asking, OnePlace, Fresh, Once, Items, clangd
<1>3. pc[c] # "new"
  BY DEF CallStep, CallSent, CallUnsent, CallAnswered, CallClosed, CallExpires, Cancel,
     CallCancelled, GivenUp
<1>4. CallInv' /\ BegunStay
  <2>1. CASE CallSent(c)
    BY <1>3, <2>1, WaitCalls DEF IInv, CallSent
  <2>2. CASE CallExpires(c)
    BY <1>3, <2>2, WaitCalls DEF IInv, CallExpires, Cancel
  <2>3. CASE CallAnswered(c)
    BY <1>3, <2>3, ReturnCalls DEF IInv, CallAnswered
  <2>4. CASE CallUnsent(c) \/ CallClosed(c) \/ CallCancelled(c)
    BY <1>3, <2>4, ReturnCalls DEF IInv, CallUnsent, CallClosed, CallCancelled
  <2> QED BY <2>1, <2>2, <2>3, <2>4 DEF CallStep
<1>5. \A k \in {"call", "cancel"} : <<c, k>> \in Sends /\ <<c, k>> \notin AskSends
  BY DEF Sends, AskSends, Kinds
<1>6. CallFrames' /\ Asking'
  <2>1. CASE CallAnswered(c) \/ CallClosed(c)
    <3>1. UNCHANGED send
      BY <2>1 DEF CallAnswered, CallClosed
    <3> QED BY <1>1, <1>2, <1>4, <3>1, FramesStay DEF IInv, clangd
  <2>2. CASE CallExpires(c)
    <3>1. send' = Begun(<<c, "cancel">>)
      BY <2>2 DEF CallExpires, Cancel
    <3>2. \A d \in Calls : <<c, "cancel">> # <<d, "call">>
      OBVIOUS
    <3> QED BY <1>1, <1>2, <1>4, <1>5, <3>1, <3>2, SendBegins DEF IInv, clangd
  <2>3. CASE CallSent(c) \/ CallUnsent(c)
    <3>1. send' = [send EXCEPT ![<<c, "call">>] = "none"]
      BY <2>3 DEF CallSent, CallUnsent, Over
    <3> QED BY <1>1, <1>4, <1>5, <3>1, SendEnds DEF IInv
  <2>4. CASE CallCancelled(c)
    <3>1. send' = [send EXCEPT ![<<c, "cancel">>] = "none"]
      BY <2>4 DEF CallCancelled, GivenUp, Over
    <3> QED BY <1>1, <1>4, <1>5, <3>1, SendEnds DEF IInv
  <2> QED BY <2>1, <2>2, <2>3, <2>4 DEF CallStep
<1>7. TypeOK'
  <2>1. /\ pc' \in [Calls -> {"new", "sending", "waiting", "cancelling", "ok", "error"}]
        /\ pending' \in [Ids -> Calls \cup {None}]
        /\ UNCHANGED <<next, id, reply, closed, transport, loopVars, closer, clangd>>
    BY DEF IInv, TypeOK, CallStep, CallSent, CallUnsent, CallAnswered, CallClosed, CallExpires,
       Cancel, CallCancelled, Return
  <2>2. send' \in [Sends -> {"none", "queue", "write", "sent", "failed"}]
    BY DEF IInv, TypeOK, CallStep, CallSent, CallUnsent, CallAnswered, CallClosed, CallExpires,
       Cancel, CallCancelled, GivenUp, Over, Begun
  <2> QED BY <2>1, <2>2 DEF IInv, TypeOK, loopVars, clangd
<1> QED BY <1>4, <1>6, <1>7 DEF IInv

(* readLoop gives a response to the call that asked for it. *)
LEMMA ResponseStep ==
  ASSUME IInv, NEW c \in Calls, ReadResponse(c)
  PROVE  IInv'
<1>1. c \in Started /\ id[c] \in 1..next /\ id[c] \in Ids
  BY DEF IInv, TypeOK, CallInv, IdsTaken, CallFrames, ReadResponse, Ids
<1>2. pending[id[c]] = c
  <2>1. PICK d \in Calls : d = pending[id[c]] /\ d # None
    BY <1>1 DEF ReadResponse, IInv, TypeOK
  <2>2. id[d] = id[c] /\ d \in Started
    BY <1>1, <2>1 DEF IInv, CallInv, NoStaleRegistration, Started
  <2> QED BY <1>1, <2>1, <2>2 DEF IInv, CallInv, IdsTaken
<1>3. reply' = [reply EXCEPT ![c] = c] /\ reply[c] = None
  BY <1>2 DEF ReadResponse
<1>4. UNCHANGED <<next, id, pc, pending, send, closed, transport, loopVars, closer, clangd>>
  BY DEF ReadResponse
<1>5. Started' = Started
  BY <1>4 DEF Started
<1>6. \A d \in Calls : reply'[d] = IF d = c THEN c ELSE reply[d]
  BY <1>3 DEF IInv, TypeOK
<1>7. CallInv'
  <2>1. \A d \in Calls : reply'[d] \in {reply[d], d} /\ (reply[d] # None => reply'[d] = reply[d])
    BY <1>3, <1>6
  <2> QED BY <1>4, <1>5, <2>1, CallsGoOn DEF IInv
<1>8. CallFrames' /\ Asking'
  <2>1. OnePlace' /\ Fresh' = Fresh
    BY <1>4 DEF IInv, Asking, OnePlace, Fresh, Once, Items, clangd, loopVars
  <2> QED BY <1>4, <1>5, <2>1, FramesStay DEF IInv, clangd, loopVars, BegunStay
<1>9. TypeOK'
  BY <1>3, <1>4 DEF IInv, TypeOK, loopVars, clangd
<1> QED BY <1>7, <1>8, <1>9 DEF IInv

-----------------------------------------------------------------------------
(* sendContext. *)
LEMMA SendGoes ==
  ASSUME IInv, NEW e \in Sends, SendStep(e)
  PROVE  IInv'
<1>1. CallInv' /\ BegunStay
  <2>1. /\ UNCHANGED <<next, id, pc, reply>>
        /\ pending' = pending \/ pending' = [i \in Ids |-> None]
    BY DEF SendStep, Enqueue, Queue, SendExpires, Lapse, SendClosed, terminate, callVars
  <2> QED BY <2>1, QuietCalls DEF IInv
<1>2. CASE Enqueue(e)
  <2>1. TypeOK'
    <3>1. writes' \in Seq(Sends) /\ Len(writes') <= WriteCap
      BY <1>2, AppendItems, WriteCapAssumption DEF Enqueue, Queue, IInv, TypeOK
    <3> QED BY <1>2, <3>1 DEF Enqueue, Queue, IInv, TypeOK, callVars, clangd
  <2> QED BY <1>1, <1>2, <2>1, QueueStep DEF Enqueue, IInv
<1>3. CASE SendExpires(e) \/ SendClosed(e)
  <2>1. /\ send' = [send EXCEPT ![e] = "failed"] /\ send[e] # "none"
        /\ UNCHANGED <<writes, writer, requests, clangd>>
    BY <1>3 DEF SendExpires, Lapse, SendClosed, loopVars
  <2>2. CallFrames' /\ Asking'
    BY <1>1, <2>1, SendEnds DEF IInv
  <2>3. TypeOK'
    BY <1>3 DEF SendExpires, Lapse, SendClosed, terminate, IInv, TypeOK, callVars, loopVars, clangd
  <2> QED BY <1>1, <2>2, <2>3 DEF IInv
<1> QED BY <1>2, <1>3 DEF SendStep

(* writeLoop. *)
LEMMA WriterGoes ==
  ASSUME IInv, WriterTakes \/ WriterEnds \/ \E e \in Sends : Written(e) \/ WriteFails(e)
  PROVE  IInv'
<1>1. CallInv' /\ BegunStay
  <2>1. /\ UNCHANGED <<next, id, pc, reply>>
        /\ pending' = pending \/ pending' = [i \in Ids |-> None]
    BY DEF WriterTakes, WriterEnds, Written, WriteFails, terminate, callVars
  <2> QED BY <2>1, QuietCalls DEF IInv
<1>2. CASE WriterTakes
  <2>1. TypeOK'
    <3>1. writes' \in Seq(Sends) /\ writer' \in Sends /\ Len(writes') <= WriteCap
      <4>1. Len(writes') = Len(writes) - 1 /\ Len(writes) <= WriteCap /\ Len(writes) \in Nat
            /\ writes' \in Seq(Sends) /\ writer' \in Sends
        BY <1>2, TailItems DEF WriterTakes, IInv, TypeOK
      <4> QED BY <4>1, WriteCapAssumption
    <3> QED BY <1>2, <3>1 DEF WriterTakes, IInv, TypeOK, callVars, clangd
  <2> QED BY <1>1, <1>2, <2>1, TakeStep DEF IInv
<1>3. CASE WriterEnds
  <2>1. TypeOK'
    BY <1>3 DEF WriterEnds, IInv, TypeOK, callVars, clangd
  <2>2. Carried' \cap Sends \subseteq Carried /\ writer' \notin Sends
    BY <1>3, NobodyAssumption DEF WriterEnds, Carried, Items
  <2>3. UNCHANGED <<callVars, send, writes, requests, clangd>>
    BY <1>3 DEF WriterEnds
  <2>4. Fresh' = Fresh /\ Fresh \subseteq Asks /\ OnePlace'
    BY <2>3 DEF IInv, TypeOK, Asking, OnePlace, Once, Fresh, Items, clangd
  <2>5. \A x \in Sends : Untouched(x) => Untouched(x)'
    BY <2>2, <2>3 DEF Untouched
  <2>6. \A c \in Calls : <<c, "call">> \in Sends
    BY DEF Sends
  <2>7. \A q \in Asks, k \in Kinds : <<q, k>> \in Sends
    BY DEF Sends, Kinds
  <2>8. AskSends \subseteq Sends
    BY DEF AskSends, Sends, Kinds
  <2>9. CallFrames'
    BY <2>3, <2>5, <2>6 DEF IInv, CallFrames, Started, callVars, clangd
  <2>10. \A x \in AskSends :
           /\ send'[x] = "queue" => x \notin Carried' /\ answers'[x[1]] = 0
           /\ x \in Carried' => answers'[x[1]] = 0
           /\ Once(writes', x) /\ (x = writer' => x \notin Items(writes'))
    BY <2>2, <2>3, <2>8 DEF IInv, Asking, clangd
  <2>11. Asking'
    BY <2>3, <2>4, <2>5, <2>7, <2>10 DEF IInv, Asking, AnsweredOnce, OnePlace, Kinds, clangd
  <2> QED BY <1>1, <2>1, <2>9, <2>11 DEF IInv
<1>4. ASSUME NEW e \in Sends, Written(e) \/ WriteFails(e) PROVE IInv'
  <2>1. TypeOK'
    <3>1. answers' \in [Asks -> Nat] /\ served' \subseteq Calls
      <4>1. e[2] = "call" => e[1] \in Calls
        BY DEF Sends
      <4>2. \/ answers' = answers
            \/ e[1] \in Asks /\ answers' = [answers EXCEPT ![e[1]] = @ + 1]
        BY <1>4 DEF Written, WriteFails, clangd
      <4>3. answers \in [Asks -> Nat] /\ served \subseteq Calls
        BY DEF IInv, TypeOK
      <4>4. answers' \in [Asks -> Nat]
        BY <4>2, <4>3
      <4>5. served' \in {served, served \cup {e[1]}} /\ (served' = served \/ e[2] = "call")
        BY <1>4 DEF Written, WriteFails, clangd
      <4> QED BY <4>1, <4>3, <4>4, <4>5
    <3>2. send' \in [Sends -> {"none", "queue", "write", "sent", "failed"}]
      BY <1>4 DEF Written, WriteFails, IInv, TypeOK
    <3> QED BY <1>4, <3>1, <3>2 DEF Written, WriteFails, terminate, IInv, TypeOK, callVars, clangd
  <2> QED BY <1>1, <1>4, <2>1, WriteStep DEF IInv
<1> QED BY <1>2, <1>3, <1>4

(* readLoop on clangd's requests, and its end. *)
LEMMA ReaderGoes ==
  ASSUME IInv, ReaderRefused \/ ReaderEnds \/ \E q \in Asks : ReadRequest(q) \/ ReadRefused(q)
  PROVE  IInv'
<1>1. CallInv' /\ BegunStay
  <2>1. /\ UNCHANGED <<next, id, pc, reply>>
        /\ pending' = pending \/ pending' = [i \in Ids |-> None]
    BY DEF ReaderRefused, ReaderEnds, ReadRequest, ReadRefused, terminate, callVars
  <2> QED BY <2>1, QuietCalls DEF IInv
<1>2. CASE ReaderRefused
  <2>1. <<reader, "refuse">> \in Sends /\ send' = [send EXCEPT ![<<reader, "refuse">>] = "none"]
    BY <1>2 DEF ReaderRefused, Over, Sends
  <2>2. CallFrames' /\ Asking'
    BY <1>1, <1>2, <2>1, SendEnds DEF IInv, ReaderRefused
  <2>3. TypeOK'
    BY <1>2, <2>1 DEF ReaderRefused, IInv, TypeOK, callVars, clangd
  <2> QED BY <1>1, <2>2, <2>3 DEF IInv
<1>3. CASE ReaderEnds
  <2>1. OnePlace' /\ Fresh' = Fresh
    BY <1>3 DEF ReaderEnds, IInv, Asking, OnePlace, Fresh, Once, Items, clangd
  <2>2. CallFrames' /\ Asking'
    BY <1>1, <1>3, <2>1, FramesStay DEF IInv, ReaderEnds, clangd
  <2>3. TypeOK'
    BY <1>3 DEF ReaderEnds, terminate, IInv, TypeOK, clangd
  <2> QED BY <1>1, <2>2, <2>3 DEF IInv
<1>4. ASSUME NEW q \in Asks, ReadRequest(q) PROVE IInv'
  <2>1. /\ q \in unasked /\ unasked' = unasked \ {q} /\ requests' = Append(requests, q)
        /\ Len(requests) < RequestCap /\ requests \in Seq(Asks) /\ unasked \subseteq Asks
    BY <1>4 DEF ReadRequest, Asked, IInv, TypeOK
  <2>2. /\ requests' \in Seq(Asks) /\ Len(requests') = Len(requests) + 1
        /\ Items(requests') = Items(requests) \cup {q}
        /\ \A x : Once(requests, x) /\ (x = q => x \notin Items(requests)) => Once(requests', x)
    BY <2>1, AppendItems
  <2>3. OnePlace' /\ Fresh' \subseteq Fresh
    BY <2>1, <2>2 DEF IInv, Asking, OnePlace, Fresh
  <2>4. CallFrames' /\ Asking'
    BY <1>1, <1>4, <2>3, FramesStay DEF IInv, ReadRequest
  <2>5. Len(requests') <= RequestCap
    BY <2>1, <2>2, RequestCapAssumption
  <2>6. TypeOK'
    BY <1>4, <2>1, <2>2, <2>5 DEF ReadRequest, IInv, TypeOK, callVars
  <2> QED BY <1>1, <2>4, <2>6 DEF IInv
<1>5. ASSUME NEW q \in Asks, ReadRefused(q) PROVE IInv'
  <2> DEFINE e == <<q, "refuse">>
  <2>1. /\ q \in unasked /\ unasked' = unasked \ {q} /\ send' = Begun(e) /\ reader' = q
        /\ UNCHANGED <<callVars, closed, transport, writes, writer, requests, handler,
                       closer, served, answers>>
    BY <1>5 DEF ReadRefused, Asked, Refuse
  <2>2. OnePlace' /\ Fresh' \subseteq Fresh /\ q \in Fresh /\ q \notin Fresh'
    BY <2>1 DEF IInv, Asking, OnePlace, Fresh, Once, Items
  <2>3. e \in Sends /\ e[1] = q /\ \A c \in Calls : e # <<c, "call">>
    BY DEF Sends
  <2> HIDE DEF e
  <2>4. CallFrames' /\ Asking'
    BY <1>1, <2>1, <2>2, <2>3, SendBegins DEF IInv
  <2>5. TypeOK'
    <3>1. send' \in [Sends -> {"none", "queue", "write", "sent", "failed"}]
      BY <2>1 DEF IInv, TypeOK, Begun
    <3> QED BY <2>1, <3>1 DEF IInv, TypeOK, callVars
  <2> QED BY <1>1, <2>4, <2>5 DEF IInv
<1> QED BY <1>2, <1>3, <1>4, <1>5

(* requestLoop. *)
LEMMA HandlerGoes ==
  ASSUME IInv, HandlerTakes \/ HandlerAnswered \/ HandlerEnds
  PROVE  IInv'
<1>1. CallInv' /\ BegunStay
  <2>1. UNCHANGED <<next, id, pc, reply, pending>>
    BY DEF HandlerTakes, HandlerAnswered, HandlerEnds, callVars
  <2> QED BY <2>1, QuietCalls DEF IInv
<1>2. CASE HandlerTakes
  <2>1. PICK q : q = Head(requests)
    OBVIOUS
  <2> DEFINE e == <<q, "answer">>
  <2>2. /\ requests # <<>> /\ requests' = Tail(requests) /\ send' = Begun(e) /\ handler' = q
        /\ requests \in Seq(Asks)
        /\ UNCHANGED <<callVars, closed, transport, writes, writer, reader, closer, clangd>>
    BY <1>2, <2>1 DEF HandlerTakes, IInv, TypeOK
  <2>3. /\ q \in Asks /\ requests' \in Seq(Asks) /\ Len(requests') = Len(requests) - 1
        /\ Items(requests) = {q} \cup Items(requests')
        /\ \A x : Once(requests, x) => Once(requests', x) /\ (x = q => x \notin Items(requests'))
    BY <2>1, <2>2, TailItems
  <2>4. OnePlace' /\ Fresh' \subseteq Fresh /\ q \in Fresh /\ q \notin Fresh'
    BY <2>2, <2>3 DEF IInv, Asking, OnePlace, Fresh, clangd
  <2>5. e \in Sends /\ e[1] = q /\ \A c \in Calls : e # <<c, "call">>
    BY <2>3 DEF Sends
  <2> HIDE DEF e
  <2>6. CallFrames' /\ Asking'
    BY <1>1, <2>2, <2>4, <2>5, SendBegins DEF IInv, clangd
  <2>7. TypeOK'
    <3>1. send' \in [Sends -> {"none", "queue", "write", "sent", "failed"}]
      BY <2>2 DEF IInv, TypeOK, Begun
    <3>2. Len(requests') <= RequestCap
      <4>1. Len(requests) <= RequestCap /\ Len(requests) \in Nat
        BY <2>2 DEF IInv, TypeOK
      <4> QED BY <2>3, <4>1, RequestCapAssumption
    <3> QED BY <2>2, <2>3, <3>1, <3>2 DEF IInv, TypeOK, callVars, clangd
  <2> QED BY <1>1, <2>6, <2>7 DEF IInv
<1>3. CASE HandlerAnswered
  <2>1. <<handler, "answer">> \in Sends /\ send' = [send EXCEPT ![<<handler, "answer">>] = "none"]
    BY <1>3 DEF HandlerAnswered, Over, Sends
  <2>2. CallFrames' /\ Asking'
    BY <1>1, <1>3, <2>1, SendEnds DEF IInv, HandlerAnswered
  <2>3. TypeOK'
    BY <1>3, <2>1 DEF HandlerAnswered, IInv, TypeOK, callVars, clangd
  <2> QED BY <1>1, <2>2, <2>3 DEF IInv
<1>4. CASE HandlerEnds
  <2>1. OnePlace' /\ Fresh' = Fresh
    BY <1>4 DEF HandlerEnds, IInv, Asking, OnePlace, Fresh, Once, Items, clangd
  <2>2. CallFrames' /\ Asking'
    BY <1>1, <1>4, <2>1, FramesStay DEF IInv, HandlerEnds, clangd
  <2>3. TypeOK'
    BY <1>4 DEF HandlerEnds, IInv, TypeOK, callVars, clangd
  <2> QED BY <1>1, <2>2, <2>3 DEF IInv
<1> QED BY <1>2, <1>3, <1>4

(* Close, and steps that change nothing. *)
LEMMA CloseGoes ==
  ASSUME IInv, Close \/ CloseTransport \/ CloseReturns \/ UNCHANGED vars
  PROVE  IInv'
<1>1. CallInv' /\ BegunStay
  <2>1. /\ UNCHANGED <<next, id, pc, reply>>
        /\ pending' = pending \/ pending' = [i \in Ids |-> None]
    BY DEF Close, CloseTransport, Unblock, CloseReturns, terminate, callVars, vars
  <2> QED BY <2>1, QuietCalls DEF IInv
<1>2. UNCHANGED <<send, loopVars, clangd>>
  BY DEF Close, CloseTransport, Unblock, CloseReturns, vars
<1>3. OnePlace' /\ Fresh' = Fresh
  BY <1>2 DEF IInv, Asking, OnePlace, Fresh, Once, Items, clangd, loopVars
<1>4. CallFrames' /\ Asking'
  BY <1>1, <1>2, <1>3, FramesStay DEF IInv, loopVars, clangd
<1>5. TypeOK'
  <2>1. /\ pending' \in [Ids -> Calls \cup {None}] /\ closed' \in BOOLEAN /\ transport' \in BOOLEAN
        /\ closer' \in {"none", "terminated", "waiting", "returned"} /\ UNCHANGED <<next, id, pc, reply>>
    BY DEF Close, CloseTransport, Unblock, CloseReturns, terminate, IInv, TypeOK, callVars, vars
  <2> QED BY <1>2, <2>1 DEF IInv, TypeOK, loopVars, clangd
<1> QED BY <1>1, <1>4, <1>5 DEF IInv

-----------------------------------------------------------------------------
(* The invariant holds for a new client, *)
LEMMA InitIInv == Init => IInv
<1> SUFFICES ASSUME Init PROVE IInv
  OBVIOUS
<1>1. Cardinality(Calls) \in Nat
  BY CallsAssumption, FS_CardinalityType
<1>2. TypeOK
  <2>1. /\ writes \in Seq(Sends) /\ Len(writes) <= WriteCap
        /\ requests \in Seq(Asks) /\ Len(requests) <= RequestCap
    BY WriteCapAssumption, RequestCapAssumption DEF Init
  <2>2. next \in 0..Cardinality(Calls) /\ id \in [Calls -> 0..Cardinality(Calls)]
    BY <1>1 DEF Init
  <2> QED BY <2>1, <2>2 DEF Init, TypeOK
<1>3. Started = {}
  BY DEF Init, Started
<1>4. CallInv
  BY <1>3, FS_EmptySet DEF Init, CallInv, IdsTaken, NoStaleRegistration, OwnReplies
<1>5. Items(writes) = {} /\ Items(requests) = {} /\ Carried = {None} /\ Fresh = Asks
  BY DEF Init, Items, Carried, Fresh
<1>6. \A x \in Sends : Untouched(x)
  BY <1>5, NobodyAssumption DEF Init, Untouched
<1>7. CallFrames
  BY <1>3, <1>6 DEF Init, CallFrames, Sends
<1>8. Asking
  <2>1. \A q \in Asks, k \in Kinds : <<q, k>> \in Sends
    BY DEF Sends, Kinds
  <2>2. AskSends \subseteq Sends
    BY DEF AskSends, Sends, Kinds
  <2>3. \A x : Once(requests, x) /\ Once(writes, x)
    BY DEF Init, Once
  <2>4. \A e \in AskSends : send[e] # "queue" /\ e \notin Carried
    BY <1>6, <2>2 DEF Untouched
  <2>5. \A q \in Asks : answers[q] = 0
    BY DEF Init
  <2> QED BY <1>5, <1>6, <2>1, <2>2, <2>3, <2>4, <2>5 DEF Asking, AnsweredOnce, Kinds
<1> QED BY <1>2, <1>4, <1>7, <1>8 DEF IInv

(* and every step of the callers, the loops, Close and clangd keeps it. *)
LEMMA NextIInv == IInv /\ [Next]_vars => IInv'
<1> SUFFICES ASSUME IInv, [Next]_vars PROVE IInv'
  OBVIOUS
<1>1. ASSUME NEW c \in Calls, Call(c) \/ CallStep(c) \/ ReadResponse(c) PROVE IInv'
  BY <1>1, CallStarts, CallGoes, ResponseStep
<1>2. ASSUME NEW e \in Sends, SendStep(e) \/ Written(e) \/ WriteFails(e) PROVE IInv'
  BY <1>2, SendGoes, WriterGoes
<1>3. ASSUME NEW q \in Asks, ReadRequest(q) \/ ReadRefused(q) PROVE IInv'
  BY <1>3, ReaderGoes
<1>4. CASE WriterTakes \/ WriterEnds
  BY <1>4, WriterGoes
<1>5. CASE ReaderRefused \/ ReaderEnds
  BY <1>5, ReaderGoes
<1>6. CASE HandlerTakes \/ HandlerAnswered \/ HandlerEnds
  BY <1>6, HandlerGoes
<1>7. CASE Close \/ CloseTransport \/ CloseReturns \/ UNCHANGED vars
  BY <1>7, CloseGoes
<1> QED BY <1>1, <1>2, <1>3, <1>4, <1>5, <1>6, <1>7 DEF Next

(* The inductive invariant holds in every reachable state. *)
THEOREM Invariance == Spec => []IInv
BY InitIInv, NextIInv, PTL DEF Spec

(* Types; c.writes and c.requests keep within their capacity, and the ids  *)
(* never run out.                                                          *)
THEOREM ClientTypes == Spec => []TypeOK
<1>1. IInv => TypeOK
  BY DEF IInv
<1> QED BY <1>1, Invariance, PTL

(* readLoop never gives a call another call's response, however late, how  *)
(* often and in whichever order responses come.                            *)
THEOREM OwnReply == Spec => []ReplyIsOwn
<1>1. IInv => ReplyIsOwn
  BY DEF IInv, CallInv, OwnReplies, ReplyIsOwn
<1> QED BY <1>1, Invariance, PTL

(* The deferred delete of Call: no registration outlives its call. *)
THEOREM RegistrationsEnd == Spec => []NoStaleRegistration
<1>1. IInv => NoStaleRegistration
  BY DEF IInv, CallInv
<1> QED BY <1>1, Invariance, PTL

(* No request of clangd's is both refused by readLoop and answered by      *)
(* requestLoop, and neither is written twice.                              *)
THEOREM OneAnswer == Spec => []AnsweredOnce
<1>1. IInv => AnsweredOnce
  BY DEF IInv, Asking
<1> QED BY <1>1, Invariance, PTL
=============================================================================
