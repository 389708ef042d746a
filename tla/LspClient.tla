------------------------------ MODULE LspClient ------------------------------
(***************************************************************************)
(* The JSON-RPC client of internal/lsp/client.go: the goroutines between   *)
(* the callers and clangd's pipes.                                         *)
(*                                                                         *)
(* Callers register a response channel in pending and hand their frame to  *)
(* writeLoop through a bounded channel; readLoop delivers responses and    *)
(* passes clangd's own requests to requestLoop, or refuses them itself     *)
(* when that queue is full.  Every frame, whoever sends it, goes through   *)
(* sendContext, which tears the whole client down when its context ends    *)
(* before the frame is written.                                            *)
(*                                                                         *)
(* clangd is external: it may stop reading, answer late, in any order,     *)
(* twice or never, ask anything at any time, and exit.                     *)
(***************************************************************************)
EXTENDS Naturals, Sequences, FiniteSets

CONSTANTS Calls,       \* invocations of Call
          Asks,        \* requests clangd sends to the client
          WriteCap,    \* capacity of c.writes (32)
          RequestCap,  \* capacity of c.requests (32)
          None, Ended  \* no one, and a goroutine that has returned

ASSUME WriteCapAssumption == WriteCap \in Nat \ {0}
ASSUME RequestCapAssumption == RequestCap \in Nat \ {0}
ASSUME CallsAssumption == IsFiniteSet(Calls) /\ Calls \cap Asks = {}

(* One sendContext each: a call's request and its $/cancelRequest, and the *)
(* refusal or the answer to a request of clangd's.                         *)
Sends == (Calls \X {"call", "cancel"}) \cup (Asks \X {"refuse", "answer"})
Ids == 1..Cardinality(Calls)

ASSUME NobodyAssumption == {None, Ended} \cap (Calls \cup Asks \cup Sends) = {}

VARIABLES
  next,       \* c.next
  id,         \* the id a call took, 0 before
  pc,         \* the call: "new", "sending", "waiting", "cancelling", "ok", "error"
  pending,    \* c.pending: the call whose channel an id names
  reply,      \* the response in a call's channel: the call it answers
  send,       \* "none", "queue", "write" (in c.writes or being written), "sent", "failed"
  closed,     \* c.closed, and c.done is closed
  transport,  \* the pipes are open
  writes,     \* c.writes
  writer,     \* writeLoop: the send it is writing, None, or Ended
  reader,     \* readLoop: None, the ask it is refusing, or Ended
  requests,   \* c.requests
  handler,    \* requestLoop: None, the ask it is answering, or Ended
  closer,     \* a Close: "none", "terminated", "waiting", "returned"
  served,     \* external: calls whose request clangd has received
  unasked,    \* external: requests clangd has not sent yet
  answers     \* external: how many answers to a request clangd has received

callVars == <<next, id, pc, pending, reply>>
loopVars == <<writes, writer, reader, requests, handler>>
clangd == <<served, unasked, answers>>
vars == <<callVars, send, closed, transport, loopVars, closer, clangd>>

Init ==
  /\ next = 0
  /\ id = [c \in Calls |-> 0]
  /\ pc = [c \in Calls |-> "new"]
  /\ pending = [i \in Ids |-> None]
  /\ reply = [c \in Calls |-> None]
  /\ send = [e \in Sends |-> "none"]
  /\ closed = FALSE /\ transport = TRUE
  /\ writes = <<>> /\ writer = None
  /\ reader = None
  /\ requests = <<>> /\ handler = None
  /\ closer = "none"
  /\ served = {} /\ unasked = Asks /\ answers = [q \in Asks |-> 0]

-----------------------------------------------------------------------------
(* terminate: everyone who waits on c.done wakes, pending is emptied. *)
terminate == closed' = TRUE /\ pending' = [i \in Ids |-> None]

(* sendContext: its test of c.closed, and its return to the sender. *)
Begun(e) == [send EXCEPT ![e] = IF closed THEN "failed" ELSE "queue"]
Over(e) == send[e] \in {"sent", "failed"} /\ send' = [send EXCEPT ![e] = "none"]

Queue(e) ==
  /\ send[e] = "queue"
  /\ writes' = Append(writes, e)
  /\ send' = [send EXCEPT ![e] = "write"]
  /\ UNCHANGED <<callVars, closed, transport, writer, reader, requests,
                 handler, closer, clangd>>

\* Mutant: frames queue up without bound.
EnqueueUnbounded(e) == Queue(e)

Enqueue(e) == Queue(e) /\ Len(writes) < WriteCap

(* The context's deadline passes before the frame is written: the sender   *)
(* closes the transport and terminates the client.                         *)
Lapse(e) ==
  /\ send[e] \in {"queue", "write"}
  /\ send' = [send EXCEPT ![e] = "failed"]
  /\ UNCHANGED <<next, id, pc, reply, loopVars, closer, clangd>>

\* Mutant: only the sender is told, the client goes on.
SendExpiresQuietly(e) == Lapse(e) /\ UNCHANGED <<closed, pending, transport>>

SendExpires(e) == Lapse(e) /\ terminate /\ transport' = FALSE

SendClosed(e) ==
  /\ send[e] \in {"queue", "write"} /\ closed
  /\ send' = [send EXCEPT ![e] = "failed"]
  /\ UNCHANGED <<callVars, closed, transport, loopVars, closer, clangd>>

-----------------------------------------------------------------------------
(* writeLoop takes a frame; its select may prefer this to c.done. *)
WriterTakes ==
  /\ writer = None /\ writes # <<>>
  /\ writer' = Head(writes)
  /\ writes' = Tail(writes)
  /\ UNCHANGED <<callVars, send, closed, transport, reader, requests,
                 handler, closer, clangd>>

(* The frame is written, clangd has it, and the sender, if it still waits, *)
(* is told.                                                                *)
Written(e) ==
  /\ writer = e /\ e \in Sends
  /\ transport
  /\ writer' = None
  /\ send' = [send EXCEPT ![e] = IF @ = "write" THEN "sent" ELSE @]
  /\ served' = IF e[2] = "call" THEN served \cup {e[1]} ELSE served
  /\ answers' = IF e[1] \in Asks THEN [answers EXCEPT ![e[1]] = @ + 1] ELSE answers
  /\ UNCHANGED <<callVars, closed, transport, writes, reader, requests,
                 handler, closer, unasked>>

(* The pipe is closed or broken: the sender is told and the client ends. *)
WriteFails(e) ==
  /\ writer = e /\ e \in Sends
  /\ writer' = Ended
  /\ send' = [send EXCEPT ![e] = IF @ = "write" THEN "failed" ELSE @]
  /\ terminate
  /\ UNCHANGED <<next, id, pc, reply, transport, writes, reader, requests,
                 handler, closer, clangd>>

WriterEnds ==
  /\ writer = None /\ closed
  /\ writer' = Ended
  /\ UNCHANGED <<callVars, send, closed, transport, writes, reader, requests,
                 handler, closer, clangd>>

-----------------------------------------------------------------------------
(* Call: take an id, register the channel, start sending. *)
Register(c, i) ==
  /\ pc[c] = "new"
  /\ next' = next + 1
  /\ id' = [id EXCEPT ![c] = i]
  /\ IF closed
       THEN /\ pc' = [pc EXCEPT ![c] = "error"]
            /\ UNCHANGED <<pending, send>>
       ELSE /\ pc' = [pc EXCEPT ![c] = "sending"]
            /\ pending' = [pending EXCEPT ![i] = c]
            /\ send' = Begun(<<c, "call">>)
  /\ UNCHANGED <<reply, closed, transport, loopVars, closer, clangd>>

\* Mutant: the id is the first free one instead of a fresh one.
CallReusingId(c) ==
  Register(c, CHOOSE i \in Ids : pending[i] = None /\ \A j \in 1..(i - 1) : pending[j] # None)

Call(c) == Register(c, next + 1)

CallSent(c) ==
  /\ pc[c] = "sending" /\ send[<<c, "call">>] = "sent"
  /\ Over(<<c, "call">>)
  /\ pc' = [pc EXCEPT ![c] = "waiting"]
  /\ UNCHANGED <<next, id, pending, reply, closed, transport, loopVars,
                 closer, clangd>>

(* Call returns, and its deferred function deletes its id. *)
Return(c, result) ==
  /\ pc' = [pc EXCEPT ![c] = result]
  /\ pending' = [pending EXCEPT ![id[c]] = None]
  /\ UNCHANGED <<next, id, reply, closed, transport, loopVars, closer, clangd>>

CallUnsent(c) ==
  /\ pc[c] = "sending" /\ send[<<c, "call">>] = "failed"
  /\ Over(<<c, "call">>)
  /\ Return(c, "error")

CallAnswered(c) ==
  /\ pc[c] = "waiting" /\ reply[c] # None
  /\ Return(c, "ok")
  /\ UNCHANGED send

CallClosed(c) ==
  /\ pc[c] = "waiting" /\ closed
  /\ Return(c, "error")
  /\ UNCHANGED send

(* The deadline passes while the call waits: $/cancelRequest, with 10 ms   *)
(* to write it, and then the return.                                       *)
Cancel(c) ==
  /\ pc[c] = "waiting"
  /\ pc' = [pc EXCEPT ![c] = "cancelling"]
  /\ send' = Begun(<<c, "cancel">>)
  /\ UNCHANGED <<next, id, pending, reply, closed, transport, loopVars,
                 closer, clangd>>

\* Mutant: only a client that has ended interrupts the wait.
CallWithoutDeadline(c) == closed /\ Cancel(c)

CallExpires(c) == Cancel(c)

GivenUp(c) == pc[c] = "cancelling" /\ Over(<<c, "cancel">>)

\* Mutant: the id of a call that timed out stays registered.
CallCancelledLeaking(c) ==
  /\ GivenUp(c)
  /\ pc' = [pc EXCEPT ![c] = "error"]
  /\ UNCHANGED <<next, id, pending, reply, closed, transport, loopVars,
                 closer, clangd>>

CallCancelled(c) == GivenUp(c) /\ Return(c, "error")

-----------------------------------------------------------------------------
(* readLoop reads a response to c's request: into the channel registered   *)
(* for its id, unless that is gone or full.                                *)
ReadResponse(c) ==
  /\ reader = None /\ transport
  /\ c \in served
  /\ LET d == pending[id[c]] IN
     /\ d # None /\ reply[d] = None
     /\ reply' = [reply EXCEPT ![d] = c]
  /\ UNCHANGED <<next, id, pc, pending, send, closed, transport, loopVars,
                 closer, clangd>>

(* readLoop reads a request: it queues it, or refuses it when the queue is *)
(* full, or returns when the client is closed.                             *)
Asked(q) ==
  /\ reader = None /\ transport
  /\ q \in unasked
  /\ unasked' = unasked \ {q}

Refuse(q) ==
  /\ Len(requests) = RequestCap
  /\ ~closed
  /\ reader' = q
  /\ send' = Begun(<<q, "refuse">>)

ReadRequest(q) ==
  /\ Asked(q)
  /\ Len(requests) < RequestCap
  /\ requests' = Append(requests, q)
  /\ UNCHANGED <<callVars, send, closed, transport, writes, writer, reader,
                 handler, closer, served, answers>>

\* Mutant: the request is refused and takes the place of the oldest one.
ReadRefusedTwice(q) ==
  /\ Asked(q)
  /\ Refuse(q)
  /\ requests' = Append(Tail(requests), q)
  /\ UNCHANGED <<callVars, closed, transport, writes, writer, handler, closer,
                 served, answers>>

ReadRefused(q) ==
  /\ Asked(q)
  /\ Refuse(q)
  /\ UNCHANGED <<callVars, closed, transport, writes, writer, requests, handler,
                 closer, served, answers>>

ReaderRefused ==
  /\ reader \in Asks /\ Over(<<reader, "refuse">>)
  /\ reader' = None
  /\ UNCHANGED <<callVars, closed, transport, writes, writer, requests,
                 handler, closer, clangd>>

(* End of file, a frame over the limit, a closed pipe, or c.done while a   *)
(* request is passed on: the deferred terminate.  The transport stays open. *)
ReaderEnds ==
  /\ reader = None
  /\ reader' = Ended
  /\ terminate
  /\ UNCHANGED <<next, id, pc, reply, send, transport, writes, writer, requests,
                 handler, closer, clangd>>

-----------------------------------------------------------------------------
HandlerTakes ==
  /\ handler = None /\ requests # <<>>
  /\ handler' = Head(requests)
  /\ requests' = Tail(requests)
  /\ send' = Begun(<<Head(requests), "answer">>)
  /\ UNCHANGED <<callVars, closed, transport, writes, writer, reader, closer, clangd>>

HandlerAnswered ==
  /\ handler \in Asks /\ Over(<<handler, "answer">>)
  /\ handler' = None
  /\ UNCHANGED <<callVars, closed, transport, writes, writer, reader,
                 requests, closer, clangd>>

HandlerEnds ==
  /\ handler = None /\ closed
  /\ handler' = Ended
  /\ UNCHANGED <<callVars, send, closed, transport, writes, writer, reader,
                 requests, closer, clangd>>

-----------------------------------------------------------------------------
(* Close: terminate, closeTransport, wg.Wait. *)
Close ==
  /\ closer = "none"
  /\ closer' = "terminated"
  /\ terminate
  /\ UNCHANGED <<next, id, pc, reply, send, transport, loopVars, clangd>>

Unblock(open) ==
  /\ closer = "terminated"
  /\ closer' = "waiting"
  /\ transport' = open
  /\ UNCHANGED <<callVars, send, closed, loopVars, clangd>>

\* Mutant: Close relies on c.done alone to end the loops.
CloseLeavingTransport == Unblock(transport)

CloseTransport == Unblock(FALSE)

CloseReturns ==
  /\ closer = "waiting"
  /\ writer = Ended /\ reader = Ended /\ handler = Ended
  /\ closer' = "returned"
  /\ UNCHANGED <<callVars, send, closed, transport, loopVars, clangd>>

-----------------------------------------------------------------------------
CallStep(c) ==
  \/ CallSent(c) \/ CallUnsent(c) \/ CallAnswered(c) \/ CallClosed(c)
  \/ CallExpires(c) \/ CallCancelled(c)

SendStep(e) == Enqueue(e) \/ SendExpires(e) \/ SendClosed(e)

Next ==
  \/ \E c \in Calls : Call(c) \/ CallStep(c) \/ ReadResponse(c)
  \/ \E e \in Sends : SendStep(e) \/ Written(e) \/ WriteFails(e)
  \/ \E q \in Asks : ReadRequest(q) \/ ReadRefused(q)
  \/ WriterTakes \/ WriterEnds \/ ReaderRefused \/ ReaderEnds
  \/ HandlerTakes \/ HandlerAnswered \/ HandlerEnds
  \/ Close \/ CloseTransport \/ CloseReturns

Spec == Init /\ [][Next]_vars

(* Goroutines that can run do, deadlines pass, and a closed pipe fails its *)
(* reader and its writer.  clangd owes nothing: a write to it may block    *)
(* and an answer may never come.                                           *)
Fairness ==
  /\ \A c \in Calls : WF_vars(CallStep(c))
  /\ \A e \in Sends :
       /\ WF_vars(SendStep(e))
       /\ WF_vars(~transport /\ WriteFails(e))
  /\ WF_vars(WriterTakes) /\ WF_vars(WriterEnds)
  /\ WF_vars(ReaderRefused) /\ WF_vars(~transport /\ ReaderEnds)
  /\ WF_vars(HandlerTakes) /\ WF_vars(HandlerAnswered) /\ WF_vars(HandlerEnds)
  /\ WF_vars(CloseTransport) /\ WF_vars(CloseReturns)

FairSpec == Spec /\ Fairness

-----------------------------------------------------------------------------
(* Types; the queues keep within the capacity of their channels. *)
TypeOK ==
  /\ next \in 0..Cardinality(Calls) /\ id \in [Calls -> 0..Cardinality(Calls)]
  /\ pc \in [Calls -> {"new", "sending", "waiting", "cancelling", "ok", "error"}]
  /\ pending \in [Ids -> Calls \cup {None}]
  /\ reply \in [Calls -> Calls \cup {None}]
  /\ send \in [Sends -> {"none", "queue", "write", "sent", "failed"}]
  /\ closed \in BOOLEAN /\ transport \in BOOLEAN
  /\ writes \in Seq(Sends) /\ Len(writes) <= WriteCap
  /\ writer \in Sends \cup {None, Ended}
  /\ reader \in Asks \cup {None, Ended} /\ handler \in Asks \cup {None, Ended}
  /\ requests \in Seq(Asks) /\ Len(requests) <= RequestCap
  /\ closer \in {"none", "terminated", "waiting", "returned"}
  /\ served \subseteq Calls /\ unasked \subseteq Asks /\ answers \in [Asks -> Nat]

(* A call that succeeds has the answer to its own request, although calls  *)
(* time out and their answers arrive late, twice or in another order.      *)
ReplyIsOwn == \A c \in Calls : pc[c] = "ok" => reply[c] = c

(* Calls leave nothing behind: a registered channel belongs to a call that *)
(* is still running and waits for it under that id.                        *)
NoStaleRegistration ==
  \A i \in Ids : pending[i] # None =>
    /\ pc[pending[i]] \in {"sending", "waiting", "cancelling"}
    /\ id[pending[i]] = i

(* "One bounded response per request" (the flood test): no request of      *)
(* clangd's is both refused and answered, or answered twice.               *)
AnsweredOnce == \A q \in Asks : answers[q] <= 1

(* ... and each one is answered or refused, unless the client is closed,   *)
(* also when readLoop itself has to wait for writeLoop to refuse it.       *)
EveryAskAnswered ==
  \A q \in Asks : q \notin unasked ~> (answers[q] > 0 \/ closed)

(* Every call returns, whatever clangd does: nobody waits for ever on a    *)
(* full queue, a blocked pipe, a lost answer or a client that has ended.   *)
CallsReturn == \A c \in Calls : pc[c] # "new" ~> pc[c] \in {"ok", "error"}

(* Close returns.  The session manager calls it with its mutex held, so a  *)
(* loop that does not end would stop every project.                        *)
CloseCompletes == closer = "terminated" ~> closer = "returned"
=============================================================================
