-------------------------- MODULE GenerateStream --------------------------
(***************************************************************************)
(* One Generate call, end to end: the engine thread feeds the request's    *)
(* GrpcSink, the gRPC handler thread (ServiceImpl::Generate) drains its    *)
(* EventQueue onto the wire, and the Go client (Client.stream) receives.   *)
(* The client may go away at any moment.  Scheduler says which events the  *)
(* engine produces; here the engine thread is any source of tokens with a  *)
(* terminal event at the end, that stops once it has seen the cancel flag. *)
(* Serving composes these steps with the HTTP handler's.                   *)
(***************************************************************************)
EXTENDS Integers, SequencesExt

CONSTANTS MaxTokens      \* bound on the tokens of the stream

VARIABLES
    engine,    \* engine thread: "running", "closing" (Push, not yet Close), "left"
    pushed,    \* events pushed so far, in order
    q,         \* EventQueue::q_
    closed,    \* EventQueue::closed_
    cancel,    \* GrpcSink::cancel
    handler,   \* handler thread: where its loop is
    ev,        \* the event the handler popped
    wire,      \* events written and not yet received
    broken,    \* the RPC is cancelled or its connection lost
    client,    \* Client.stream: "receiving" or how it returned
    got        \* events the client received

vars == <<engine, pushed, q, closed, cancel, handler, ev, wire, broken, client, got>>

(* Events: token i of the stream is i; the terminal ones are not positive. *)
Done == 0
Error == -1
None == -2
IsTerminal(e) == e \in {Done, Error}

Init ==
    /\ engine = "running" /\ pushed = <<>>
    /\ q = <<>> /\ closed = FALSE /\ cancel = FALSE
    /\ handler = "pop" /\ ev = None
    /\ wire = <<>> /\ broken = FALSE
    /\ client = "receiving" /\ got = <<>>

-----------------------------------------------------------------------------
(* Engine thread *)

Push(e) == q' = Append(q, e) /\ pushed' = Append(pushed, e)

(* GrpcSink::Token: the i-th token of the stream. *)
SinkToken ==
    /\ engine = "running" /\ Len(pushed) < MaxTokens
    /\ Push(Len(pushed) + 1)
    /\ UNCHANGED <<engine, closed, cancel, handler, ev, wire, broken, client, got>>

(* GrpcSink::Done and Error: Push and Close take the lock one after the    *)
(* other.  Error can come first (queue full), Done only after a token.     *)
SinkTerminal(e) ==
    /\ engine = "running" /\ (e = Done => pushed # <<>>)
    /\ Push(e)
    /\ engine' = "closing"
    /\ UNCHANGED <<closed, cancel, handler, ev, wire, broken, client, got>>

SinkClose ==
    /\ engine = "closing"
    /\ closed' = TRUE
    /\ engine' = "left"
    /\ UNCHANGED <<pushed, q, cancel, handler, ev, wire, broken, client, got>>

(* Faulty variant: a request is dropped that nobody cancelled. *)
DropAny ==
    /\ engine = "running"
    /\ engine' = "left"
    /\ UNCHANGED <<pushed, q, closed, cancel, handler, ev, wire, broken, client, got>>

(* Refill sees Cancelled() and drops the request: no terminal event. *)
DropCancelled ==
    /\ engine = "running" /\ cancel
    /\ engine' = "left"
    /\ UNCHANGED <<pushed, q, closed, cancel, handler, ev, wire, broken, client, got>>

-----------------------------------------------------------------------------
(* Handler thread *)

(* Pop returns an event. *)
PopEvent ==
    /\ handler = "pop" /\ q # <<>>
    /\ ev' = Head(q) /\ q' = Tail(q)
    /\ handler' = "write"
    /\ UNCHANGED <<engine, pushed, closed, cancel, wire, broken, client, got>>

(* Pop returns false: its timeout passed, or the queue is closed. *)
PopNothing ==
    /\ handler = "pop" /\ q = <<>>
    /\ handler' = "check_cancelled"
    /\ UNCHANGED <<engine, pushed, q, closed, cancel, ev, wire, broken, client, got>>

(* Write of an event, after which a terminal one ends the loop.  The write *)
(* may still succeed for a while after the client is gone.                 *)
Write ==
    /\ handler = "write"
    /\ wire' = Append(wire, ev)
    /\ handler' = IF IsTerminal(ev) THEN "returned" ELSE "pop"
    /\ ev' = None
    /\ UNCHANGED <<engine, pushed, q, closed, cancel, broken, client, got>>

WriteFails ==
    /\ handler = "write" /\ broken
    /\ cancel' = TRUE
    /\ handler' = "returned" /\ ev' = None
    /\ UNCHANGED <<engine, pushed, q, closed, wire, broken, client, got>>

(* ctx->IsCancelled(), then queue.IsClosed(), each on its own lock. *)
CheckCancelled ==
    /\ handler = "check_cancelled"
    /\ handler' = IF broken THEN "returned" ELSE "check_closed"
    /\ cancel' = (cancel \/ broken)
    /\ UNCHANGED <<engine, pushed, q, closed, ev, wire, broken, client, got>>

(* Faulty variant: events that are still queued are forgotten. *)
IsClosedEarly == closed

IsClosed == closed /\ q = <<>>

CheckClosed ==
    /\ handler = "check_closed"
    /\ handler' = IF IsClosed THEN "returned" ELSE "pop"
    /\ UNCHANGED <<engine, pushed, q, closed, cancel, ev, wire, broken, client, got>>

-----------------------------------------------------------------------------
(* Go client *)

(* Recv returns the next event: a token is handed on, Done and Error       *)
(* return.  When the handler has returned OK and all was received it is    *)
(* io.EOF, which stream reports as a success with reason "stop".           *)
Recv ==
    /\ client = "receiving" /\ ~broken
    /\ ~(wire = <<>> /\ handler # "returned")
    /\ IF wire = <<>>
         THEN client' = "eof" /\ UNCHANGED <<got, wire>>
         ELSE /\ got' = Append(got, Head(wire)) /\ wire' = Tail(wire)
              /\ client' = CASE Head(wire) = Done -> "finished"
                             [] Head(wire) = Error -> "failed"
                             [] OTHER -> "receiving"
    /\ UNCHANGED <<engine, pushed, q, closed, cancel, handler, ev, broken>>

(* The caller's context ends or the connection is lost. *)
Disconnect ==
    /\ ~broken
    /\ broken' = TRUE
    /\ UNCHANGED <<engine, pushed, q, closed, cancel, handler, ev, wire, client, got>>

RecvError ==
    /\ client = "receiving" /\ broken
    /\ client' = "failed"
    /\ UNCHANGED <<engine, pushed, q, closed, cancel, handler, ev, wire, broken, got>>

-----------------------------------------------------------------------------

Finish == SinkTerminal(Done) \/ SinkTerminal(Error)
Handler ==
    \/ PopEvent \/ PopNothing \/ Write \/ WriteFails
    \/ CheckCancelled \/ CheckClosed
=============================================================================
