------------------------------ MODULE Serving ------------------------------
(***************************************************************************)
(* A request from the HTTP client to the engine thread and back: the HTTP  *)
(* handler (HttpServer on top of Generator) drives the Generate call       *)
(* (GenerateStream).  Every event that Client.stream receives is, in the   *)
(* same step of the same goroutine, decoded and written to the client; the *)
(* client's leaving ends the request's context, which cancels the call.    *)
(* What a token says is chosen when it is read.                            *)
(***************************************************************************)
EXTENDS HttpServer

VARIABLES engine, pushed, q, closed, cancel, handler, ev, wire, broken, client, got

callVars == <<engine, pushed, q, closed, cancel, handler, ev, wire, broken, client, got>>
servingVars == <<vars, callVars>>

T == INSTANCE GenerateStream WITH MaxTokens <- MaxCtx

ServingInit == HttpInit /\ T!Init

-----------------------------------------------------------------------------

(* The HTTP handler up to the point where it opens the call. *)
Handling == (Refuse \/ Accept \/ BuildAndSend) /\ UNCHANGED callVars

Leaving == ClientLeaves /\ UNCHANGED callVars

(* Client.stream has opened the call: the length policy sent it off. *)
Opened == max > 0

(* The engine samples at most max_new tokens. *)
Sampling ==
    /\ Opened /\ Len(pushed) < max
    /\ T!SinkToken /\ UNCHANGED vars

Finishing == Opened /\ T!Finish /\ UNCHANGED vars

Closing == Opened /\ (T!SinkClose \/ T!DropCancelled) /\ UNCHANGED vars

RpcHandler == Opened /\ T!Handler /\ UNCHANGED vars

(* errorFor: the only code the engine sends is OVER_CAPACITY. *)
ErrorFor == "over_capacity"

(* One turn of Client.stream's loop: a token, Done, Error or io.EOF. *)
Receiving ==
    /\ Opened /\ T!Recv
    /\ CASE client' = "receiving" -> \E id \in Ids : Relay(id)
         [] client' = "finished" -> \E why \in {"stop", "length"} : Succeed(why)
         [] client' = "failed" -> Fail(ErrorFor)
         [] client' = "eof" -> Succeed("stop")

(* Opening the call or receiving fails: the call is broken. *)
ReceiveFails == Opened /\ T!RecvError /\ Fail("engine_error")

(* Faulty variant: the call is not made under the request's context. *)
CancelNever == FALSE /\ UNCHANGED servingVars

(* The request's context, done because the client left, cancels the call. *)
CancelCall == gone /\ Opened /\ T!Disconnect /\ UNCHANGED vars

ConnectionLost == Opened /\ T!Disconnect /\ UNCHANGED vars

ServingNext ==
    \/ Handling \/ Leaving
    \/ Sampling \/ Finishing \/ Closing
    \/ RpcHandler
    \/ Receiving \/ ReceiveFails
    \/ CancelCall \/ ConnectionLost

(* The HTTP handler, the gRPC handler and a cancellation that is under way *)
(* go on; the engine thread closes what it has finished and comes back to  *)
(* Refill.  That it ever finishes is not assumed (Scheduler shows it), nor *)
(* that a client leaves or a connection breaks.                            *)
ServingSpec ==
    /\ ServingInit /\ [][ServingNext]_servingVars
    /\ WF_servingVars(Handling) /\ WF_servingVars(Receiving \/ ReceiveFails)
    /\ WF_servingVars(RpcHandler) /\ WF_servingVars(Closing)
    /\ WF_servingVars(CancelCall)

-----------------------------------------------------------------------------
(* Properties *)

(* An answer that is told as complete is the whole one: Done reached the   *)
(* client of the call after every token the engine produced, in order, and *)
(* each of them was decoded.  No event is lost or overtaken between Push,  *)
(* Pop, Write and Recv, and io.EOF, which Client.stream takes for a        *)
(* success, never stands in for Done, however Push, Close, the Pop timeout *)
(* and IsClosed interleave.                                                *)
WholeAnswer ==
    Sent("finish") \cup Sent("message") # {} =>
        got = pushed /\ Last(got) = T!Done /\ Len(ids) = Len(got) - 1

(* A request is answered, or given up, if it is refused or too long, if    *)
(* its client left, its connection broke, or the engine is through with    *)
(* it: no thread waits for another for ever.                               *)
Responds ==
    \/ body # "ok" \/ promptLen >= MaxCtx \/ gone
    \/ broken \/ engine # "running"
    ~> stage = "answered"

(* An HTTP client that leaves is noticed by everyone: the engine stops     *)
(* working for it, without having to finish, and both handlers return.     *)
LeavingReachesEngine ==
    gone /\ Opened ~> engine = "left" /\ handler = "returned" /\ stage = "answered"
=============================================================================
