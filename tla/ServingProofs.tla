--------------------------- MODULE ServingProofs ---------------------------
(***************************************************************************)
(* An answer that an HTTP client is told is complete is the whole one;     *)
(* the chunks it reads are in the order the API promises; a client that    *)
(* stays learns exactly one outcome, the one that happened; and a stream   *)
(* reads the same as a blocking answer: for any context window, any number *)
(* of tokens and every interleaving of engine thread, gRPC handler,        *)
(* Client.stream and HTTP handler.                                         *)
(***************************************************************************)
EXTENDS Serving, GeneratorProofs

-----------------------------------------------------------------------------
(* The inductive invariant *)

IsTerminal(e) == T!IsTerminal(e)

CallTypeOK ==
    /\ engine \in {"running", "closing", "left"}
    /\ handler \in {"pop", "write", "check_cancelled", "check_closed", "returned"}
    /\ client \in {"receiving", "finished", "failed"}
    /\ pushed \in Seq(Int) /\ q \in Seq(Int) /\ wire \in Seq(Int) /\ got \in Seq(Int)
    /\ ev \in Int /\ closed \in BOOLEAN /\ broken \in BOOLEAN
    /\ \E C : response \in Seq(C)
    /\ \E I : ids \in Seq(I)

(* A terminal event is the last one that is pushed, and is there when the  *)
(* queue is closed.                                                        *)
EndsPushed == pushed # <<>> /\ IsTerminal(pushed[Len(pushed)])
TerminalEnds ==
    /\ \A i \in 1 .. Len(pushed) : IsTerminal(pushed[i]) => i = Len(pushed) /\ engine # "running"
    /\ closed \/ engine = "closing" => EndsPushed

(* While the call is not broken, what was pushed is what the client got,   *)
(* then what is on the wire, then the event the handler holds, then what   *)
(* is queued.                                                              *)
Holds == IF handler = "write" THEN 1 ELSE 0
InFlight ==
    ~broken =>
        /\ Len(pushed) = Len(got) + Len(wire) + Holds + Len(q)
        /\ \A i \in 1 .. Len(got) : got[i] = pushed[i]
        /\ \A i \in 1 .. Len(wire) : wire[i] = pushed[Len(got) + i]
        /\ handler = "write" => ev = pushed[Len(got) + Len(wire) + 1]
        /\ \A i \in 1 .. Len(q) : q[i] = pushed[Len(got) + Len(wire) + Holds + i]
        /\ handler = "returned" => q = <<>> /\ EndsPushed

(* The client has received and decoded tokens only, until Done. *)
Received ==
    /\ client = "receiving" =>
          /\ \A i \in 1 .. Len(got) : ~IsTerminal(got[i])
          /\ Len(ids) = Len(got)
    /\ client = "finished" =>
          /\ got = pushed /\ got # <<>> /\ got[Len(got)] = T!Done
          /\ Len(ids) = Len(got) - 1

SuccessTold == \E i \in DOMAIN response : response[i].kind \in {"finish", "message"}

ServingInv ==
    /\ CallTypeOK
    /\ TerminalEnds
    /\ InFlight
    /\ Received
    /\ SuccessTold => client = "finished"

-----------------------------------------------------------------------------
(* The call: sink, queue, handler thread, wire and client *)

CallTypes ==
    /\ engine \in {"running", "closing", "left"}
    /\ handler \in {"pop", "write", "check_cancelled", "check_closed", "returned"}
    /\ client \in {"receiving", "finished", "failed"}
    /\ pushed \in Seq(Int) /\ q \in Seq(Int) /\ wire \in Seq(Int) /\ got \in Seq(Int)
    /\ ev \in Int /\ closed \in BOOLEAN /\ broken \in BOOLEAN
CallInv == CallTypes /\ TerminalEnds /\ InFlight

(* A terminal event of the engine thread or a token joins the queue. *)
LEMMA PushKeeps ==
    ASSUME CallInv, NEW e \in Int, T!Push(e), engine = "running",
           IF IsTerminal(e) THEN engine' = "closing" ELSE engine' = "running",
           UNCHANGED <<closed, handler, ev, wire, broken, client, got>>
    PROVE  CallInv'
  <1> USE DEF CallInv, CallTypes
  <1>1. /\ pushed' = Append(pushed, e) /\ q' = Append(q, e)
        /\ pushed' \in Seq(Int) /\ q' \in Seq(Int)
        /\ Len(pushed') = Len(pushed) + 1 /\ Len(q') = Len(q) + 1
        /\ Len(pushed) \in Nat /\ Len(q) \in Nat /\ Len(wire) \in Nat /\ Len(got) \in Nat
        /\ \A i \in 1 .. Len(pushed) : pushed'[i] = pushed[i]
        /\ \A i \in 1 .. Len(q) : q'[i] = q[i]
        /\ pushed'[Len(pushed) + 1] = e /\ q'[Len(q) + 1] = e
    BY DEF T!Push
  <1>2. \A i \in 1 .. Len(pushed) : ~IsTerminal(pushed[i])
    BY DEF TerminalEnds
  <1>3. ~closed
    <2>1. closed => EndsPushed
      BY DEF TerminalEnds
    <2> QED BY <2>1, <1>1, <1>2 DEF EndsPushed
  <1>4. TerminalEnds'
    <2>1. ASSUME NEW i \in 1 .. Len(pushed) + 1, IsTerminal(pushed'[i])
          PROVE  i = Len(pushed) + 1 /\ engine' # "running"
      <3>1. i = Len(pushed) + 1
        BY <2>1, <1>1, <1>2
      <3> QED BY <3>1, <2>1, <1>1
    <2>2. engine' = "closing" => pushed' # <<>> /\ IsTerminal(pushed'[Len(pushed')])
      <3>1. engine' = "closing" => IsTerminal(e)
        OBVIOUS
      <3>2. pushed'[Len(pushed')] = e
        BY <1>1, Zenon
      <3>3. pushed' # <<>>
        <4>1. \A n \in Nat : n + 1 # 0
          OBVIOUS
        <4>2. Len(pushed') # 0
          BY <4>1, <1>1, Zenon
        <4> QED BY <4>2
      <3> QED BY <3>1, <3>2, <3>3
    <2> QED BY <2>1, <2>2, <1>1, <1>3 DEF TerminalEnds, EndsPushed, IsTerminal, T!IsTerminal
  <1>5. InFlight'
    <2> SUFFICES ASSUME ~broken PROVE InFlight'
      BY DEF InFlight
    <2>1. handler # "returned"
      <3>1. handler = "returned" => EndsPushed
        BY DEF InFlight
      <3>2. pushed # <<>> => Len(pushed) \in 1 .. Len(pushed)
        BY <1>1
      <3> QED BY <3>1, <3>2, <1>2 DEF EndsPushed
    <2>2. Holds \in {0, 1} /\ Holds' = Holds /\ (handler = "write" => Holds = 1)
      BY DEF Holds
    <2>3. /\ Len(pushed) = Len(got) + Len(wire) + Holds + Len(q)
          /\ \A i \in 1 .. Len(got) : got[i] = pushed[i]
          /\ \A i \in 1 .. Len(wire) : wire[i] = pushed[Len(got) + i]
          /\ handler = "write" => ev = pushed[Len(got) + Len(wire) + 1]
          /\ \A i \in 1 .. Len(q) : q[i] = pushed[Len(got) + Len(wire) + Holds + i]
      BY DEF InFlight
    <2>4. Len(pushed') = Len(got) + Len(wire) + Holds + Len(q')
      BY <2>2, <2>3, <1>1
    <2>5. \A i \in 1 .. Len(got) : got[i] = pushed'[i]
      BY <2>2, <2>3, <1>1
    <2>6. ASSUME NEW i \in 1 .. Len(wire) PROVE wire[i] = pushed'[Len(got) + i]
      <3>1. /\ Len(got) \in Nat /\ Len(wire) \in Nat /\ Len(q) \in Nat
            /\ Len(pushed) = Len(got) + Len(wire) + Holds + Len(q)
        BY <2>3, <1>1
      <3>2. Len(got) + i \in 1 .. Len(pushed)
        BY <3>1, <2>2
      <3> QED BY <3>2, <2>3, <1>1
    <2>7. ASSUME handler = "write" PROVE ev = pushed'[Len(got) + Len(wire) + 1]
      <3>1. Len(pushed) = Len(got) + Len(wire) + 1 + Len(q)
        BY <2>2, <2>3, <2>7
      <3>2. Len(got) + Len(wire) + 1 \in 1 .. Len(pushed)
        BY <3>1, <1>1
      <3> QED BY <2>3, <2>7, <3>2, <1>1
    <2>8. \A i \in 1 .. Len(q') : q'[i] = pushed'[Len(got) + Len(wire) + Holds + i]
      <3>1. ASSUME NEW i \in 1 .. Len(q)
            PROVE  q'[i] = pushed'[Len(got) + Len(wire) + Holds + i]
        <4>1. Len(got) + Len(wire) + Holds + i \in 1 .. Len(pushed)
          BY <2>2, <2>3, <1>1
        <4> QED BY <4>1, <2>3, <1>1
      <3>2. q'[Len(q) + 1] = pushed'[Len(got) + Len(wire) + Holds + (Len(q) + 1)]
        <4>1. Len(got) + Len(wire) + Holds + (Len(q) + 1) = Len(pushed) + 1
          BY <2>2, <2>3, <1>1
        <4> QED BY <4>1, <1>1
      <3>3. 1 .. Len(q') = (1 .. Len(q)) \cup {Len(q) + 1}
        BY <1>1
      <3> QED BY <3>1, <3>2, <3>3
    <2> QED BY <2>1, <2>2, <2>4, <2>5, <2>6, <2>7, <2>8 DEF InFlight
  <1> QED BY <1>1, <1>4, <1>5

(* The engine thread keeps the invariant of the call: it pushes tokens in  *)
(* order, then one terminal event, then closes.                            *)
LEMMA EngineKeeps ==
    ASSUME CallInv, T!SinkToken \/ T!Finish \/ T!SinkClose \/ T!DropCancelled
    PROVE  CallInv' /\ UNCHANGED <<client, got>>
  <1>1. CASE T!SinkToken
    <2>1. Len(pushed) + 1 \in Int /\ ~IsTerminal(Len(pushed) + 1)
      <3>1. Len(pushed) \in Nat
        BY DEF CallInv, CallTypes
      <3> QED BY <3>1 DEF IsTerminal, T!IsTerminal, T!Done, T!Error
    <2> QED BY <2>1, <1>1, PushKeeps DEF T!SinkToken
  <1>2. CASE T!Finish
    <2>1. PICK e \in {T!Done, T!Error} : T!SinkTerminal(e)
      BY <1>2 DEF T!Finish
    <2>2. e \in Int /\ IsTerminal(e)
      BY DEF IsTerminal, T!IsTerminal, T!Done, T!Error
    <2> QED BY <2>1, <2>2, PushKeeps DEF T!SinkTerminal
  <1>3. CASE T!SinkClose \/ T!DropCancelled
    <2>1. /\ UNCHANGED <<pushed, q, handler, ev, wire, broken, client, got>>
          /\ engine' = "left" /\ closed' \in BOOLEAN
          /\ closed' => closed \/ engine = "closing"
      <3>1. CASE T!SinkClose
        BY <3>1 DEF T!SinkClose
      <3>2. CASE T!DropCancelled
        BY <3>2 DEF T!DropCancelled, CallInv, CallTypes
      <3> QED BY <3>1, <3>2, <1>3
    <2>2. CallTypes'
      BY <2>1 DEF CallInv, CallTypes
    <2>3. TerminalEnds'
      BY <2>1 DEF CallInv, TerminalEnds, EndsPushed, IsTerminal, T!IsTerminal
    <2>4. InFlight'
      BY <2>1 DEF CallInv, InFlight, Holds, EndsPushed, IsTerminal, T!IsTerminal
    <2> QED BY <2>1, <2>2, <2>3, <2>4 DEF CallInv
  <1> QED BY <1>1, <1>2, <1>3

(* The handler thread moves events from the queue to the wire one by one,  *)
(* and returns with all of them written, unless the call is broken.        *)
LEMMA HandlerKeeps ==
    ASSUME CallInv, T!Handler
    PROVE  CallInv' /\ UNCHANGED <<client, got, pushed>>
  <1>0. /\ CallTypes /\ TerminalEnds /\ InFlight
        /\ Len(pushed) \in Nat /\ Len(q) \in Nat /\ Len(wire) \in Nat /\ Len(got) \in Nat
    BY DEF CallInv, CallTypes
  <1>1. UNCHANGED <<engine, pushed, closed, broken, client, got>>
    BY DEF T!Handler, T!PopEvent, T!PopNothing, T!Write, T!WriteFails, T!CheckCancelled,
           T!CheckClosed
  <1>2. TerminalEnds'
    BY <1>0, <1>1 DEF TerminalEnds, EndsPushed, IsTerminal, T!IsTerminal
  <1>3. ASSUME ~broken, handler # "returned"
        PROVE  /\ Len(pushed) = Len(got) + Len(wire) + Holds + Len(q)
               /\ \A i \in 1 .. Len(got) : got[i] = pushed[i]
               /\ \A i \in 1 .. Len(wire) : wire[i] = pushed[Len(got) + i]
               /\ handler = "write" => ev = pushed[Len(got) + Len(wire) + 1]
               /\ \A i \in 1 .. Len(q) : q[i] = pushed[Len(got) + Len(wire) + Holds + i]
    BY <1>0, <1>3 DEF InFlight
  <1>4. CASE T!PopEvent
    <2>1. /\ handler = "pop" /\ q # <<>> /\ ev' = Head(q) /\ q' = Tail(q)
          /\ handler' = "write" /\ wire' = wire
      BY <1>4 DEF T!PopEvent
    <2>2. /\ Len(q) > 0 /\ ev' = q[1] /\ ev' \in Int /\ q' \in Seq(Int)
          /\ Len(q') = Len(q) - 1
          /\ \A i \in 1 .. Len(q) - 1 : q'[i] = q[i + 1]
      BY <2>1, <1>0 DEF CallTypes
    <2>3. CallTypes'
      BY <2>1, <2>2, <1>0, <1>1 DEF CallTypes
    <2>4. ASSUME ~broken PROVE InFlight'
      <3>1. /\ Len(pushed) = Len(got) + Len(wire) + Len(q)
            /\ \A i \in 1 .. Len(q) : q[i] = pushed[Len(got) + Len(wire) + i]
        <4>1. Holds = 0
          BY <2>1 DEF Holds
        <4>2. /\ Len(pushed) = Len(got) + Len(wire) + 0 + Len(q)
              /\ \A i \in 1 .. Len(q) : q[i] = pushed[Len(got) + Len(wire) + 0 + i]
          BY <4>1, <2>1, <2>4, <1>3
        <4>3. Len(got) + Len(wire) + 0 = Len(got) + Len(wire)
          BY <1>0
        <4> QED BY <4>2, <4>3
      <3>2. Holds' = 1
        BY <2>1 DEF Holds
      <3>3. Len(pushed) = Len(got) + Len(wire) + 1 + Len(q')
        BY <3>1, <2>2, <1>0
      <3>4. ev' = pushed[Len(got) + Len(wire) + 1]
        <4>1. 1 \in 1 .. Len(q)
          BY <2>2, <1>0
        <4> QED BY <4>1, <3>1, <2>2
      <3>5. ASSUME NEW i \in 1 .. Len(q')
            PROVE  q'[i] = pushed[Len(got) + Len(wire) + 1 + i]
        <4>1. i \in 1 .. Len(q) - 1 /\ i + 1 \in 1 .. Len(q)
          BY <2>2, <1>0
        <4>2. Len(got) + Len(wire) + 1 + i = Len(got) + Len(wire) + (i + 1)
          BY <1>0
        <4> QED BY <4>1, <4>2, <3>1, <2>2
      <3> QED BY <3>2, <3>3, <3>4, <3>5, <2>1, <2>4, <1>1, <1>3 DEF InFlight
    <2>5. InFlight'
      BY <2>4, <1>1 DEF InFlight
    <2> QED BY <2>3, <2>5, <1>1, <1>2 DEF CallInv
  <1>5. CASE T!PopNothing \/ T!CheckCancelled
    <2>1. /\ UNCHANGED <<q, ev, wire>> /\ handler # "write" /\ handler # "returned"
          /\ handler' \in {"check_cancelled", "check_closed", "returned"}
          /\ ~broken => handler' # "returned"
      BY <1>5 DEF T!PopNothing, T!CheckCancelled
    <2>2. CallTypes'
      BY <2>1, <1>0, <1>1 DEF CallTypes
    <2>3. Holds' = Holds
      BY <2>1 DEF Holds
    <2>4. InFlight'
      BY <2>1, <2>3, <1>0, <1>1 DEF InFlight
    <2> QED BY <2>2, <2>4, <1>1, <1>2 DEF CallInv
  <1>6. CASE T!Write
    <2>1. /\ handler = "write" /\ wire' = Append(wire, ev) /\ q' = q
          /\ handler' = IF IsTerminal(ev) THEN "returned" ELSE "pop"
          /\ ev' \in Int
      BY <1>6 DEF T!Write, T!None, IsTerminal
    <2>2. /\ wire' \in Seq(Int) /\ Len(wire') = Len(wire) + 1
          /\ \A i \in 1 .. Len(wire) : wire'[i] = wire[i]
          /\ wire'[Len(wire) + 1] = ev
      BY <2>1, <1>0 DEF CallTypes
    <2>3. CallTypes'
      BY <2>1, <2>2, <1>0, <1>1 DEF CallTypes
    <2>4. ASSUME ~broken PROVE InFlight'
      <3>1. Holds = 1 /\ Holds' = 0
        BY <2>1 DEF Holds
      <3>2. /\ Len(pushed) = Len(got) + Len(wire) + 1 + Len(q)
            /\ ev = pushed[Len(got) + Len(wire) + 1]
            /\ \A i \in 1 .. Len(wire) : wire[i] = pushed[Len(got) + i]
            /\ \A i \in 1 .. Len(q) : q[i] = pushed[Len(got) + Len(wire) + 1 + i]
        BY <3>1, <2>1, <2>4, <1>3
      <3>3. Len(got) + Len(wire') + 0 = Len(got) + Len(wire) + 1
        BY <2>2, <1>0
      <3>4. Len(pushed) = Len(got) + Len(wire') + 0 + Len(q)
        BY <3>2, <3>3
      <3>5. \A i \in 1 .. Len(wire') : wire'[i] = pushed[Len(got) + i]
        <4>1. 1 .. Len(wire') = (1 .. Len(wire)) \cup {Len(wire) + 1}
          BY <2>2, <1>0
        <4>2. Len(got) + (Len(wire) + 1) = Len(got) + Len(wire) + 1
          BY <1>0
        <4>3. wire'[Len(wire) + 1] = pushed[Len(got) + (Len(wire) + 1)]
          BY <4>2, <3>2, <2>2
        <4> QED BY <4>1, <4>3, <3>2, <2>2
      <3>6. \A i \in 1 .. Len(q) : q[i] = pushed[Len(got) + Len(wire') + 0 + i]
        BY <3>2, <3>3
      <3>7. ASSUME handler' = "returned" PROVE q = <<>> /\ EndsPushed
        <4>1. IsTerminal(ev)
          BY <3>7, <2>1
        <4>2. Len(got) + Len(wire) + 1 \in 1 .. Len(pushed)
          BY <3>2, <1>0
        <4>3. IsTerminal(pushed[Len(got) + Len(wire) + 1])
          BY <4>1, <3>2
        <4>4. Len(got) + Len(wire) + 1 = Len(pushed)
          BY <4>2, <4>3, <1>0 DEF TerminalEnds
        <4>5. Len(q) = 0
          BY <4>4, <3>2, <1>0
        <4>6. q = <<>>
          BY <4>5, <1>0, EmptySeq DEF CallTypes
        <4>7. pushed # <<>>
          BY <4>4, <1>0
        <4> QED BY <4>3, <4>4, <4>6, <4>7 DEF EndsPushed
      <3>8. EndsPushed' = EndsPushed
        BY <1>1 DEF EndsPushed, IsTerminal, T!IsTerminal
      <3> QED BY <3>1, <3>4, <3>5, <3>6, <3>7, <3>8, <2>1, <2>4, <1>1, <1>3 DEF InFlight
    <2>5. InFlight'
      BY <2>4, <1>1 DEF InFlight
    <2> QED BY <2>3, <2>5, <1>1, <1>2 DEF CallInv
  <1>7. CASE T!WriteFails
    <2>1. broken' /\ handler' = "returned" /\ UNCHANGED <<q, wire>> /\ ev' \in Int
      BY <1>7, <1>1 DEF T!WriteFails, T!None
    <2> QED BY <2>1, <1>0, <1>1, <1>2 DEF CallInv, CallTypes, InFlight
  <1>8. CASE T!CheckClosed
    <2>1. /\ UNCHANGED <<q, ev, wire>> /\ handler = "check_closed"
          /\ handler' \in {"pop", "returned"}
          /\ handler' = "returned" => closed /\ q = <<>>
      BY <1>8 DEF T!CheckClosed, T!IsClosed
    <2>2. CallTypes'
      BY <2>1, <1>0, <1>1 DEF CallTypes
    <2>3. Holds' = Holds
      BY <2>1 DEF Holds
    <2>4. EndsPushed' = EndsPushed /\ (closed => EndsPushed)
      BY <1>0, <1>1 DEF EndsPushed, IsTerminal, T!IsTerminal, TerminalEnds
    <2>5. InFlight'
      BY <2>1, <2>3, <2>4, <1>0, <1>1 DEF InFlight
    <2> QED BY <2>2, <2>5, <1>1, <1>2 DEF CallInv
  <1> QED BY <1>4, <1>5, <1>6, <1>7, <1>8 DEF T!Handler

(* Recv takes the next event that was pushed: a token, or the terminal     *)
(* event after all others.  It never ends with io.EOF.                     *)
LEMMA RecvKeeps ==
    ASSUME CallInv, T!Recv, \A i \in 1 .. Len(got) : ~IsTerminal(got[i])
    PROVE  /\ CallInv' /\ Len(got') = Len(got) + 1
           /\ client' = "receiving" => \A i \in 1 .. Len(got') : ~IsTerminal(got'[i])
           /\ client' = "finished" => got' = pushed' /\ got'[Len(got')] = T!Done
  <1>0. /\ CallTypes /\ TerminalEnds /\ InFlight /\ ~broken
        /\ Len(pushed) \in Nat /\ Len(q) \in Nat /\ Len(wire) \in Nat /\ Len(got) \in Nat
    BY DEF CallInv, CallTypes, T!Recv
  <1>1. UNCHANGED <<engine, pushed, q, closed, handler, ev, broken>>
    BY DEF T!Recv
  <1>2. /\ Len(pushed) = Len(got) + Len(wire) + Holds + Len(q)
        /\ \A i \in 1 .. Len(got) : got[i] = pushed[i]
        /\ \A i \in 1 .. Len(wire) : wire[i] = pushed[Len(got) + i]
        /\ handler = "write" => ev = pushed[Len(got) + Len(wire) + 1]
        /\ \A i \in 1 .. Len(q) : q[i] = pushed[Len(got) + Len(wire) + Holds + i]
        /\ handler = "returned" => q = <<>> /\ EndsPushed
    BY <1>0 DEF InFlight
  <1>3. Holds \in {0, 1} /\ Holds' = Holds /\ (handler = "returned" => Holds = 0)
    BY <1>1 DEF Holds
  <1>4. wire # <<>>
    <2> SUFFICES ASSUME wire = <<>> PROVE FALSE
      OBVIOUS
    <2>1. handler = "returned"
      BY DEF T!Recv
    <2>2. Len(wire) = 0 /\ Len(q) = 0 /\ Holds = 0
      BY <2>1, <1>2, <1>3
    <2>3. Len(got) = Len(pushed)
      BY <2>2, <1>0, <1>2
    <2>4. pushed # <<>> /\ IsTerminal(pushed[Len(pushed)])
      BY <2>1, <1>2 DEF EndsPushed
    <2>5. Len(pushed) \in 1 .. Len(got)
      BY <2>3, <2>4, <1>0 DEF CallTypes
    <2> QED BY <2>4, <2>5, <1>2
  <1>5. PICK e : e = Head(wire)
    OBVIOUS
  <1>6. /\ got' = Append(got, e) /\ wire' = Tail(wire)
        /\ client' = CASE e = T!Done -> "finished" [] e = T!Error -> "failed"
                       [] OTHER -> "receiving"
    BY <1>4, <1>5 DEF T!Recv
  <1>7. /\ e \in Int /\ e = wire[1] /\ Len(wire) > 0
        /\ got' \in Seq(Int) /\ Len(got') = Len(got) + 1 /\ got'[Len(got) + 1] = e
        /\ \A i \in 1 .. Len(got) : got'[i] = got[i]
        /\ wire' \in Seq(Int) /\ Len(wire') = Len(wire) - 1
        /\ \A i \in 1 .. Len(wire) - 1 : wire'[i] = wire[i + 1]
    BY <1>0, <1>4, <1>5, <1>6 DEF CallTypes
  <1>8. e = pushed[Len(got) + 1] /\ Len(got) + 1 \in 1 .. Len(pushed)
    <2>1. 1 \in 1 .. Len(wire)
      BY <1>0, <1>7
    <2>2. Len(got) + 1 \in 1 .. Len(pushed)
      BY <1>0, <1>2, <1>3, <1>7
    <2> QED BY <2>1, <2>2, <1>2, <1>7
  <1>9. client' \in {"receiving", "finished", "failed"}
    BY <1>6
  <1>10. CallTypes'
    BY <1>0, <1>1, <1>7, <1>9 DEF CallTypes
  <1>11. TerminalEnds'
    BY <1>0, <1>1 DEF TerminalEnds, EndsPushed, IsTerminal, T!IsTerminal
  <1>12. 1 .. Len(got') = (1 .. Len(got)) \cup {Len(got) + 1}
    BY <1>0, <1>7
  <1>13. \A i \in 1 .. Len(got') : got'[i] = pushed[i]
    BY <1>2, <1>7, <1>8, <1>12
  <1>14. InFlight'
    <2>1. Len(pushed) = Len(got') + Len(wire') + Holds + Len(q)
      BY <1>0, <1>2, <1>3, <1>7
    <2>2. Len(got') + Len(wire') = Len(got) + Len(wire)
      BY <1>0, <1>7
    <2>3. ASSUME NEW i \in 1 .. Len(wire') PROVE wire'[i] = pushed[Len(got') + i]
      <3>1. i \in 1 .. Len(wire) - 1 /\ i + 1 \in 1 .. Len(wire)
        BY <1>0, <1>7
      <3>2. Len(got') + i = Len(got) + (i + 1)
        BY <1>0, <1>7
      <3> QED BY <3>1, <3>2, <1>2, <1>7
    <2>4. EndsPushed' = EndsPushed
      BY <1>1 DEF EndsPushed, IsTerminal, T!IsTerminal
    <2> QED BY <2>1, <2>2, <2>3, <2>4, <1>1, <1>2, <1>3, <1>13 DEF InFlight
  <1>15. ASSUME client' = "receiving"
         PROVE  \A i \in 1 .. Len(got') : ~IsTerminal(got'[i])
    <2>1. ~IsTerminal(e)
      BY <1>6, <1>15 DEF IsTerminal, T!IsTerminal
    <2> QED BY <2>1, <1>7, <1>12
  <1>16. ASSUME client' = "finished"
         PROVE  got' = pushed' /\ got'[Len(got')] = T!Done
    <2>1. e = T!Done
      BY <1>6, <1>16
    <2>2. IsTerminal(pushed[Len(got) + 1])
      BY <2>1, <1>8 DEF IsTerminal, T!IsTerminal
    <2>3. Len(got) + 1 = Len(pushed)
      BY <2>2, <1>0, <1>8 DEF TerminalEnds
    <2>4. Len(got') = Len(pushed)
      BY <2>3, <1>7
    <2>5. got' = pushed
      BY <2>4, <1>0, <1>7, <1>13, SeqEqual DEF CallTypes
    <2> QED BY <2>1, <2>5, <1>1, <1>7
  <1> QED BY <1>7, <1>10, <1>11, <1>14, <1>15, <1>16 DEF CallInv

(* A broken connection and a client that leaves keep it too; nothing that  *)
(* was received is lost.                                                   *)
LEMMA BreakKeeps ==
    ASSUME CallInv, T!RecvError \/ T!Disconnect
    PROVE  CallInv' /\ UNCHANGED <<got, pushed>>
  <1>1. /\ UNCHANGED <<engine, pushed, q, closed, handler, ev, wire, got>>
        /\ broken' /\ client' \in {client, "failed"}
    BY DEF T!RecvError, T!Disconnect, CallInv, CallTypes
  <1>2. TerminalEnds'
    BY <1>1 DEF CallInv, TerminalEnds, EndsPushed, IsTerminal, T!IsTerminal
  <1>3. broken' \in BOOLEAN
    BY DEF T!RecvError, T!Disconnect, CallInv, CallTypes
  <1> QED BY <1>1, <1>2, <1>3 DEF CallInv, CallTypes, InFlight

-----------------------------------------------------------------------------
(* The response: what is written, and what tells the client of success *)

IsSeq(s) == \E C : s \in Seq(C)
Tells(c) == c.kind \in {"finish", "message"}
Plain(s) == \E D : s \in Seq(D) /\ \A c \in D : ~Tells(c)

(* Sequences, and sequences without a chunk that tells an outcome, are     *)
(* closed under concatenation.                                             *)
LEMMA ConcatIsSeq ==
    ASSUME NEW s, NEW t, IsSeq(s), IsSeq(t)
    PROVE  /\ IsSeq(s \o t)
           /\ Plain(s) /\ Plain(t) => Plain(s \o t)
  <1>1. ASSUME NEW C, NEW D, s \in Seq(C), t \in Seq(D) PROVE s \o t \in Seq(C \cup D)
    <2>1. s \in Seq(C \cup D) /\ t \in Seq(C \cup D)
      BY <1>1
    <2> QED BY <2>1, ConcatProperties
  <1>2. IsSeq(s \o t)
    BY <1>1 DEF IsSeq
  <1>3. ASSUME Plain(s), Plain(t) PROVE Plain(s \o t)
    <2>1. PICK C : s \in Seq(C) /\ \A c \in C : ~Tells(c)
      BY <1>3 DEF Plain
    <2>2. PICK D : t \in Seq(D) /\ \A c \in D : ~Tells(c)
      BY <1>3 DEF Plain
    <2>3. s \o t \in Seq(C \cup D) /\ \A c \in C \cup D : ~Tells(c)
      BY <2>1, <2>2, <1>1
    <2> QED BY <2>3, Zenon DEF Plain
  <1> QED BY <1>2, <1>3

(* A chunk alone, or nothing. *)
LEMMA OneChunk ==
    ASSUME NEW c
    PROVE  /\ IsSeq(<<c>>) /\ IsSeq(<<>>) /\ Plain(<<>>)
           /\ ~Tells(c) => Plain(<<c>>)
  <1>1. <<c>> \in Seq({c}) /\ <<>> \in Seq({})
    OBVIOUS
  <1>2. IsSeq(<<c>>) /\ IsSeq(<<>>)
    BY <1>1, Zenon DEF IsSeq
  <1>3. ASSUME NEW s, NEW D, s \in Seq(D), \A x \in D : ~Tells(x) PROVE Plain(s)
    BY <1>3, Zenon DEF Plain
  <1>4. Plain(<<>>)
    <2>1. PICK s, D : s = <<>> /\ D = {}
      OBVIOUS
    <2>2. s \in Seq(D) /\ \A x \in D : ~Tells(x)
      BY <2>1
    <2> QED BY <2>1, <2>2, <1>3
  <1>5. ASSUME ~Tells(c) PROVE Plain(<<c>>)
    <2>1. PICK s, D : s = <<c>> /\ D = {c}
      OBVIOUS
    <2>2. s \in Seq(D) /\ \A x \in D : ~Tells(x)
      BY <1>5, <2>1
    <2> QED BY <2>1, <2>2, <1>3
  <1> QED BY <1>2, <1>4, <1>5

(* A sequence without such a chunk is a sequence. *)
LEMMA PlainIsSeq == \A s : Plain(s) => IsSeq(s)
  BY Zenon DEF Plain, IsSeq

(* Writing chunks that tell of no success tells of none. *)
LEMMA WriteKeeps ==
    ASSUME IsSeq(response), NEW chunks, IsSeq(chunks), NEW code, Write(code, chunks)
    PROVE  /\ IsSeq(response')
           /\ Plain(chunks) => (SuccessTold' => SuccessTold)
  <1>1. response' = response \/ response' = response \o chunks
    BY DEF Write
  <1>2. IsSeq(response')
    BY <1>1, ConcatIsSeq
  <1>3. ASSUME Plain(chunks), response' = response \o chunks, SuccessTold' PROVE SuccessTold
    <2>1. PICK C : response \in Seq(C)
      BY DEF IsSeq
    <2>2. PICK D : chunks \in Seq(D) /\ \A c \in D : ~Tells(c)
      BY <1>3 DEF Plain
    <2>3. PICK S : S = C \cup D
      OBVIOUS
    <2>4. response \in Seq(S) /\ chunks \in Seq(S)
      BY <2>1, <2>2, <2>3
    <2>5. PICK n, m, r : n = Len(response) /\ m = Len(chunks) /\ r = response \o chunks
      OBVIOUS
    <2>6. /\ n \in Nat /\ m \in Nat /\ DOMAIN response = 1 .. n /\ DOMAIN chunks = 1 .. m
          /\ r \in Seq(S) /\ Len(r) = n + m
          /\ \A i \in 1 .. n + m : r[i] = IF i <= n THEN response[i] ELSE chunks[i - n]
      BY <2>4, <2>5, ConcatProperties
    <2>7. DOMAIN r = 1 .. n + m
      BY <2>6
    <2>8. PICK i \in 1 .. n + m : Tells(r[i])
      BY <2>5, <2>7, <1>3 DEF SuccessTold, Tells
    <2>9. CASE i <= n
      BY <2>6, <2>8, <2>9 DEF SuccessTold, Tells
    <2>10. CASE ~(i <= n)
      <3>1. i - n \in 1 .. m /\ r[i] = chunks[i - n]
        BY <2>6, <2>10
      <3>2. chunks[i - n] \in D
        BY <3>1, <2>2, <2>5
      <3> QED BY <3>1, <3>2, <2>2, <2>8
    <2> QED BY <2>9, <2>10
  <1>4. response' = response => (SuccessTold' => SuccessTold)
    BY DEF SuccessTold
  <1> QED BY <1>1, <1>2, <1>3, <1>4

(* A delta is written as role, content and tool chunks. *)
LEMMA DeltaIsPlain ==
    ASSUME NEW d
    PROVE  Plain(DeltaChunks(d))
  <1>1. PICK o : o = IF api = "chat" /\ ~roleSent THEN <<Chunk("role")>> ELSE <<>>
    OBVIOUS
  <1>2. PICK c : c = IF d.bytes = <<>> THEN <<>> ELSE <<Content(Marshal(d.bytes))>>
    OBVIOUS
  <1>3. PICK t : t = IF d.call = 0 THEN <<>> ELSE <<Tool(d.call)>>
    OBVIOUS
  <1>4. DeltaChunks(d) = o \o c \o t
    BY <1>1, <1>2, <1>3, Zenon DEF DeltaChunks
  <1>5. ~Tells(Chunk("role"))
    BY DEF Tells, Chunk
  <1>6. \A b : ~Tells(Content(b))
    BY DEF Tells, Content, Chunk
  <1>7. \A n : ~Tells(Tool(n))
    BY DEF Tells, Tool, Chunk
  <1>8. Plain(o) /\ Plain(c) /\ Plain(t)
    BY <1>1, <1>2, <1>3, <1>5, <1>6, <1>7, OneChunk, Zenon
  <1>9. Plain(o \o c)
    BY <1>8, ConcatIsSeq, PlainIsSeq
  <1>10. Plain(o \o c \o t)
    BY <1>8, <1>9, ConcatIsSeq, PlainIsSeq
  <1> QED BY <1>4, <1>10

(* What is written while tokens arrive tells no outcome. *)
LEMMA NewChunksPlain == Plain(NewChunks)
  <1>1. Plain(<<>>)
    BY OneChunk
  <1>2. NewChunks = <<>> \/ \E d : NewChunks = DeltaChunks(d)
    BY Zenon DEF NewChunks
  <1> QED BY <1>1, <1>2, DeltaIsPlain, Zenon

(* A failed call tells the client of no success. *)
LEMMA FailedTells ==
    ASSUME IsSeq(response), NEW e, Failed(e)
    PROVE  IsSeq(response') /\ (SuccessTold' => SuccessTold)
  <1>1. ~Tells(Chunk("error")) /\ ~Tells(Chunk("done"))
    BY DEF Tells, Chunk
  <1>2. PICK a, b : a = <<Chunk("error")>> /\ b = <<Chunk("done")>>
    OBVIOUS
  <1>3. Plain(a) /\ Plain(b) /\ IsSeq(a) /\ IsSeq(b)
    BY <1>1, <1>2, OneChunk, Zenon
  <1>4. <<Chunk("error"), Chunk("done")>> = a \o b
    BY <1>2
  <1>5. Plain(a \o b) /\ IsSeq(a \o b)
    BY <1>3, ConcatIsSeq
  <1>6. UNCHANGED response \/ (\E code : Write(code, a)) \/ \E code : Write(code, a \o b)
    BY <1>2, <1>4, Zenon DEF Failed, FailedStream, Answer
  <1>7. CASE UNCHANGED response
    BY <1>7 DEF IsSeq, SuccessTold
  <1>8. CASE \E code : Write(code, a)
    BY <1>8, <1>3, WriteKeeps, Zenon
  <1>9. CASE \E code : Write(code, a \o b)
    BY <1>9, <1>5, WriteKeeps, Zenon
  <1> QED BY <1>6, <1>7, <1>8, <1>9

(* A token that is relayed is told as text or as a call, never as success, *)
(* and is one more id that was decoded.                                    *)
LEMMA RelayTells ==
    ASSUME IsSeq(response), IsSeq(ids), NEW id, Relay(id)
    PROVE  /\ IsSeq(response') /\ (SuccessTold' => SuccessTold)
           /\ IsSeq(ids') /\ Len(ids') = Len(ids) + 1
  <1>1. PICK c : c = NewChunks
    OBVIOUS
  <1>2. Plain(c) /\ IsSeq(c)
    BY <1>1, NewChunksPlain, PlainIsSeq, Zenon
  <1>3. Write(200, c) \/ UNCHANGED response
    BY <1>1, Zenon DEF Relay
  <1>4. IsSeq(response') /\ (SuccessTold' => SuccessTold)
    <2>1. CASE Write(200, c)
      BY <2>1, <1>2, WriteKeeps, Zenon
    <2>2. CASE UNCHANGED response
      BY <2>2 DEF IsSeq, SuccessTold
    <2> QED BY <1>3, <2>1, <2>2
  <1>5. ids' = Append(ids, id)
    BY DEF Relay, Receive
  <1>6. PICK C : ids \in Seq(C)
    BY DEF IsSeq
  <1>7. ids \in Seq(C \cup {id})
    BY <1>6
  <1>8. Append(ids, id) \in Seq(C \cup {id}) /\ Len(Append(ids, id)) = Len(ids) + 1
    BY <1>7
  <1> QED BY <1>4, <1>5, <1>8 DEF IsSeq

(* A success is written as a sequence of chunks, and no id is added. *)
LEMMA SucceedTells ==
    ASSUME IsSeq(response), NEW why, Succeed(why)
    PROVE  IsSeq(response') /\ UNCHANGED ids
  <1>1. PICK n, l, f, u, d, m :
          /\ n = NewChunks /\ l = LateRole(NewChunks) /\ f = <<Finish(reason')>>
          /\ u = IF usage THEN <<Chunk("usage")>> ELSE <<>>
          /\ d = <<Chunk("done")>>
          /\ m = <<Message(Marshal(text'), Len(calls'), reason')>>
    OBVIOUS
  <1>2. IsSeq(n)
    BY <1>1, NewChunksPlain, PlainIsSeq, Zenon
  <1>3. IsSeq(l) /\ IsSeq(f) /\ IsSeq(u) /\ IsSeq(d) /\ IsSeq(m)
    BY <1>1, OneChunk, Zenon DEF LateRole
  <1>4. IsSeq(n \o l)
    BY <1>2, <1>3, ConcatIsSeq
  <1>5. IsSeq(n \o l \o f)
    BY <1>3, <1>4, ConcatIsSeq
  <1>6. IsSeq(n \o l \o f \o u)
    BY <1>3, <1>5, ConcatIsSeq
  <1>7. IsSeq(n \o l \o f \o u \o d)
    BY <1>3, <1>6, ConcatIsSeq
  <1>8. Write(200, n \o l \o f \o u \o d) \/ Write(200, m)
    BY <1>1, Zenon DEF Succeed, Answer
  <1>9. IsSeq(response')
    BY <1>8, <1>7, <1>3, WriteKeeps, Zenon
  <1> QED BY <1>9 DEF Succeed, Return

-----------------------------------------------------------------------------
(* The invariant *)

(* Nothing is under way at first. *)
LEMMA ServingStarts == ServingInit => ServingInv
  <1> SUFFICES ASSUME ServingInit PROVE ServingInv
    OBVIOUS
  <1>1. T!Init /\ response = <<>> /\ ids = <<>>
    BY DEF ServingInit, HttpInit, Init
  <1>2. CallTypeOK
    <2>1. <<>> \in Seq({}) /\ <<>> \in Seq(Int)
      OBVIOUS
    <2>2. (\E C : response \in Seq(C)) /\ \E I : ids \in Seq(I)
      BY <1>1, <2>1
    <2>3. T!None \in Int
      BY DEF T!None
    <2> QED BY <1>1, <2>1, <2>2, <2>3 DEF CallTypeOK, T!Init
  <1>3. TerminalEnds /\ InFlight /\ Received
    BY <1>1 DEF TerminalEnds, InFlight, Received, Holds, T!Init
  <1>4. ~SuccessTold
    BY <1>1 DEF SuccessTold
  <1> QED BY <1>2, <1>3, <1>4 DEF ServingInv

(* What the invariant says apart from the call. *)
LEMMA InvParts ==
    ServingInv <=> /\ CallInv /\ Received
                   /\ IsSeq(response) /\ IsSeq(ids)
                   /\ SuccessTold => client = "finished"
  BY DEF ServingInv, CallInv, CallTypes, CallTypeOK, IsSeq

(* Once Done was received nothing more is pushed. *)
LEMMA DoneIsFinal ==
    ASSUME CallInv, Received, client = "finished"
    PROVE  engine # "running"
  <1>1. /\ pushed \in Seq(Int) /\ pushed # <<>> /\ IsTerminal(pushed[Len(pushed)])
    BY DEF CallInv, CallTypes, Received, IsTerminal, T!IsTerminal
  <1>2. Len(pushed) \in 1 .. Len(pushed)
    BY <1>1
  <1> QED BY <1>1, <1>2 DEF CallInv, TerminalEnds

(* A step that receives nothing, and leaves alone what was pushed unless   *)
(* the engine is still running, keeps what is known of the receiver.       *)
LEMMA ReceivedFrame ==
    ASSUME CallInv, Received, UNCHANGED <<got, ids>>, client' \in {client, "failed"},
           engine = "running" \/ UNCHANGED pushed
    PROVE  Received'
  <1>1. client = "finished" => UNCHANGED pushed
    BY DoneIsFinal
  <1>2. \A i \in 1 .. Len(got) : IsTerminal(got[i])' <=> IsTerminal(got[i])
    BY DEF IsTerminal, T!IsTerminal
  <1> QED BY <1>1, <1>2 DEF Received

(* The invariant is inductive. *)
LEMMA ServingStep == ServingInv /\ [ServingNext]_servingVars => ServingInv'
  <1> SUFFICES ASSUME ServingInv, [ServingNext]_servingVars PROVE ServingInv'
    OBVIOUS
  <1>0. /\ CallInv /\ Received /\ IsSeq(response) /\ IsSeq(ids)
        /\ SuccessTold => client = "finished"
    BY InvParts
  <1>p. ASSUME CallInv', Received', IsSeq(response'), IsSeq(ids'),
               SuccessTold' => client' = "finished"
        PROVE  ServingInv'
    BY <1>p DEF ServingInv, CallInv, CallTypes, CallTypeOK, IsSeq
  <1>1. CASE UNCHANGED vars /\ CallInv' /\ UNCHANGED got /\ client' \in {client, "failed"}
             /\ (SuccessTold => client' = "finished") /\ (engine = "running" \/ UNCHANGED pushed)
    <2>1. UNCHANGED <<response, ids>>
      BY <1>1 DEF vars, genVars, httpVars
    <2>2. Received'
      BY <1>0, <1>1, <2>1, ReceivedFrame
    <2>3. IsSeq(response') /\ IsSeq(ids') /\ (SuccessTold' => client' = "finished")
      BY <1>0, <1>1, <2>1 DEF SuccessTold
    <2> QED BY <1>1, <2>2, <2>3, <1>p
  <1>2. CASE /\ UNCHANGED <<ids, pushed, got>> /\ client' \in {client, "failed"} /\ CallInv'
             /\ IsSeq(response') /\ (SuccessTold' => SuccessTold)
             /\ (SuccessTold => client' = "finished")
    <2>1. Received'
      BY <1>0, <1>2, ReceivedFrame
    <2>2. IsSeq(ids')
      BY <1>0, <1>2
    <2> QED BY <1>2, <2>1, <2>2, <1>p
  <1>c. UNCHANGED callVars => CallInv' /\ UNCHANGED <<got, pushed, client>>
    <2> SUFFICES ASSUME UNCHANGED callVars PROVE CallInv' /\ UNCHANGED <<got, pushed, client>>
      OBVIOUS
    <2>1. UNCHANGED <<engine, pushed, q, closed, handler, ev, wire, broken, client, got>>
      BY DEF callVars
    <2> QED BY <2>1, <1>0 DEF CallInv, CallTypes, TerminalEnds, InFlight, EndsPushed, Holds,
                   IsTerminal, T!IsTerminal
  <1>3. CASE Handling
    <2>1. CallInv' /\ UNCHANGED <<got, pushed, client>>
      BY <1>3, <1>c DEF Handling
    <2>2. UNCHANGED ids
      BY <1>3 DEF Handling, Refuse, Accept, BuildAndSend, BuildRequest, genVars
    <2>3. IsSeq(response') /\ (SuccessTold' => SuccessTold)
      <3>1. CASE Refuse
        <4>1. PICK c : c = <<Chunk("error")>>
          OBVIOUS
        <4>2. ~Tells(Chunk("error"))
          BY DEF Tells, Chunk
        <4>3. Plain(c) /\ IsSeq(c)
          BY <4>1, <4>2, OneChunk, Zenon
        <4>4. Write(400, c)
          BY <3>1, <4>1 DEF Refuse, Answer
        <4> QED BY <4>3, <4>4, <1>0, WriteKeeps
      <3>2. CASE Accept
        BY <3>2, <1>0 DEF Accept, SuccessTold
      <3>3. CASE BuildAndSend
        <4>1. UNCHANGED response \/ \E e : Failed(e)
          BY <3>3 DEF BuildAndSend
        <4>2. CASE UNCHANGED response
          BY <4>2, <1>0 DEF SuccessTold
        <4>3. CASE \E e : Failed(e)
          BY <4>3, <1>0, FailedTells
        <4> QED BY <4>1, <4>2, <4>3
      <3> QED BY <1>3, <3>1, <3>2, <3>3 DEF Handling
    <2> QED BY <2>1, <2>2, <2>3, <1>0, <1>2
  <1>4. CASE Leaving
    <2>1. CallInv' /\ UNCHANGED <<got, pushed, client, response, ids>>
      BY <1>4, <1>c DEF Leaving, ClientLeaves, genVars
    <2>2. IsSeq(response') /\ (SuccessTold' => SuccessTold)
      BY <1>0, <2>1 DEF SuccessTold
    <2> QED BY <2>1, <2>2, <1>0, <1>2
  <1>5. CASE Sampling \/ Finishing \/ Closing
    <2>1. /\ UNCHANGED vars
          /\ T!SinkToken \/ T!Finish \/ T!SinkClose \/ T!DropCancelled
      BY <1>5 DEF Sampling, Finishing, Closing
    <2>2. CallInv' /\ UNCHANGED <<client, got>>
      BY <2>1, <1>0, EngineKeeps
    <2>3. engine = "running" \/ UNCHANGED pushed
      BY <2>1 DEF T!SinkToken, T!Finish, T!SinkTerminal, T!SinkClose, T!DropCancelled
    <2> QED BY <2>1, <2>2, <2>3, <1>0, <1>1
  <1>6. CASE RpcHandler
    <2>1. UNCHANGED vars /\ T!Handler
      BY <1>6 DEF RpcHandler
    <2>2. CallInv' /\ UNCHANGED <<client, got, pushed>>
      BY <2>1, <1>0, HandlerKeeps
    <2> QED BY <2>1, <2>2, <1>0, <1>1
  <1>7. CASE Receiving
    <2>0. T!Recv /\ client = "receiving" /\ ~SuccessTold
      BY <1>7, <1>0 DEF Receiving, T!Recv
    <2>1. /\ \A i \in 1 .. Len(got) : ~IsTerminal(got[i])
          /\ Len(ids) = Len(got)
      BY <2>0, <1>0 DEF Received
    <2>2. /\ CallInv' /\ Len(got') = Len(got) + 1
          /\ client' = "receiving" => \A i \in 1 .. Len(got') : ~IsTerminal(got'[i])
          /\ client' = "finished" => got' = pushed' /\ got'[Len(got')] = T!Done
      BY <1>0, <2>0, <2>1, RecvKeeps
    <2>3. client' \in {"receiving", "finished", "failed"} /\ got' \in Seq(Int) /\ got \in Seq(Int)
      BY <2>2, <1>0 DEF CallInv, CallTypes
    <2>4. Len(got) \in Nat /\ got' # <<>>
      <3>1. Len(got) \in Nat /\ Len(got') # 0
        BY <2>2, <2>3
      <3> QED BY <3>1
    <2>5. CASE client' = "receiving"
      <3>1. PICK id : Relay(id)
        BY <1>7, <2>5 DEF Receiving
      <3>2. /\ IsSeq(response') /\ (SuccessTold' => SuccessTold)
            /\ IsSeq(ids') /\ Len(ids') = Len(ids) + 1
        BY <3>1, <1>0, RelayTells
      <3>3. Received'
        BY <2>1, <2>2, <2>5, <3>2 DEF Received, IsTerminal, T!IsTerminal
      <3> QED BY <2>0, <2>2, <3>2, <3>3, <1>p
    <2>6. CASE client' = "finished"
      <3>1. PICK why : Succeed(why)
        BY <1>7, <2>6 DEF Receiving
      <3>2. IsSeq(response') /\ UNCHANGED ids
        BY <3>1, <1>0, SucceedTells
      <3>3. Len(ids') = Len(got') - 1
        BY <2>1, <2>2, <2>4, <3>2
      <3>4. Received'
        BY <2>2, <2>4, <2>6, <3>3 DEF Received
      <3> QED BY <2>2, <2>6, <3>2, <3>4, <1>0, <1>p
    <2>7. CASE client' = "failed"
      <3>1. Fail(ErrorFor)
        BY <1>7, <2>7 DEF Receiving
      <3>2. IsSeq(response') /\ (SuccessTold' => SuccessTold)
        BY <3>1, <1>0, FailedTells DEF Fail
      <3>3. UNCHANGED ids
        BY <3>1 DEF Fail, ReturnError
      <3>4. Received'
        BY <2>7 DEF Received
      <3> QED BY <2>0, <2>2, <3>2, <3>3, <3>4, <1>0, <1>p
    <2> QED BY <2>3, <2>5, <2>6, <2>7
  <1>8. CASE ReceiveFails
    <2>1. T!RecvError /\ Fail("engine_error")
      BY <1>8 DEF ReceiveFails
    <2>2. CallInv' /\ UNCHANGED <<got, pushed>>
      BY <2>1, <1>0, BreakKeeps
    <2>3. client = "receiving" /\ client' = "failed"
      BY <2>1 DEF T!RecvError
    <2>4. IsSeq(response') /\ (SuccessTold' => SuccessTold)
      BY <2>1, <1>0, FailedTells DEF Fail
    <2>5. UNCHANGED ids
      BY <2>1 DEF Fail, ReturnError
    <2> QED BY <2>2, <2>3, <2>4, <2>5, <1>0, <1>2
  <1>9. CASE CancelCall \/ ConnectionLost
    <2>1. UNCHANGED vars /\ T!Disconnect
      BY <1>9 DEF CancelCall, ConnectionLost
    <2>2. CallInv' /\ UNCHANGED <<got, pushed>>
      BY <2>1, <1>0, BreakKeeps
    <2>3. UNCHANGED client
      BY <2>1 DEF T!Disconnect
    <2> QED BY <2>1, <2>2, <2>3, <1>0, <1>1
  <1>10. CASE UNCHANGED servingVars
    <2>1. UNCHANGED vars /\ UNCHANGED callVars
      BY <1>10 DEF servingVars
    <2> QED BY <2>1, <1>c, <1>0, <1>1
  <1> QED BY <1>3, <1>4, <1>5, <1>6, <1>7, <1>8, <1>9, <1>10 DEF ServingNext

(* WholeAnswer, for every bound on tokens and every interleaving: what the *)
(* HTTP client is told is complete is all that the engine pushed, Done at  *)
(* its end, with every token decoded.                                      *)
THEOREM AnswersAreWhole == ServingSpec => []WholeAnswer
  <1>1. ServingInv => WholeAnswer
    <2> SUFFICES ASSUME ServingInv, Sent("finish") \cup Sent("message") # {}
                 PROVE  got = pushed /\ Last(got) = T!Done /\ Len(ids) = Len(got) - 1
      BY DEF WholeAnswer
    <2>1. SuccessTold
      BY DEF Sent, SuccessTold
    <2>2. client = "finished"
      BY <2>1 DEF ServingInv
    <2> QED BY <2>2 DEF ServingInv, Received, Last
  <1> QED BY <1>1, ServingStarts, ServingStep, PTL DEF ServingSpec

-----------------------------------------------------------------------------
(* What the client reads *)

(* Output that may begin with a role chunk, and only there. *)
Output(head, r) ==
    \A i \in 1 .. Len(r) :
        /\ r[i].kind \in {"role", "content", "tool"}
        /\ r[i].kind = "role" <=> i = 1 /\ head = "role"
HasTool(r) == \E i \in 1 .. Len(r) : r[i].kind = "tool"

(* What an answer begins with. *)
ApiHead == IF api = "chat" THEN "role" ELSE "none"

(* The first n chunks are output: a role chunk at the head of a chat and   *)
(* nowhere else, then text and calls.                                      *)
OutputUpTo(n) ==
    \A i \in 1 .. n :
        /\ response[i].kind \in {"role", "content", "tool"}
        /\ response[i].kind = "role" <=> i = 1 /\ api = "chat"
ToolUpTo(n) == \E i \in 1 .. n : response[i].kind = "tool"

(* A request that has not been looked at yet. *)
Fresh ==
    /\ response = <<>> /\ status = 0 /\ phase = "build" /\ err = "none"
    /\ ~roleSent /\ calls = <<>>

(* Before the end: a role chunk was sent exactly if anything was, and a    *)
(* tool chunk exactly if there is a call.                                  *)
Underway ==
    /\ err = "none" /\ phase # "returned"
    /\ IF streaming
         THEN /\ Output(ApiHead, response)
              /\ status = IF response = <<>> THEN 0 ELSE 200
              /\ ~gone => /\ api = "chat" => (roleSent <=> response # <<>>)
                          /\ HasTool(response) <=> calls # <<>>
         ELSE status = 0 /\ response = <<>>

(* The five ways to end. *)
Refused ==
    /\ status = 400 /\ phase # "returned"
    /\ Len(response) = 1 /\ response[1].kind = "error"
CallFailed ==
    /\ ~streaming /\ status # 200 /\ err # "none"
    /\ Len(response) = 1 /\ response[1].kind = "error"
CallSucceeded ==
    /\ ~streaming /\ status = 200 /\ err = "none" /\ phase = "returned"
    /\ Len(response) = 1 /\ response[1].kind = "message"
    /\ response[1].reason = "tool_calls" <=> response[1].call > 0
StreamFailed ==
    /\ streaming /\ status = 200 /\ err # "none"
    /\ \E n \in 0 .. Len(response) :
        /\ OutputUpTo(n) /\ Len(response) = n + 2
        /\ response[n + 1].kind = "error" /\ response[n + 2].kind = "done"
StreamSucceeded ==
    /\ streaming /\ status = 200 /\ err = "none" /\ phase = "returned"
    /\ \E n \in 0 .. Len(response) :
        /\ OutputUpTo(n) /\ (api = "chat" => n > 0)
        /\ response[n + 1].kind = "finish"
        /\ response[n + 1].reason = "tool_calls" <=> ToolUpTo(n)
        /\ IF usage THEN /\ Len(response) = n + 3
                         /\ response[n + 2].kind = "usage" /\ response[n + 3].kind = "done"
           ELSE Len(response) = n + 2 /\ response[n + 2].kind = "done"

Ended == Refused \/ CallFailed \/ CallSucceeded \/ StreamFailed \/ StreamSucceeded

(* What is kept of a request from its first to its last step.              *)
HttpTypes ==
    /\ stage \in {"new", "generate", "answered"} /\ api \in {"chat", "raw"}
    /\ IsSeq(response) /\ IsSeq(deltas) /\ IsSeq(calls) /\ nTools \in Nat
    /\ streaming \in BOOLEAN /\ gone \in BOOLEAN /\ usage \in BOOLEAN /\ roleSent \in BOOLEAN

HttpInv ==
    /\ HttpTypes
    /\ stage = "new" => Fresh
    /\ stage = "generate" => Underway
    /\ stage = "answered" /\ gone /\ streaming => Output(ApiHead, response)
    /\ stage = "answered" /\ ~gone => Ended

(* A sequence followed by another. *)
LEMMA Join ==
    ASSUME NEW r, NEW c, IsSeq(r), IsSeq(c)
    PROVE  /\ IsSeq(r \o c)
           /\ Len(r) \in Nat /\ Len(c) \in Nat /\ Len(r \o c) = Len(r) + Len(c)
           /\ \A i \in 1 .. Len(r) : (r \o c)[i] = r[i]
           /\ \A i \in 1 .. Len(c) : (r \o c)[Len(r) + i] = c[i]
           /\ r \o <<>> = r /\ <<>> \o c = c
           /\ (Len(r) = 0 <=> r = <<>>) /\ DOMAIN r = 1 .. Len(r)
  <1>1. PICK C, D : r \in Seq(C) /\ c \in Seq(D)
    BY DEF IsSeq
  <1>2. PICK S : S = C \cup D
    OBVIOUS
  <1>3. r \in Seq(S) /\ c \in Seq(S)
    BY <1>1, <1>2
  <1>4. PICK n, m, t : n = Len(r) /\ m = Len(c) /\ t = r \o c
    OBVIOUS
  <1>5. /\ n \in Nat /\ m \in Nat /\ t \in Seq(S) /\ Len(t) = n + m
        /\ \A i \in 1 .. n + m : t[i] = IF i <= n THEN r[i] ELSE c[i - n]
    BY <1>3, <1>4, ConcatProperties
  <1>6. \A i \in 1 .. n : i \in 1 .. n + m /\ i <= n
    BY <1>5
  <1>7. \A i \in 1 .. m : n + i \in 1 .. n + m /\ ~(n + i <= n) /\ (n + i) - n = i
    BY <1>5
  <1>8. (\A i \in 1 .. n : t[i] = r[i]) /\ (\A i \in 1 .. m : t[n + i] = c[i])
    BY <1>5, <1>6, <1>7
  <1>9. r \o <<>> = r /\ <<>> \o c = c
    BY <1>3, ConcatEmptySeq
  <1>10. (n = 0 <=> r = <<>>) /\ DOMAIN r = 1 .. n
    BY <1>3, <1>4, EmptySeq
  <1>11. IsSeq(t)
    BY <1>5 DEF IsSeq
  <1> QED BY <1>4, <1>5, <1>8, <1>9, <1>10, <1>11

Associates(r, c, d) == (r \o c) \o d = r \o (c \o d)

(* Concatenation of sequences of anything is associative. *)
LEMMA JoinAssociative ==
    ASSUME NEW r, NEW c, NEW d, IsSeq(r), IsSeq(c), IsSeq(d)
    PROVE  Associates(r, c, d)
  <1>1. PICK C, D, E : r \in Seq(C) /\ c \in Seq(D) /\ d \in Seq(E)
    BY DEF IsSeq
  <1>2. PICK S : S = C \cup D \cup E
    OBVIOUS
  <1>3. r \in Seq(S) /\ c \in Seq(S) /\ d \in Seq(S)
    BY <1>1, <1>2
  <1>4. (r \o c) \o d = r \o (c \o d)
    BY ONLY <1>3, ConcatAssociative
  <1> QED BY <1>4 DEF Associates

(* One chunk more. *)
LEMMA JoinOne ==
    ASSUME NEW r, IsSeq(r), NEW x
    PROVE  /\ IsSeq(r \o <<x>>)
           /\ Len(r) \in Nat /\ Len(r \o <<x>>) = Len(r) + 1
           /\ \A i \in 1 .. Len(r) : (r \o <<x>>)[i] = r[i]
           /\ (r \o <<x>>)[Len(r) + 1] = x
  <1>1. PICK c : c = <<x>>
    OBVIOUS
  <1>0. IsSeq(c)
    BY <1>1, OneChunk
  <1>2. Len(c) = 1 /\ c[1] = x
    BY <1>1
  <1>3. /\ IsSeq(r \o c)
        /\ Len(r) \in Nat /\ Len(r \o c) = Len(r) + 1
        /\ \A i \in 1 .. Len(r) : (r \o c)[i] = r[i]
        /\ (r \o c)[Len(r) + 1] = x
    <2>1. 1 \in 1 .. Len(c)
      BY <1>2
    <2>2. PICK t, n : t = r \o c /\ n = Len(r)
      OBVIOUS
    <2>3. /\ IsSeq(t) /\ n \in Nat /\ Len(t) = n + Len(c)
          /\ \A i \in 1 .. n : t[i] = r[i]
          /\ \A i \in 1 .. Len(c) : t[n + i] = c[i]
      BY <1>0, <2>2, Join
    <2> QED BY <1>2, <2>1, <2>2, <2>3
  <1> QED BY <1>1, <1>3

(* Output after output. *)
LEMMA JoinOutput ==
    ASSUME NEW r, NEW c, IsSeq(r), IsSeq(c), NEW head,
           Output(head, r), Output(IF r = <<>> THEN head ELSE "none", c)
    PROVE  /\ Output(head, r \o c)
           /\ HasTool(r \o c) <=> HasTool(r) \/ HasTool(c)
           /\ r \o c = <<>> <=> r = <<>> /\ c = <<>>
  <1>1. PICK n, m, t : n = Len(r) /\ m = Len(c) /\ t = r \o c
    OBVIOUS
  <1>2. /\ n \in Nat /\ m \in Nat /\ Len(t) = n + m
        /\ \A i \in 1 .. n : t[i] = r[i]
        /\ \A i \in 1 .. m : t[n + i] = c[i]
        /\ n = 0 <=> r = <<>>
    BY <1>1, Join
  <1>3. (m = 0 <=> c = <<>>) /\ (n + m = 0 <=> t = <<>>)
    <2>1. IsSeq(t)
      BY <1>1, Join
    <2>2. m = 0 <=> c = <<>>
      BY <1>1, Join
    <2>3. Len(t) = 0 <=> t = <<>>
      BY <2>1, Join
    <2> QED BY <2>2, <2>3, <1>2
  <1>4. ASSUME NEW i \in 1 .. n + m
        PROVE  i \in 1 .. n \/ \E k \in 1 .. m : i = n + k
    <2>1. CASE i <= n
      BY <1>2, <2>1
    <2>2. CASE ~(i <= n)
      <3>1. i - n \in 1 .. m /\ i = n + (i - n)
        BY <1>2, <2>2
      <3> QED BY <3>1
    <2> QED BY <2>1, <2>2
  <1>5. ASSUME NEW i \in 1 .. n + m
        PROVE  /\ t[i].kind \in {"role", "content", "tool"}
               /\ t[i].kind = "role" <=> i = 1 /\ head = "role"
    <2>1. CASE i \in 1 .. n
      BY <1>1, <1>2, <2>1 DEF Output
    <2>2. CASE \E k \in 1 .. m : i = n + k
      <3>1. PICK k \in 1 .. m : i = n + k
        BY <2>2
      <3>2. /\ t[i] = c[k]
            /\ c[k].kind \in {"role", "content", "tool"}
            /\ c[k].kind = "role" <=> k = 1 /\ (IF r = <<>> THEN head ELSE "none") = "role"
        BY <1>1, <1>2, <3>1 DEF Output
      <3>3. i = 1 <=> n = 0 /\ k = 1
        BY <1>2, <3>1
      <3> QED BY <3>2, <3>3, <1>2
    <2> QED BY <1>4, <2>1, <2>2
  <1>6. HasTool(t) <=> HasTool(r) \/ HasTool(c)
    <2>1. \A i \in 1 .. n : i \in 1 .. n + m
      BY <1>2
    <2>2. \A i \in 1 .. m : n + i \in 1 .. n + m
      BY <1>2
    <2>3. ASSUME HasTool(t) PROVE HasTool(r) \/ HasTool(c)
      <3>1. PICK i \in 1 .. n + m : t[i].kind = "tool"
        BY <1>2, <2>3 DEF HasTool
      <3>2. i \in 1 .. n \/ \E k \in 1 .. m : i = n + k
        BY <1>4
      <3> QED BY <1>1, <1>2, <3>1, <3>2 DEF HasTool
    <2>4. ASSUME HasTool(r) PROVE HasTool(t)
      BY <1>1, <1>2, <2>1, <2>4 DEF HasTool
    <2>5. ASSUME HasTool(c) PROVE HasTool(t)
      BY <1>1, <1>2, <2>2, <2>5 DEF HasTool
    <2> QED BY <2>3, <2>4, <2>5
  <1> QED BY <1>1, <1>2, <1>3, <1>5, <1>6 DEF Output

(* A chunk alone, or nothing, as output. *)
LEMMA OneOutput ==
    ASSUME NEW x, NEW head
    PROVE  /\ Output(head, <<>>) /\ ~HasTool(<<>>)
           /\ /\ x.kind \in {"role", "content", "tool"}
              /\ x.kind = "role" <=> head = "role"
              => Output(head, <<x>>)
           /\ HasTool(<<x>>) <=> x.kind = "tool"
           /\ <<x>> # <<>>
  <1>1. Len(<<>>) = 0 /\ 1 .. 0 = {}
    OBVIOUS
  <1>2. PICK s : s = <<x>>
    OBVIOUS
  <1>3. Len(s) = 1 /\ s[1] = x /\ 1 .. 1 = {1} /\ s # <<>>
    BY <1>2
  <1>4. Output(head, <<>>) /\ ~HasTool(<<>>)
    BY <1>1 DEF Output, HasTool
  <1>5. \A i \in 1 .. Len(s) : i = 1
    BY <1>3
  <1>6. HasTool(s) <=> x.kind = "tool"
    BY <1>3 DEF HasTool
  <1>7. ASSUME x.kind \in {"role", "content", "tool"}, x.kind = "role" <=> head = "role"
        PROVE  Output(head, s)
    BY <1>3, <1>5, <1>7 DEF Output
  <1> QED BY <1>2, <1>3, <1>4, <1>6, <1>7

(* The role chunk is owed. *)
HeadKind == IF api = "chat" /\ ~roleSent THEN "role" ELSE "none"

(* What onDelta writes is output, opens with the role if that is owed, and *)
(* has a tool chunk exactly for a call.                                    *)
LEMMA DeltaOutput ==
    ASSUME NEW d
    PROVE  /\ IsSeq(DeltaChunks(d)) /\ Output(HeadKind, DeltaChunks(d))
           /\ HasTool(DeltaChunks(d)) <=> d.call # 0
           /\ HeadKind = "role" => DeltaChunks(d) # <<>>
  <1>1. PICK o : o = IF api = "chat" /\ ~roleSent THEN <<Chunk("role")>> ELSE <<>>
    OBVIOUS
  <1>2. PICK c : c = IF d.bytes = <<>> THEN <<>> ELSE <<Content(Marshal(d.bytes))>>
    OBVIOUS
  <1>3. PICK t : t = IF d.call = 0 THEN <<>> ELSE <<Tool(d.call)>>
    OBVIOUS
  <1>4. DeltaChunks(d) = (o \o c) \o t
    BY <1>1, <1>2, <1>3, Zenon DEF DeltaChunks
  <1>5. Chunk("role").kind = "role"
    BY DEF Chunk
  <1>6. \A b : Content(b).kind = "content"
    BY DEF Content, Chunk
  <1>7. \A n : Tool(n).kind = "tool"
    BY DEF Tool, Chunk
  <1>8. IsSeq(o) /\ IsSeq(c) /\ IsSeq(t)
    BY <1>1, <1>2, <1>3, OneChunk, Zenon
  <1>9. Output(HeadKind, o) /\ ~HasTool(o) /\ (HeadKind = "role" <=> o # <<>>)
    <2>1. CASE api = "chat" /\ ~roleSent
      <3>1. o = <<Chunk("role")>> /\ HeadKind = "role"
        BY <1>1, <2>1 DEF HeadKind
      <3> QED BY <3>1, <1>5, OneOutput
    <2>2. CASE ~(api = "chat" /\ ~roleSent)
      <3>1. o = <<>> /\ HeadKind = "none"
        BY <1>1, <2>2 DEF HeadKind
      <3> QED BY <3>1, OneOutput
    <2> QED BY <2>1, <2>2
  <1>10. Output("none", c) /\ ~HasTool(c)
    <2>1. PICK x : x = Content(Marshal(d.bytes))
      OBVIOUS
    <2>2. x.kind = "content"
      BY <1>6, <2>1
    <2>3. c = <<>> \/ c = <<x>>
      BY <1>2, <2>1
    <2> QED BY <2>2, <2>3, OneOutput
  <1>11. Output("none", t) /\ (HasTool(t) <=> d.call # 0)
    <2>1. PICK x : x = Tool(d.call)
      OBVIOUS
    <2>2. x.kind = "tool"
      BY <1>7, <2>1
    <2>3. t = IF d.call = 0 THEN <<>> ELSE <<x>>
      BY <1>3, <2>1
    <2> QED BY <2>2, <2>3, OneOutput
  <1>12. (IF o = <<>> THEN HeadKind ELSE "none") = "none"
    BY <1>9 DEF HeadKind
  <1>13. PICK oc : oc = o \o c
    OBVIOUS
  <1>14. /\ IsSeq(oc) /\ Output(HeadKind, oc) /\ ~HasTool(oc)
         /\ HeadKind = "role" => oc # <<>>
    <2>1. IsSeq(oc)
      BY <1>8, <1>13, Join
    <2>2. Output(IF o = <<>> THEN HeadKind ELSE "none", c)
      BY <1>10, <1>12
    <2>3. /\ Output(HeadKind, oc) /\ (HasTool(oc) <=> HasTool(o) \/ HasTool(c))
          /\ (oc = <<>> <=> o = <<>> /\ c = <<>>)
      BY <1>8, <1>9, <1>13, <2>2, JoinOutput
    <2> QED BY <2>1, <2>3, <1>9, <1>10
  <1>15. (IF oc = <<>> THEN HeadKind ELSE "none") = "none"
    BY <1>14 DEF HeadKind
  <1>16. /\ IsSeq(oc \o t) /\ Output(HeadKind, oc \o t)
         /\ HasTool(oc \o t) <=> d.call # 0
         /\ HeadKind = "role" => oc \o t # <<>>
    <2>1. IsSeq(oc \o t)
      BY <1>8, <1>14, Join
    <2>2. Output(IF oc = <<>> THEN HeadKind ELSE "none", t)
      BY <1>11, <1>15
    <2>3. /\ Output(HeadKind, oc \o t) /\ (HasTool(oc \o t) <=> HasTool(oc) \/ HasTool(t))
          /\ (oc \o t = <<>> <=> oc = <<>> /\ t = <<>>)
      BY <1>8, <1>14, <2>2, JoinOutput
    <2> QED BY <2>1, <2>3, <1>11, <1>14
  <1> QED BY <1>4, <1>13, <1>16

(* A delta that is handed over is the one that is written. *)
LEMMA NewChunksAre ==
    ASSUME IsSeq(deltas), NEW d
    PROVE  /\ deltas' = deltas => NewChunks = <<>>
           /\ deltas' = Append(deltas, d) => NewChunks = DeltaChunks(d)
  <1>1. PICK n, s : n = Len(deltas) /\ s = Append(deltas, d)
    OBVIOUS
  <1>2. PICK C : deltas \in Seq(C)
    BY DEF IsSeq
  <1>3. deltas \in Seq(C \cup {d})
    BY <1>2
  <1>4. n \in Nat /\ Len(s) = n + 1 /\ s[n + 1] = d
    BY <1>1, <1>3
  <1>5. ~(n > n) /\ Len(s) > n /\ Last(s) = d
    BY <1>4 DEF Last
  <1> QED BY <1>1, <1>5, Zenon DEF NewChunks

(* What one id adds: no delta and no call, or one delta with its call. *)
LEMMA ReceiveDelivers ==
    ASSUME IsSeq(deltas), IsSeq(calls), nTools \in Nat, NEW id, Receive(id)
    PROVE  /\ nTools' \in Nat
           /\ \/ UNCHANGED <<deltas, calls>>
              \/ \E d : /\ deltas' = Append(deltas, d)
                        /\ calls' = IF d.call = 0 THEN calls ELSE Append(calls, d.call)
  <1>1. ASSUME NEW b, NEW n, Deliver(b, n)
        PROVE  \/ UNCHANGED <<deltas, calls>>
               \/ \E d : /\ deltas' = Append(deltas, d)
                         /\ calls' = IF d.call = 0 THEN calls ELSE Append(calls, d.call)
    <2>1. PICK d : d = [bytes |-> b, call |-> n]
      OBVIOUS
    <2>2. d.call = n
      BY <2>1
    <2>3. CASE b = <<>> /\ n = 0
      BY <1>1, <2>3 DEF Deliver
    <2>4. CASE ~(b = <<>> /\ n = 0)
      BY <1>1, <2>1, <2>2, <2>4 DEF Deliver
    <2> QED BY <2>3, <2>4
  <1>2. \/ /\ UNCHANGED <<deltas, calls>>
           /\ nTools' = nTools
        \/ /\ \E b, n : Deliver(b, n)
           /\ nTools' \in {nTools, nTools + 1}
    <2>1. CASE Emit(id)
      <3>1. \E b, n : Deliver(b, n)
        BY <2>1, Zenon DEF Emit
      <3>2. nTools' = nTools
        BY <2>1 DEF Emit, toolVars
      <3> QED BY <3>1, <3>2
    <2>2. CASE PushClose
      <3>1. \E b, n : Deliver(b, n)
        BY <2>2, Zenon DEF PushClose
      <3>2. nTools' \in {nTools, nTools + 1}
        BY <2>2 DEF PushClose
      <3> QED BY <3>1, <3>2
    <2>3. CASE PushOpen \/ PushTool(id) \/ UNCHANGED <<pending, toolVars, resVars>>
      BY <2>3 DEF PushOpen, PushTool, toolVars, resVars
    <2>4. \/ Emit(id) \/ PushClose \/ PushOpen \/ PushTool(id)
          \/ UNCHANGED <<pending, toolVars, resVars>>
      BY DEF Receive, PushChat
    <2> QED BY <2>1, <2>2, <2>3, <2>4
  <1>3. nTools' \in Nat
    BY <1>2
  <1> QED BY <1>1, <1>2, <1>3

(* An id that is received keeps the answer under way. *)
LEMMA RelayHttp ==
    ASSUME HttpTypes, stage = "generate", Underway, NEW id, Relay(id)
    PROVE  HttpTypes' /\ stage' = "generate" /\ Underway'
  <1>1. /\ UNCHANGED <<api, err, phase, stage, gone, streaming, usage>> /\ phase # "returned"
    BY DEF Relay, Receive, reqVars, inputVars, Underway
  <1>2. PICK c : c = NewChunks
    OBVIOUS
  <1>3. /\ IF streaming THEN Write(200, c) ELSE UNCHANGED <<status, response>>
        /\ roleSent' = (roleSent \/ (streaming /\ api = "chat" /\ c # <<>>))
    BY <1>2, Zenon DEF Relay
  <1>4. /\ nTools' \in Nat
        /\ \/ UNCHANGED <<deltas, calls>>
           \/ \E d : /\ deltas' = Append(deltas, d)
                     /\ calls' = IF d.call = 0 THEN calls ELSE Append(calls, d.call)
    BY ReceiveDelivers DEF Relay, HttpTypes
  <1>5. /\ IsSeq(c) /\ Output(HeadKind, c)
        /\ IsSeq(deltas') /\ IsSeq(calls')
        /\ calls' # <<>> <=> calls # <<>> \/ HasTool(c)
        /\ UNCHANGED deltas => c = <<>>
    <2>a. ASSUME NEW s, NEW x, IsSeq(s) PROVE IsSeq(Append(s, x)) /\ Append(s, x) # <<>>
      <3>1. PICK C : s \in Seq(C)
        BY <2>a DEF IsSeq
      <3>2. s \in Seq(C \cup {x})
        BY <3>1
      <3>3. Append(s, x) \in Seq(C \cup {x}) /\ Len(Append(s, x)) = Len(s) + 1 /\ Len(s) \in Nat
        BY <3>2
      <3>4. Len(Append(s, x)) # 0
        BY <3>3
      <3> QED BY <3>3, <3>4 DEF IsSeq
    <2>1. CASE UNCHANGED <<deltas, calls>>
      <3>1. c = <<>>
        BY <1>2, <2>1, NewChunksAre DEF HttpTypes
      <3> QED BY <2>1, <3>1, OneOutput, OneChunk DEF HttpTypes
    <2>2. CASE \E d : /\ deltas' = Append(deltas, d)
                      /\ calls' = IF d.call = 0 THEN calls ELSE Append(calls, d.call)
      <3>1. PICK d : /\ deltas' = Append(deltas, d)
                     /\ calls' = IF d.call = 0 THEN calls ELSE Append(calls, d.call)
        BY <2>2
      <3>2. c = DeltaChunks(d)
        BY <1>2, <3>1, NewChunksAre DEF HttpTypes
      <3>3. IsSeq(c) /\ Output(HeadKind, c) /\ (HasTool(c) <=> d.call # 0)
        BY <3>2, DeltaOutput
      <3>4. deltas' # deltas
        <4>1. PICK C : deltas \in Seq(C)
          BY DEF HttpTypes, IsSeq
        <4>2. deltas \in Seq(C \cup {d})
          BY <4>1
        <4>3. Len(deltas) \in Nat /\ Len(Append(deltas, d)) = Len(deltas) + 1
          BY <4>2
        <4>4. Len(deltas) + 1 # Len(deltas)
          BY <4>3
        <4> QED BY <3>1, <4>3, <4>4
      <3>5. IsSeq(deltas') /\ IsSeq(calls') /\ (d.call # 0 => calls' # <<>>)
        BY <3>1, <2>a DEF HttpTypes
      <3> QED BY <3>1, <3>3, <3>4, <3>5
    <2> QED BY <1>4, <2>1, <2>2
  <1>6. roleSent' \in BOOLEAN
    BY <1>3
  <1>7. CASE ~streaming \/ gone
    <2>1. UNCHANGED <<status, response>>
      BY <1>3, <1>7 DEF Write
    <2>2. HttpTypes'
      BY <1>1, <1>4, <1>5, <1>6, <2>1 DEF HttpTypes
    <2>3. ApiHead' = ApiHead
      BY <1>1 DEF ApiHead
    <2> QED BY <1>1, <1>7, <2>1, <2>2, <2>3 DEF Underway
  <1>8. CASE streaming /\ ~gone
    <2>1. /\ Output(ApiHead, response)
          /\ status = IF response = <<>> THEN 0 ELSE 200
          /\ api = "chat" => (roleSent <=> response # <<>>)
          /\ HasTool(response) <=> calls # <<>>
      BY <1>8 DEF Underway
    <2>2. (IF response = <<>> THEN ApiHead ELSE "none") = HeadKind
      BY <2>1 DEF ApiHead, HeadKind
    <2>3. PICK r : r = response \o c
      OBVIOUS
    <2>4. /\ IsSeq(r) /\ Output(ApiHead, r) /\ (HasTool(r) <=> HasTool(response) \/ HasTool(c))
          /\ (r = <<>> <=> response = <<>> /\ c = <<>>)
      <3>1. Output(IF response = <<>> THEN ApiHead ELSE "none", c)
        BY <1>5, <2>2
      <3>2. IsSeq(r)
        BY <2>3, <1>5, Join DEF HttpTypes
      <3> QED BY <3>1, <3>2, <2>1, <2>3, <1>5, JoinOutput DEF HttpTypes
    <2>5. response' = r /\ status' = IF r = <<>> THEN 0 ELSE 200
      <3>1. CASE c = <<>>
        <4>1. UNCHANGED <<status, response>>
          BY <1>3, <1>8, <3>1 DEF Write
        <4>2. r = response
          BY <2>3, <3>1, Join DEF HttpTypes
        <4> QED BY <4>1, <4>2, <2>1
      <3>2. CASE c # <<>>
        <4>1. /\ status' = IF status = 0 THEN 200 ELSE status
              /\ response' = r
          BY <1>3, <1>8, <2>3, <3>2 DEF Write
        <4> QED BY <4>1, <2>1, <2>4, <3>2
      <3> QED BY <3>1, <3>2
    <2>6. api = "chat" => (roleSent' <=> r # <<>>)
      BY <1>3, <1>8, <2>1, <2>4
    <2>7. HasTool(r) <=> calls' # <<>>
      BY <1>5, <2>1, <2>4
    <2>8. HttpTypes'
      BY <1>1, <1>4, <1>5, <1>6, <2>4, <2>5 DEF HttpTypes
    <2>9. ApiHead' = ApiHead
      BY <1>1 DEF ApiHead
    <2> QED BY <1>1, <1>8, <2>4, <2>5, <2>6, <2>7, <2>8, <2>9 DEF Underway
  <1> QED BY <1>7, <1>8 DEF HttpTypes

(* Two chunks are one and another. *)
LEMMA TwoChunks ==
    ASSUME NEW x, NEW y
    PROVE  <<x, y>> = <<x>> \o <<y>>
  <1>1. PICK a, b, s, S : a = <<x>> /\ b = <<y>> /\ s = <<x, y>> /\ S = {x, y}
    OBVIOUS
  <1>2. /\ a \in Seq(S) /\ b \in Seq(S) /\ Len(a) = 1 /\ Len(b) = 1 /\ a[1] = x /\ b[1] = y
        /\ s \in Seq(S) /\ Len(s) = 2 /\ s[1] = x /\ s[2] = y
    BY <1>1
  <1>3. PICK t : t = a \o b
    OBVIOUS
  <1>4. t \in Seq(S) /\ Len(t) = 2 /\ t[1] = x /\ t[2] = y
    BY <1>2, <1>3, ConcatProperties
  <1>5. \A i \in 1 .. Len(s) : s[i] = t[i]
    BY <1>2, <1>4
  <1>6. s = t
    BY <1>2, <1>4, <1>5, SeqEqual
  <1> QED BY <1>1, <1>3, <1>6

(* A failed answer is told: the blocking one by its status, the stream by  *)
(* an error chunk behind its output.                                       *)
LEMMA FailedHttp ==
    ASSUME HttpTypes, Underway, NEW e, Failed(e),
           err' # "none", UNCHANGED <<api, gone, streaming, usage, deltas, calls, nTools>>
    PROVE  /\ HttpTypes' /\ stage' = "answered"
           /\ gone /\ streaming => Output(ApiHead, response)'
           /\ ~gone => Ended'
  <1>1. roleSent' = roleSent /\ ApiHead' = ApiHead
    BY DEF Failed, ApiHead
  <1>2. PICK x, y : x = Chunk("error") /\ y = Chunk("done")
    OBVIOUS
  <1>3. x.kind = "error" /\ y.kind = "done"
    BY <1>2 DEF Chunk
  <1>4. stage' = "answered"
    BY DEF Failed, FailedStream, Answer
  <1>5. CASE gone
    <2>1. UNCHANGED response
      BY <1>5 DEF Failed, FailedStream, Answer, Write
    <2>2. HttpTypes'
      BY <1>1, <1>4, <2>1 DEF HttpTypes
    <2> QED BY <1>1, <1>4, <1>5, <2>1, <2>2 DEF Underway
  <1>6. CASE ~gone /\ ~streaming
    <2>1. /\ response = <<>> /\ status = 0
      BY <1>6 DEF Underway
    <2>2. Write(ClassifyError(e), <<x>>)
      BY <1>2, <1>6 DEF Failed, Answer
    <2>3. PICK s : s = <<x>>
      OBVIOUS
    <2>4. s # <<>> /\ Len(s) = 1 /\ s[1] = x
      BY <2>3
    <2>5. response' = <<>> \o s /\ status' = ClassifyError(e)
      BY <1>6, <2>1, <2>2, <2>3, <2>4 DEF Write
    <2>6. IsSeq(s) /\ <<>> \o s = s
      BY <2>3, OneChunk, Join
    <2>7. ClassifyError(e) # 200
      BY DEF ClassifyError
    <2>8. HttpTypes'
      BY <1>1, <1>4, <2>5, <2>6 DEF HttpTypes
    <2>9. CallFailed'
      BY <1>3, <1>6, <2>4, <2>5, <2>6, <2>7 DEF CallFailed
    <2> QED BY <1>4, <1>6, <2>8, <2>9 DEF Ended
  <1>7. CASE ~gone /\ streaming
    <2>1. /\ Output(ApiHead, response)
          /\ status = IF response = <<>> THEN 0 ELSE 200
      BY <1>7 DEF Underway
    <2>2. PICK a, b, r : a = <<x>> /\ b = <<y>> /\ r = response
      OBVIOUS
    <2>3. <<x, y>> = a \o b /\ <<x, y>> # <<>>
      <3>1. <<x, y>> = a \o b
        BY <2>2, TwoChunks
      <3>2. <<x, y>> # <<>>
        OBVIOUS
      <3> QED BY <3>1, <3>2
    <2>4. Write(200, a \o b) /\ a \o b # <<>>
      BY <1>2, <1>7, <2>3 DEF Failed, FailedStream, Answer
    <2>5. response' = r \o (a \o b) /\ status' = 200
      BY <1>7, <2>1, <2>2, <2>4 DEF Write
    <2>6. IsSeq(r) /\ IsSeq(a) /\ IsSeq(b)
      BY <2>2, OneChunk DEF HttpTypes
    <2>7. r \o (a \o b) = (r \o a) \o b
      <3>1. Associates(r, a, b)
        BY <2>6, JoinAssociative
      <3> QED BY <3>1 DEF Associates
    <2>8. PICK ra, n : ra = r \o a /\ n = Len(r)
      OBVIOUS
    <2>9. /\ IsSeq(ra) /\ n \in Nat /\ Len(ra) = n + 1 /\ ra[n + 1] = x
          /\ \A i \in 1 .. n : ra[i] = r[i]
      BY <2>2, <2>6, <2>8, JoinOne
    <2>10. PICK t : t = ra \o b
      OBVIOUS
    <2>11. /\ IsSeq(t) /\ Len(t) = Len(ra) + 1 /\ t[Len(ra) + 1] = y
           /\ \A i \in 1 .. Len(ra) : t[i] = ra[i]
      <3>1. IsSeq(ra)
        BY <2>9
      <3>2. t = ra \o <<y>>
        BY <2>2, <2>10
      <3> QED BY <3>1, <3>2, JoinOne
    <2>12. /\ Len(t) = n + 2 /\ t[n + 1] = x /\ t[n + 2] = y
           /\ \A i \in 1 .. n : t[i] = r[i]
      BY <2>9, <2>11
    <2>13. response' = t
      BY <2>5, <2>7, <2>8, <2>10
    <2>14. OutputUpTo(n)'
      <3>1. \A i \in 1 .. n : /\ r[i].kind \in {"role", "content", "tool"}
                              /\ r[i].kind = "role" <=> i = 1 /\ ApiHead = "role"
        BY <2>1, <2>2, <2>8 DEF Output
      <3>2. ApiHead = "role" <=> api' = "chat"
        BY DEF ApiHead
      <3> QED BY <2>12, <2>13, <3>1, <3>2 DEF OutputUpTo
    <2>15. n \in 0 .. Len(response')
      BY <2>9, <2>12, <2>13
    <2>16. StreamFailed'
      BY <1>3, <1>7, <2>5, <2>12, <2>13, <2>14, <2>15 DEF StreamFailed
    <2>17. HttpTypes'
      BY <1>1, <1>4, <2>11, <2>13 DEF HttpTypes
    <2> QED BY <1>4, <1>7, <2>16, <2>17 DEF Ended
  <1> QED BY <1>5, <1>6, <1>7 DEF HttpTypes

(* What is left to write before the finish chunk: the held back text, and  *)
(* the role if nothing opened the answer.                                  *)
LEMMA LastOutput ==
    ASSUME HttpTypes, NEW why, Return(why)
    PROVE  LET p == NewChunks \o LateRole(NewChunks)
           IN /\ IsSeq(NewChunks) /\ IsSeq(LateRole(NewChunks))
              /\ Output(HeadKind, p) /\ ~HasTool(p)
              /\ HeadKind = "role" => p # <<>>
  <1>1. PICK n : n = NewChunks
    OBVIOUS
  <1>2. PICK l : l = LateRole(n)
    OBVIOUS
  <1>3. IsSeq(n) /\ Output(HeadKind, n) /\ ~HasTool(n)
    <2>1. CASE pending = <<>>
      <3>1. n = <<>>
        BY <1>1, <2>1, NewChunksAre DEF Return, HttpTypes
      <3> QED BY <3>1, OneOutput, OneChunk
    <2>2. CASE pending # <<>>
      <3>1. PICK d : d = [bytes |-> pending, call |-> 0]
        OBVIOUS
      <3>2. d.call = 0
        BY <3>1
      <3>3. n = DeltaChunks(d)
        BY <1>1, <2>2, <3>1, NewChunksAre DEF Return, HttpTypes
      <3> QED BY <3>2, <3>3, DeltaOutput
    <2> QED BY <2>1, <2>2
  <1>4. /\ IsSeq(l) /\ Output(IF n = <<>> THEN HeadKind ELSE "none", l) /\ ~HasTool(l)
        /\ HeadKind = "role" /\ n = <<>> => l # <<>>
    <2>1. CASE api = "chat" /\ ~roleSent /\ n = <<>>
      <3>1. PICK x : x = Chunk("role")
        OBVIOUS
      <3>2. l = <<x>> /\ x.kind = "role" /\ (IF n = <<>> THEN HeadKind ELSE "none") = "role"
        BY <1>2, <2>1, <3>1 DEF LateRole, Chunk, HeadKind
      <3> QED BY <3>2, OneOutput, OneChunk
    <2>2. CASE ~(api = "chat" /\ ~roleSent /\ n = <<>>)
      <3>1. l = <<>> /\ ~(HeadKind = "role" /\ n = <<>>)
        BY <1>2, <2>2 DEF LateRole, HeadKind
      <3> QED BY <3>1, OneOutput, OneChunk
    <2> QED BY <2>1, <2>2
  <1>5. /\ Output(HeadKind, n \o l) /\ (HasTool(n \o l) <=> HasTool(n) \/ HasTool(l))
        /\ n \o l = <<>> <=> n = <<>> /\ l = <<>>
    BY <1>3, <1>4, JoinOutput
  <1>6. Output(HeadKind, n \o l) /\ ~HasTool(n \o l) /\ (HeadKind = "role" => n \o l # <<>>)
    BY <1>3, <1>4, <1>5
  <1> QED BY <1>1, <1>2, <1>3, <1>4, <1>6, Zenon

(* t is r with three chunks, or two, behind it. *)
Ends3(t, r, x, y, z) ==
    /\ IsSeq(t) /\ Len(r) \in Nat /\ Len(t) = Len(r) + 3
    /\ t[Len(r) + 1] = x /\ t[Len(r) + 2] = y /\ t[Len(r) + 3] = z
    /\ \A i \in 1 .. Len(r) : t[i] = r[i]
Ends2(t, r, x, z) ==
    /\ IsSeq(t) /\ Len(r) \in Nat /\ Len(t) = Len(r) + 2
    /\ t[Len(r) + 1] = x /\ t[Len(r) + 2] = z
    /\ \A i \in 1 .. Len(r) : t[i] = r[i]

(* A finish chunk, usage and [DONE] behind the output. *)
LEMMA Tail3 ==
    ASSUME NEW r, IsSeq(r), NEW x, NEW y, NEW z
    PROVE  Ends3(((r \o <<x>>) \o <<y>>) \o <<z>>, r, x, y, z)
  <1>1. PICK n, a, b, c : n = Len(r) /\ a = r \o <<x>> /\ b = a \o <<y>> /\ c = b \o <<z>>
    OBVIOUS
  <1>2. /\ IsSeq(a) /\ n \in Nat /\ Len(a) = n + 1 /\ a[n + 1] = x
        /\ \A i \in 1 .. n : a[i] = r[i]
    BY <1>1, JoinOne
  <1>3. IsSeq(a) /\ b = a \o <<y>>
    BY <1>1, <1>2
  <1>4. /\ IsSeq(b) /\ Len(b) = Len(a) + 1 /\ b[Len(a) + 1] = y
        /\ \A i \in 1 .. Len(a) : b[i] = a[i]
    BY <1>3, JoinOne
  <1>5. IsSeq(b) /\ c = b \o <<z>>
    BY <1>1, <1>4
  <1>6. /\ IsSeq(c) /\ Len(c) = Len(b) + 1 /\ c[Len(b) + 1] = z
        /\ \A i \in 1 .. Len(b) : c[i] = b[i]
    BY <1>5, JoinOne
  <1>7. /\ Len(c) = n + 3 /\ c[n + 1] = x /\ c[n + 2] = y /\ c[n + 3] = z
        /\ \A i \in 1 .. n : c[i] = r[i]
    <2>1. Len(a) = n + 1 /\ Len(b) = n + 2 /\ Len(c) = n + 3
      BY <1>2, <1>4, <1>6
    <2>2. \A i \in 1 .. n : i \in 1 .. n + 1 /\ i \in 1 .. n + 2
      BY <1>2
    <2>3. n + 1 \in 1 .. n + 1 /\ n + 1 \in 1 .. n + 2 /\ n + 2 \in 1 .. n + 2 /\ (n + 1) + 1 = n + 2
          /\ (n + 2) + 1 = n + 3
      BY <1>2
    <2> QED BY <1>2, <1>4, <1>6, <2>1, <2>2, <2>3
  <1>8. Ends3(c, r, x, y, z)
    BY <1>1, <1>2, <1>6, <1>7 DEF Ends3
  <1> QED BY <1>1, <1>8, Zenon

(* A finish or error chunk and [DONE] behind it. *)
LEMMA Tail2 ==
    ASSUME NEW r, IsSeq(r), NEW x, NEW z
    PROVE  Ends2((r \o <<x>>) \o <<z>>, r, x, z)
  <1>1. PICK n, a, b : n = Len(r) /\ a = r \o <<x>> /\ b = a \o <<z>>
    OBVIOUS
  <1>2. /\ IsSeq(a) /\ n \in Nat /\ Len(a) = n + 1 /\ a[n + 1] = x
        /\ \A i \in 1 .. n : a[i] = r[i]
    BY <1>1, JoinOne
  <1>3. IsSeq(a) /\ b = a \o <<z>>
    BY <1>1, <1>2
  <1>4. /\ IsSeq(b) /\ Len(b) = Len(a) + 1 /\ b[Len(a) + 1] = z
        /\ \A i \in 1 .. Len(a) : b[i] = a[i]
    BY <1>3, JoinOne
  <1>5. /\ Len(b) = n + 2 /\ b[n + 1] = x /\ b[n + 2] = z
        /\ \A i \in 1 .. n : b[i] = r[i]
    BY <1>2, <1>4
  <1>6. Ends2(b, r, x, z)
    BY <1>1, <1>2, <1>4, <1>5 DEF Ends2
  <1> QED BY <1>1, <1>6, Zenon

OneByOne(r, p, f, u, d) == r \o (((p \o f) \o u) \o d) = (((r \o p) \o f) \o u) \o d

(* Written behind what is there, the last chunks come one after another.   *)
LEMMA Behind ==
    ASSUME NEW r, NEW p, NEW f, NEW u, NEW d, IsSeq(r), IsSeq(p), IsSeq(f), IsSeq(u), IsSeq(d)
    PROVE  OneByOne(r, p, f, u, d)
  <1>1. PICK pf, pfu : pf = p \o f /\ pfu = pf \o u
    OBVIOUS
  <1>2. IsSeq(pf)
    BY <1>1, ConcatIsSeq
  <1>3. IsSeq(pfu)
    BY <1>1, <1>2, ConcatIsSeq
  <1>4. Associates(r, pfu, d) /\ Associates(r, pf, u) /\ Associates(r, p, f)
    BY <1>2, <1>3, JoinAssociative
  <1> QED BY <1>1, <1>4, Zenon DEF Associates, OneByOne

(* A complete answer is told: the message, or the finish chunk, usage if   *)
(* asked for and [DONE] behind all output.                                 *)
LEMMA SucceedHttp ==
    ASSUME HttpTypes, Underway, NEW why \in {"stop", "length"}, Succeed(why)
    PROVE  /\ HttpTypes' /\ stage' = "answered"
           /\ gone /\ streaming => Output(ApiHead, response)'
           /\ ~gone => Ended'
  <1>1. Return(why)
    BY DEF Succeed
  <1>2. /\ UNCHANGED <<api, err, calls, nTools, gone, streaming, usage>>
        /\ phase' = "returned" /\ err = "none"
        /\ reason' = IF calls # <<>> THEN "tool_calls" ELSE why
    BY <1>1 DEF Succeed, Return, reqVars, toolVars, inputVars, Underway
  <1>3. IsSeq(deltas')
    <2>1. ASSUME NEW d PROVE IsSeq(Append(deltas, d))
      <3>1. PICK C : deltas \in Seq(C)
        BY DEF HttpTypes, IsSeq
      <3>2. deltas \in Seq(C \cup {d})
        BY <3>1
      <3>3. Append(deltas, d) \in Seq(C \cup {d})
        BY <3>2
      <3> QED BY <3>3 DEF IsSeq
    <2> QED BY <1>1, <2>1 DEF Return, HttpTypes
  <1>4. stage' = "answered" /\ roleSent' \in BOOLEAN
    BY DEF Succeed, Answer
  <1>5. ApiHead' = ApiHead
    BY <1>2 DEF ApiHead
  <1>6. reason' = "tool_calls" <=> calls # <<>>
    BY <1>2
  <1>7. PICK n, l, x, y, z, m :
          /\ n = NewChunks /\ l = LateRole(n) /\ x = Finish(reason') /\ y = Chunk("usage")
          /\ z = Chunk("done") /\ m = Message(Marshal(text'), Len(calls'), reason')
    OBVIOUS
  <1>8. PICK f, u, d : f = <<x>> /\ u = (IF usage THEN <<y>> ELSE <<>>) /\ d = <<z>>
    OBVIOUS
  <1>9. IF streaming THEN Write(200, (((n \o l) \o f) \o u) \o d) ELSE Write(200, <<m>>)
    BY <1>7, <1>8, Zenon DEF Succeed, Answer
  <1>10. x.kind = "finish" /\ x.reason = reason' /\ y.kind = "usage" /\ z.kind = "done"
    BY <1>7 DEF Finish, Chunk
  <1>11. m.kind = "message" /\ m.reason = reason' /\ m.call = Len(calls')
    BY <1>7 DEF Message
  <1>12. CASE gone
    <2>1. UNCHANGED response
      BY <1>9, <1>12 DEF Write
    <2>2. HttpTypes'
      BY <1>2, <1>3, <1>4, <2>1 DEF HttpTypes
    <2> QED BY <1>4, <1>5, <1>12, <2>1, <2>2 DEF Underway
  <1>13. CASE ~gone /\ ~streaming
    <2>1. response = <<>> /\ status = 0
      BY <1>13 DEF Underway
    <2>2. PICK s : s = <<m>>
      OBVIOUS
    <2>3. s # <<>> /\ Len(s) = 1 /\ s[1] = m
      BY <2>2
    <2>4. response' = <<>> \o s /\ status' = 200
      BY <1>9, <1>13, <2>1, <2>2, <2>3 DEF Write
    <2>5. IsSeq(s) /\ <<>> \o s = s
      BY <2>2, OneChunk, Join
    <2>6. Len(calls') > 0 <=> calls # <<>>
      <3>1. PICK C : calls \in Seq(C)
        BY DEF HttpTypes, IsSeq
      <3>2. Len(calls) \in Nat /\ (Len(calls) = 0 <=> calls = <<>>)
        BY <3>1, EmptySeq
      <3> QED BY <3>2, <1>2
    <2>7. HttpTypes'
      BY <1>2, <1>3, <1>4, <2>4, <2>5 DEF HttpTypes
    <2>8. CallSucceeded'
      BY <1>2, <1>6, <1>11, <1>13, <2>3, <2>4, <2>5, <2>6 DEF CallSucceeded
    <2> QED BY <1>4, <1>13, <2>7, <2>8 DEF Ended
  <1>14. CASE ~gone /\ streaming
    <2>1. /\ Output(ApiHead, response) /\ IsSeq(response)
          /\ status = IF response = <<>> THEN 0 ELSE 200
          /\ api = "chat" => (roleSent <=> response # <<>>)
          /\ HasTool(response) <=> calls # <<>>
      BY <1>14 DEF Underway, HttpTypes
    <2>2. PICK p : p = n \o l
      OBVIOUS
    <2>3. /\ IsSeq(n) /\ IsSeq(l) /\ Output(HeadKind, p) /\ ~HasTool(p)
          /\ HeadKind = "role" => p # <<>>
      BY <1>1, <1>7, <2>2, LastOutput
    <2>4. IsSeq(p) /\ IsSeq(f) /\ IsSeq(u) /\ IsSeq(d)
      <3>1. IsSeq(p)
        BY <2>2, <2>3, ConcatIsSeq
      <3> QED BY <3>1, <1>8, OneChunk
    <2>5. PICK r, w : r = response \o p /\ w = ((p \o f) \o u) \o d
      OBVIOUS
    <2>6. /\ IsSeq(r) /\ Output(ApiHead, r) /\ (HasTool(r) <=> calls # <<>>)
          /\ api = "chat" => r # <<>>
      <3>1. (IF response = <<>> THEN ApiHead ELSE "none") = HeadKind
        BY <2>1 DEF ApiHead, HeadKind
      <3>2. IsSeq(r)
        BY <2>1, <2>4, <2>5, ConcatIsSeq
      <3>3. Output(IF response = <<>> THEN ApiHead ELSE "none", p)
        BY <2>3, <3>1
      <3>4. /\ Output(ApiHead, r) /\ (HasTool(r) <=> HasTool(response) \/ HasTool(p))
            /\ (r = <<>> <=> response = <<>> /\ p = <<>>)
        BY <2>1, <2>4, <2>5, <3>3, JoinOutput
      <3>5. api = "chat" /\ response = <<>> => HeadKind = "role"
        BY <2>1 DEF HeadKind
      <3> QED BY <2>1, <2>3, <3>2, <3>4, <3>5
    <2>7. w # <<>>
      <3>1. PICK g : g = (p \o f) \o u
        OBVIOUS
      <3>2. IsSeq(p \o f)
        BY <2>4, ConcatIsSeq
      <3>3. IsSeq(g)
        BY <3>1, <3>2, <2>4, ConcatIsSeq
      <3>4. w = g \o <<z>>
        BY <3>1, <2>5, <1>8
      <3>5. Len(w) = Len(g) + 1 /\ Len(g) \in Nat
        BY <3>3, <3>4, JoinOne
      <3>6. Len(w) # 0
        BY <3>5
      <3> QED BY <3>6
    <2>8. response' = response \o w /\ status' = 200
      <3>1. Write(200, w)
        BY <1>9, <1>14, <2>2, <2>5
      <3> QED BY <3>1, <1>14, <2>1, <2>7 DEF Write
    <2>9. response \o w = ((r \o f) \o u) \o d
      <3>1. OneByOne(response, p, f, u, d)
        BY <2>1, <2>4, Behind
      <3> QED BY <2>5, <3>1 DEF OneByOne
    <2>10. PICK k : k = Len(r)
      OBVIOUS
    <2>11. /\ k \in Nat /\ IsSeq(response')
           /\ response'[k + 1] = x
           /\ \A i \in 1 .. k : response'[i] = r[i]
           /\ IF usage THEN Len(response') = k + 3 /\ response'[k + 2] = y /\ response'[k + 3] = z
              ELSE Len(response') = k + 2 /\ response'[k + 2] = z
      <3>1. CASE usage
        <4>1. response' = ((r \o <<x>>) \o <<y>>) \o <<z>>
          BY <1>8, <2>8, <2>9, <3>1
        <4>2. Ends3(response', r, x, y, z)
          BY <2>6, <4>1, Tail3
        <4> QED BY <2>10, <3>1, <4>2 DEF Ends3
      <3>2. CASE ~usage
        <4>1. IsSeq(r \o f)
          BY <2>4, <2>6, ConcatIsSeq
        <4>2. (r \o f) \o <<>> = r \o f
          BY <4>1, Join
        <4>3. response' = (r \o <<x>>) \o <<z>>
          BY <1>8, <2>8, <2>9, <3>2, <4>2
        <4>4. Ends2(response', r, x, z)
          BY <2>6, <4>3, Tail2
        <4> QED BY <2>10, <3>2, <4>4 DEF Ends2
      <3> QED BY <3>1, <3>2
    <2>12. OutputUpTo(k)' /\ (ToolUpTo(k)' <=> calls # <<>>)
      <3>1. \A i \in 1 .. k : /\ r[i].kind \in {"role", "content", "tool"}
                              /\ r[i].kind = "role" <=> i = 1 /\ ApiHead = "role"
        BY <2>6, <2>10 DEF Output
      <3>2. ApiHead = "role" <=> api' = "chat"
        BY <1>2 DEF ApiHead
      <3>3. OutputUpTo(k)'
        BY <2>11, <3>1, <3>2 DEF OutputUpTo
      <3>4. ToolUpTo(k)' <=> HasTool(r)
        BY <2>10, <2>11 DEF ToolUpTo, HasTool
      <3> QED BY <2>6, <3>3, <3>4
    <2>13. api' = "chat" => k > 0
      <3>1. Len(r) = 0 <=> r = <<>>
        BY <2>6, Join
      <3> QED BY <1>2, <2>6, <2>10, <2>11, <3>1
    <2>14. k \in 0 .. Len(response')
      BY <2>11
    <2>15. StreamSucceeded'
      BY <1>2, <1>6, <1>10, <1>14, <2>8, <2>11, <2>12, <2>13, <2>14 DEF StreamSucceeded
    <2>16. HttpTypes'
      BY <1>2, <1>3, <1>4, <2>11 DEF HttpTypes
    <2> QED BY <1>4, <1>14, <2>15, <2>16 DEF Ended
  <1> QED BY <1>12, <1>13, <1>14 DEF HttpTypes

(* The invariant holds at first. *)
LEMMA HttpStarts == ServingInit => HttpInv
  <1> SUFFICES ASSUME ServingInit PROVE HttpInv
    OBVIOUS
  <1>1. /\ stage = "new" /\ api \in {"chat", "raw"} /\ response = <<>> /\ deltas = <<>>
        /\ calls = <<>> /\ nTools = 0 /\ streaming \in BOOLEAN /\ gone = FALSE
        /\ roleSent = FALSE /\ status = 0 /\ phase = "build" /\ err = "none"
    BY DEF ServingInit, HttpInit, Init
  <1>2. usage \in BOOLEAN
    BY DEF ServingInit, HttpInit
  <1>3. IsSeq(<<>>)
    BY OneChunk
  <1>4. HttpTypes
    BY <1>1, <1>2, <1>3 DEF HttpTypes
  <1> QED BY <1>1, <1>4 DEF HttpInv, Fresh

(* A request that is refused before generation. *)
LEMMA RefuseHttp ==
    ASSUME HttpTypes, Fresh, Refuse
    PROVE  HttpInv'
  <1>1. /\ UNCHANGED <<genVars, inputVars, roleSent, gone>> /\ stage' = "answered"
        /\ Write(400, <<Chunk("error")>>)
    BY DEF Refuse, Answer
  <1>2. UNCHANGED <<api, deltas, calls, nTools, streaming, usage, roleSent, gone, phase>>
    BY <1>1 DEF genVars, reqVars, toolVars, resVars, inputVars
  <1>3. PICK x, s : x = Chunk("error") /\ s = <<x>>
    OBVIOUS
  <1>4. x.kind = "error" /\ IsSeq(s) /\ s # <<>> /\ Len(s) = 1 /\ s[1] = x
    <2>1. x.kind = "error"
      BY <1>3 DEF Chunk
    <2>2. IsSeq(s)
      BY <1>3, OneChunk
    <2> QED BY <1>3, <2>1, <2>2
  <1>5. CASE gone
    <2>1. UNCHANGED response
      BY <1>1, <1>5 DEF Write
    <2>2. HttpTypes'
      BY <1>1, <1>2, <2>1 DEF HttpTypes
    <2>3. Output(ApiHead, <<>>)'
      BY OneOutput
    <2> QED BY <1>1, <1>2, <1>5, <2>1, <2>2, <2>3 DEF HttpInv, Fresh
  <1>6. CASE ~gone
    <2>1. <<>> \o s = s
      BY <1>4, Join
    <2>2. response' = s /\ status' = 400
      BY <1>1, <1>3, <1>4, <1>6, <2>1 DEF Write, Fresh
    <2>3. HttpTypes'
      BY <1>1, <1>2, <1>4, <2>2 DEF HttpTypes
    <2>4. Refused'
      BY <1>2, <1>4, <2>2 DEF Refused, Fresh
    <2> QED BY <1>1, <1>2, <1>6, <2>3, <2>4 DEF HttpInv, Ended
  <1> QED BY <1>5, <1>6

(* The length policy may end the request before anything was sent. *)
LEMMA BuildHttp ==
    ASSUME HttpTypes, Underway, BuildAndSend
    PROVE  HttpInv'
  <1>1. UNCHANGED <<api, deltas, calls, nTools, streaming, usage, gone>> /\ stage = "generate"
    BY DEF BuildAndSend, BuildRequest, toolVars, resVars, inputVars
  <1>2. CASE err' = "none"
    <2>1. UNCHANGED <<stage, status, response, roleSent>> /\ phase' = "stream"
      BY <1>2 DEF BuildAndSend, BuildRequest
    <2>2. HttpTypes'
      BY <1>1, <2>1 DEF HttpTypes
    <2>3. Underway'
      BY <1>1, <1>2, <2>1 DEF Underway, ApiHead
    <2> QED BY <1>1, <2>1, <2>2, <2>3 DEF HttpInv
  <1>3. CASE err' # "none"
    <2>1. Failed(err')
      BY <1>3 DEF BuildAndSend
    <2>2. /\ HttpTypes' /\ stage' = "answered"
          /\ gone /\ streaming => Output(ApiHead, response)'
          /\ ~gone => Ended'
      BY <1>1, <1>3, <2>1, FailedHttp
    <2> QED BY <1>1, <2>2 DEF HttpInv
  <1> QED BY <1>2, <1>3

(* The invariant is inductive. *)
LEMMA HttpStep == HttpInv /\ [ServingNext]_servingVars => HttpInv'
  <1> SUFFICES ASSUME HttpInv, [ServingNext]_servingVars PROVE HttpInv'
    OBVIOUS
  <1>0. /\ HttpTypes
        /\ stage = "new" => Fresh
        /\ stage = "generate" => Underway
    BY DEF HttpInv, Fresh
  <1>1. CASE UNCHANGED vars
    <2>1. /\ UNCHANGED <<stage, api, response, deltas, calls, nTools, streaming, gone, usage>>
          /\ UNCHANGED <<roleSent, status, phase, err>>
      BY <1>1 DEF vars, genVars, httpVars, reqVars, toolVars, resVars
    <2> QED BY <2>1 DEF HttpInv, HttpTypes, Underway, Ended, Refused, CallFailed, CallSucceeded,
                        StreamFailed, StreamSucceeded, OutputUpTo, ToolUpTo, ApiHead, Fresh
  <1>2. CASE Refuse
    BY <1>0, <1>2, RefuseHttp DEF Refuse
  <1>3. CASE Accept
    <2>1. /\ UNCHANGED <<api, response, deltas, calls, nTools, streaming, gone, usage>>
          /\ UNCHANGED <<roleSent, status, phase, err>>
          /\ stage = "new" /\ stage' = "generate"
      BY <1>3 DEF Accept, genVars, inputVars, reqVars, toolVars, resVars
    <2>2. HttpTypes'
      BY <1>0, <2>1 DEF HttpTypes
    <2>3. \A head : Output(head, <<>>) /\ ~HasTool(<<>>)
      BY OneOutput
    <2>4. Underway'
      BY <1>0, <2>1, <2>3 DEF Underway, Fresh
    <2> QED BY <2>1, <2>2, <2>4 DEF HttpInv
  <1>4. CASE BuildAndSend
    BY <1>0, <1>4, BuildHttp DEF BuildAndSend
  <1>5. CASE ClientLeaves
    <2>1. /\ UNCHANGED <<stage, api, response, deltas, calls, nTools, streaming, usage>>
          /\ UNCHANGED <<roleSent, status, phase, err>>
          /\ stage # "answered" /\ gone' = TRUE
      BY <1>5 DEF ClientLeaves, genVars, inputVars, reqVars, toolVars, resVars
    <2>2. HttpTypes'
      BY <1>0, <2>1 DEF HttpTypes
    <2>3. stage = "generate" => Underway'
      BY <1>0, <2>1 DEF Underway, ApiHead
    <2> QED BY <1>0, <2>1, <2>2, <2>3 DEF HttpInv, Fresh
  <1>6. ASSUME NEW id, Relay(id) PROVE HttpInv'
    <2>1. stage = "generate"
      BY <1>6 DEF Relay
    <2>2. HttpTypes' /\ stage' = "generate" /\ Underway'
      BY <1>0, <1>6, <2>1, RelayHttp
    <2> QED BY <2>2 DEF HttpInv
  <1>7. ASSUME NEW why \in {"stop", "length"}, Succeed(why) PROVE HttpInv'
    <2>1. stage = "generate" /\ UNCHANGED <<gone, streaming>>
      BY <1>7 DEF Succeed, inputVars
    <2>2. /\ HttpTypes' /\ stage' = "answered"
          /\ gone /\ streaming => Output(ApiHead, response)'
          /\ ~gone => Ended'
      BY <1>0, <1>7, <2>1, SucceedHttp
    <2> QED BY <2>1, <2>2 DEF HttpInv
  <1>8. ASSUME NEW e, e # "none", Fail(e) PROVE HttpInv'
    <2>1. /\ stage = "generate" /\ err' = e /\ Failed(e)
          /\ UNCHANGED <<api, gone, streaming, usage, deltas, calls, nTools>>
      BY <1>8 DEF Fail, ReturnError, reqVars, toolVars, resVars, inputVars
    <2>2. /\ HttpTypes' /\ stage' = "answered"
          /\ gone /\ streaming => Output(ApiHead, response)'
          /\ ~gone => Ended'
      BY <1>0, <1>8, <2>1, FailedHttp
    <2> QED BY <2>1, <2>2 DEF HttpInv
  <1>9. CASE Receiving
    <2>1. (\E id : Relay(id)) \/ (\E why \in {"stop", "length"} : Succeed(why)) \/ Fail(ErrorFor)
      <3>1. client' \in {"receiving", "finished", "failed", "eof"}
        BY <1>9 DEF Receiving, T!Recv
      <3> QED BY <1>9, <3>1 DEF Receiving
    <2> QED BY <2>1, <1>6, <1>7, <1>8 DEF ErrorFor
  <1>10. CASE ReceiveFails
    BY <1>8, <1>10 DEF ReceiveFails
  <1>11. CASE \/ Sampling \/ Finishing \/ Closing \/ RpcHandler \/ CancelCall \/ ConnectionLost
              \/ UNCHANGED servingVars
    <2>1. UNCHANGED vars
      BY <1>11 DEF Sampling, Finishing, Closing, RpcHandler, CancelCall, ConnectionLost, servingVars
    <2> QED BY <1>1, <2>1
  <1> QED BY <1>2, <1>3, <1>4, <1>5, <1>9, <1>10, <1>11 DEF ServingNext, Handling, Leaving

(* Where a stream's chunks of each kind are. *)
LEMMA StreamIsWellFormed ==
    ASSUME HttpInv, Streamed
    PROVE  WellFormed
  <1>1. PICK len : len = Len(response)
    OBVIOUS
  <1>2. len \in Nat /\ DOMAIN response = 1 .. len /\ IsSeq(response)
    BY <1>1, Join DEF HttpInv, HttpTypes
  <1>3. PICK k : k = Kinds
    OBVIOUS
  <1>4. k = [i \in 1 .. len |-> response[i].kind]
    BY <1>2, <1>3 DEF Kinds
  <1>5. Len(k) = len
    BY <1>2, <1>4
  <1>6. streaming /\ status = 200 /\ stage \in {"new", "generate", "answered"} /\ gone \in BOOLEAN
    BY DEF Streamed, HttpInv, HttpTypes
  <1>7. ASSUME NEW n \in 0 .. len, OutputUpTo(n)
        PROVE  \A i \in 1 .. n : /\ k[i] \in {"role", "content", "tool"}
                                 /\ k[i] = "role" <=> i = 1 /\ api = "chat"
    BY <1>2, <1>4, <1>7 DEF OutputUpTo
  <1>8. ASSUME Output(ApiHead, response) PROVE OutputUpTo(len)
    BY <1>1, <1>8 DEF Output, OutputUpTo, ApiHead
  <1>9. CASE stage = "answered" /\ ~gone
    <2>1. StreamFailed \/ StreamSucceeded
      BY <1>6, <1>9 DEF HttpInv, Ended, Refused, CallFailed, CallSucceeded
    <2>2. CASE StreamFailed
      <3>1. PICK n \in 0 .. len : /\ OutputUpTo(n) /\ len = n + 2
                                  /\ response[n + 1].kind = "error" /\ response[n + 2].kind = "done"
        BY <1>1, <2>2 DEF StreamFailed
      <3>2. n + 1 \in 1 .. len /\ n + 2 \in 1 .. len /\ 1 .. len = (1 .. n) \cup {n + 1, n + 2}
        BY <1>2, <3>1
      <3>3. k[n + 1] = "error" /\ k[n + 2] = "done"
        BY <1>4, <3>1, <3>2
      <3>4. Last(k) = "done"
        BY <1>5, <3>1, <3>3 DEF Last
      <3>5. ASSUME NEW i \in 1 .. len
            PROVE  /\ k[i] \in {"content", "tool", "finish", "usage"} /\ api = "chat" => k[1] = "role"
                   /\ k[i] = "role" => i = 1 /\ api = "chat"
                   /\ k[i] \in {"finish", "error"} => \A j \in i + 1 .. len : k[j] \in {"usage", "done"}
                   /\ k[i] = "usage" => usage /\ k[i - 1] = "finish"
                   /\ k[i] = "done" => i = len /\ i > 1
        <4>1. CASE i \in 1 .. n
          <5>1. /\ k[i] \in {"role", "content", "tool"}
                /\ k[i] = "role" <=> i = 1 /\ api = "chat"
            BY <1>7, <3>1, <4>1
          <5>2. api = "chat" => k[1] = "role"
            <6>1. 1 \in 1 .. n
              BY <4>1
            <6> QED BY <1>7, <3>1, <6>1
          <5> QED BY <5>1, <5>2
        <4>2. CASE i = n + 1
          <5>1. \A j \in i + 1 .. len : j = n + 2
            BY <3>1, <4>2
          <5> QED BY <3>3, <4>2, <5>1
        <4>3. CASE i = n + 2
          BY <3>1, <3>3, <4>3
        <4> QED BY <3>2, <4>1, <4>2, <4>3
      <3> QED BY <1>1, <1>2, <1>3, <3>4, <3>5 DEF WellFormed
    <2>3. CASE StreamSucceeded
      <3>1. PICK n \in 0 .. len :
              /\ OutputUpTo(n) /\ (api = "chat" => n > 0)
              /\ response[n + 1].kind = "finish"
              /\ IF usage THEN /\ len = n + 3
                               /\ response[n + 2].kind = "usage" /\ response[n + 3].kind = "done"
                 ELSE len = n + 2 /\ response[n + 2].kind = "done"
        BY <1>1, <2>3 DEF StreamSucceeded
      <3>2. /\ n + 1 \in 1 .. len /\ n + 2 \in 1 .. len
            /\ IF usage THEN n + 3 \in 1 .. len /\ 1 .. len = (1 .. n) \cup {n + 1, n + 2, n + 3}
               ELSE 1 .. len = (1 .. n) \cup {n + 1, n + 2}
        BY <1>2, <3>1
      <3>3. /\ k[n + 1] = "finish"
            /\ IF usage THEN k[n + 2] = "usage" /\ k[n + 3] = "done" ELSE k[n + 2] = "done"
        BY <1>4, <3>1, <3>2
      <3>4. Last(k) = "done"
        BY <1>5, <3>1, <3>3 DEF Last
      <3>5. api = "chat" => k[1] = "role"
        <4>1. n > 0 => 1 \in 1 .. n
          OBVIOUS
        <4> QED BY <1>7, <3>1, <4>1
      <3>6. ASSUME NEW i \in 1 .. len
            PROVE  /\ k[i] \in {"content", "tool", "finish", "usage"} /\ api = "chat" => k[1] = "role"
                   /\ k[i] = "role" => i = 1 /\ api = "chat"
                   /\ k[i] \in {"finish", "error"} => \A j \in i + 1 .. len : k[j] \in {"usage", "done"}
                   /\ k[i] = "usage" => usage /\ k[i - 1] = "finish"
                   /\ k[i] = "done" => i = len /\ i > 1
        <4>1. CASE i \in 1 .. n
          <5>1. /\ k[i] \in {"role", "content", "tool"}
                /\ k[i] = "role" <=> i = 1 /\ api = "chat"
            BY <1>7, <3>1, <4>1
          <5> QED BY <3>5, <5>1
        <4>2. CASE i = n + 1
          <5>1. \A j \in i + 1 .. len : j = n + 2 \/ (usage /\ j = n + 3)
            BY <3>1, <4>2
          <5> QED BY <3>3, <3>5, <4>2, <5>1
        <4>3. CASE i = n + 2
          <5>1. i - 1 = n + 1 /\ i > 1
            BY <4>3
          <5> QED BY <3>1, <3>3, <3>5, <4>3, <5>1
        <4>4. CASE usage /\ i = n + 3
          BY <3>1, <3>3, <3>5, <4>4
        <4> QED BY <3>2, <4>1, <4>2, <4>3, <4>4
      <3> QED BY <1>1, <1>2, <1>3, <3>4, <3>6 DEF WellFormed
    <2> QED BY <2>1, <2>2, <2>3
  <1>10. CASE ~(stage = "answered" /\ ~gone)
    <2>1. Output(ApiHead, response)
      <3>1. Output(ApiHead, <<>>)
        BY OneOutput
      <3> QED BY <1>6, <1>10, <3>1 DEF HttpInv, Fresh, Underway
    <2>2. \A i \in 1 .. len : /\ k[i] \in {"role", "content", "tool"}
                              /\ k[i] = "role" <=> i = 1 /\ api = "chat"
      BY <1>2, <1>7, <1>8, <2>1
    <2>3. api = "chat" /\ 1 .. len # {} => k[1] = "role"
      <3>1. 1 .. len # {} => 1 \in 1 .. len
        BY <1>2
      <3> QED BY <2>2, <3>1
    <2> QED BY <1>1, <1>2, <1>3, <1>10, <2>2, <2>3 DEF WellFormed
  <1> QED BY <1>9, <1>10

(* WellFormed, for every stream of tokens and every point at which the     *)
(* call fails or the client leaves: each prefix of a stream is well        *)
(* formed.                                                                 *)
THEOREM StreamsAreWellFormed == ServingSpec => []WellFormed
  <1>1. HttpInv => WellFormed
    BY StreamIsWellFormed DEF WellFormed
  <1> QED BY <1>1, HttpStarts, HttpStep, PTL DEF ServingSpec

(* Each way to end tells the client one outcome. *)
LEMMA EndIsTold ==
    ASSUME HttpInv, stage = "answered", ~gone
    PROVE  OutcomeIsTold
  <1>1. PICK len : len = Len(response)
    OBVIOUS
  <1>2. len \in Nat /\ DOMAIN response = 1 .. len
    BY <1>1, Join DEF HttpInv, HttpTypes
  <1>3. ASSUME NEW j, Cardinality({j}) # 1 PROVE FALSE
    BY <1>3, FS_Singleton
  <1>4. PICK told, errors, tools : told = Sent("finish") \cup Sent("message") /\ errors = Sent("error")
                                   /\ tools = Sent("tool")
    OBVIOUS
  <1>5. /\ told = {i \in 1 .. len : response[i].kind \in {"finish", "message"}}
        /\ errors = {i \in 1 .. len : response[i].kind = "error"}
        /\ tools = {i \in 1 .. len : response[i].kind = "tool"}
    BY <1>2, <1>4 DEF Sent
  <1>6. Ended
    BY DEF HttpInv
  <1>7. CASE Refused \/ CallFailed
    <2>1. /\ len = 1 /\ response[1].kind = "error" /\ (phase # "returned" \/ err # "none")
      BY <1>1, <1>7 DEF Refused, CallFailed
    <2>2. told = {} /\ errors = {1}
      BY <1>5, <2>1
    <2>3. Cardinality(told \cup errors) = 1 /\ errors # {}
      <3>1. told \cup errors = {1}
        BY <2>2
      <3> QED BY <1>3, <2>2, <3>1
    <2> QED BY <1>4, <2>1, <2>2, <2>3 DEF OutcomeIsTold
  <1>8. CASE CallSucceeded
    <2>1. /\ len = 1 /\ response[1].kind = "message" /\ phase = "returned" /\ err = "none"
          /\ status = 200 /\ (response[1].reason = "tool_calls" <=> response[1].call > 0)
      BY <1>1, <1>8 DEF CallSucceeded
    <2>2. told = {1} /\ errors = {} /\ tools = {} /\ Sent("message") = {1}
      BY <1>2, <1>5, <2>1 DEF Sent
    <2>3. Cardinality(told \cup errors) = 1
      <3>1. told \cup errors = {1}
        BY <2>2
      <3> QED BY <1>3, <3>1
    <2> QED BY <1>4, <2>1, <2>2, <2>3 DEF OutcomeIsTold
  <1>9. CASE StreamFailed
    <2>1. status = 200 /\ err # "none"
      BY <1>9 DEF StreamFailed
    <2>2. PICK n \in 0 .. len : /\ OutputUpTo(n) /\ len = n + 2
                                /\ response[n + 1].kind = "error" /\ response[n + 2].kind = "done"
      BY <1>1, <1>9 DEF StreamFailed
    <2>3. 1 .. len = (1 .. n) \cup {n + 1, n + 2}
      BY <1>2, <2>2
    <2>4. \A i \in 1 .. n : response[i].kind \in {"role", "content", "tool"}
      BY <2>2 DEF OutputUpTo
    <2>5. told = {} /\ errors = {n + 1}
      BY <1>5, <2>2, <2>3, <2>4
    <2>6. Cardinality(told \cup errors) = 1
      <3>1. told \cup errors = {n + 1}
        BY <2>5
      <3> QED BY <1>3, <3>1
    <2> QED BY <1>4, <2>1, <2>5, <2>6 DEF OutcomeIsTold
  <1>10. CASE StreamSucceeded
    <2>1. status = 200 /\ err = "none" /\ phase = "returned"
      BY <1>10 DEF StreamSucceeded
    <2>2. PICK n \in 0 .. len :
            /\ OutputUpTo(n) /\ response[n + 1].kind = "finish"
            /\ response[n + 1].reason = "tool_calls" <=> ToolUpTo(n)
            /\ IF usage THEN /\ len = n + 3
                             /\ response[n + 2].kind = "usage" /\ response[n + 3].kind = "done"
               ELSE len = n + 2 /\ response[n + 2].kind = "done"
      BY <1>1, <1>10 DEF StreamSucceeded
    <2>3. /\ n + 1 \in 1 .. len
          /\ IF usage THEN 1 .. len = (1 .. n) \cup {n + 1, n + 2, n + 3}
             ELSE 1 .. len = (1 .. n) \cup {n + 1, n + 2}
      BY <1>2, <2>2
    <2>4. \A i \in 1 .. n : response[i].kind \in {"role", "content", "tool"}
      BY <2>2 DEF OutputUpTo
    <2>5. \A i \in 1 .. len : response[i].kind \in {"role", "content", "tool", "usage", "done"} \/ i = n + 1
      BY <2>2, <2>3, <2>4
    <2>6. told = {n + 1} /\ errors = {} /\ Sent("message") = {}
      BY <1>2, <1>5, <2>2, <2>3, <2>5 DEF Sent
    <2>7. tools # {} <=> ToolUpTo(n)
      <3>1. \A i \in 1 .. len : response[i].kind = "tool" => i \in 1 .. n
        BY <2>2, <2>3
      <3>2. \A i \in 1 .. n : i \in 1 .. len
        BY <1>2
      <3> QED BY <1>5, <3>1, <3>2 DEF ToolUpTo
    <2>8. Cardinality(told \cup errors) = 1
      <3>1. told \cup errors = {n + 1}
        BY <2>6
      <3> QED BY <1>3, <3>1
    <2> QED BY <1>4, <2>1, <2>2, <2>6, <2>7, <2>8 DEF OutcomeIsTold
  <1> QED BY <1>6, <1>7, <1>8, <1>9, <1>10 DEF Ended

(* OutcomeIsTold, for every request and every way its call ends: a client  *)
(* that stays learns exactly one outcome, and it is the one that happened. *)
THEOREM OutcomesAreTold == ServingSpec => []OutcomeIsTold
  <1>1. HttpInv => OutcomeIsTold
    BY EndIsTold DEF OutcomeIsTold
  <1> QED BY <1>1, HttpStarts, HttpStep, PTL DEF ServingSpec

-----------------------------------------------------------------------------
(* Streaming and blocking clients read the same text *)

(* What a client reads: bytes of runes, and "?" for what is none. *)
Mark == Byte \cup {"?"}

(* What json.Marshal makes of the rune at i of s, or of its first byte. *)
Piece(s, i) ==
    IF RuneSize(s, i) # Width(s[i]) \/ s[i] = "c" THEN <<"?">>
    ELSE SubSeq(s, i, i + RuneSize(s, i) - 1)

(* A piece is a few bytes, and a replaced byte is one byte. *)
LEMMA PieceIsMarks ==
    ASSUME NEW s \in Seq(Byte), NEW i \in 1 .. Len(s)
    PROVE  /\ Piece(s, i) \in Seq(Mark)
           /\ RuneSize(s, i) # Width(s[i]) \/ s[i] = "c" => RuneSize(s, i) = 1
  <1>1. PICK k, n : k = RuneSize(s, i) /\ n = Len(s)
    OBVIOUS
  <1>2. n \in Nat /\ i \in 1 .. n /\ k \in 1 .. 4 /\ i + k \in i + 1 .. n + 1
    BY <1>1, RuneRules
  <1>3. s \in Seq(Mark)
    BY DEF Mark
  <1>4. SubSeq(s, i, i + k - 1) \in Seq(Mark)
    <2>1. PICK e : e = i + k - 1
      OBVIOUS
    <2>2. e \in i .. n
      BY <1>2, <2>1
    <2>3. \A j \in i .. e : s[j] \in Mark
      BY <1>1, <1>2, <1>3, <2>2
    <2>4. SubSeq(s, i, e) \in Seq(Mark)
      BY <1>1, <1>2, <1>3, <2>2, <2>3, SubSeqProperties
    <2> QED BY <2>1, <2>4
  <1>5. <<"?">> \in Seq(Mark)
    BY DEF Mark
  <1>6. s[i] = "c" => Width(s[i]) = 1
    BY DEF Width
  <1> QED BY <1>1, <1>4, <1>5, <1>6 DEF Piece, RuneSize

(* f is what json.Marshal makes of s from each rune on. *)
Marshals(f, s) ==
    /\ f \in [1 .. Len(s) + 1 -> Seq(Mark)]
    /\ f[Len(s) + 1] = <<>>
    /\ \A i \in 1 .. Len(s) : f[i] = Piece(s, i) \o f[i + RuneSize(s, i)]

(* The recursive definition of Marshal, unfolded. *)
LEMMA MarshalUnfold ==
    ASSUME NEW s \in Seq(Byte)
    PROVE  \E f : Marshals(f, s) /\ Marshal(s) = f[1]
  <1>1. PICK n, V : n = Len(s) /\ V = Seq(Mark)
    OBVIOUS
  <1>2. n \in Nat /\ <<>> \in V
    BY <1>1
  <1>3. PICK next : next = [i \in 1 .. n |-> i + RuneSize(s, i)]
    OBVIOUS
  <1>4. \A i \in 1 .. n : next[i] = i + RuneSize(s, i) /\ next[i] \in i + 1 .. n + 1
    BY <1>1, <1>3, RuneRules
  <1>5. PICK h : h = [p \in (1 .. n) \X V |-> Piece(s, p[1]) \o p[2]]
    OBVIOUS
  <1>6. \A i \in 1 .. n, v \in V : h[<<i, v>>] = Piece(s, i) \o v /\ h[<<i, v>>] \in V
    <2>1. ASSUME NEW i \in 1 .. n, NEW v \in V PROVE Piece(s, i) \o v \in V
      <3>1. Piece(s, i) \in Seq(Mark) /\ v \in Seq(Mark)
        BY <1>1, PieceIsMarks
      <3> QED BY <1>1, <3>1, ConcatProperties
    <2> QED BY <1>5, <2>1
  <1>7. h \in [(1 .. n) \X V -> V]
    <2>1. \A p \in (1 .. n) \X V : Piece(s, p[1]) \o p[2] \in V
      <3>1. ASSUME NEW p \in (1 .. n) \X V PROVE Piece(s, p[1]) \o p[2] \in V
        <4>1. p[1] \in 1 .. Len(s) /\ p[2] \in Seq(Mark)
          BY <1>1
        <4>2. Piece(s, p[1]) \in Seq(Mark)
          BY <4>1, PieceIsMarks
        <4> QED BY <1>1, <4>1, <4>2, ConcatProperties
      <3> QED BY <3>1
    <2> QED BY <1>5, <2>1
  <1>8. PICK f : Scans(f, 1, n, V, <<>>, h, next)
    BY <1>2, <1>4, <1>7, ScanExists
  <1>9. /\ f \in [1 .. n + 1 -> V] /\ f[n + 1] = <<>>
        /\ \A i \in 1 .. n : f[i] = Piece(s, i) \o f[i + RuneSize(s, i)]
    <2>1. /\ f \in [1 .. n + 1 -> V] /\ f[n + 1] = <<>>
          /\ \A i \in 1 .. n : f[i] = h[<<i, f[next[i]]>>]
      BY <1>8 DEF Scans
    <2>2. ASSUME NEW i \in 1 .. n PROVE f[i] = Piece(s, i) \o f[i + RuneSize(s, i)]
      <3>1. PICK v : v = f[next[i]]
        OBVIOUS
      <3>2. next[i] \in 1 .. n + 1
        BY <1>2, <1>4
      <3>3. v \in V /\ f[i] = h[<<i, v>>]
        BY <2>1, <3>1, <3>2
      <3>4. h[<<i, v>>] = Piece(s, i) \o v
        BY <1>6, <3>3
      <3> QED BY <1>4, <3>1, <3>3, <3>4
    <2> QED BY <2>1, <2>2
  <1> DEFINE Body(e, i) ==
        IF i > n THEN <<>>
        ELSE IF RuneSize(s, i) # Width(s[i]) \/ s[i] = "c" THEN <<"?">> \o e[i + 1]
        ELSE SubSeq(s, i, i + RuneSize(s, i) - 1) \o e[i + RuneSize(s, i)]
  <1>10. \A e : \A i \in 1 .. n : Body(e, i) = Piece(s, i) \o e[i + RuneSize(s, i)]
    <2>1. ASSUME NEW e, NEW i \in 1 .. n
          PROVE  Body(e, i) = Piece(s, i) \o e[i + RuneSize(s, i)]
      <3>1. ~(i > n)
        BY <1>2
      <3>2. RuneSize(s, i) # Width(s[i]) \/ s[i] = "c" => RuneSize(s, i) = 1
        BY <1>1, PieceIsMarks
      <3> QED BY <3>1, <3>2 DEF Piece
    <2> QED BY <2>1
  <1>11. \A e : Body(e, n + 1) = <<>>
    <2>1. n + 1 > n
      BY <1>2
    <2> QED BY <2>1
  <1>12. \A i \in 1 .. n + 1 : i = n + 1 \/ i \in 1 .. n
    BY <1>2
  <1>13. f = [i \in 1 .. n + 1 |-> Body(f, i)]
    <2>1. \A i \in 1 .. n + 1 : f[i] = Body(f, i)
      <3> HIDE DEF Body
      <3> QED BY <1>9, <1>10, <1>11, <1>12
    <2> HIDE DEF Body
    <2> QED BY <1>9, <2>1
  <1>14. PICK g : g = CHOOSE e : e = [i \in 1 .. n + 1 |-> Body(e, i)]
    OBVIOUS
  <1>15. g = [i \in 1 .. n + 1 |-> Body(g, i)]
    <2> HIDE DEF Body
    <2> QED BY <1>13, <1>14
  <1>16. Marshal(s) = g[1]
    BY <1>1, <1>14, Zenon DEF Marshal
  <1>17. g[n + 1] = <<>> /\ \A i \in 1 .. n : g[i] = Piece(s, i) \o g[i + RuneSize(s, i)]
    <2>1. n + 1 \in 1 .. n + 1 /\ \A i \in 1 .. n : i \in 1 .. n + 1
      BY <1>2
    <2> HIDE DEF Body
    <2> QED BY <1>10, <1>11, <1>15, <2>1
  <1>18. \A i \in 1 .. n + 1 : g[i] \in V
    <2>1. PICK S : S = {k \in Nat : \A i \in 1 .. n + 1 : i >= (n + 1) - k => g[i] \in V}
      OBVIOUS
    <2>2. 0 \in S
      <3>1. \A i \in 1 .. n + 1 : i >= (n + 1) - 0 => i = n + 1
        BY <1>2
      <3> QED BY <1>2, <1>17, <2>1, <3>1
    <2>3. ASSUME NEW k \in Nat, k \in S PROVE k + 1 \in S
      <3> SUFFICES ASSUME NEW i \in 1 .. n + 1, i >= (n + 1) - (k + 1) PROVE g[i] \in V
        BY <2>1
      <3>1. CASE i = n + 1
        BY <1>2, <1>17, <3>1
      <3>2. CASE i # n + 1
        <4>1. i \in 1 .. n
          BY <1>12, <3>2
        <4>2. PICK j : j = i + RuneSize(s, i)
          OBVIOUS
        <4>3. j \in i + 1 .. n + 1
          BY <1>4, <4>1, <4>2
        <4>4. j \in 1 .. n + 1 /\ j >= (n + 1) - k
          BY <1>2, <4>1, <4>3
        <4>5. g[j] \in V
          BY <2>1, <2>3, <4>4
        <4>6. Piece(s, i) \in Seq(Mark)
          BY <1>1, <4>1, PieceIsMarks
        <4>7. Piece(s, i) \o g[j] \in V
          BY <1>1, <4>5, <4>6, ConcatProperties
        <4> QED BY <1>17, <4>1, <4>2, <4>7
      <3> QED BY <3>1, <3>2
    <2>4. \A k \in Nat : k \in S
      BY <2>2, <2>3, SetInduction
    <2>5. n + 1 \in S
      BY <1>2, <2>4
    <2>6. \A i \in 1 .. n + 1 : i >= (n + 1) - (n + 1)
      BY <1>2
    <2> QED BY <2>1, <2>5, <2>6
  <1>19. g \in [1 .. n + 1 -> V]
    <2>1. g = [i \in 1 .. n + 1 |-> g[i]]
      <3> HIDE DEF Body
      <3> QED BY <1>15
    <2> QED BY <1>18, <2>1
  <1>20. Marshals(g, s)
    BY <1>1, <1>17, <1>19 DEF Marshals
  <1> QED BY <1>16, <1>20

(* Nothing is encoded as nothing, and the encoding is a byte string. *)
LEMMA MarshalType ==
    /\ Marshal(<<>>) = <<>>
    /\ \A s \in Seq(Byte) : Marshal(s) \in Seq(Mark)
  <1>1. ASSUME NEW s \in Seq(Byte)
        PROVE  Marshal(s) \in Seq(Mark) /\ (Len(s) = 0 => Marshal(s) = <<>>)
    <2>1. PICK f : Marshals(f, s) /\ Marshal(s) = f[1]
      BY MarshalUnfold
    <2>2. 1 \in 1 .. Len(s) + 1 /\ (Len(s) = 0 => Len(s) + 1 = 1)
      OBVIOUS
    <2> QED BY <2>1, <2>2 DEF Marshals
  <1>2. PICK s \in Seq(Byte) : s = <<>>
    <2>1. <<>> \in Seq(Byte)
      OBVIOUS
    <2> QED BY <2>1
  <1>3. Len(s) = 0
    BY <1>2
  <1> QED BY <1>1, <1>2, <1>3

(* Part of a sequence. *)
LEMMA SubSeqAt ==
    ASSUME NEW S, NEW s \in Seq(S), NEW a \in 1 .. Len(s), NEW c \in a .. Len(s)
    PROVE  /\ SubSeq(s, a, c) \in Seq(S) /\ Len(SubSeq(s, a, c)) = c - a + 1
           /\ \A j \in 1 .. c - a + 1 : SubSeq(s, a, c)[j] = s[a + j - 1]
  <1>1. a \in Int /\ c \in Int /\ a <= c
    OBVIOUS
  <1>2. \A j \in a .. c : s[j] \in S
    OBVIOUS
  <1>3. /\ SubSeq(s, a, c) \in Seq(S)
        /\ Len(SubSeq(s, a, c)) = IF a <= c THEN c - a + 1 ELSE 0
        /\ \A j \in 1 .. c - a + 1 : SubSeq(s, a, c)[j] = s[a + j - 1]
    BY ONLY <1>1, <1>2, SubSeqProperties
  <1> QED BY <1>1, <1>3

(* From where on t has the bytes of s, it has its pieces. *)
LEMMA SamePiece ==
    ASSUME NEW s \in Seq(Byte), NEW t \in Seq(Byte), NEW a \in 1 .. Len(s), NEW b \in 1 .. Len(t),
           t[b] = s[a], RuneSize(t, b) = RuneSize(s, a),
           \A k \in 0 .. RuneSize(s, a) - 1 : t[b + k] = s[a + k]
    PROVE  Piece(t, b) = Piece(s, a)
  <1>1. PICK k, n, m : k = RuneSize(s, a) /\ n = Len(s) /\ m = Len(t)
    OBVIOUS
  <1>2. /\ n \in Nat /\ a \in 1 .. n /\ k \in 1 .. 4 /\ a + k \in a + 1 .. n + 1
        /\ m \in Nat /\ b \in 1 .. m /\ b + k \in b + 1 .. m + 1
    BY <1>1, RuneRules
  <1>3. PICK c, d : c = a + k - 1 /\ d = b + k - 1
    OBVIOUS
  <1>4. c \in a .. n /\ d \in b .. m /\ c - a + 1 = k /\ d - b + 1 = k
    BY <1>2, <1>3
  <1>5. PICK p, r : p = SubSeq(s, a, c) /\ r = SubSeq(t, b, d)
    OBVIOUS
  <1>6. p \in Seq(Byte) /\ Len(p) = k /\ \A j \in 1 .. k : p[j] = s[a + j - 1]
    <2>1. s \in Seq(Byte) /\ a \in 1 .. Len(s) /\ c \in a .. Len(s)
      BY <1>1, <1>2, <1>4
    <2>2. /\ SubSeq(s, a, c) \in Seq(Byte) /\ Len(SubSeq(s, a, c)) = c - a + 1
          /\ \A j \in 1 .. c - a + 1 : SubSeq(s, a, c)[j] = s[a + j - 1]
      BY ONLY <2>1, SubSeqAt
    <2> QED BY <1>4, <1>5, <2>2
  <1>7. r \in Seq(Byte) /\ Len(r) = k /\ \A j \in 1 .. k : r[j] = t[b + j - 1]
    <2>1. t \in Seq(Byte) /\ b \in 1 .. Len(t) /\ d \in b .. Len(t)
      BY <1>1, <1>2, <1>4
    <2>2. /\ SubSeq(t, b, d) \in Seq(Byte) /\ Len(SubSeq(t, b, d)) = d - b + 1
          /\ \A j \in 1 .. d - b + 1 : SubSeq(t, b, d)[j] = t[b + j - 1]
      BY ONLY <2>1, SubSeqAt
    <2> QED BY <1>4, <1>5, <2>2
  <1>8. \A j \in 1 .. k : r[j] = p[j]
    <2>1. \A j \in 1 .. k : j - 1 \in 0 .. k - 1 /\ a + (j - 1) = a + j - 1 /\ b + (j - 1) = b + j - 1
      BY <1>2
    <2> QED BY <1>1, <1>6, <1>7, <2>1
  <1>9. p = r
    BY <1>2, <1>6, <1>7, <1>8, SeqEqual
  <1> QED BY <1>1, <1>3, <1>5, <1>9 DEF Piece

EndsIn(s, l, v) == Len(s) = l + Len(v) /\ \A i \in 1 .. Len(v) : s[l + i] = v[i]

(* What is encoded from position l + i of s on is what is encoded from i   *)
(* on of its suffix v.                                                     *)
LEMMA MarshalSuffix ==
    ASSUME NEW s \in Seq(Byte), NEW v \in Seq(Byte), NEW l \in Nat, EndsIn(s, l, v),
           NEW f, Marshals(f, s), NEW h, Marshals(h, v)
    PROVE  f[l + 1] = h[1]
  <1>1. PICK m : m = Len(v)
    OBVIOUS
  <1>2. m \in Nat /\ Len(s) = l + m /\ \A i \in 1 .. m : s[l + i] = v[i]
    BY <1>1 DEF EndsIn
  <1>3. PICK S : S = {k \in Nat : \A i \in 1 .. m + 1 : i >= (m + 1) - k => f[l + i] = h[i]}
    OBVIOUS
  <1>4. 0 \in S
    <2>1. \A i \in 1 .. m + 1 : i >= (m + 1) - 0 => i = m + 1
      BY <1>2
    <2>2. f[l + (m + 1)] = h[m + 1]
      <3>1. l + (m + 1) = (l + m) + 1
        BY <1>2
      <3> QED BY <1>1, <1>2, <3>1 DEF Marshals
    <2> QED BY <1>3, <2>1, <2>2
  <1>5. ASSUME NEW k \in Nat, k \in S PROVE k + 1 \in S
    <2> SUFFICES ASSUME NEW i \in 1 .. m + 1, i >= (m + 1) - (k + 1) PROVE f[l + i] = h[i]
      BY <1>3
    <2>1. CASE i = m + 1
      <3>1. m + 1 \in 1 .. m + 1 /\ m + 1 >= (m + 1) - k
        BY <1>2
      <3> QED BY <1>3, <1>5, <2>1, <3>1
    <2>2. CASE i # m + 1
      <3>1. PICK a : a = l + i
        OBVIOUS
      <3>2. i \in 1 .. m /\ a \in 1 .. l + m
        BY <1>2, <2>2, <3>1
      <3>3. SameFrom(s, a, v, i)
        <4>1. (l + m) - a = m - i
          BY <1>2, <3>1, <3>2
        <4>2. ASSUME NEW j \in 0 .. m - i PROVE s[a + j] = v[i + j]
          <5>1. i + j \in 1 .. m /\ a + j = l + (i + j)
            BY <1>2, <3>1, <3>2
          <5> QED BY <1>2, <5>1
        <4> QED BY <1>1, <1>2, <4>1, <4>2 DEF SameFrom
      <3>4. RuneSize(s, a) = RuneSize(v, i)
        BY <1>1, <1>2, <3>2, <3>3, SameRune
      <3>5. PICK r : r = RuneSize(v, i)
        OBVIOUS
      <3>6. r \in 1 .. 4 /\ i + r \in i + 1 .. m + 1
        BY <1>1, <3>2, <3>5, RuneRules
      <3>7. Piece(s, a) = Piece(v, i)
        <4>1. \A j \in 0 .. r - 1 : s[a + j] = v[i + j]
          <5>1. \A j \in 0 .. r - 1 : j \in 0 .. m - i
            BY <1>2, <3>2, <3>6
          <5> QED BY <1>1, <3>3, <5>1 DEF SameFrom
        <4>2. s[a] = v[i]
          BY <1>2, <3>1, <3>2
        <4> QED BY <1>1, <1>2, <3>2, <3>4, <3>5, <4>1, <4>2, SamePiece
      <3>8. f[l + (i + r)] = h[i + r]
        <4>1. i + r \in 1 .. m + 1 /\ i + r >= (m + 1) - k
          BY <1>2, <3>2, <3>6
        <4> QED BY <1>3, <1>5, <4>1
      <3>9. a + r = l + (i + r)
        BY <3>1, <3>2, <3>6
      <3>10. f[a] = Piece(s, a) \o f[a + r]
        BY <1>2, <3>2, <3>4, <3>5 DEF Marshals
      <3>11. h[i] = Piece(v, i) \o h[i + r]
        BY <1>1, <3>2, <3>5 DEF Marshals
      <3> QED BY <3>1, <3>7, <3>8, <3>9, <3>10, <3>11
    <2> QED BY <2>1, <2>2
  <1>6. \A k \in Nat : k \in S
    BY <1>4, <1>5, SetInduction
  <1>7. m \in S /\ 1 \in 1 .. m + 1 /\ 1 >= (m + 1) - m
    BY <1>2, <1>6
  <1> QED BY <1>3, <1>7

(* A rune that ends before the bytes that follow is the same without them. *)
LEMMA RuneBefore ==
    ASSUME NEW u \in Seq(Byte), NEW t \in Seq(Byte), Len(u) <= Len(t),
           \A k \in 1 .. Len(u) : t[k] = u[k],
           NEW a \in 1 .. Len(u), a + RuneSize(t, a) <= Len(u) + 1
    PROVE  RuneSize(u, a) = RuneSize(t, a)
  <1>1. PICK n, m : n = Len(u) /\ m = Len(t)
    OBVIOUS
  <1>2. n \in Nat /\ m \in Nat /\ n <= m /\ a \in 1 .. n /\ a \in 1 .. m
    BY <1>1
  <1>3. RuneSize(t, a) = SizeRule(t, a) /\ RuneSize(u, a) = SizeRule(u, a)
    BY <1>1, <1>2, RuneRules
  <1>4. /\ t[a] = u[a]
        /\ a + 1 <= n => t[a + 1] = u[a + 1] /\ a + 1 <= m
        /\ a + 2 <= n => t[a + 2] = u[a + 2] /\ a + 2 <= m
        /\ a + 3 <= n => t[a + 3] = u[a + 3] /\ a + 3 <= m
    BY <1>1, <1>2
  <1>5. a + SizeRule(t, a) <= n + 1
    BY <1>1, <1>3
  <1>6. SizeRule(u, a) = SizeRule(t, a)
    <2>1. Width(u[a]) \in 1 .. 4 /\ Width(t[a]) = Width(u[a])
      BY <1>4, Widths
    <2> QED BY <1>1, <1>2, <1>4, <1>5, <2>1 DEF SizeRule
  <1> QED BY <1>3, <1>6

(* A text that ends where a rune does is encoded apart from what follows:  *)
(* neither borrows a byte from the other.                                  *)
LEMMA MarshalSplits ==
    ASSUME NEW u \in Seq(Byte), NEW v \in Seq(Byte), NEW w \in Seq(Byte),
           NEW B, Chain(B, (u \o v) \o w), Len(u) + 1 \in B
    PROVE  Marshal(u \o v) = Marshal(u) \o Marshal(v)
  <1>1. PICK l, s, t : l = Len(u) /\ s = u \o v /\ t = s \o w
    OBVIOUS
  <1>2. /\ l \in Nat /\ Len(v) \in Nat /\ s \in Seq(Byte) /\ Len(s) = l + Len(v)
        /\ \A k \in 1 .. l + Len(v) : s[k] = IF k <= l THEN u[k] ELSE v[k - l]
    BY <1>1, ConcatProperties
  <1>3. /\ t \in Seq(Byte) /\ Len(w) \in Nat /\ Len(t) = Len(s) + Len(w)
        /\ \A k \in 1 .. Len(s) + Len(w) : t[k] = IF k <= Len(s) THEN s[k] ELSE w[k - Len(s)]
    BY <1>1, <1>2, ConcatProperties
  <1>4. /\ \A k \in 1 .. l : s[k] = u[k] /\ t[k] = u[k]
        /\ \A k \in 1 .. Len(v) : s[l + k] = v[k]
        /\ \A k \in 1 .. Len(s) : t[k] = s[k]
        /\ l <= Len(s) /\ Len(s) <= Len(t) /\ l <= Len(t)
    <2>1. \A k \in 1 .. l : k \in 1 .. l + Len(v) /\ k <= l /\ k \in 1 .. Len(s)
      BY <1>2
    <2>2. \A k \in 1 .. Len(v) : l + k \in 1 .. l + Len(v) /\ ~(l + k <= l) /\ (l + k) - l = k
      BY <1>2
    <2>3. \A k \in 1 .. Len(s) : k \in 1 .. Len(s) + Len(w) /\ k <= Len(s)
      BY <1>2, <1>3
    <2>4. \A k \in 1 .. Len(s) : t[k] = s[k]
      BY <1>3, <2>3
    <2>5. \A k \in 1 .. l : s[k] = u[k]
      BY <1>2, <2>1
    <2>6. \A k \in 1 .. Len(v) : s[l + k] = v[k]
      BY <1>2, <2>2
    <2>7. l <= Len(s) /\ Len(s) <= Len(t) /\ l <= Len(t)
      BY <1>2, <1>3
    <2> QED BY <2>1, <2>4, <2>5, <2>6, <2>7
  <1>5. PICK f : Marshals(f, s) /\ Marshal(s) = f[1]
    BY <1>2, MarshalUnfold
  <1>6. PICK g : Marshals(g, u) /\ Marshal(u) = g[1]
    BY MarshalUnfold
  <1>7. PICK h : Marshals(h, v) /\ Marshal(v) = h[1]
    BY MarshalUnfold
  <1>8. f[l + 1] = h[1]
    <2>1. \A i \in 1 .. Len(v) : s[l + i] = v[i]
      BY <1>4
    <2>2. l \in Nat /\ s \in Seq(Byte) /\ Len(s) = l + Len(v)
      BY <1>2
    <2>3. Marshals(f, s) /\ Marshals(h, v)
      BY <1>5, <1>7
    <2>4. EndsIn(s, l, v)
      BY <2>1, <2>2 DEF EndsIn
    <2> QED BY <2>2, <2>3, <2>4, MarshalSuffix
  <1>9. h[1] \in Seq(Mark)
    BY <1>7, MarshalType
  <1>10. PICK z : z = h[1]
    OBVIOUS
  <1>11. PICK S : S = {b \in B : b <= l + 1 /\ f[b] = g[b] \o z}
    OBVIOUS
  <1>12. Chain(B, t)
    BY <1>1
  <1>13. B \subseteq Nat
    BY <1>3, <1>12 DEF Chain
  <1>14. l + 1 \in S
    <2>1. g[l + 1] = <<>>
      BY <1>1, <1>6 DEF Marshals
    <2>2. <<>> \o z = z
      BY <1>9, <1>10, ConcatEmptySeq
    <2>3. f[l + 1] = g[l + 1] \o z
      BY <1>8, <1>10, <2>1, <2>2
    <2>4. l + 1 \in B /\ l + 1 <= l + 1
      BY <1>1, <1>2
    <2> QED BY <1>11, <2>3, <2>4
  <1>15. PICK b \in S : \A c \in S : b <= c
    <2>1. S \in SUBSET Nat /\ S # {}
      BY <1>11, <1>13, <1>14
    <2> QED BY <2>1, LeastNat
  <1>16. b = 1
    <2> SUFFICES ASSUME b # 1 PROVE FALSE
      OBVIOUS
    <2>1. b \in B /\ b <= l + 1 /\ f[b] = g[b] \o z
      BY <1>11
    <2>2. PICK a \in B : a \in 1 .. Len(t) /\ b = a + RuneSize(t, a)
      BY <1>12, <2>1 DEF Chain
    <2>3. PICK r : r = RuneSize(t, a)
      OBVIOUS
    <2>4. r \in 1 .. 4
      BY <1>3, <2>2, <2>3, RuneRules
    <2>5. b = a + r /\ a \in 1 .. l /\ a \in 1 .. Len(s) /\ a + r <= l + 1 /\ a + r <= Len(s) + 1
          /\ a < b
      <3>1. l \in Nat /\ Len(s) \in Nat /\ l <= Len(s) /\ a \in Nat /\ a >= 1
        BY <1>2, <1>3, <1>4, <2>2
      <3>2. b = a + r /\ b <= l + 1
        BY <2>1, <2>2, <2>3
      <3> QED BY <2>4, <3>1, <3>2
    <2>6. RuneSize(s, a) = r
      BY <1>2, <1>3, <1>4, <2>3, <2>5, RuneBefore
    <2>7. RuneSize(u, a) = r
      BY <1>1, <1>3, <1>4, <2>3, <2>5, RuneBefore
    <2>8. Piece(s, a) = Piece(u, a)
      <3>1. \A k \in 0 .. r - 1 : a + k \in 1 .. l
        BY <1>2, <2>4, <2>5
      <3>2. \A k \in 0 .. r - 1 : s[a + k] = u[a + k]
        BY <1>4, <3>1
      <3>3. s[a] = u[a]
        BY <1>4, <2>5
      <3>4. s \in Seq(Byte) /\ u \in Seq(Byte) /\ a \in 1 .. Len(u) /\ a \in 1 .. Len(s)
        BY <1>1, <1>2, <2>5
      <3>5. RuneSize(s, a) = RuneSize(u, a) /\ \A k \in 0 .. RuneSize(u, a) - 1 : s[a + k] = u[a + k]
        BY <2>6, <2>7, <3>2
      <3> QED BY <3>3, <3>4, <3>5, SamePiece
    <2>9. f[a] = Piece(u, a) \o f[b]
      BY <1>5, <2>5, <2>6, <2>8 DEF Marshals
    <2>10. g[a] = Piece(u, a) \o g[b]
      BY <1>1, <1>6, <2>5, <2>7 DEF Marshals
    <2>11. f[a] = g[a] \o z
      <3>1. Piece(u, a) \in Seq(Mark)
        BY <1>1, <2>5, PieceIsMarks
      <3>2. g[b] \in Seq(Mark)
        <4>1. b \in 1 .. l + 1
          BY <1>2, <2>4, <2>5
        <4> QED BY <1>1, <1>6, <4>1 DEF Marshals
      <3>3. Regroups(Piece(u, a), g[b], z)
        BY <1>9, <1>10, <3>1, <3>2, Regroup
      <3> QED BY <2>1, <2>9, <2>10, <3>3, Zenon DEF Regroups
    <2>12. a \in S
      BY <1>2, <1>11, <2>2, <2>5, <2>11
    <2> QED BY <1>15, <2>5, <2>12
  <1>17. f[1] = g[1] \o z
    BY <1>11, <1>15, <1>16
  <1> QED BY <1>1, <1>5, <1>6, <1>7, <1>10, <1>17

-----------------------------------------------------------------------------
(* Chunks, and the text that is read from them *)

(* Chunks whose bytes are text, and the text they add up to. *)
Textual(r) == IsSeq(r) /\ \A i \in 1 .. Len(r) : r[i].bytes \in Seq(Mark)
ReadFrom(r) == FlattenSeq([i \in DOMAIN r |-> r[i].bytes])

(* Behind what was written before, c adds the text b. *)
Adds(c, b) ==
    /\ IsSeq(c) /\ b \in Seq(Mark)
    /\ \A r : Textual(r) => Textual(r \o c) /\ ReadFrom(r \o c) = ReadFrom(r) \o b

(* Nothing is read from nothing. *)
LEMMA ReadNothing == Textual(<<>>) /\ ReadFrom(<<>>) = <<>>
  <1>1. IsSeq(<<>>)
    BY OneChunk
  <1>2. Len(<<>>) = 0 /\ DOMAIN <<>> = {}
    OBVIOUS
  <1>3. \A i \in 1 .. 0 : FALSE
    OBVIOUS
  <1>4. [i \in DOMAIN <<>> |-> <<>>[i].bytes] = <<>>
    BY <1>2
  <1> QED BY <1>1, <1>2, <1>3, <1>4, FlattenEmpty DEF Textual, ReadFrom

(* What is read is text. *)
LEMMA ReadType ==
    ASSUME NEW r, Textual(r)
    PROVE  ReadFrom(r) \in Seq(Mark)
  <1>1. PICK n, s, S : n = Len(r) /\ s = [i \in 1 .. n |-> r[i].bytes] /\ S = Seq(Mark)
    OBVIOUS
  <1>2. n \in Nat /\ DOMAIN r = 1 .. n
    BY <1>1 DEF Textual, IsSeq
  <1>3. \A i \in 1 .. n : s[i] \in S
    BY <1>1 DEF Textual
  <1>4. s = [i \in 1 .. n |-> s[i]]
    BY <1>1
  <1>5. s \in Seq(S)
    BY <1>2, <1>3, <1>4, MapIsSeq
  <1> QED BY <1>1, <1>2, <1>5, FlattenType DEF ReadFrom

(* A chunk adds its bytes. *)
LEMMA AddsChunk ==
    ASSUME NEW x, x.bytes \in Seq(Mark)
    PROVE  Adds(<<x>>, x.bytes)
  <1> SUFFICES ASSUME NEW r, Textual(r)
               PROVE  Textual(r \o <<x>>) /\ ReadFrom(r \o <<x>>) = ReadFrom(r) \o x.bytes
    BY OneChunk DEF Adds
  <1>1. PICK n, q1, s, t, S, y :
          /\ n = Len(r) /\ q1 = r \o <<x>>
          /\ s = [i \in 1 .. n |-> r[i].bytes] /\ t = [i \in 1 .. n + 1 |-> q1[i].bytes]
          /\ S = Seq(Mark) /\ y = x.bytes
    OBVIOUS
  <1>2. /\ IsSeq(q1) /\ n \in Nat /\ Len(q1) = n + 1 /\ q1[n + 1] = x
        /\ \A i \in 1 .. n : q1[i] = r[i]
    BY <1>1, JoinOne DEF Textual
  <1>3. DOMAIN r = 1 .. n /\ DOMAIN q1 = 1 .. n + 1
    <2>1. DOMAIN r = 1 .. Len(r)
      BY DEF Textual, IsSeq
    <2>2. DOMAIN q1 = 1 .. Len(q1)
      BY <1>2 DEF IsSeq
    <2> QED BY <1>1, <1>2, <2>1, <2>2
  <1>4. \A i \in 1 .. n : r[i].bytes \in S
    BY <1>1 DEF Textual
  <1>5. \A i \in 1 .. n + 1 : i \in 1 .. n \/ i = n + 1
    BY <1>2
  <1>6. Textual(q1)
    BY <1>1, <1>2, <1>4, <1>5 DEF Textual
  <1>7. s \in Seq(S) /\ Len(s) = n
    <2>1. s = [i \in 1 .. n |-> s[i]] /\ \A i \in 1 .. n : s[i] \in S
      BY <1>1, <1>4
    <2> QED BY <1>2, <2>1, MapIsSeq
  <1>8. IsMap(t, n + 1) /\ t[n + 1] = y /\ Agree(s, t, n)
    <2>1. n + 1 \in 1 .. n + 1 /\ \A i \in 1 .. n : i \in 1 .. n + 1
      BY <1>2
    <2>2. t[n + 1] = y
      BY <1>1, <1>2, <2>1
    <2>3. \A i \in 1 .. n : s[i] = t[i]
      BY <1>1, <1>2, <2>1
    <2> QED BY <1>1, <2>2, <2>3 DEF IsMap, Agree
  <1>9. y \in S
    BY <1>1
  <1>10. t = Append(s, y)
    BY <1>2, <1>7, <1>8, <1>9, MapGrows
  <1>11. FlattenSeq(Append(s, y)) = FlattenSeq(s) \o y
    BY <1>1, <1>7, <1>9, FlattenAppend
  <1>12. ReadFrom(r) = FlattenSeq(s) /\ ReadFrom(q1) = FlattenSeq(t)
    BY <1>1, <1>3 DEF ReadFrom
  <1> QED BY <1>1, <1>6, <1>10, <1>11, <1>12

(* No chunk adds nothing. *)
LEMMA AddsNothing == Adds(<<>>, <<>>)
  <1>1. IsSeq(<<>>) /\ <<>> \in Seq(Mark)
    <2>1. IsSeq(<<>>)
      BY OneChunk
    <2>2. <<>> \in Seq(Mark)
      OBVIOUS
    <2> QED BY <2>1, <2>2
  <1>2. ASSUME NEW r, Textual(r)
        PROVE  Textual(r \o <<>>) /\ ReadFrom(r \o <<>>) = ReadFrom(r) \o <<>>
    <2>1. r \o <<>> = r
      <3>1. PICK c : c = <<>>
        OBVIOUS
      <3>2. r \o <<>> = r
        BY <1>1, <1>2, <3>1, Join DEF Textual
      <3> QED BY <3>2
    <2>2. ReadFrom(r) \in Seq(Mark)
      BY <1>2, ReadType
    <2>3. ReadFrom(r) \o <<>> = ReadFrom(r)
      BY <2>2, ConcatEmptySeq
    <2> QED BY <1>2, <2>1, <2>3
  <1> QED BY <1>1, <1>2 DEF Adds

(* Chunks behind chunks add their text behind the others'. *)
LEMMA AddsJoin ==
    ASSUME NEW c, NEW d, NEW b, NEW e, Adds(c, b), Adds(d, e)
    PROVE  Adds(c \o d, b \o e)
  <1>1. IsSeq(c \o d) /\ b \o e \in Seq(Mark) /\ IsSeq(c) /\ IsSeq(d) /\ b \in Seq(Mark) /\ e \in Seq(Mark)
    <2>1. IsSeq(c) /\ IsSeq(d) /\ b \in Seq(Mark) /\ e \in Seq(Mark)
      BY DEF Adds
    <2> QED BY <2>1, ConcatIsSeq, ConcatProperties
  <1>2. ASSUME NEW r, Textual(r)
        PROVE  Textual(r \o (c \o d)) /\ ReadFrom(r \o (c \o d)) = ReadFrom(r) \o (b \o e)
    <2>1. PICK p, x : p = r \o c /\ x = ReadFrom(r)
      OBVIOUS
    <2>2. Textual(p) /\ ReadFrom(p) = x \o b
      BY <1>2, <2>1 DEF Adds
    <2>3. Textual(p \o d) /\ ReadFrom(p \o d) = ReadFrom(p) \o e
      BY <2>2 DEF Adds
    <2>4. Associates(r, c, d)
      BY <1>1, <1>2, JoinAssociative DEF Textual
    <2>5. x \in Seq(Mark)
      BY <1>2, <2>1, ReadType
    <2>6. Regroups(x, b, e)
      BY <1>1, <2>5, Regroup
    <2> QED BY <2>1, <2>2, <2>3, <2>4, <2>6, Zenon DEF Associates, Regroups
  <1> QED BY <1>1, <1>2 DEF Adds

(* A chunk without bytes adds nothing to read. *)
LEMMA AddsSilent ==
    ASSUME NEW x, x.bytes = <<>>
    PROVE  Adds(<<x>>, <<>>)
  <1>1. PICK b : b = x.bytes
    OBVIOUS
  <1>2. b \in Seq(Mark) /\ b = <<>>
    BY <1>1
  <1>3. Adds(<<x>>, b)
    BY <1>1, <1>2, AddsChunk
  <1> QED BY <1>2, <1>3

(* Chunks behind chunks, when the one or the other adds nothing to read. *)
LEMMA AddsBehind ==
    ASSUME NEW c, NEW d, NEW b
    PROVE  /\ Adds(c, b) /\ Adds(d, <<>>) => Adds(c \o d, b)
           /\ Adds(c, <<>>) /\ Adds(d, b) => Adds(c \o d, b)
  <1>1. b \in Seq(Mark) => b \o <<>> = b /\ <<>> \o b = b
    BY ConcatEmptySeq
  <1>2. ASSUME Adds(c, b), Adds(d, <<>>) PROVE Adds(c \o d, b)
    <2>1. PICK e : e = <<>>
      OBVIOUS
    <2>2. Adds(c \o d, b \o e)
      BY <1>2, <2>1, AddsJoin
    <2>3. b \in Seq(Mark)
      BY <1>2 DEF Adds
    <2> QED BY <1>1, <2>1, <2>2, <2>3
  <1>3. ASSUME Adds(c, <<>>), Adds(d, b) PROVE Adds(c \o d, b)
    <2>1. PICK e : e = <<>>
      OBVIOUS
    <2>2. Adds(c \o d, e \o b)
      BY <1>3, <2>1, AddsJoin
    <2>3. b \in Seq(Mark)
      BY <1>3 DEF Adds
    <2> QED BY <1>1, <2>1, <2>2, <2>3
  <1> QED BY <1>2, <1>3

(* A delta is read as the encoding of its text. *)
LEMMA AddsDelta ==
    ASSUME NEW d, d.bytes \in Seq(Byte)
    PROVE  Adds(DeltaChunks(d), Marshal(d.bytes))
  <1>1. PICK o : o = IF api = "chat" /\ ~roleSent THEN <<Chunk("role")>> ELSE <<>>
    OBVIOUS
  <1>2. PICK c : c = IF d.bytes = <<>> THEN <<>> ELSE <<Content(Marshal(d.bytes))>>
    OBVIOUS
  <1>3. PICK t : t = IF d.call = 0 THEN <<>> ELSE <<Tool(d.call)>>
    OBVIOUS
  <1>4. DeltaChunks(d) = (o \o c) \o t
    BY <1>1, <1>2, <1>3, Zenon DEF DeltaChunks
  <1>5. Chunk("role").bytes = <<>>
    BY DEF Chunk
  <1>6. \A b : Content(b).bytes = b
    BY DEF Content, Chunk
  <1>7. \A n : Tool(n).bytes = <<>>
    BY DEF Tool, Chunk
  <1>8. Adds(o, <<>>)
    BY <1>1, <1>5, AddsSilent, AddsNothing, Zenon
  <1>9. Adds(t, <<>>)
    BY <1>3, <1>7, AddsSilent, AddsNothing, Zenon
  <1>10. PICK m : m = Marshal(d.bytes)
    OBVIOUS
  <1>11. Adds(c, m)
    <2>1. CASE d.bytes = <<>>
      <3>1. c = <<>> /\ m = <<>>
        BY <1>2, <1>10, <2>1, MarshalType
      <3> QED BY <3>1, AddsNothing
    <2>2. CASE d.bytes # <<>>
      <3>1. PICK x : x = Content(m)
        OBVIOUS
      <3>2. x.bytes = m /\ c = <<x>>
        BY <1>2, <1>6, <1>10, <2>2, <3>1
      <3>3. m \in Seq(Mark)
        BY <1>10, MarshalType
      <3>4. Adds(<<x>>, x.bytes)
        BY <3>2, <3>3, AddsChunk
      <3> QED BY <3>2, <3>4
    <2> QED BY <2>1, <2>2
  <1>12. Adds(o \o c, m)
    BY <1>8, <1>11, AddsBehind
  <1>13. PICK oc : oc = o \o c
    OBVIOUS
  <1>14. Adds(oc \o t, m)
    BY <1>9, <1>12, <1>13, AddsBehind
  <1> QED BY <1>4, <1>10, <1>13, <1>14

(* What a client that is there reads after a write. *)
LEMMA WriteReads ==
    ASSUME Textual(response), NEW c, NEW b, Adds(c, b), NEW code, Write(code, c)
    PROVE  /\ Textual(response')
           /\ ~gone => ReadFrom(response') = ReadFrom(response) \o b
  <1>1. /\ Textual(response \o c) /\ ReadFrom(response \o c) = ReadFrom(response) \o b
        /\ IsSeq(c) /\ IsSeq(response)
    BY DEF Adds, Textual
  <1>2. CASE gone
    BY <1>2 DEF Write
  <1>3. CASE ~gone /\ c # <<>>
    BY <1>1, <1>3 DEF Write
  <1>4. CASE ~gone /\ c = <<>>
    <2>1. response' = response
      BY <1>4 DEF Write
    <2>2. response \o c = response
      <3>1. PICK r : r = response
        OBVIOUS
      <3>2. r \o <<>> = r
        BY <1>1, <3>1, Join
      <3> QED BY <1>4, <3>1, <3>2
    <2> QED BY <1>1, <2>1, <2>2
  <1> QED BY <1>2, <1>3, <1>4

-----------------------------------------------------------------------------
(* What is handed to onDelta, and what is read of it *)

(* The step adds bytes to the text, hands them over and keeps them apart   *)
(* from the text before by a rune's end.                                   *)
Extends(bytes) ==
    /\ text' = text \o bytes /\ bytes \in Seq(Byte)
    /\ \/ deltas' = deltas /\ bytes = <<>>
       \/ \E d : deltas' = Append(deltas, d) /\ d.bytes = bytes
    /\ Marshal(text \o bytes) = Marshal(text) \o Marshal(bytes)

(* Nothing more to hand over. *)
LEMMA ExtendsNot ==
    ASSUME text \in Seq(Byte), text' = text,
           deltas' = deltas \/ \E d : deltas' = Append(deltas, d) /\ d.bytes = <<>>
    PROVE  Extends(<<>>)
  <1>1. text \o <<>> = text /\ <<>> \in Seq(Byte)
    BY ConcatEmptySeq
  <1>2. PICK m : m = Marshal(text)
    OBVIOUS
  <1>3. m \in Seq(Mark) /\ Marshal(<<>>) = <<>>
    BY <1>2, MarshalType
  <1>4. m \o <<>> = m
    BY <1>3, ConcatEmptySeq
  <1> QED BY <1>1, <1>2, <1>3, <1>4 DEF Extends

(* What one id hands over starts and ends between runes. *)
LEMMA ReceiveExtends ==
    ASSUME TextInv, GenTypeOK, NEW id \in Ids, Receive(id)
    PROVE  \E bytes : Extends(bytes)
  <1>1. Told /\ OnRunes
    BY DEF TextInv, Receive
  <1>2. text \in Seq(Byte) /\ pending \in Seq(Byte)
    BY <1>1 DEF Told
  <1>3. CASE Emit(id)
    <2>1. PICK B : Chain(B, text \o pending) /\ Len(text) + 1 \in B
      BY <1>1 DEF OnRunes
    <2>2. PICK x : x = Text[id]
      OBVIOUS
    <2>3. x \in Seq(Byte)
      BY <2>2, TextIsBytes
    <2>4. Splits(text, pending, x, B)
      BY <1>2, <2>1, <2>3, EmitRunes
    <2>5. PICK n, out, rest, E :
                /\ n = Taken(pending \o x)
                /\ out = SubSeq(pending \o x, 1, n) /\ out \in Seq(Byte)
                /\ rest \in Seq(Byte)
                /\ (text \o out) \o rest = (text \o pending) \o x
                /\ B \subseteq E /\ Chain(E, (text \o pending) \o x)
      BY <2>4 DEF Splits
    <2>6. Deliver(out, 0)
      BY <1>3, <2>2, <2>5 DEF Emit
    <2>7. Chain(E, (text \o out) \o rest) /\ Len(text) + 1 \in E
      BY <2>1, <2>5
    <2>8. Marshal(text \o out) = Marshal(text) \o Marshal(out)
      BY <1>2, <2>5, <2>7, MarshalSplits
    <2>9. text' = text \o out
      BY <2>6 DEF Deliver
    <2>10. (deltas' = deltas /\ out = <<>>) \/ \E d : deltas' = Append(deltas, d) /\ d.bytes = out
      <3>1. PICK d : d = [bytes |-> out, call |-> 0]
        OBVIOUS
      <3>2. d.bytes = out
        BY <3>1
      <3>3. deltas' = IF out = <<>> /\ 0 = 0 THEN deltas ELSE Append(deltas, d)
        BY <2>6, <3>1 DEF Deliver
      <3> QED BY <3>2, <3>3
    <2>11. Extends(out)
      BY <2>5, <2>8, <2>9, <2>10 DEF Extends
    <2> QED BY <2>11
  <1>4. CASE PushClose
    <2>1. PICK n : Deliver(<<>>, n)
      BY <1>4, Zenon DEF PushClose
    <2>2. text' = text
      <3>1. text \o <<>> = text
        BY <1>2, ConcatEmptySeq
      <3> QED BY <2>1, <3>1 DEF Deliver
    <2>3. deltas' = deltas \/ \E d : deltas' = Append(deltas, d) /\ d.bytes = <<>>
      <3>1. PICK d : d = [bytes |-> <<>>, call |-> n]
        OBVIOUS
      <3>2. d.bytes = <<>>
        BY <3>1
      <3>3. deltas' = deltas \/ deltas' = Append(deltas, d)
        BY <2>1, <3>1 DEF Deliver
      <3> QED BY <3>2, <3>3
    <2>4. Extends(<<>>)
      BY <1>2, <2>2, <2>3, ExtendsNot
    <2> QED BY <2>4
  <1>5. CASE PushOpen \/ PushTool(id) \/ UNCHANGED <<pending, toolVars, resVars>>
    <2>1. text' = text /\ deltas' = deltas
      BY <1>5 DEF PushOpen, PushTool, resVars
    <2>2. Extends(<<>>)
      BY <1>2, <2>1, ExtendsNot
    <2> QED BY <2>2
  <1>6. \/ Emit(id) \/ PushClose \/ PushOpen \/ PushTool(id)
        \/ UNCHANGED <<pending, toolVars, resVars>>
    BY DEF Receive, PushChat
  <1> QED BY <1>3, <1>4, <1>5, <1>6

(* What is flushed at the end starts between runes, whole or not. *)
LEMMA ReturnExtends ==
    ASSUME TextInv, NEW why, Return(why)
    PROVE  \E bytes : Extends(bytes)
  <1>1. Told /\ OnRunes
    BY DEF TextInv, Return
  <1>2. PICK p : p = pending
    OBVIOUS
  <1>3. text \in Seq(Byte) /\ p \in Seq(Byte)
    BY <1>1, <1>2 DEF Told
  <1>4. PICK B : Chain(B, text \o p) /\ Len(text) + 1 \in B
    BY <1>1, <1>2 DEF OnRunes
  <1>5. PICK w \in Seq(Byte) : w = <<>>
    <2>1. <<>> \in Seq(Byte)
      OBVIOUS
    <2> QED BY <2>1
  <1>6. (text \o p) \o w = text \o p
    <2>1. text \o p \in Seq(Byte)
      BY <1>3, ConcatProperties
    <2> QED BY <1>5, <2>1, ConcatEmptySeq
  <1>7. Marshal(text \o p) = Marshal(text) \o Marshal(p)
    <2>1. Chain(B, (text \o p) \o w)
      BY <1>4, <1>6
    <2> QED BY <1>3, <1>4, <2>1, MarshalSplits
  <1>8. text' = text \o p
    BY <1>2 DEF Return
  <1>9. (deltas' = deltas /\ p = <<>>) \/ \E d : deltas' = Append(deltas, d) /\ d.bytes = p
    <2>1. PICK d : d = [bytes |-> p, call |-> 0]
      OBVIOUS
    <2>2. d.bytes = p
      BY <2>1
    <2>3. deltas' = IF p = <<>> THEN deltas ELSE Append(deltas, d)
      BY <1>2, <2>1 DEF Return
    <2> QED BY <2>2, <2>3
  <1>10. Extends(p)
    BY <1>3, <1>7, <1>8, <1>9 DEF Extends
  <1> QED BY <1>10

(* What is written of it is read as its encoding. *)
LEMMA NewChunksRead ==
    ASSUME IsSeq(deltas), NEW bytes, Extends(bytes)
    PROVE  Adds(NewChunks, Marshal(bytes))
  <1>1. CASE deltas' = deltas /\ bytes = <<>>
    <2>1. NewChunks = <<>>
      BY <1>1, NewChunksAre
    <2>2. Marshal(bytes) = <<>>
      BY <1>1, MarshalType
    <2> QED BY <2>1, <2>2, AddsNothing
  <1>2. CASE \E d : deltas' = Append(deltas, d) /\ d.bytes = bytes
    <2>1. PICK d : deltas' = Append(deltas, d) /\ d.bytes = bytes
      BY <1>2
    <2>2. NewChunks = DeltaChunks(d)
      BY <2>1, NewChunksAre
    <2>3. bytes \in Seq(Byte)
      BY DEF Extends
    <2>4. Adds(DeltaChunks(d), Marshal(d.bytes))
      BY <2>1, <2>3, AddsDelta
    <2> QED BY <2>1, <2>2, <2>4
  <1> QED BY <1>1, <1>2 DEF Extends

-----------------------------------------------------------------------------
(* The invariant of what is read *)

(* A client that is there has read the encoding of the text so far, if it  *)
(* streams, and of the whole text once it has a complete answer.           *)
ReadInv ==
    /\ Textual(response)
    /\ stage = "new" => phase = "build"
    /\ stage = "answered" => phase \in {"build", "returned"}
    /\ phase = "build" => text = <<>>
    /\ phase = "build" /\ stage # "answered" => response = <<>>
    /\ ~gone /\ phase # "build" /\ streaming => ReadFrom(response) = Marshal(text)
    /\ ~gone /\ phase = "returned" /\ ~streaming /\ err = "none"
         => ReadFrom(response) = Marshal(text)

(* Nothing is said and nothing is read at first. *)
LEMMA ReadStarts == ServingInit => ReadInv
  <1> SUFFICES ASSUME ServingInit PROVE ReadInv
    OBVIOUS
  <1>1. response = <<>> /\ phase = "build" /\ text = <<>> /\ stage = "new"
    BY DEF ServingInit, HttpInit, Init
  <1> QED BY <1>1, ReadNothing DEF ReadInv

(* A failure is told without text. *)
LEMMA FailedReads ==
    ASSUME Textual(response), NEW e, Failed(e)
    PROVE  /\ Textual(response') /\ stage' = "answered"
           /\ ~gone => ReadFrom(response') = ReadFrom(response)
  <1>1. PICK x, y : x = Chunk("error") /\ y = Chunk("done")
    OBVIOUS
  <1>2. x.bytes = <<>> /\ y.bytes = <<>>
    BY <1>1 DEF Chunk
  <1>3. Adds(<<x>>, <<>>) /\ Adds(<<y>>, <<>>)
    BY <1>2, AddsSilent
  <1>4. Adds(<<x, y>>, <<>>)
    <2>1. PICK a, b : a = <<x>> /\ b = <<y>>
      OBVIOUS
    <2>2. Adds(a \o b, <<>>)
      BY <1>3, <2>1, AddsBehind
    <2>3. <<x, y>> = a \o b
      BY <2>1, TwoChunks
    <2> QED BY <2>2, <2>3
  <1>5. stage' = "answered"
    BY DEF Failed, FailedStream, Answer
  <1>6. UNCHANGED response \/ \E code, c : Write(code, c) /\ Adds(c, <<>>)
    <2>1. UNCHANGED response \/ (\E code : Write(code, <<x>>)) \/ \E code : Write(code, <<x, y>>)
      BY <1>1, Zenon DEF Failed, FailedStream, Answer
    <2> QED BY <1>3, <1>4, <2>1, Zenon
  <1>7. ReadFrom(response) \o <<>> = ReadFrom(response)
    BY ReadType, ConcatEmptySeq
  <1>8. CASE \E code, c : Write(code, c) /\ Adds(c, <<>>)
    <2>1. PICK code, c : Write(code, c) /\ Adds(c, <<>>)
      BY <1>8
    <2>2. PICK b : b = <<>>
      OBVIOUS
    <2>3. Textual(response') /\ (~gone => ReadFrom(response') = ReadFrom(response) \o b)
      BY <2>1, <2>2, WriteReads
    <2> QED BY <1>5, <1>7, <2>2, <2>3
  <1> QED BY <1>5, <1>6, <1>8

(* A token is read as far as its runes are whole. *)
LEMMA RelayReads ==
    ASSUME ReadInv, TextInv, GenTypeOK, IsSeq(deltas), NEW id \in Ids, Relay(id)
    PROVE  ReadInv'
  <1>1. /\ stage = "generate" /\ stage' = "generate" /\ phase = "stream" /\ phase' = "stream"
        /\ UNCHANGED <<gone, streaming, err>> /\ Receive(id)
    BY DEF Relay, Receive, inputVars
  <1>2. PICK bytes : Extends(bytes)
    BY <1>1, ReceiveExtends
  <1>3. PICK c, m : c = NewChunks /\ m = Marshal(bytes)
    OBVIOUS
  <1>4. Adds(c, m)
    BY <1>2, <1>3, NewChunksRead
  <1>5. Marshal(text') = Marshal(text) \o m
    BY <1>2, <1>3 DEF Extends
  <1>6. CASE ~streaming
    <2>1. UNCHANGED response
      BY <1>6 DEF Relay
    <2> QED BY <1>1, <1>6, <2>1 DEF ReadInv
  <1>7. CASE streaming
    <2>1. Write(200, c)
      BY <1>3, <1>7, Zenon DEF Relay
    <2>2. Textual(response') /\ (~gone => ReadFrom(response') = ReadFrom(response) \o m)
      BY <1>4, <2>1, WriteReads DEF ReadInv
    <2>3. ~gone => ReadFrom(response) = Marshal(text)
      BY <1>1, <1>7 DEF ReadInv
    <2>4. Marshal(text)' = Marshal(text')
      BY DEF Marshal, RuneSize, Width, Continued
    <2> QED BY <1>1, <1>5, <1>7, <2>2, <2>3, <2>4 DEF ReadInv
  <1> QED BY <1>6, <1>7

(* The end of a stream adds what was held back, and a message has it all. *)
LEMMA SucceedReads ==
    ASSUME ReadInv, TextInv, HttpTypes, Underway, NEW why, Succeed(why)
    PROVE  ReadInv'
  <1>1. /\ phase = "stream" /\ phase' = "returned" /\ stage' = "answered"
        /\ UNCHANGED <<gone, streaming, err>> /\ Return(why)
    BY DEF Succeed, Return, inputVars, Answer
  <1>2. PICK bytes : Extends(bytes)
    BY <1>1, ReturnExtends
  <1>3. PICK c, l, f, u, d, m, v :
          /\ c = NewChunks /\ l = LateRole(NewChunks) /\ f = <<Finish(reason')>>
          /\ u = IF usage THEN <<Chunk("usage")>> ELSE <<>>
          /\ d = <<Chunk("done")>>
          /\ m = Marshal(bytes) /\ v = Marshal(text')
    OBVIOUS
  <1>4. Adds(c, m)
    BY <1>2, <1>3, NewChunksRead DEF HttpTypes
  <1>5. v = Marshal(text) \o m /\ v \in Seq(Mark)
    <2>1. text' = text \o bytes /\ text \in Seq(Byte) /\ bytes \in Seq(Byte)
      BY <1>2 DEF Extends, TextInv, Told
    <2>2. text' \in Seq(Byte)
      BY <2>1, ConcatProperties
    <2> QED BY <1>2, <1>3, <2>2, MarshalType DEF Extends
  <1>6. v = Marshal(text)'
    BY <1>3 DEF Marshal, RuneSize, Width, Continued
  <1>7. CASE streaming
    <2>1. \A k : Chunk(k).bytes = <<>>
      BY DEF Chunk
    <2>2. \A r : Finish(r).bytes = <<>>
      BY DEF Finish, Chunk
    <2>3. Adds(l, <<>>)
      BY <1>3, <2>1, AddsSilent, AddsNothing, Zenon DEF LateRole
    <2>4. Adds(f, <<>>) /\ Adds(u, <<>>) /\ Adds(d, <<>>)
      BY <1>3, <2>1, <2>2, AddsSilent, AddsNothing, Zenon
    <2>5. PICK cl, clf, clfu : cl = c \o l /\ clf = cl \o f /\ clfu = clf \o u
      OBVIOUS
    <2>6. Adds(cl, m)
      BY <1>4, <2>3, <2>5, AddsBehind
    <2>7. Adds(clf, m)
      BY <2>4, <2>5, <2>6, AddsBehind
    <2>8. Adds(clfu, m)
      BY <2>4, <2>5, <2>7, AddsBehind
    <2>9. Adds(clfu \o d, m)
      BY <2>4, <2>8, AddsBehind
    <2>10. Write(200, clfu \o d)
      BY <1>3, <1>7, <2>5, Zenon DEF Succeed, Answer
    <2>11. Textual(response') /\ (~gone => ReadFrom(response') = ReadFrom(response) \o m)
      BY <2>9, <2>10, WriteReads DEF ReadInv
    <2>12. ~gone => ReadFrom(response) = Marshal(text)
      BY <1>1, <1>7 DEF ReadInv
    <2> QED BY <1>1, <1>5, <1>6, <1>7, <2>11, <2>12 DEF ReadInv
  <1>8. CASE ~streaming
    <2>1. PICK x : x = Message(v, Len(calls'), reason')
      OBVIOUS
    <2>2. x.bytes = v
      BY <2>1 DEF Message
    <2>3. Adds(<<x>>, v)
      BY <1>5, <2>2, AddsChunk
    <2>4. Write(200, <<x>>)
      BY <1>3, <1>8, <2>1, Zenon DEF Succeed, Answer
    <2>5. Textual(response') /\ (~gone => ReadFrom(response') = ReadFrom(response) \o v)
      BY <2>3, <2>4, WriteReads DEF ReadInv
    <2>6. ReadFrom(response) = <<>>
      BY <1>8, ReadNothing DEF Underway
    <2>7. <<>> \o v = v
      BY <1>5, ConcatEmptySeq
    <2> QED BY <1>1, <1>6, <1>8, <2>5, <2>6, <2>7 DEF ReadInv
  <1> QED BY <1>7, <1>8 DEF HttpTypes

(* Each step of a request is one of its text tier, or leaves that alone. *)
LEMMA ServingIsGenerating == [ServingNext]_servingVars => [Next]_genVars
  <1> SUFFICES ASSUME [ServingNext]_servingVars PROVE [Next]_genVars
    OBVIOUS
  <1>1. CASE Handling
    BY <1>1 DEF Handling, Refuse, Accept, BuildAndSend, Next
  <1>2. CASE Leaving
    BY <1>2 DEF Leaving, ClientLeaves
  <1>3. CASE Receiving
    <2>1. \/ \E id \in Ids : Relay(id)
          \/ \E why \in {"stop", "length"} : Succeed(why)
          \/ Fail(ErrorFor)
      <3>1. client' \in {"receiving", "finished", "failed", "eof"}
        BY <1>3 DEF Receiving, T!Recv
      <3> QED BY <1>3, <3>1 DEF Receiving
    <2> QED BY <2>1 DEF Relay, Succeed, Fail, ErrorFor, Next
  <1>4. CASE ReceiveFails
    BY <1>4 DEF ReceiveFails, Fail, Next
  <1>5. CASE \/ Sampling \/ Finishing \/ Closing \/ RpcHandler \/ CancelCall \/ ConnectionLost
             \/ UNCHANGED servingVars
    <2>1. UNCHANGED vars
      BY <1>5 DEF Sampling, Finishing, Closing, RpcHandler, CancelCall, ConnectionLost, servingVars
    <2> QED BY <2>1 DEF vars
  <1> QED BY <1>1, <1>2, <1>3, <1>4, <1>5 DEF ServingNext

(* The invariant is inductive. *)
LEMMA ReadStep ==
    ReadInv /\ HttpInv /\ TextInv /\ GenTypeOK /\ [ServingNext]_servingVars => ReadInv'
  <1> SUFFICES ASSUME ReadInv, HttpInv, TextInv, GenTypeOK, [ServingNext]_servingVars PROVE ReadInv'
    OBVIOUS
  <1>0. HttpTypes /\ IsSeq(deltas) /\ (stage = "generate" => Underway) /\ Textual(response)
    BY DEF HttpInv, HttpTypes, ReadInv
  <1>m. text' = text => Marshal(text)' = Marshal(text)
    BY DEF Marshal, RuneSize, Width, Continued
  <1>1. CASE /\ UNCHANGED <<phase, text, err, response, streaming>> /\ (gone => gone')
             /\ stage' = stage \/ (stage = "new" /\ stage' = "generate")
    BY <1>1, <1>m DEF ReadInv
  <1>2. CASE Refuse
    <2>1. /\ stage = "new" /\ stage' = "answered" /\ UNCHANGED <<phase, text, err, gone, streaming>>
          /\ Write(400, <<Chunk("error")>>)
      BY <1>2 DEF Refuse, Answer, genVars, resVars, inputVars
    <2>2. PICK x : x = Chunk("error")
      OBVIOUS
    <2>3. Adds(<<x>>, <<>>)
      <3>1. x.bytes = <<>>
        BY <2>2 DEF Chunk
      <3> QED BY <3>1, AddsSilent
    <2>4. Textual(response')
      BY <1>0, <2>1, <2>2, <2>3, WriteReads
    <2> QED BY <2>1, <2>4 DEF ReadInv
  <1>3. CASE Accept \/ ClientLeaves
    <2>1. /\ UNCHANGED <<phase, text, err, response, streaming>> /\ (gone => gone')
          /\ stage' = stage \/ (stage = "new" /\ stage' = "generate")
      BY <1>3 DEF Accept, ClientLeaves, genVars, resVars, inputVars
    <2> QED BY <1>1, <2>1
  <1>4. CASE BuildAndSend
    <2>1. /\ stage = "generate" /\ phase = "build" /\ UNCHANGED <<text, gone, streaming>>
          /\ phase' \in {"stream", "returned"} /\ text = <<>> /\ response = <<>>
      BY <1>4 DEF BuildAndSend, BuildRequest, resVars, inputVars, ReadInv
    <2>2. Marshal(text) = <<>> /\ ReadFrom(response) = <<>>
      BY <2>1, MarshalType, ReadNothing
    <2>3. CASE err' = "none"
      <3>1. UNCHANGED <<stage, response>> /\ phase' = "stream"
        BY <1>4, <2>3 DEF BuildAndSend, BuildRequest
      <3> QED BY <1>0, <1>m, <2>1, <2>2, <3>1 DEF ReadInv
    <2>4. CASE err' # "none"
      <3>1. Failed(err') /\ (phase' = "stream" => err = err')
        BY <1>4, <2>4 DEF BuildAndSend, BuildRequest
      <3>2. /\ Textual(response') /\ stage' = "answered"
            /\ ~gone => ReadFrom(response') = ReadFrom(response)
        BY <1>0, <3>1, FailedReads
      <3>3. phase' # "stream"
        BY <1>0, <2>1, <2>4, <3>1 DEF Underway
      <3> QED BY <1>m, <2>1, <2>2, <2>4, <3>2, <3>3 DEF ReadInv
    <2> QED BY <2>3, <2>4
  <1>5. ASSUME NEW e, e # "none", Fail(e) PROVE ReadInv'
    <2>1. /\ stage = "generate" /\ phase = "stream" /\ phase' = "returned" /\ err' = e
          /\ UNCHANGED <<text, gone, streaming>> /\ Failed(e)
      BY <1>5 DEF Fail, ReturnError, resVars, inputVars
    <2>2. /\ Textual(response') /\ stage' = "answered"
          /\ ~gone => ReadFrom(response') = ReadFrom(response)
      BY <1>0, <2>1, FailedReads
    <2> QED BY <1>5, <1>m, <2>1, <2>2 DEF ReadInv
  <1>6. CASE Receiving
    <2>1. \/ \E id \in Ids : Relay(id)
          \/ \E why \in {"stop", "length"} : Succeed(why)
          \/ Fail(ErrorFor)
      <3>1. client' \in {"receiving", "finished", "failed", "eof"}
        BY <1>6 DEF Receiving, T!Recv
      <3> QED BY <1>6, <3>1 DEF Receiving
    <2>2. CASE \E id \in Ids : Relay(id)
      BY <1>0, <2>2, RelayReads
    <2>3. CASE \E why \in {"stop", "length"} : Succeed(why)
      <3>1. PICK why : Succeed(why)
        BY <2>3
      <3>2. stage = "generate"
        BY <3>1 DEF Succeed
      <3> QED BY <1>0, <3>1, <3>2, SucceedReads
    <2>4. CASE Fail(ErrorFor)
      BY <1>5, <2>4 DEF ErrorFor
    <2> QED BY <2>1, <2>2, <2>3, <2>4
  <1>7. CASE ReceiveFails
    BY <1>5, <1>7 DEF ReceiveFails
  <1>8. CASE \/ Sampling \/ Finishing \/ Closing \/ RpcHandler \/ CancelCall \/ ConnectionLost
             \/ UNCHANGED servingVars
    <2>1. UNCHANGED vars
      BY <1>8 DEF Sampling, Finishing, Closing, RpcHandler, CancelCall, ConnectionLost, servingVars
    <2>2. UNCHANGED <<phase, text, err, response, streaming, gone, stage>>
      BY <2>1 DEF vars, genVars, httpVars, resVars
    <2> QED BY <1>1, <2>2
  <1> QED BY <1>2, <1>3, <1>4, <1>6, <1>7, <1>8 DEF ServingNext, Handling, Leaving

(* StreamEqualsBlocking, for every stream of ids and every interleaving: a *)
(* client that streams has at each moment read the encoding of the text so *)
(* far, and a client that waits reads that of the whole answer, although   *)
(* json.Marshal sees the stream in pieces and replaces what is no rune.    *)
THEOREM StreamsReadTheSame == ServingSpec => []StreamEqualsBlocking
  <1>1. TextInv /\ ReadInv => StreamEqualsBlocking
    <2> SUFFICES ASSUME TextInv, ReadInv, ~gone, phase # "build"
                 PROVE  IF streaming THEN ReadFrom(response) = Marshal(text)
                        ELSE stage = "answered" /\ err = "none"
                               => ReadFrom(response) = Marshal(Decode(Visible))
      BY Zenon DEF StreamEqualsBlocking, ReadFrom
    <2>1. CASE streaming
      BY <2>1 DEF ReadInv
    <2>2. ASSUME ~streaming, stage = "answered", err = "none"
          PROVE  ReadFrom(response) = Marshal(Decode(Visible))
      <3>1. phase = "returned"
        BY <2>2 DEF ReadInv
      <3>2. text \in Seq(Byte) /\ text \o pending = Decode(Visible) /\ pending = <<>>
        BY <2>2, <3>1 DEF TextInv, Told
      <3>3. text \o <<>> = text
        BY <3>2, ConcatEmptySeq
      <3> QED BY <2>2, <3>1, <3>2, <3>3 DEF ReadInv
    <2> QED BY <2>1, <2>2
  <1>2. ServingInit => GenInv /\ TextInv
    BY GenStarts, TextStarts DEF ServingInit, HttpInit
  <1>3. GenInv => GenTypeOK
    BY DEF GenInv
  <1> QED BY <1>1, <1>2, <1>3, GenStep, TextStep, ServingIsGenerating, HttpStarts, HttpStep,
             ReadStarts, ReadStep, PTL DEF ServingSpec
=============================================================================
