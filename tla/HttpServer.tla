---------------------------- MODULE HttpServer ----------------------------
(***************************************************************************)
(* One HTTP request to /v1/chat/completions or /v1/completions             *)
(* (internal/server/completions.go) on top of the text tier: the request   *)
(* is checked and decoded, Generator runs, and what it hands to onDelta is *)
(* written as SSE chunks at once, or its result as one JSON body at the    *)
(* end.  The client may leave at any time.  Serving puts this on top of    *)
(* the transport and says which step happens when.                         *)
(***************************************************************************)
EXTENDS Generator

VARIABLES
    body,       \* "malformed", "missing" (no messages or prompt), "other"
                \* (a prompt of the wrong type) or "ok"
    streaming,  \* "stream": true
    usage,      \* stream_options.include_usage
    stage,      \* "new", "generate", "answered"
    status,     \* HTTP status, 0 until the header is written
    response,   \* what was written after the header
    roleSent,
    gone        \* the client has left: the request's context is done

httpVars == <<body, streaming, usage, stage, status, response, roleSent, gone>>
inputVars == <<body, streaming, usage>>
vars == <<genVars, httpVars>>

HttpInit ==
    /\ Init
    /\ body \in {"malformed", "missing", "ok"} \cup (IF api = "raw" THEN {"other"} ELSE {})
    /\ streaming \in BOOLEAN
    /\ usage \in IF streaming THEN BOOLEAN ELSE {FALSE}   \* read for a stream only
    /\ stage = "new" /\ status = 0 /\ response = <<>>
    /\ roleSent = FALSE /\ gone = FALSE

-----------------------------------------------------------------------------
(* What is written *)

Chunk(kind) == [kind |-> kind, bytes |-> <<>>, call |-> 0, reason |-> "none"]
Content(bytes) == [Chunk("content") EXCEPT !.bytes = bytes]
Tool(call) == [Chunk("tool") EXCEPT !.call = call]
Finish(r) == [Chunk("finish") EXCEPT !.reason = r]
Message(bytes, n, r) == [kind |-> "message", bytes |-> bytes, call |-> n, reason |-> r]

(* json.Marshal of a string: a byte that is no part of a rune becomes      *)
(* U+FFFD, here "?"; a whole rune stays.                                   *)
Marshal(s) ==
    LET from[i \in 1 .. Len(s) + 1] ==
            IF i > Len(s) THEN <<>>
            ELSE IF RuneSize(s, i) # Width(s[i]) \/ s[i] = "c"
                 THEN <<"?">> \o from[i + 1]
            ELSE SubSeq(s, i, i + RuneSize(s, i) - 1) \o from[i + RuneSize(s, i)]
    IN from[1]

(* The first write sends the header, with 200 unless a status was set. A   *)
(* client that left gets nothing.                                          *)
Write(code, chunks) ==
    IF gone \/ chunks = <<>> THEN UNCHANGED <<status, response>>
    ELSE /\ status' = IF status = 0 THEN code ELSE status
         /\ response' = response \o chunks

(* classifyError *)
ClassifyError(e) ==
    CASE e = "prompt_too_long" -> 400
      [] e = "over_capacity" -> 503
      [] OTHER -> 502

(* Faulty variant: the role is announced by text only. *)
DeltaChunksTextRole(d) ==
    LET opening == IF api = "chat" /\ ~roleSent /\ d.bytes # <<>> THEN <<Chunk("role")>> ELSE <<>>
        content == IF d.bytes = <<>> THEN <<>> ELSE <<Content(Marshal(d.bytes))>>
        tool == IF d.call = 0 THEN <<>> ELSE <<Tool(d.call)>>
    IN opening \o content \o tool

(* What onDelta writes for one delta; streamChat opens with the role.      *)
DeltaChunks(d) ==
    LET opening == IF api = "chat" /\ ~roleSent THEN <<Chunk("role")>> ELSE <<>>
        content == IF d.bytes = <<>> THEN <<>> ELSE <<Content(Marshal(d.bytes))>>
        tool == IF d.call = 0 THEN <<>> ELSE <<Tool(d.call)>>
    IN opening \o content \o tool

(* What a Generator step handed to onDelta: at most one delta.             *)
NewChunks == IF Len(deltas') > Len(deltas) THEN DeltaChunks(Last(deltas')) ELSE <<>>

-----------------------------------------------------------------------------
(* The handlers *)

Answer(code, chunks) == Write(code, chunks) /\ stage' = "answered"

(* ShouldBindJSON, the check for messages or a prompt, and the error of    *)
(* decodeCompletion.                                                       *)
Refuse ==
    /\ stage = "new" /\ body # "ok"
    /\ Answer(400, <<Chunk("error")>>)
    /\ UNCHANGED <<genVars, inputVars, roleSent, gone>>

Accept ==
    /\ stage = "new" /\ body = "ok"
    /\ stage' = "generate"
    /\ UNCHANGED <<genVars, inputVars, status, response, roleSent, gone>>

(* Faulty variant: after an error the stream is finished like a success.   *)
FailedStreamFinishes(e) == Answer(200, <<Finish("stop"), Chunk("done")>>)

(* The error branch of streamChat and streamCompletion.                    *)
FailedStream(e) ==
    IF gone THEN stage' = "answered" /\ UNCHANGED <<status, response>>
    ELSE Answer(200, <<Chunk("error"), Chunk("done")>>)

(* Generate or Complete returned e: the blocking handlers answer with the  *)
(* status of the error.                                                    *)
Failed(e) ==
    /\ IF streaming THEN FailedStream(e)
       ELSE Answer(ClassifyError(e), <<Chunk("error")>>)
    /\ UNCHANGED roleSent

BuildAndSend ==
    /\ stage = "generate" /\ BuildRequest
    /\ IF err' = "none" THEN UNCHANGED <<stage, status, response, roleSent>> ELSE Failed(err')
    /\ UNCHANGED <<inputVars, gone>>

(* One token: decoded, handed to onDelta and flushed to the client.        *)
Relay(id) ==
    /\ stage = "generate" /\ Receive(id)
    /\ IF streaming THEN Write(200, NewChunks) ELSE UNCHANGED <<status, response>>
    /\ roleSent' = (roleSent \/ (streaming /\ api = "chat" /\ NewChunks # <<>>))
    /\ UNCHANGED <<inputVars, stage, gone>>

(* sendRole() before the finish chunk, for an answer without any output.   *)
LateRole(tail) ==
    IF api = "chat" /\ ~roleSent /\ tail = <<>> THEN <<Chunk("role")>> ELSE <<>>

(* The call succeeded: the flushed tail, the finish chunk, usage, [DONE];  *)
(* or the whole message.                                                   *)
Succeed(why) ==
    /\ stage = "generate" /\ Return(why)
    /\ IF streaming
         THEN Answer(200, NewChunks \o LateRole(NewChunks) \o <<Finish(reason')>>
                          \o (IF usage THEN <<Chunk("usage")>> ELSE <<>>)
                          \o <<Chunk("done")>>)
         ELSE Answer(200, <<Message(Marshal(text'), Len(calls'), reason')>>)
    /\ roleSent' = (roleSent \/ (streaming /\ api = "chat"))
    /\ UNCHANGED <<inputVars, gone>>

Fail(e) ==
    /\ stage = "generate" /\ ReturnError(e)
    /\ Failed(e)
    /\ UNCHANGED <<inputVars, gone>>

ClientLeaves ==
    /\ ~gone /\ stage # "answered"
    /\ gone' = TRUE
    /\ UNCHANGED <<genVars, inputVars, stage, status, response, roleSent>>

-----------------------------------------------------------------------------
(* Properties *)

Kinds == [i \in DOMAIN response |-> response[i].kind]
Streamed == streaming /\ status = 200
Sent(kind) == {i \in DOMAIN response : response[i].kind = kind}

(* A stream that a client reads is well formed in every prefix: a chat     *)
(* opens with one role chunk, also when it begins with a tool call or is   *)
(* empty; the finish or error chunk follows all output, usage comes after  *)
(* it and only if asked for, and [DONE] is the last thing sent.            *)
WellFormed ==
    Streamed =>
        /\ \A i \in DOMAIN response :
            /\ Kinds[i] \in {"content", "tool", "finish", "usage"} /\ api = "chat"
                 => Kinds[1] = "role"
            /\ Kinds[i] = "role" => i = 1 /\ api = "chat"
            /\ Kinds[i] \in {"finish", "error"}
                 => \A k \in i + 1 .. Len(response) : Kinds[k] \in {"usage", "done"}
            /\ Kinds[i] = "usage" => usage /\ Kinds[i - 1] = "finish"
            /\ Kinds[i] = "done" => i = Len(response) /\ i > 1
        /\ stage = "answered" /\ ~gone => Last(Kinds) = "done"

(* Streaming or blocking, a client reads the same text: although runes     *)
(* straddle tokens and json.Marshal replaces what is no rune, the chunks   *)
(* of a stream concatenate to the encoding of the whole answer.            *)
StreamEqualsBlocking ==
    ~gone /\ phase # "build" =>
        LET read == FlattenSeq([i \in DOMAIN response |-> response[i].bytes])
        IN IF streaming THEN read = Marshal(text)
           ELSE stage = "answered" /\ err = "none" => read = Marshal(Decode(Visible))

(* A client that stayed learns the outcome: a finish reason exactly for a  *)
(* complete answer, "tool_calls" exactly if it was sent calls, an error    *)
(* exactly for a failed one, and an error status only with an error.       *)
OutcomeIsTold ==
    stage = "answered" /\ ~gone =>
        LET told == Sent("finish") \cup Sent("message")
        IN /\ Cardinality(told \cup Sent("error")) = 1
           /\ told # {} <=> (phase = "returned" /\ err = "none")
           /\ \A i \in told :
                response[i].reason = "tool_calls"
                  <=> (Sent("tool") # {} \/ \E k \in Sent("message") : response[k].call > 0)
           /\ status # 200 => Sent("error") # {}
===========================================================================
