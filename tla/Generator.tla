----------------------------- MODULE Generator -----------------------------
(***************************************************************************)
(* The text tier of one call (internal/engine/generate.go with             *)
(* internal/chatml/stream.go): the length policy, then token ids decoded   *)
(* into text deltas and tool calls as they arrive.  Generate hides control *)
(* tokens and buffers tool calls; Complete decodes every id.  What the     *)
(* transport delivers is any sequence of ids (see GenerateStream).         *)
(***************************************************************************)
EXTENDS Integers, SequencesExt

CONSTANTS
    MaxCtx,       \* the engine's context window
    PromptLens,   \* lengths a prompt may have
    Requested,    \* values of max_tokens a caller may ask for
    Ids           \* token ids the engine may send

(* Bytes by their part in UTF-8: "a" stands alone, "2", "3" and "4" lead a *)
(* rune of that many bytes, "c" continues one.  An id decodes to a few.    *)
Text == [a |-> <<"a">>, lead3 |-> <<"3">>, lead4 |-> <<"4">>, cont |-> <<"c">>,
         cont_lead2 |-> <<"c", "2">>, json |-> <<"a", "a">>,
         open |-> <<"a">>, close |-> <<"a">>, eos |-> <<"a">>]
Special == {"open", "close", "eos"}

ASSUME GeneratorAssumption ==
    /\ MaxCtx \in Nat \ {0} /\ PromptLens \subseteq Nat \ {0}
    /\ Requested \subseteq Int /\ Ids \subseteq DOMAIN Text

Decode(ids) == FlattenSeq([i \in DOMAIN ids |-> Text[ids[i]]])

VARIABLES
    api,        \* "chat": Generate, "raw": Complete
    promptLen,  \* tokens of the prompt: given ids, encoded text or rendered messages
    requested,  \* Request.MaxTokens
    max,        \* max_tokens sent to the engine
    phase,      \* "build", "stream", "returned"
    err,        \* "none", or the error returned
    ids,        \* ids received so far
    pending,    \* bytes not yet emitted
    inTool, toolIDs, nTools,
    text,       \* Result.Text
    calls,      \* Result.ToolCalls
    deltas,     \* calls of onDelta
    reason      \* Result.FinishReason

reqVars == <<api, promptLen, requested, max>>
toolVars == <<inTool, toolIDs, nTools>>
resVars == <<text, calls, deltas, reason>>
genVars == <<reqVars, phase, err, ids, pending, toolVars, resVars>>

Init ==
    /\ api \in {"chat", "raw"}
    /\ promptLen \in PromptLens
    /\ requested \in Requested
    /\ max = 0 /\ phase = "build" /\ err = "none"
    /\ ids = <<>> /\ pending = <<>>
    /\ inTool = FALSE /\ toolIDs = <<>> /\ nTools = 0
    /\ text = <<>> /\ calls = <<>> /\ deltas = <<>> /\ reason = "none"

-----------------------------------------------------------------------------
(* Building the request *)

Room(n) == MaxCtx - n

(* Faulty variant: a request for more than the room is passed on. *)
ResolveUnclamped(n, want) == IF want <= 0 THEN Room(n) ELSE want

(* resolveMaxTokens, when the prompt leaves room. *)
ResolveMaxTokens(n, want) ==
    IF want <= 0 \/ want > Room(n) THEN Room(n) ELSE want

(* Encode never fails, so the length policy is the only way out. *)
BuildRequest ==
    /\ phase = "build"
    /\ IF Room(promptLen) < 1
         THEN phase' = "returned" /\ err' = "prompt_too_long" /\ UNCHANGED max
         ELSE /\ max' = ResolveMaxTokens(promptLen, requested)
              /\ phase' = "stream" /\ UNCHANGED err
    /\ UNCHANGED <<api, promptLen, requested, ids, pending, toolVars, resVars>>

-----------------------------------------------------------------------------
(* Runes *)

Width(b) == CASE b = "2" -> 2 [] b = "3" -> 3 [] b = "4" -> 4 [] OTHER -> 1

(* Bytes i.. of s that continue the rune led by byte i, as far as needed. *)
Continued(s, i) ==
    {n \in 1 .. Width(s[i]) :
        i + n - 1 <= Len(s) /\ \A k \in i + 1 .. i + n - 1 : s[k] = "c"}

(* Faulty variant: a lead byte alone counts as a whole rune. *)
FullRuneAlways(s, i) == TRUE

(* utf8.FullRune: false only if more bytes could still complete the rune.  *)
FullRune(s, i) ==
    \/ Width(s[i]) \in Continued(s, i)
    \/ i + Cardinality(Continued(s, i)) <= Len(s)

(* The size utf8.DecodeRune reports; 1 for an invalid encoding. *)
RuneSize(s, i) == IF Width(s[i]) \in Continued(s, i) THEN Width(s[i]) ELSE 1

(* takeRunes: how many bytes of s it returns. *)
Taken(s) ==
    LET from[i \in 1 .. Len(s) + 1] ==
            IF i > Len(s) \/ ~FullRune(s, i) THEN i - 1 ELSE from[i + RuneSize(s, i)]
    IN from[1]

-----------------------------------------------------------------------------
(* Receiving *)

(* onDelta is called for what is not empty. *)
Deliver(bytes, call) ==
    /\ text' = text \o bytes
    /\ calls' = IF call = 0 THEN calls ELSE Append(calls, call)
    /\ deltas' = IF bytes = <<>> /\ call = 0 THEN deltas
                 ELSE Append(deltas, [bytes |-> bytes, call |-> call])
    /\ UNCHANGED reason

(* Decode one id, give out the whole runes, hold back the rest. *)
Emit(id) ==
    LET buf == pending \o Text[id]
        n == Taken(buf)
    IN /\ Deliver(SubSeq(buf, 1, n), 0)
       /\ pending' = SubSeq(buf, n + 1, Len(buf))
       /\ UNCHANGED toolVars

(* parseTool: the buffered ids are a call if they are well-formed JSON with *)
(* a name; calls are numbered from "call_0", here from 1.                   *)
Parses(buf) == buf = <<"json">>

PushOpen ==
    /\ inTool' = TRUE /\ toolIDs' = <<>>
    /\ UNCHANGED <<nTools, pending, resVars>>

(* Faulty variant: the number of the call is not advanced. *)
PushCloseUncounted ==
    /\ inTool' = FALSE
    /\ Deliver(<<>>, IF Parses(toolIDs) THEN nTools + 1 ELSE 0)
    /\ UNCHANGED <<toolIDs, nTools, pending>>

PushClose ==
    /\ inTool' = FALSE
    /\ nTools' = IF Parses(toolIDs) THEN nTools + 1 ELSE nTools
    /\ Deliver(<<>>, IF Parses(toolIDs) THEN nTools + 1 ELSE 0)
    /\ UNCHANGED <<toolIDs, pending>>

PushTool(id) ==
    /\ toolIDs' = Append(toolIDs, id)
    /\ UNCHANGED <<inTool, nTools, pending, resVars>>

(* Stream.Push *)
PushChat(id) ==
    CASE id = "open" -> PushOpen
      [] id = "close" -> PushClose
      [] id \notin {"open", "close"} /\ inTool -> PushTool(id)
      [] id \in Special \ {"open", "close"} /\ ~inTool -> UNCHANGED <<pending, toolVars, resVars>>
      [] OTHER -> Emit(id)

Receive(id) ==
    /\ phase = "stream" /\ Len(ids) < max
    /\ ids' = Append(ids, id)
    /\ IF api = "chat" THEN PushChat(id) ELSE Emit(id)
    /\ UNCHANGED <<reqVars, phase, err>>

(* Faulty variant: what is held back at the end is dropped. *)
ReturnUnflushed(why) ==
    /\ phase = "stream"
    /\ pending' = <<>>
    /\ reason' = IF calls # <<>> THEN "tool_calls" ELSE why
    /\ phase' = "returned"
    /\ UNCHANGED <<reqVars, err, ids, toolVars, text, deltas, calls>>

(* The stream ended with Done: flush what is held back, set the reason. *)
Return(why) ==
    /\ phase = "stream"
    /\ text' = text \o pending
    /\ deltas' = IF pending = <<>> THEN deltas
                 ELSE Append(deltas, [bytes |-> pending, call |-> 0])
    /\ pending' = <<>>
    /\ reason' = IF calls # <<>> THEN "tool_calls" ELSE why
    /\ phase' = "returned"
    /\ UNCHANGED <<reqVars, err, ids, toolVars, calls>>

(* The stream ended with an error: an engine error or a lost connection. *)
ReturnError(e) ==
    /\ phase = "stream"
    /\ err' = e
    /\ phase' = "returned"
    /\ UNCHANGED <<reqVars, ids, pending, toolVars, resVars>>

Next ==
    \/ BuildRequest
    \/ \E id \in Ids : Receive(id)
    \/ \E why \in {"stop", "length"} : Return(why)
    \/ \E e \in {"over_capacity", "engine_error"} : ReturnError(e)

Spec == Init /\ [][Next]_genVars

-----------------------------------------------------------------------------
(* Properties *)

(* Which ids are text, read off the whole list: no marker, and the last    *)
(* tool marker before it, if any, is a closing one.                        *)
Markers(i) == {k \in 1 .. i : ids[k] \in {"open", "close"}}
Inside(i) == Markers(i) # {} /\ ids[Max(Markers(i))] = "open"
Shown(i) == api = "raw" \/ (ids[i] \notin Special /\ ~Inside(i))
Visible == FlattenSeq([i \in DOMAIN ids |-> IF Shown(i) THEN <<ids[i]>> ELSE <<>>])

(* Where a decoder of the whole byte string s starts a rune. *)
RuneStarts(s) ==
    LET starts[i \in 0 .. Len(s)] ==
            IF i = 0 THEN {1}
            ELSE IF i \in starts[i - 1] THEN starts[i - 1] \cup {i + RuneSize(s, i)}
            ELSE starts[i - 1]
    IN starts[Len(s)]

(* Where delta n ends in what was emitted. *)
EndOf(n) == Len(FlattenSeq([i \in 1 .. n |-> deltas[i].bytes]))

(* Nothing is lost, added or reordered, although runes and tool calls      *)
(* straddle tokens: what was emitted and what is held back is the decoding *)
(* of the visible ids, no delta ends in the middle of a rune whatever      *)
(* bytes came after it, less than a rune is held back, and nothing by a    *)
(* finished call.                                                          *)
TextIsDecoding ==
    /\ text \o pending = Decode(Visible)
    /\ text = FlattenSeq([i \in DOMAIN deltas |-> deltas[i].bytes])
    /\ phase = "returned" /\ err = "none" => pending = <<>>
    /\ phase = "stream" =>
        LET starts == RuneStarts(Decode(Visible))
        IN /\ \A n \in DOMAIN deltas : EndOf(n) + 1 \in starts
           /\ Len(pending) <= 3

(* If the markers of the tool calls are paired, every well-formed block is *)
(* one call, in order and with a number of its own.                        *)
Paired == \A i \in DOMAIN ids : ids[i] = "close" => i > 1 /\ Inside(i - 1)
Blocks ==
    {i \in DOMAIN ids : i > 2 /\ ids[i] = "close" /\ ids[i - 1] = "json" /\ ids[i - 2] = "open"}
CallsAreBlocks ==
    api = "chat" /\ Paired => calls = [i \in 1 .. Cardinality(Blocks) |-> i]

(* What the engine makes of max_tokens for a prompt of n tokens            *)
(* (ServiceImpl::Generate).                                                *)
kDefaultMaxTokens == 512
EngineMaxNew(n, want) ==
    Min({IF want > 0 THEN want ELSE kDefaultMaxTokens, Max({MaxCtx - n, 1})})

(* Go and the engine agree on the length of every request that is sent: a  *)
(* prompt with room is sent, the engine's own clamp and default never      *)
(* change the resolved value, and nobody gets more than was asked for.     *)
BackstopIsIdle ==
    /\ phase = "stream" =>
        /\ max = EngineMaxNew(promptLen, max)
        /\ promptLen + max <= MaxCtx
        /\ requested > 0 => max <= requested
    /\ err = "prompt_too_long" => promptLen >= MaxCtx
=============================================================================
