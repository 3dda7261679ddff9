------------------------------ MODULE Prompt ------------------------------
(***************************************************************************)
(* From a conversation to the request the engine gets: the OpenAI layer    *)
(* decodes messages (internal/server), Render writes them as ChatML        *)
(* (internal/chatml/render.go), buildRequest chooses the prompt and the    *)
(* stop ids, and the interactive chat (cmd/flashqwen/chat.go) keeps the    *)
(* history.  A text is a sequence of pieces; a prompt is one too, whose    *)
(* markers are pieces of their own (Tokenizer keeps special literals       *)
(* whole).                                                                 *)
(***************************************************************************)
EXTENDS Integers, SequencesExt, Listing

CONSTANTS
    WireMessages,   \* messages of requests: records of role, content and calls
    MaxMessages,    \* bound on the messages of a request
    ToolLists,      \* lists of tools of requests
    RawPrompts,     \* values of "prompt": records of kind, text and ids
    Lines,          \* what the user of the chat types
    Answers,        \* what the model may answer
    MaxTurns        \* bound on the turns of a chat

(* A text is a sequence of pieces. *)
ASSUME AnswerAssumption == \A a \in Answers : a \in Seq(ToSet(a))

Commands == {"/exit", "/quit", "", "/reset", "/think on", "/think off"}

(* generation_config.json, by its eos_token_id: "unusable" if the file or  *)
(* the field is missing, or is no number and no list of them.              *)
EosConfigs == {"unusable", "one", "list", "empty list"}

VARIABLES
    mode,       \* the command: "serve" or "chat"
    config,     \* generation_config.json
    known,      \* end-of-turn literals the tokenizer has an id for
    eosIDs,     \* Format.eosIDs
    pc,         \* "read", "generate" or "exited"
    thinking,
    history,    \* chat: the messages so far
    request,    \* the last engine.Request
    sent,       \* prompt and stop ids of the GenerateRequest made of it
    dialogue    \* what was said since the last /reset: pairs of line and answer

vars == <<mode, config, known, eosIDs, pc, thinking, history, request, sent, dialogue>>

-----------------------------------------------------------------------------
(* Format *)

(* eosFromGenerationConfig: nothing unless there is a number or a list of  *)
(* them.                                                                   *)
EosFromGenerationConfig(cfg) ==
    CASE cfg = "one" -> <<"im_end">>
      [] cfg = "list" -> <<"im_end", "endoftext">>
      [] OTHER -> <<>>

(* tok.ID of an end-of-turn literal: its id, if the tokenizer has one. *)
EndId(lit, has) == IF lit \in has THEN <<lit>> ELSE <<>>

(* Faulty variant: what tok.ID returns is not checked (0 if unknown). *)
LoadEosUnchecked(cfg, has) ==
    LET ids == EosFromGenerationConfig(cfg)
    IN IF ids = <<>> THEN <<IF "im_end" \in has THEN "im_end" ELSE "0",
                            IF "endoftext" \in has THEN "endoftext" ELSE "0">>
       ELSE ids

(* Load falls back to the ids of <|im_end|> and <|endoftext|>, as far as   *)
(* the tokenizer has them.                                                 *)
LoadEos(cfg, has) ==
    LET ids == EosFromGenerationConfig(cfg)
    IN IF ids = <<>> THEN EndId("im_end", has) \o EndId("endoftext", has) ELSE ids

Open(role) == <<"<|im_start|>", role>>
Close == <<"<|im_end|>">>
Think == <<"<think>", "</think>">>

OrEmptyObject(json) == IF json = "" THEN "{}" ELSE json

ToolJSON(t) == <<t.name, OrEmptyObject(t.params)>>

RenderCall(tc) == <<"<tool_call>", tc.name, OrEmptyObject(tc.args), "</tool_call>">>

RenderCalls(calls) == FlattenSeq([c \in DOMAIN calls |-> RenderCall(calls[c])])

HasSystem(msgs) == msgs # <<>> /\ msgs[1].role = "system"

RenderSystem(msgs, tools) ==
    LET content == IF HasSystem(msgs) THEN msgs[1].content ELSE <<>>
    IN IF tools # <<>>
         THEN Open("system") \o content \o <<"<tools>">>
              \o FlattenSeq([k \in DOMAIN tools |-> ToolJSON(tools[k])])
              \o <<"</tools>">> \o Close
       ELSE IF HasSystem(msgs) THEN Open("system") \o content \o Close
       ELSE <<>>

Start(msgs) == IF HasSystem(msgs) THEN 2 ELSE 1
ToolAt(msgs, k) == k \in DOMAIN msgs /\ msgs[k].role = "tool"

Result(m) == <<"<tool_response>">> \o m.content \o <<"</tool_response>">>

(* Faulty variant: every tool result closes its turn. *)
RenderToolCloses(msgs, k) ==
    (IF k = Start(msgs) \/ ~ToolAt(msgs, k - 1) THEN Open("user") ELSE <<>>)
    \o Result(msgs[k])
    \o Close

(* Consecutive tool results share one user turn. *)
RenderTool(msgs, k) ==
    (IF k = Start(msgs) \/ ~ToolAt(msgs, k - 1) THEN Open("user") ELSE <<>>)
    \o Result(msgs[k])
    \o (IF ToolAt(msgs, k + 1) THEN <<>> ELSE Close)

(* Other roles, a later "system" included, leave no trace. *)
RenderMessage(msgs, k) ==
    CASE msgs[k].role = "user" -> Open("user") \o msgs[k].content \o Close
      [] msgs[k].role = "assistant" ->
            Open("assistant") \o msgs[k].content \o RenderCalls(msgs[k].calls) \o Close
      [] msgs[k].role = "tool" -> RenderTool(msgs, k)
      [] OTHER -> <<>>

Header(think) == Open("assistant") \o (IF think THEN <<>> ELSE Think)

Render(msgs, tools, think) ==
    RenderSystem(msgs, tools)
    \o FlattenSeq([k \in DOMAIN msgs |->
                      IF k < Start(msgs) THEN <<>> ELSE RenderMessage(msgs, k)])
    \o Header(think)

-----------------------------------------------------------------------------
(* Requests *)

NoRequest == [messages |-> <<>>, tools |-> <<>>, think |-> FALSE, raw |-> <<>>,
              ids |-> <<>>, ignoreEOS |-> FALSE]
ChatRequest(msgs, tools, think, ignore) ==
    [NoRequest EXCEPT !.messages = msgs, !.tools = tools, !.think = think, !.ignoreEOS = ignore]

(* ChatMessage.Text: a string, the text parts of a list, nothing for null  *)
(* or anything else.                                                       *)
Text(content) ==
    CASE content.kind = "string" -> content.text
      [] content.kind = "parts" ->
            FlattenSeq([k \in DOMAIN content.parts |->
                IF content.parts[k].type = "text" THEN content.parts[k].text ELSE <<>>])
      [] OTHER -> <<>>

(* The messages of decode(). *)
DecodeMessages(wire) ==
    [k \in DOMAIN wire |->
        [role |-> wire[k].role, content |-> Text(wire[k].content), calls |-> wire[k].calls]]

(* decodeCompletion: null decodes to the empty string, other values are    *)
(* refused (see HttpServer).                                               *)
DecodeCompletion(p, ignore) ==
    [NoRequest EXCEPT !.raw = IF p.kind = "string" THEN p.text ELSE <<>>,
                      !.ids = IF p.kind = "ids" THEN p.ids ELSE <<>>,
                      !.ignoreEOS = ignore]

(* The prompt and the stop ids of buildRequest. *)
BuildRequest(r) ==
    [prompt |-> CASE r.ids # <<>> -> r.ids
                  [] r.ids = <<>> /\ r.raw # <<>> -> r.raw
                  [] OTHER -> Render(r.messages, r.tools, r.think),
     stop |-> IF r.ignoreEOS THEN <<>> ELSE eosIDs]

Generate(r) ==
    /\ request' = r
    /\ sent' = BuildRequest(r)
    /\ pc' = "generate"

-----------------------------------------------------------------------------

(* main: serve or chat; both load the format first. *)
Init ==
    /\ mode \in {"serve", "chat"}
    /\ config \in EosConfigs /\ known \in SUBSET {"im_end", "endoftext"}
    /\ eosIDs = LoadEos(config, known)
    /\ pc = "read" /\ thinking \in BOOLEAN
    /\ history = <<>> /\ dialogue = <<>>
    /\ request = NoRequest /\ sent = BuildRequest(NoRequest)

(* chatCompletions with at least one message, and completions. *)
ServeChat ==
    /\ mode = "serve" /\ pc = "read"
    /\ \E n \in 1 .. MaxMessages : \E wire \in [1 .. n -> WireMessages], tools \in ToolLists,
                             ignore \in BOOLEAN :
          Generate(ChatRequest(DecodeMessages(wire), tools, thinking, ignore))
    /\ UNCHANGED <<mode, config, known, eosIDs, thinking, history, dialogue>>

ServeCompletion ==
    /\ mode = "serve" /\ pc = "read"
    /\ \E p \in RawPrompts, ignore \in BOOLEAN : Generate(DecodeCompletion(p, ignore))
    /\ UNCHANGED <<mode, config, known, eosIDs, thinking, history, dialogue>>

(* The handler is done; nothing of a request is kept. *)
ServeDone ==
    /\ mode = "serve" /\ pc = "generate"
    /\ pc' = "read" /\ request' = NoRequest /\ sent' = BuildRequest(NoRequest)
    /\ UNCHANGED <<mode, config, known, eosIDs, thinking, history, dialogue>>

-----------------------------------------------------------------------------
(* The loop of runChat *)

Reading == mode = "chat" /\ pc = "read"

(* EOF, /exit or /quit *)
Exit ==
    /\ Reading
    /\ pc' = "exited"
    /\ UNCHANGED <<mode, config, known, eosIDs, thinking, history, request, sent, dialogue>>

Reset ==
    /\ Reading
    /\ history' = <<>> /\ dialogue' = <<>>
    /\ UNCHANGED <<mode, config, known, eosIDs, pc, thinking, request, sent>>

SetThinking(on) ==
    /\ Reading
    /\ thinking' = on
    /\ UNCHANGED <<mode, config, known, eosIDs, pc, history, request, sent, dialogue>>

(* Any other line, unless it is empty. *)
Ask(line) ==
    /\ Reading /\ line \notin Commands /\ Len(dialogue) < MaxTurns
    /\ history' = Append(history, [role |-> "user", content |-> <<line>>, calls |-> <<>>])
    /\ Generate(ChatRequest(history', <<>>, thinking, FALSE))
    /\ UNCHANGED <<mode, config, known, eosIDs, thinking, dialogue>>

Asked == Last(history).content[1]

Answered(answer) ==
    /\ mode = "chat" /\ pc = "generate"
    /\ history' = Append(history, [role |-> "assistant", content |-> answer, calls |-> <<>>])
    /\ dialogue' = Append(dialogue, <<Asked, answer>>)
    /\ pc' = "read"
    /\ UNCHANGED <<mode, config, known, eosIDs, thinking, request, sent>>

(* Faulty variant: the question stays in the history. *)
FailedKeepsLine ==
    /\ mode = "chat" /\ pc = "generate"
    /\ pc' = "read"
    /\ UNCHANGED <<mode, config, known, eosIDs, thinking, history, request, sent, dialogue>>

(* Generate returned an error: the question is taken back. *)
Failed ==
    /\ mode = "chat" /\ pc = "generate"
    /\ history' = Front(history)
    /\ pc' = "read"
    /\ UNCHANGED <<mode, config, known, eosIDs, thinking, request, sent, dialogue>>

Next ==
    \/ ServeChat \/ ServeCompletion \/ ServeDone
    \/ Exit \/ Reset
    \/ \E on \in BOOLEAN : SetThinking(on)
    \/ \E line \in Lines : Ask(line)
    \/ \E answer \in Answers : Answered(answer)
    \/ Failed

Spec == Init /\ [][Next]_vars

-----------------------------------------------------------------------------
(* Properties *)

(* A reader of ChatML: the turns of a prompt, each up to its end marker or *)
(* the end of the prompt.                                                  *)
Marks(p, mark) == {k \in DOMAIN p : p[k] = mark}
Turn(p, s) ==
    LET e == Min({k \in Marks(p, "<|im_end|>") : k > s} \cup {Len(p) + 1})
    IN [role |-> p[s + 1], body |-> SubSeq(p, s + 2, e - 1)]
TurnsOf(p) ==
    LET starts == InOrder(Marks(p, "<|im_start|>"), Len(p))
    IN [n \in DOMAIN starts |-> Turn(p, starts[n])]

(* The turns a conversation has: who speaks at k, and all of it.  Calls    *)
(* are only an assistant's.                                                *)
Speaks(msgs) ==
    {k \in DOMAIN msgs :
        \/ msgs[k].role \in {"user", "assistant"}
        \/ ToolAt(msgs, k) /\ ~ToolAt(msgs, k - 1)}
Results(msgs, k) ==
    LET end == Min({j \in k .. Len(msgs) + 1 : ~ToolAt(msgs, j)})
    IN FlattenSeq([j \in 1 .. end - k |-> Result(msgs[k + j - 1])])
Said(msgs, k) ==
    IF ToolAt(msgs, k) THEN [role |-> "user", body |-> Results(msgs, k)]
    ELSE [role |-> msgs[k].role,
          body |-> IF msgs[k].role = "assistant"
                     THEN msgs[k].content \o RenderCalls(msgs[k].calls)
                   ELSE msgs[k].content]
Spoken(msgs) ==
    LET order == InOrder(Speaks(msgs), Len(msgs))
    IN [n \in DOMAIN order |-> Said(msgs, order[n])]

(* A reader of the prompt finds the conversation again: the system turn    *)
(* first if there is one, every message of user, assistant and tools in    *)
(* order under its role, runs of tool results as one user turn, nothing    *)
(* between turns, every turn closed, and an open assistant turn at the     *)
(* end.                                                                    *)
PromptReadsBack ==
    pc = "generate" /\ request.ids = <<>> /\ request.raw = <<>> =>
        LET p == sent.prompt
            turns == TurnsOf(p)
            system == IF HasSystem(request.messages) \/ request.tools # <<>> THEN 1 ELSE 0
        IN /\ SubSeq(turns, system + 1, Len(turns) - 1) = Spoken(request.messages)
           /\ system = 1 => /\ turns[1].role = "system"
                            /\ HasSystem(request.messages) =>
                                  IsPrefix(request.messages[1].content, turns[1].body)
           /\ Last(turns).role = "assistant"
           /\ Cardinality(Marks(p, "<|im_end|>")) = Len(turns) - 1
           /\ p[1] = "<|im_start|>"
           /\ \A k \in Marks(p, "<|im_end|>") : p[k + 1] = "<|im_start|>"

(* The prompt of a chat turn is the dialogue so far, each answer as it was *)
(* given, then the new line: what failed, and what was said before /reset, *)
(* leaves no trace, and each prompt continues the previous conversation,   *)
(* up to the generation header, so the engine finds its prefix cached.     *)
ChatIsDialogue ==
    mode = "chat" /\ pc = "generate" =>
        sent.prompt =
            FlattenSeq([n \in DOMAIN dialogue |->
                Open("user") \o <<dialogue[n][1]>> \o Close
                \o Open("assistant") \o dialogue[n][2] \o Close])
            \o Open("user") \o <<Asked>> \o Close \o Header(thinking)

(* A request goes out without a stop id, and so runs into the end of the   *)
(* context, only if it asked for that or if neither generation_config nor  *)
(* the tokenizer names an end-of-turn token; and no id stops it that       *)
(* neither names.                                                          *)
EosNamed == ToSet(EosFromGenerationConfig(config)) \cup known
StopsAtEos ==
    pc = "generate" =>
        /\ sent.stop = <<>> <=> request.ignoreEOS \/ EosNamed = {}
        /\ ToSet(sent.stop) \subseteq EosNamed
===========================================================================
