# FlashQwen: TLA+ models, checks and proofs

FlashQwen serves Qwen3-8B. A Go front end (HTTP server, ChatML, tokenizer,
process supervisor) drives a C++/CUDA token engine over gRPC; the engine batches
all requests continuously over a paged KV cache with a prefix cache. This
directory models the parts of it where the order of events decides whether it
is correct, checks them with TLC on small instances, and proves with TLAPS, for
every instance, what the block allocator, the scheduler's queues, the stream of
a request from the engine to the HTTP client, the text tier, the graph cache,
the chat and the process supervisor guarantee.

## Inventory

| Component | State it keeps | Operations | Hard part |
|---|---|---|---|
| Block allocator (`block_allocator.h`) | `ref_cnt_`, `blk_hash_`, `cached_`, `free_lru_`, `pos_` | AllocOne/Grow, FreeOne/FreeMany/Free, CacheLookup, CacheInsert | counts, queue and hash index must agree after any sequence; a hit resurrects a free block |
| Scheduler (`scheduler.h`, `scheduler.cc`) | `inbound_`, `waiting_`, `running_`, each Request's cursor, table, output and hash chain; the step's batch | Submit, Run, Refill, AcquirePrefix, BuildBatch, Grow, Apply, CacheBlocks, Retire | preemption while a batch is being built; cancellation at any time; progress |
| Model runtime and KV store (`model_runtime.*`, `kv_store.*`) | weights, step buffers, KV tensors, graph cache | Forward, PrepareInputs, GraphCache::Run, StoreKV | buffers sized once that keep their tails; graphs replayed with the sizes they were captured with; each row must write its own slot |
| gRPC service and sink (`grpc_service.cc`, `grpc_sink.h`) | one EventQueue and one cancel flag per call | Generate, Push/Close/Pop/IsClosed, Token/Done/Error/Cancelled | two threads, a timeout and a client that leaves |
| Engine client and generator (`internal/engine`) | connection; per call the text so far | Dial, WaitReady, stream, Generate, Complete, resolveMaxTokens | end of stream, partial runes, length policy |
| ChatML (`internal/chatml`) | pending bytes, buffered tool-call ids | Render, Push, Flush, parseTool | runes and tool calls that straddle tokens |
| Tokenizer (`internal/tokenizer`) | vocabulary, merges, specials | Load, Encode, Decode | a hand-written scan that must agree with a backtracking regex; merge order; overlapping special literals |
| HTTP server (`internal/server`) | none besides the call | chatCompletions, completions (blocking and SSE) | order of the SSE chunks, errors after the header |
| Supervisor and commands (`internal/supervisor`, `cmd/flashqwen`) | child process, extracted binary, stderr tail | Start, Exited, Stop, open | failure between two start-up steps, exit racing readiness |
| Interactive chat (`cmd/flashqwen/chat.go`) | history, thinking flag | a line, the commands, an answer, an error | a turn that fails half-way |
| Kernels, weights, arguments | device memory, files | GPU arithmetic, file reading, flag parsing | not a matter of states and steps |

How they interact: a handler thread of the gRPC server builds a Request with a
GrpcSink and hands it to `Scheduler::Submit` (mutex and condition variable); the
one engine thread owns it from there on, calls the allocator and the model
runtime synchronously, and pushes events into the sink; the handler pops them
with a timeout, writes them to the wire and, when the client is gone, sets the
flag the engine polls at every step. The Go client receives and hands tokens to
the text layer.

What makes each part correct: the allocator never hands out a block in use,
never leaks one, and its index never names a block that holds something else;
the scheduler loses no request, gives back every block, advances a cursor only
over KV that exists, routes each sample to the request that asked for it, ends
every stream with exactly one terminal event, and answers every request; a
stream arrives complete and in order, and a client that leaves is noticed;
a forward computes the batch it was given and nothing of an earlier one; a text
is cut and merged into the tokens the model was trained with, and decodes to
itself; a prompt can be read back as the conversation it came from; text reaches
the client in whole runes and says the same streamed or not; a process that ends
leaves no engine behind.
The hazards that threaten these, each at its line, are in `PROJECT.json`.

## Modules

**BlockAllocator** is `class BlockAllocator` together with the block tables its
callers keep (a `Holder` owns one table). `ref_cnt`, `blk_hash`, `cached` and
`free_lru` are the fields; `pos_` is `Pos`, the place of a block in the queue.
Loops run one iteration per step: `AllocOne(h)` is an iteration of `Grow` (pop
the front, evict its mapping, append to the table), `FreeOne(h)` one of
`FreeMany` (`freed[h]` counts the entries done, the last one is followed by
`clear()`), `CacheLookup` a hit, `CacheInsert` an insertion with both of its
early returns.

**BlockPool** is what the allocator promises without counts and queues: Give a
block nobody uses, Drop, Share what a hash names, Name an unnamed block.
`PoolSpec` states that BlockAllocator implements it, with `held[h]` the entries
of the table that are not yet given back and `index` the hash index.

**Scheduler** extends BlockAllocator, with requests as holders. `pc` names the
loop the engine thread is in:

    drain -> admit -> drop_waiting -> drop_running -> fill <-> acquire
          -> build -> pick <-> grow -> forward -> apply -> cache -> retire -> drain

| Code | Actions |
|---|---|
| `Submit`; the handler's `cancel.store(true)` | `Submit`, `Cancel` (other threads, at any step) |
| `Run` | `Drain`, `Admit`, `StartStep` |
| `Refill` | `DropWaiting`, `DropRunning`, `Fill`, `FillEnd` |
| `AcquirePrefix` | `AcquireHit`, `AcquireEnd` |
| `BuildBatch` | `StartBuild`, `Pick`, `PickStale`, `PickEnd`, `AddRequest` |
| `Grow` | `GrowAlloc`, `Preempt`, `GrowFail` |
| `Free` | `Release` (first iteration), `FreeMore` |
| `Forward`, `Apply` | `Forward`, `Apply`, `ApplyPastEnd`, `ApplyEnd` |
| `CacheBlocks`, `Retire` | `CacheBlock`, `CacheBlockPastEnd`, `CacheNext`, `CacheEnd`, `Retire`, `StepEnd` |

Data is abstracted to what the properties tell apart. A token is 0 (the stop
token) or 1. The content of a KV slot is the token prefix it was computed from,
and two rows that store different things into one slot leave rubbish (`<<>>`).
A sampled token is any token. A chained block hash is the chain of tokens
itself, so hashes do not collide: a 64-bit collision is a matter of probability
that no schedule decides. A newly allocated block keeps its old content.

Undefined behaviour is modelled by what the `-O3` build with libstdc++ does.
`running_[idx]` past the end reads the null pointer that a moved-from
`unique_ptr` leaves behind: `Crash`. `sampled[s++]` past the end faults if
nothing was sampled and otherwise yields any token. A block table that was
cleared still has its old ids in its storage. A token index past the end of
`output_` faults if `output_` is empty and otherwise yields any token.

**ModelRuntime** is the host side of one merged forward as the kernels see it.
`Forward(b)` takes any batch that fits the buffers (which the scheduler's batches
do: `FitsStepContext`) through `UploadRows`, `PackBlockTables`,
`SplitDecodePrefill` and `FillSampling`; `Over` says that a write reaches only
as far as the batch, so the tails of earlier steps stay. `RunLayers` runs a step
of decodes through the graph cache: `Replay` launches with the sizes the graph
was captured with, `Capture` evicts the oldest graph. The arithmetic is left
out; a kernel is the set of rows its thread blocks work on and the block table
they read (`DecodeWork`, `PrefillWork`).

**GenerateStream** is one call of `ServiceImpl::Generate`: the engine thread
feeding the sink (`SinkToken`, `SinkTerminal`, `SinkClose`, `DropCancelled`),
the handler loop (`PopEvent`, `PopNothing`, `Write`, `WriteFails`,
`CheckCancelled`, `CheckClosed`) and `Client.stream` in Go (`Recv`,
`RecvError`), with a `Disconnect` at any step. Each critical section of the
queue is a step of its own. A token is its index in the stream, so loss,
duplication and reordering show. It has no specification of its own; Serving
composes its steps.

**Generator** is the text tier of one call, `Generate` and `Complete` with
`chatml.Stream`: `BuildRequest` (`resolveMaxTokens`; where the prompt came from
is only its length), `Receive` (one id: `PushOpen`, `PushClose`, `PushTool`,
hidden, or `Emit`), `Return` with Flush and finish reason, `ReturnError`. On its
own (run `text`) the transport delivers any sequence of ids. A byte is its part
in UTF-8 (alone, lead of two, three or four, continuation), an id decodes to one
or two bytes, and the JSON of a tool call is well formed exactly if it is the id
`"json"`. `Continued`, `FullRune` and `RuneSize` follow `unicode/utf8`, so a
sequence that breaks off is treated as Go does (that a few leads admit only part
of the continuation bytes after them is left out); up to three bytes may be held
back. What the text is compared with is read off the whole list of ids and
bytes: `Visible` (no marker, not `Inside` a call) and `RuneStarts` (where a
decoder of all the bytes starts a rune).

**HttpServer** extends Generator with the two completion handlers: `Refuse` and
`Accept` (validation and decoding of the body), `BuildAndSend`, `Relay` (a token
and the chunks its delta is written as), `Succeed`, `Fail`, and `ClientLeaves`
at any step. `Marshal` is `json.Marshal` on bytes: what is no rune becomes
U+FFFD. The status is fixed by the first write.

**Serving** is one request through all of these: it extends HttpServer and
instantiates GenerateStream. `Receiving` joins one turn of `Client.stream` with
what the same goroutine does next (`Relay`, `Succeed`, `Fail`); `ReceiveFails`
is a broken call; `CancelCall` is the request's context, done because the HTTP
client left, cancelling the call; `ConnectionLost` breaks it for any other
reason. Engine thread (`Sampling`, `Finishing`, `Closing`), gRPC handler
(`RpcHandler`), HTTP goroutine and client interleave freely.

**Tokenizer** is `tokenizer.go`: `Load` (byte tables, vocabulary, added tokens,
ranks of the merges), then calls of Encode, one rule of the pre-tokenizer
(`Contraction`, `Letters`, `PrefixedLetters`, `Digit`, `Punctuation`,
`Newlines`, `Spaces`) or one merge per step. Texts are sequences of code points,
with the character classes of the code; positions count code points where Go
counts bytes. `ModelFilesAssumption` says what a trained model's files satisfy:
every byte and every product of a merge has an id, merges build on earlier ones.
Its references are the regex of `tokenizer.json` (`Alternatives`, with the
longest match a backtracking matcher would find) and BPE as it is defined
(`ReferenceBPE`, one leftmost merge at a time).

**Prompt** is the way from a conversation to the engine's request: `Text` and
`DecodeMessages` (OpenAI messages), `DecodeCompletion`, `Render` (ChatML, whose
markers are pieces of their own, as Tokenizer keeps special literals whole;
wording is left out), `LoadEos` (from `config`, what `generation_config.json`
says, or else the end-of-turn literals that `tok.ID` knows, `known`) and
`BuildRequest` (which prompt, which stop ids), and the loop of the interactive
chat: `Ask`, `Answered`, `Failed`, `Reset`, `SetThinking`, `Exit`.

**Session** is one `flashqwen` process (serve or chat) and its engine:
`supervisor.Start` (`CreateTemp`, `WriteBinary`, `FreePort`, `Spawn`), `Dial`,
the polling loop of `WaitReady` (`Probe`, `AliveCheck`, `Deadline`), `Ready`,
`ServeEnds`, `Engine.Stop` in the main goroutine (`MainTerm`, `MainReap`,
`MainRemove`) and in the signal goroutine (`SignalStop`, `SignalReap`,
`SignalRemove`), the `Reaper` goroutine, and the engine process itself, which
may load for ever, fail, find its port taken or be killed.

The modules whose name ends in `Proofs` extend a module with its theorems, and
**SequenceFacts** has the lemmas they share. **Listing** has the one definition
ModelRuntime and Prompt share: the list a loop makes when it appends the numbers
it selects in increasing order. The modules whose name begins with `MC` give TLC
its instances. Definitions marked "Faulty variant" are plausible mistakes in the
definition that follows them; replacing it by the variant must break the
property `PROJECT.json` pairs it with, which shows that the property depends on
that code.

## Runs

| Run | Instance | Question |
|---|---|---|
| `allocator` | 2 owners, 3 blocks, 2 hashes, tables up to 3 | Is the bookkeeping exact, and is it a BlockPool, under any sequence of operations? |
| `roomy` | 4 requests, three of which share their first block, 2 slots, 1 waiting place, 6 blocks of 2, budget 2, prefix cache on and off, two may be cancelled | Are batching, prefix sharing, caching and admission right when no preemption is needed? |
| `tight` | a long and a short request that share a prefix and one that can never fit; 3 blocks of 2, budget 1, one may be cancelled | Do preemption, recomputation and failure for want of blocks keep KV and streams right, is everyone answered, and is a cancelled request dropped wherever it is? |
| `squeezed` | a decode beside two prefills that share its prefix, 3 slots, 3 blocks of 2; stale indices and preempted requests in the batch occur | Is no request lost or queued twice even then, do only running ones hold blocks, and do the scheduler and the allocator together still implement BlockPool? |
| `runtime` | 3 slots, 4 rows, prefill tiles of 2, graphs for 2 of the 3 decode shapes; decodes, partial and whole prompts in any mix | Does a step compute its own batch only, whatever earlier steps left in buffers and graphs, and is the graph cache an LRU cache that leaks nothing? |
| `serving` | up to 3 tokens, both endpoints, streamed and blocking, prompts within and beyond the window; client leaves and connection breaks at any step | Is what is told as complete complete, well formed and the same streamed or not; does every request end; does leaving reach the engine? |
| `session` | serve and chat, every failure, timeout and signal at any step | Is everything cleaned up, does open() end with the true cause, does stop() end when two goroutines call it? |
| `text` | up to 6 ids: split and broken runes of three and four bytes, hidden tokens, markers, call bodies; prompts at and beyond the window | Are deltas whole runes that add up to the decoding, is each well-formed block one call, do Go and the engine agree on the length? |
| `tokenizer` | every text of up to 5 of 9 code points, two merge files, three overlapping special literals | Does the scan cut where the regex does, is BPE what its definition says, does decoding invert encoding, do special literals stay whole? |
| `prompt` | every conversation of up to 4 messages of 8 kinds, with and without tools; chats of up to 3 turns with failures and resets | Can the conversation be read back from the prompt, is a chat's prompt its dialogue, does every request stop at an end-of-turn token, if one is named? |

The bounds are chosen so that what a run is about happens: each action fires in
some run, `tight` preempts, recomputes from a resurrected prefix and fails an
oversized prompt, `roomy` has a prompt that is exactly one cached block, more
rows wanted than the budget and more requests than places. Five code points are
enough for every rule of the pre-tokenizer with something before and behind it,
for overlapping pairs and for two merge levels; the nine have one or more of
each class the code and the regex distinguish, except for non-ASCII code points
that are neither letters nor spaces, where the code differs knowingly (below).
Six ids hold a rune of four bytes that is split over four tokens, and what comes
before and after it. Four messages give a run of tool results at either end and
in the middle. Three slots with two graphs make the cache evict and capture
again.

What a run cannot show: in `roomy` nothing is ever preempted, so `BatchIsCurrent`
and `SampledParallelsRows` say nothing there about stale indices and preempted
requests in the batch; those hazards are left to `squeezed` and
`misrouted_sample`. The requests of `tight` are finitely many, so
`EventuallyAnswered` says that the requests that are there do not starve each
other, not that new arrivals without end cannot starve one.

Deadlock is checked for the allocator, the runtime and the tokenizer (so some
rule applies to every text). The other systems may stop: an engine without
requests waits for ever, a crashed one stops, a request is answered, a process
ends.

Fairness: `WF_vars(Engine)` says that the engine thread keeps running, which is
what a thread with nothing but `cv.wait` on a non-empty predicate to block on
does; nothing is assumed of clients. In Serving the HTTP goroutine, the gRPC
handler (which waits with a timeout) and a cancellation that is under way go on,
and the engine thread completes a `Close` it began and comes back to `Refill`;
that it finishes the request at all is not assumed there, but is what
`EventuallyAnswered` of Scheduler shows. In Session the goroutines keep running,
SIGTERM kills the engine (it installs no handler) and time passes; that the
engine ever finishes loading, or that anybody ends the server, is not assumed.
The other modules have no liveness properties.

### What the code does differently from what it says

Two runs have `expect: violation`.

| Run | What goes wrong |
|---|---|
| `misrouted_sample` | a request preempted after its rows were batched leaves its sample in `sampled[]`, and a request whose last chunk is in the same step takes it for its own |
| `signal_during_open` | SIGTERM while the model loads kills the Go process before `signal.Notify`; nobody stops the engine or removes its binary |

In the second the engine may still die by accident: its stderr is a pipe into the
dead process, and the next line it logs there may end it. Its extracted binary
stays in any case.

The first is one face of a design slip: `Grow` may preempt a request (erase it
from `running_`, free its blocks) while `BuildBatch` walks indices computed
before, and after that request's rows were put into the batch. In the instance
of `squeezed` an index past the end of `running_` reads a null pointer
(`PickStale`), and `KvIntegrity` (`Apply` advances a cursor that was reset),
`BatchIsCurrent` and `CacheContent` (`CacheBlocks` files a prefix under somebody
else's block) fail for the same reason, and in the instance of
`misrouted_sample` so do `SampledParallelsRows` and `TerminalIsLast` (a request
that finishes while in `waiting_` is not retired and runs again). Even then no
request is lost and no block leaks (`Ownership`). With a budget of one row
(`tight`) at most one request is batched per step and none of this can happen,
which is why that run passes: preemption itself is sound, preemption of somebody
already visited in the same build is not.

Smaller things met while modelling, without a run of their own:

- a streamed request that fails before any output gets status 200 with an error
  event: `FailedStream` never uses the status of `classifyError`, although the
  role chunk is deferred and nothing was written yet. `generate.go:16` says "the
  server maps it to HTTP 400 rather than 502", `completions.go:183` "The 200 +
  SSE headers are already flushed";
- an empty, null or `[]` prompt on `/v1/completions` falls through to the ChatML
  template in `buildRequest`; `types.go:25` says "no chat template";
- `Complete` hides no special tokens: the text of a raw completion ends with the
  literal of its stop token, as the engine streams that token too;
- `isLetter` takes every code point from 0x80 on that is no space for a letter,
  where the regex has `\p{L}`: wide punctuation is cut differently, as the
  comment at `tokenizer.go:301` admits. `tokenizer` therefore has a non-ASCII
  letter in its alphabet and no other non-ASCII code point;
- `Load` finds no stop id, and every request runs to the end of its length, if
  `generation_config.json` names none and the tokenizer has neither `<|im_end|>`
  nor `<|endoftext|>`. Qwen3's tokenizer has both; `StopsAtEos` says that this is
  the only such case;
- a `</tool_call>` without an opening marker parses the ids of the call before
  it again, which is why `CallsAreBlocks` speaks of paired markers;
- `Start` leaves the extracted file behind when writing it or its `Chmod` fails,
  which `NothingLeftBehind` excepts.

## Proofs

The runs show their properties on small instances; the theorems show them for
every value of the constants. `PROJECT.json` lists the theorems with the property
each one states.

| Theorem | States | For every |
|---|---|---|
| `AllocTypeCorrect`, `RefCountsExact`, `LruQueueExact`, `HashIndexExact` | `AllocTypeOK`, `RefExact`, `LruExact`, `CacheExact` | pool size, finite set of owners, set of hashes |
| `HashesAreStable` | `HashIsStable`, an action property | the same |
| `ImplementsPool` | `PoolSpec`: BlockAllocator implements BlockPool | the same |
| `EveryRequestOwned`, `QueuesBounded` | `Ownership`, `QueueBound` | set of requests, prompts, limits, slots, blocks, budget, with preemption |
| `SchedulerImplementsPool` | `PoolSpec`: the scheduler's use of the allocator implements BlockPool | the same |
| `ForwardAlwaysFits` | the batch has at most `TokenBudget` rows and `NSlots` entries; no cursor is ahead by more than a budget | the same |
| `LonePreemptionIsSound` | `StepsAreSound`: the five properties of the next two rows, and the engine thread never crashes | the same, in behaviours where a preemption works only for the first request of a step that takes the whole budget (`PreemptsAlone`) |
| `KvAlwaysIntact`, `CacheTellsTruth`, `BatchAlwaysCurrent` | `KvIntegrity`, `CacheContent`, `BatchIsCurrent` | configuration with `Unshifting` (below), with preemption |
| `SamplesNeverMisrouted`, `StreamsEndOnce` | `SampledParallelsRows`, `TerminalIsLast` | the same |
| `ContextAlwaysFits` | `FitsStepContext` | the same, prompts within the context window |
| `RoomyNeverPreempts` | a pool of `NSlots` full sequences never preempts nor fails a request for want of blocks | the same |
| `GraphCacheIsLru` | `GraphsAreRecent` | capacity, sequence of batches |
| `EveryStepServesItsBatch` | `StepServesBatch` | buffer, block and tile sizes, graph capacity, sequence of batches |
| `AnswersAreWhole` | `WholeAnswer` | number of tokens, interleaving, way to break |
| `StreamsAreWellFormed`, `OutcomesAreTold` | `WellFormed`, `OutcomeIsTold` | request, interleaving, way to end |
| `StreamsReadTheSame` | `StreamEqualsBlocking` | stream of ids of any length, interleaving, way to end |
| `LengthsAgree` | `BackstopIsIdle` | context window, prompt length, `max_tokens` |
| `CallsComplete` | `CallsAreBlocks` | stream of ids of any length |
| `TextIsWhole` | `TextIsDecoding` | stream of ids of any length |
| `AlwaysStops` | `StopsAtEos` | `generation_config`, end-of-turn literals the tokenizer has, request |
| `PromptsReadBack` | `PromptReadsBack` | conversation of any length with any tools and calls, no text with a ChatML marker in it (`Unmarked`) |
| `ChatKeepsDialogue` | `ChatIsDialogue` | chat of any length, with failed turns and resets |
| `LeavesNothingBehind`, `BinaryOutlivesEngine` | `NothingLeftBehind`, `EngineHasItsBinary` | interleaving of the two goroutines, the engine, errors and signals |

The assumptions are those of the modules (`NumBlocksAssumption` and the like:
sizes are numbers, the pool holds a sequence of `MaxCtx` tokens, `NoHash` is no
hash, an answer is a sequence) and these hypotheses. `ChainsAreHashes` says that
every chain of tokens is among the hashes; the scheduler's theorems take it as a
hypothesis and no `ASSUME` states it, because TLC needs a finite set of hashes
and the runs have those of the chains their requests can build. `Hash =
Seq(Token) \ {<<>>}` satisfies it.

`Unmarked(W)`, for some vocabulary `W`, says that no content, tool, call, line
or answer contains `<|im_start|>` or `<|im_end|>`. Render does not escape them,
and a text that contains one is read back as other turns than it was, so the
hypothesis is needed; the texts of `prompt` satisfy it.

`Unshifting` is `TokenBudget = 1`, or `NSlots = 1`, or a roomy pool (`NumBlocks`
at least `NSlots` times the blocks of `MaxCtx`) with prompts no longer than
`MaxCtx`. Some hypothesis of this kind is needed: without it the properties are
false, as `misrouted_sample` shows, because a preemption erases a request from
`running_` while `BuildBatch` walks indices computed before it. Each disjunct is
a way to run the engine (`--slots 1`, a pool as large as its worst case), and
`tight` and `roomy` are instances of it. That prompts fit is what
`resolveMaxTokens` sees to (generate.go:90-94) and `LengthsAgree` proves of the
Go side; the scheduler itself does not check it.

### The inductive invariants

*Allocator.* `AllocInv` is the conjunction of the four properties. None is
inductive alone: that a freed block is pushed once needs the count to be exact,
that the count stays exact when a block is allocated needs the queue to hold only
unreferenced blocks, and that eviction removes the right mapping needs the index
to be the inverse of `blk_hash`. The counting argument rests on two lemmas:
appending an entry to a table adds exactly one member to the references of that
block and none to any other (`AppendRef`), and advancing a FreeMany removes
exactly one (`FreeRef`). The refinement has one lemma per action.

*Scheduler.* `SchedInv` carries `AllocInv` through the scheduler's steps, which
are allocator steps or leave the allocator alone. `Ownership` rests on three
parts: `QueuesApart` (each queue has no request twice, no two share one),
`TablesOwned` (who may own blocks, and what the loops that hand them out rely
on), and `NoneLost`: a submitted request that is in no queue is answered or was
cancelled. For the last, each action that takes a request out of a queue either
puts it into another (`Drain`, `Admit`, `ToRunning`, `Preempt`), or ended its
stream, or saw its cancel flag (`NobodyGoes`), and an answer is never taken back
(`StaysAnswered`).
`CursorBound` and `BatchBound` hold in spite of the design slip described above:
when a preemption shifts `running_` under the visiting order a request may be
batched twice, but its second chunk is no longer than its first, so the rows stay
within the budget and a cursor overruns by at most one budget.

*Scheduler, content.* `LoneInv` adds three groups to `SchedInv`. `StepInv` is
about the step under way: what was batched belongs to requests that still run
and has their cursor and table (`BatchOwned`, `BatchFresh`), the indices not yet
visited mean who they meant when they were computed (`OrderFresh`, as long as
budget is left), the samples not yet taken are those of the entries not yet
applied (`SamplesLeft`). `DataInv` is about blocks: a cursor is behind the
tokens and within the table, a block that is not full has one owner
(`UnfilledIsPrivate`, without which a store would go into somebody else's
prefix), chains match tokens, and `KvIntegrity` and `CacheContent`, which only
hold together: a hit copies what the cache promises into a table, `CacheBlocks`
files what the table holds. `StreamInv` says that a request that does not run
starts from the beginning and none that is queued was ended. All of it is
inductive as long as a preemption is `Lone`: it works for the first request
visited, whose chunk takes the rest of the budget, so that no index computed
before is used after it. `PreemptsAlone` states that as a condition on
behaviours, and `Unshifting` implies it (`UnshiftingInvariant`, from which the
six theorems follow): with one row the first request takes it, with one slot
there is nobody to preempt but the request itself, and a roomy pool is never
dry. The last is a counting argument (`RoomyNeverDry`): were no block free,
every block would be in some table, which gives an injection from the blocks
into slots and columns that misses the column the growing request is about to
fill.

*One call.* `CallInv` says that, unless the call broke, what was pushed is what
the client got, then what is on the wire, then the event the handler holds, then
what is queued (`InFlight`), and that a terminal event is the last one
(`TerminalEnds`). `ServingInv` adds that the client is at `Done` whenever an
answer was called complete. `HttpInv` describes the response in each stage: what
an unfinished stream may contain, and the five ways to end.

*Streamed and blocking.* `ReadInv`: a client that stays has read `Marshal` of
the text so far, streamed, or of the whole text, blocking. A delta ends where a
rune does (`TextInv`), so `json.Marshal` of the pieces is `json.Marshal` of the
whole (`MarshalSplits`, by induction over the runes of the first piece); every
step of Serving is a step of Generator or leaves the generator alone, which
carries the generator's invariants over.

*Text.* `Length` is what `resolveMaxTokens` establishes. `GenInv` says that the
buffered ids are what came after the last marker (`Buffered`) and the number of
calls is the number of blocks. `TextInv` says that text and held-back bytes are
the decoding of the visible ids (`Told`), and that there is a chain of rune starts
from the first byte on that includes the end of every delta (`OnRunes`). The chain
is what makes it inductive: a rune that `takeRunes` has passed is not changed by
bytes that come later (`RuneStays`), so the chain stays and the runes of what
arrives continue it (`EmitRunes`); a chain is contained in the starts of any
decoder of the whole string (`ChainStarts`).

*Model runtime.* `CacheInv`: the entries are the most recently used keys as far
as the cache reaches, and entries and live graphs correspond one to one.
`ServedInv` says that the last batch is packed: there is an accumulated row
count (`Laid`) under which the rows of request `r` start where those of `r - 1`
end, and positions, slots, offsets and rows to sample are those of that layout;
decodes and prefills are listed each once; and the sizes of the launch are those
of the batch or those a graph with the same key was captured with, which is
where `CacheInv` is needed. That each row is worked on by exactly one thread
block then is arithmetic on tiles (`TileOf`). What the buffers hold beyond the
batch, left over from longer ones, is not constrained, as no size reaches there.

*Stop ids.* `StopInv`: the ids the format was loaded with are named by
`generation_config` or known to the tokenizer, there are some if there is any,
and a request has them unless it asked to ignore them.

*Chat.* `ChatInv`: between turns the history is the dialogue, during a turn it is
the dialogue and the question, which `Failed` takes back.

*Prompt.* `PromptInv` says that a request with messages was sent as `Render`
writes them; the rest is what `Render` computes. `Reads` describes a text as
turns with the places where they start and end, and holds of written turns
because each one adds a start, an end and nothing else that could be taken for a
marker (`ReadsMore`); a reader who goes by the markers then finds the same turns
(`ReadsBack`). That `Render` writes the turns `Spoken` lists is an induction
over the messages (`MessageShown`). Its hypothesis has two forms, since inside a
run of tool results the last turn is still open (`InRun`): a run is opened by
its first result, extended by each, closed by the last, and `Min` of what is no
tool result finds the same end.

*Session.* `SessionInv` ties the child and the extracted file to where the two
goroutines are; that the file outlives the engine needs `StopWaited`: nobody gets
to the removal before the child is reaped.

### Recursive definitions

`FlattenSeq`, `InOrder`, `Taken` and `RuneStarts` are recursive functions. The
library's induction theorems take an operator as a parameter, which the provers
cannot instantiate, so SequenceFacts states induction over sets of numbers
(`SetInduction`, from the well-foundedness of `<`) and derives from it that the
recursive definitions have solutions (`FlattensExists`, `ScanExists` for a scan
that jumps forward, `GrowthExists` for one that accumulates). What the
definitions compute follows by unfolding them.

### Only model-checked

- Liveness (`EventuallyAnswered` and the other temporal properties under
  fairness), which this prover cannot reach.
- `PretokenIsRegex`, `BpeIsReference`, `Lossless` and `SpecialsAreWhole`: each
  compares two definitions of different shape, a scan and a backtracking matcher,
  merging by rank and merging by definition, over all inputs, and Tokenizer writes
  them with RECURSIVE operators, from which this prover cannot start.

## Not modelled, and the plan

- GPU kernels: floating-point arithmetic. Which rows and tables they work on is
  in ModelRuntime.
- Weights, model spec, arguments, generated stubs: reading of files, constants,
  flag parsing and generated code, without states worth telling apart. Reading
  and parsing of the tokenizer's files too; what they may hold is a constant.
- Sampling parameters, random numbers, ids and time stamps of responses: passed
  through.
- 64-bit hash collisions: see Scheduler.

Theorems worth proving next: `Lossless` and `SpecialsAreWhole`, after rewriting
the tokenizer's scans as recursive functions.
