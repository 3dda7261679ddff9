----------------------------- MODULE Scheduler -----------------------------
(***************************************************************************)
(* The continuous-batching scheduler (scheduler.h, scheduler.cc) over the  *)
(* paged KV cache.  One engine thread runs Scheduler::Run forever; gRPC    *)
(* handler threads hand requests in (Submit) and set their cancel flags.   *)
(* The engine thread is modelled one loop iteration per step, pc naming    *)
(* the loop it is in.  A Holder of the allocator is a request.             *)
(***************************************************************************)
EXTENDS BlockAllocator

CONSTANTS
    Token,           \* token ids
    StopIds,         \* stop_token_ids of the requests
    Prompt,          \* Prompt[r]: input_ids of request r
    MaxTokens,       \* MaxTokens[r]: max_tokens of request r (0: default)
    DefaultMaxTokens,\* kDefaultMaxTokens
    MaxCtx,          \* max_ctx
    BlockSize,       \* ModelSpec::kKvBlock
    NSlots,          \* n_slots
    MaxWaiting,      \* max_waiting
    TokenBudget,     \* token_budget
    PrefillChunk,    \* prefill_chunk
    UsePrefixCache,  \* settings of use_prefix_cache an engine may start with
    MayCancel        \* requests whose client may go away

Req == Holder

ASSUME RequestAssumption ==
    /\ StopIds \subseteq Token
    /\ Prompt \in [Req -> Seq(Token) \ {<<>>}]
    /\ MaxTokens \in [Req -> Nat]
    /\ DefaultMaxTokens \in Nat \ {0}
    /\ MayCancel \subseteq Req

ASSUME ConfigAssumption ==
    /\ {MaxCtx, BlockSize, NSlots, TokenBudget, PrefillChunk} \subseteq Nat \ {0}
    /\ MaxWaiting \in Nat
    /\ UsePrefixCache \in SUBSET BOOLEAN

(* HashBlock chains the parent's hash with the tokens of a block.  Here a  *)
(* hash is the chained token sequence itself, so distinct prefixes have    *)
(* distinct hashes; the empty sequence is the hash 0 a chain starts from.  *)
ASSUME HashAssumption == NoHash = <<>>

VARIABLES
    submitted,  \* requests whose handler has called Submit
    cancel,     \* GrpcSink::cancel
    caching,    \* cfg_.use_prefix_cache
    sink,       \* events given to the request's OutputSink, in order
    inbound,    \* inbound_, guarded by inbound_mu_
    incoming,   \* Run's local queue
    waiting,    \* waiting_
    running,    \* running_
    req,        \* the generation state of every Request
    pc,         \* the loop the engine thread is in
    at,         \* loop index
    order,      \* BuildBatch: what is left of the visiting order
    budget,     \* BuildBatch: tokens left
    cur,        \* BuildBatch: the request Grow works for, and its n
    batch,      \* CurrentBatch: requests with the rows they emitted
    sampled,    \* CurrentBatch.sampled, from the next index to read
    done,       \* CurrentBatch.finished
    kv          \* what the KV slots contain (KvStore)

queues == <<inbound, incoming, waiting, running>>
build == <<order, budget, cur, batch>>
result == <<sampled, done>>
inputs == <<submitted, cancel, caching>>   \* the engine thread only reads them
vars == <<allocVars, inputs, sink, queues, req, pc, at, build, result, kv>>

-----------------------------------------------------------------------------
(* Request *)

Tokens(r) == Prompt[r] \o req[r].output
NumTokens(r) == Len(Tokens(r))
Remaining(r) == NumTokens(r) - req[r].computed

(* ServiceImpl::Generate clamps max_tokens to the room in the context. *)
MaxNew(r) ==
    LET want == IF MaxTokens[r] > 0 THEN MaxTokens[r] ELSE DefaultMaxTokens
        left == MaxCtx - Len(Prompt[r])
        room == IF left < 1 THEN 1 ELSE left
    IN IF want < room THEN want ELSE room

HitStopToken(out) == out # <<>> /\ Last(out) \in StopIds
IsFinished(r, out) ==
    \/ Len(out) >= MaxNew(r)
    \/ HitStopToken(out)
    \/ Len(Prompt[r]) + Len(out) >= MaxCtx

NewRequest == [output |-> <<>>, computed |-> 0, num_new |-> 0,
               cached_blocks |-> 0, last_hash |-> NoHash]

(* Faulty variant: the cursor is not reset. *)
ResetKeepsComputed(q) == [q EXCEPT !.cached_blocks = 0, !.last_hash = NoHash]

ResetForRecompute(q) ==
    [q EXCEPT !.computed = 0, !.cached_blocks = 0, !.last_hash = NoHash]

AdoptPrefix(q, nb, last) ==
    [q EXCEPT !.computed = nb * BlockSize, !.cached_blocks = nb, !.last_hash = last]

BlocksFor(n) == (n + BlockSize - 1) \div BlockSize

(* KvStore refuses to start with a pool that cannot hold one sequence of   *)
(* max_ctx tokens.                                                         *)
PoolSuffices == NumBlocks >= BlocksFor(MaxCtx)
ASSUME PoolAssumption == PoolSuffices

TokenEvent(t) == [kind |-> "token", token |-> t]

(* Faulty variant: the stop token is counted as a completion token. *)
DoneCountsStop(out) ==
    [kind |-> "done", finish_reason |-> IF HitStopToken(out) THEN "stop" ELSE "length",
     completion_tokens |-> Len(out)]

DoneEvent(out) ==
    [kind |-> "done",
     finish_reason |-> IF HitStopToken(out) THEN "stop" ELSE "length",
     completion_tokens |-> Len(out) - (IF HitStopToken(out) THEN 1 ELSE 0)]
ErrorEvent == [kind |-> "error", code |-> "over_capacity"]

Emit(r, ev) == sink' = [sink EXCEPT ![r] = Append(@, ev)]

-----------------------------------------------------------------------------

Init ==
    /\ AllocInit
    /\ submitted = {}
    /\ cancel = [r \in Req |-> FALSE]
    /\ caching \in UsePrefixCache
    /\ sink = [r \in Req |-> <<>>]
    /\ inbound = <<>> /\ incoming = <<>> /\ waiting = <<>> /\ running = <<>>
    /\ req = [r \in Req |-> NewRequest]
    /\ pc = "drain" /\ at = 1
    /\ order = <<>> /\ budget = 0 /\ cur = <<>> /\ batch = <<>>
    /\ sampled = <<>> /\ done = <<>>
    /\ kv = [b \in Block |-> [i \in 1 .. BlockSize |-> <<>>]]

(* Handler thread: Generate builds the request and calls Submit. *)
Submit(r) ==
    /\ r \notin submitted
    /\ submitted' = submitted \cup {r}
    /\ inbound' = Append(inbound, r)
    /\ UNCHANGED <<allocVars, cancel, caching, sink, incoming, waiting, running, req,
                   pc, at, build, result, kv>>

(* Handler thread: the client is gone, the flag the engine polls is set. *)
Cancel(r) ==
    /\ r \in submitted /\ ~cancel[r]
    /\ cancel' = [cancel EXCEPT ![r] = TRUE]
    /\ UNCHANGED <<allocVars, submitted, caching, sink, queues, req, pc, at, build,
                   result, kv>>

-----------------------------------------------------------------------------
(* Run *)

(* Faulty variant: a request that is only waiting is no reason to step. *)
BusyIfRunning == running # <<>>

Busy == waiting # <<>> \/ running # <<>>

(* Wait for work unless Busy, then swap the inbound queue out. *)
Drain ==
    /\ pc = "drain"
    /\ inbound # <<>> \/ Busy
    /\ incoming' = inbound /\ inbound' = <<>>
    /\ pc' = "admit"
    /\ UNCHANGED <<allocVars, inputs, sink, waiting, running, req, at, build,
                   result, kv>>

(* Faulty variant: off by one. *)
FullLate == MaxWaiting > 0 /\ Len(waiting) > MaxWaiting

Full == MaxWaiting > 0 /\ Len(waiting) >= MaxWaiting

Admit ==
    /\ pc = "admit" /\ incoming # <<>>
    /\ incoming' = Tail(incoming)
    /\ IF Full
         THEN Emit(Head(incoming), ErrorEvent) /\ UNCHANGED waiting
         ELSE waiting' = Append(waiting, Head(incoming)) /\ UNCHANGED sink
    /\ UNCHANGED <<allocVars, inputs, inbound, running, req, pc, at, build,
                   result, kv>>

StartStep ==
    /\ pc = "admit" /\ incoming = <<>>
    /\ pc' = IF Busy THEN "drop_waiting" ELSE "drain"
    /\ UNCHANGED <<allocVars, inputs, sink, queues, req, at, build, result, kv>>

-----------------------------------------------------------------------------
(* Refill *)

(* Free() as the scheduler calls it: its first iteration; FreeMore does    *)
(* the others before the engine thread goes on.                            *)
Release(r) == IF table[r] = <<>> THEN UNCHANGED allocVars ELSE FreeOne(r)

FreeMore ==
    /\ \E r \in Req : freed[r] > 0 /\ FreeOne(r)
    /\ UNCHANGED <<inputs, sink, queues, req, pc, at, build, result, kv>>

(* drop_cancelled(queue), one element per step. *)
DropWaiting ==
    /\ pc = "drop_waiting" /\ NoFreeRunning
    /\ \/ /\ at <= Len(waiting) /\ cancel[waiting[at]]
          /\ Release(waiting[at])
          /\ waiting' = RemoveAt(waiting, at)
          /\ UNCHANGED <<pc, at>>
       \/ /\ at <= Len(waiting) /\ ~cancel[waiting[at]]
          /\ at' = at + 1
          /\ UNCHANGED <<allocVars, waiting, pc>>
       \/ /\ at > Len(waiting)
          /\ pc' = "drop_running" /\ at' = 1
          /\ UNCHANGED <<allocVars, waiting>>
    /\ UNCHANGED <<inputs, sink, inbound, incoming, running, req, build,
                   result, kv>>

DropRunning ==
    /\ pc = "drop_running" /\ NoFreeRunning
    /\ \/ /\ at <= Len(running) /\ cancel[running[at]]
          /\ Release(running[at])
          /\ running' = RemoveAt(running, at)
          /\ UNCHANGED <<pc, at>>
       \/ /\ at <= Len(running) /\ ~cancel[running[at]]
          /\ at' = at + 1
          /\ UNCHANGED <<allocVars, running, pc>>
       \/ /\ at > Len(running)
          /\ pc' = "fill" /\ at' = 1
          /\ UNCHANGED <<allocVars, running>>
    /\ UNCHANGED <<inputs, sink, inbound, incoming, waiting, req, build,
                   result, kv>>

(* Hash of the first nb blocks of r, chained from 0. *)
PrefixHash(r, nb) == SubSeq(Tokens(r), 1, nb * BlockSize)

MayFill == Len(running) < NSlots /\ waiting # <<>>

ToRunning ==
    /\ running' = Append(running, Head(waiting))
    /\ waiting' = Tail(waiting)

(* The front request needs no prefix lookup (or the cache is off). *)
Fill ==
    /\ pc = "fill" /\ MayFill
    /\ IF table[Head(waiting)] = <<>> /\ caching
         THEN pc' = "acquire" /\ UNCHANGED <<waiting, running>>
         ELSE ToRunning /\ UNCHANGED pc
    /\ UNCHANGED <<allocVars, inputs, sink, inbound, incoming, req, at, build,
                   result, kv>>

(* AcquirePrefix: its loop variable n_blocks is the length of the table,   *)
(* which was empty.  The block of the last token is never taken from the   *)
(* cache.                                                                  *)
NextPrefix(r) == PrefixHash(r, Len(table[r]) + 1)

(* Faulty variant: the block of the last token may come from the cache. *)
PrefixHitWhole(r) ==
    /\ Len(table[r]) < NumTokens(r) \div BlockSize
    /\ NextPrefix(r) \in DOMAIN cached

PrefixHit(r) ==
    /\ Len(table[r]) < (NumTokens(r) - 1) \div BlockSize
    /\ NextPrefix(r) \in DOMAIN cached

AcquireHit ==
    /\ pc = "acquire" /\ PrefixHit(Head(waiting))
    /\ CacheLookup(Head(waiting), NextPrefix(Head(waiting)))
    /\ UNCHANGED <<inputs, sink, queues, req, pc, at, build, result, kv>>

AcquireEnd ==
    /\ pc = "acquire"
    /\ LET r == Head(waiting)
           nb == Len(table[r])
       IN /\ ~PrefixHit(r)
          /\ req' = IF nb > 0
                      THEN [req EXCEPT ![r] = AdoptPrefix(@, nb, PrefixHash(r, nb))]
                      ELSE req
    /\ ToRunning
    /\ pc' = "fill"
    /\ UNCHANGED <<allocVars, inputs, sink, inbound, incoming, at, build,
                   result, kv>>

FillEnd ==
    /\ pc = "fill" /\ ~MayFill
    /\ pc' = "build"
    /\ UNCHANGED <<allocVars, inputs, sink, queues, req, at, build, result, kv>>

-----------------------------------------------------------------------------
(* BuildBatch *)

(* stable_sort of the indices of running_ by Remaining(): there is exactly *)
(* one such order.                                                         *)
StableOrders ==
    LET N == 1 .. Len(running)
        Before(i, j) ==
            \/ Remaining(running[i]) < Remaining(running[j])
            \/ Remaining(running[i]) = Remaining(running[j]) /\ i < j
    IN {o \in [N -> N] : \A i, j \in N : i < j => Before(o[i], o[j])}

StartBuild ==
    /\ pc = "build" /\ NoFreeRunning
    /\ batch' = <<>>
    /\ order' \in StableOrders
    /\ budget' = TokenBudget
    /\ pc' = "pick"
    /\ UNCHANGED <<allocVars, inputs, sink, queues, req, at, cur, result, kv>>

AtMost(a, b) == IF a < b THEN a ELSE b

(* Faulty variant: a chunk is not cut to the budget that is left. *)
ChunkUncut(r) == AtMost(Remaining(r), PrefillChunk)

(* The rows request r gets: a decode gets one, a prefill a chunk. *)
ChunkFor(r) ==
    LET n == AtMost(Remaining(r), budget)
    IN IF Remaining(r) > 1 THEN AtMost(n, PrefillChunk) ELSE n

Picking == pc = "pick" /\ order # <<>> /\ budget > 0

(* The next index of the order names a request that has rows to compute. *)
Pick ==
    /\ Picking /\ Head(order) <= Len(running)
    /\ LET r == running[Head(order)]
       IN IF Remaining(r) <= 0
            THEN UNCHANGED <<cur, pc>>
            ELSE cur' = <<r, ChunkFor(r)>> /\ pc' = "grow"
    /\ order' = Tail(order)
    /\ UNCHANGED <<allocVars, inputs, sink, queues, req, at, budget, batch,
                   result, kv>>

(* The process is gone: nothing of the engine thread runs any more. *)
Crash ==
    /\ pc' = "crash"
    /\ UNCHANGED <<allocVars, inputs, sink, queues, req, at, build, result, kv>>

(* running_ has become shorter than the index: running_[idx] is the null   *)
(* that the moved-from unique_ptr left in the vector's storage.            *)
PickStale ==
    /\ Picking /\ Head(order) > Len(running)
    /\ Crash

PickEnd ==
    /\ pc = "pick" /\ (order = <<>> \/ budget <= 0)
    /\ order' = <<>> /\ budget' = 0
    /\ pc' = IF batch = <<>> THEN "drain" ELSE "forward"
    /\ UNCHANGED <<allocVars, inputs, sink, queues, req, at, cur, batch,
                   result, kv>>

(* Scheduler::Grow for the picked request. *)
Growing == pc = "grow" /\ NoFreeRunning
Covered == Len(table[cur[1]]) >= BlocksFor(req[cur[1]].computed + cur[2])
Others == {k \in DOMAIN running : running[k] # cur[1]}

GrowAlloc ==
    /\ Growing /\ ~Covered
    /\ AllocOne(cur[1])
    /\ UNCHANGED <<inputs, sink, queues, req, pc, at, build, result, kv>>

(* Faulty variant: the victim is erased and not put back. *)
PreemptLoses ==
    /\ Growing /\ ~Covered /\ free_lru = <<>>
    /\ Others # {}
    /\ LET k == Max(Others)
       IN /\ Release(running[k])
          /\ req' = [req EXCEPT ![running[k]] = ResetForRecompute(@)]
          /\ running' = RemoveAt(running, k)
    /\ UNCHANGED <<inputs, sink, inbound, incoming, waiting, pc, at, build, result, kv>>

(* The pool is dry: the last request of running_ other than the growing    *)
(* one loses its blocks and goes back to the front of waiting_.            *)
Preempt ==
    /\ Growing /\ ~Covered /\ free_lru = <<>>
    /\ Others # {}
    /\ LET k == Max(Others)
           v == running[k]
       IN /\ Release(v)
          /\ req' = [req EXCEPT ![v] = ResetForRecompute(@)]
          /\ waiting' = <<v>> \o waiting
          /\ running' = RemoveAt(running, k)
    /\ UNCHANGED <<inputs, sink, inbound, incoming, pc, at, build, result, kv>>

(* Nobody is left to preempt: the request fails and the build restarts. *)
GrowFail ==
    /\ Growing /\ ~Covered /\ free_lru = <<>>
    /\ Others = {}
    /\ Emit(cur[1], ErrorEvent)
    /\ Release(cur[1])
    /\ running' = RemoveFirst(running, cur[1])
    /\ cur' = <<>> /\ order' = <<>> /\ budget' = 0 /\ batch' = <<>>
    /\ pc' = "build"
    /\ UNCHANGED <<inputs, inbound, incoming, waiting, req, at, result, kv>>

(* Faulty variant: off by one. *)
SamplesEarly(r, n) == req[r].computed + n + 1 = NumTokens(r)

(* EmitChunk asks for a sample if the chunk reaches the last token. *)
Samples(r, n) == req[r].computed + n = NumTokens(r)

(* AddRequest and EmitChunk: the rows keep a copy of the block table. *)
AddRequest ==
    /\ Growing /\ Covered
    /\ LET r == cur[1]
           n == cur[2]
       IN /\ batch' = Append(batch,
                         [r |-> r, start |-> req[r].computed, n |-> n,
                          blocks |-> table[r], sample |-> Samples(r, n)])
          /\ req' = [req EXCEPT ![r].num_new = n]
          /\ budget' = budget - n
    /\ cur' = <<>>
    /\ pc' = "pick"
    /\ UNCHANGED <<allocVars, inputs, sink, queues, at, order, result, kv>>

-----------------------------------------------------------------------------
(* Step, after the batch is built *)

(* Where row p of a batch entry stores its K and V. *)
Rows(e) == e.start .. e.start + e.n - 1
Slot(blocks, p) == <<blocks[p \div BlockSize + 1], (p % BlockSize) + 1>>

(* What one forward stores into a slot: the content a row computes stands  *)
(* for the token prefix it was computed from.                              *)
Stores(slot) ==
    UNION {{SubSeq(Tokens(e.r), 1, p + 1) : p \in {q \in Rows(e) : Slot(e.blocks, q) = slot}}
              : e \in ToSet(batch)}

RowCount == Cardinality({i \in DOMAIN batch : batch[i].sample})

(* model_.Forward() and the first loop of Apply(). *)
Forward ==
    /\ pc = "forward"
    /\ \E s \in [1 .. RowCount -> Token] : sampled' = s
    /\ kv' = [b \in Block |-> [i \in 1 .. BlockSize |->
                 LET w == Stores(<<b, i>>)
                 IN IF w = {} THEN kv[b][i]
                    ELSE IF Cardinality(w) = 1 THEN CHOOSE c \in w : TRUE
                    ELSE <<>>]]
    /\ req' = [r \in Req |->
                 [req[r] EXCEPT !.computed = @ + req[r].num_new *
                     Cardinality({i \in DOMAIN batch : batch[i].r = r})]]
    /\ pc' = "apply" /\ at' = 1
    /\ UNCHANGED <<allocVars, inputs, sink, queues, build, done>>

(* AcceptSampled() of token t, the second loop of Apply(). *)
Accept(r, t) ==
    LET out == Append(req[r].output, t)
    IN /\ req' = [req EXCEPT ![r].output = out]
       /\ IF IsFinished(r, out)
            THEN /\ sink' = [sink EXCEPT ![r] = @ \o <<TokenEvent(t), DoneEvent(out)>>]
                 /\ done' = Append(done, r)
            ELSE Emit(r, TokenEvent(t)) /\ UNCHANGED done

Apply ==
    /\ pc = "apply" /\ at <= Len(batch)
    /\ LET r == batch[at].r
       IN IF Remaining(r) # 0
            THEN UNCHANGED <<req, sink, sampled, done>>
            ELSE /\ sampled # <<>>
                 /\ Accept(r, Head(sampled))
                 /\ sampled' = Tail(sampled)
    /\ at' = at + 1
    /\ UNCHANGED <<allocVars, inputs, queues, pc, build, kv>>

(* sampled[s++] past the end: the read of an empty vector faults, one past *)
(* a non-empty vector yields whatever is there.                            *)
ApplyPastEnd ==
    /\ pc = "apply" /\ at <= Len(batch)
    /\ Remaining(batch[at].r) = 0 /\ sampled = <<>>
    /\ \/ Crash
       \/ /\ RowCount > 0
          /\ \E t \in Token : Accept(batch[at].r, t)
          /\ at' = at + 1
          /\ UNCHANGED <<allocVars, inputs, queues, pc, build, sampled, kv>>

ApplyEnd ==
    /\ pc = "apply" /\ at > Len(batch)
    /\ sampled' = <<>>
    /\ pc' = IF caching THEN "cache" ELSE "retire"
    /\ at' = 1
    /\ UNCHANGED <<allocVars, inputs, sink, queues, req, build, done, kv>>

(* CacheBlocks: the next full block of the batch's request is inserted     *)
(* under the chained hash.  A table cleared since the rows were emitted    *)
(* still has its old ids in its storage; a token index past the end of a   *)
(* non-empty output_ reads junk.                                           *)
HashBlock(parent, r, start, junk) ==
    parent \o SubSeq(Tokens(r) \o [i \in 1 .. TokenBudget |-> junk],
                     start + 1, start + BlockSize)

(* Faulty variant: a block that is only partly computed counts as full. *)
UncachedPartly ==
    req[batch[at].r].cached_blocks < BlocksFor(req[batch[at].r].computed)

Uncached == req[batch[at].r].cached_blocks < req[batch[at].r].computed \div BlockSize

(* bt[idx] past the storage is a junk block id, and an empty output_ has   *)
(* no storage to read a token from.                                        *)
ReadsPastEnd ==
    LET r == batch[at].r
        idx == req[r].cached_blocks
    IN \/ idx >= Max({Len(table[r]), Len(batch[at].blocks)})
       \/ req[r].output = <<>> /\ (idx + 1) * BlockSize > NumTokens(r)

CacheBlock ==
    /\ pc = "cache" /\ at <= Len(batch) /\ Uncached /\ ~ReadsPastEnd
    /\ LET r == batch[at].r
           idx == req[r].cached_blocks
           bt == IF idx < Len(table[r]) THEN table[r] ELSE batch[at].blocks
       IN \E junk \in Token :
             LET h == HashBlock(req[r].last_hash, r, idx * BlockSize, junk)
             IN /\ CacheInsert(bt[idx + 1], h)
                /\ req' = [req EXCEPT ![r].cached_blocks = idx + 1,
                                      ![r].last_hash = h]
    /\ UNCHANGED <<inputs, sink, queues, pc, at, build, result, kv>>

CacheBlockPastEnd ==
    /\ pc = "cache" /\ at <= Len(batch) /\ Uncached /\ ReadsPastEnd
    /\ Crash

CacheNext ==
    /\ pc = "cache" /\ at <= Len(batch) /\ ~Uncached
    /\ req' = [req EXCEPT ![batch[at].r].cached_blocks = req[batch[at].r].computed \div BlockSize]
    /\ at' = at + 1
    /\ UNCHANGED <<allocVars, inputs, sink, queues, pc, build, result, kv>>

CacheEnd ==
    /\ pc = "cache" /\ at > Len(batch)
    /\ pc' = "retire" /\ at' = 1
    /\ UNCHANGED <<allocVars, inputs, sink, queues, req, build, result, kv>>

(* Retire: the request is released and destroyed if running_ owns it. *)
Retire ==
    /\ pc = "retire" /\ done # <<>> /\ NoFreeRunning
    /\ Release(Head(done))
    /\ running' = RemoveFirst(running, Head(done))
    /\ done' = Tail(done)
    /\ UNCHANGED <<inputs, sink, inbound, incoming, waiting, req, pc, at, build,
                   sampled, kv>>

StepEnd ==
    /\ pc = "retire" /\ done = <<>> /\ NoFreeRunning
    /\ batch' = <<>>
    /\ pc' = "drain" /\ at' = 1
    /\ UNCHANGED <<allocVars, inputs, sink, queues, req, order, budget, cur,
                   result, kv>>

-----------------------------------------------------------------------------

Engine ==
    \/ Drain \/ Admit \/ StartStep
    \/ FreeMore \/ DropWaiting \/ DropRunning
    \/ Fill \/ AcquireHit \/ AcquireEnd \/ FillEnd
    \/ StartBuild \/ Pick \/ PickStale \/ PickEnd
    \/ GrowAlloc \/ Preempt \/ GrowFail \/ AddRequest
    \/ Forward \/ Apply \/ ApplyPastEnd \/ ApplyEnd
    \/ CacheBlock \/ CacheBlockPastEnd \/ CacheNext \/ CacheEnd
    \/ Retire \/ StepEnd

Next ==
    \/ \E r \in Req : Submit(r)
    \/ \E r \in MayCancel : Cancel(r)
    \/ Engine

Spec == Init /\ [][Next]_vars /\ WF_vars(Engine)

-----------------------------------------------------------------------------
(* Properties *)

Terminal(ev) == ev.kind \in {"done", "error"}
Answered(r) == \E i \in DOMAIN sink[r] : Terminal(sink[r][i])
Queued == ToSet(inbound) \cup ToSet(incoming) \cup ToSet(waiting) \cup ToSet(running)

(* No request is lost: one that was submitted is answered, was given up by *)
(* its client, or is in one of the queues; and it is in one place of one   *)
(* queue only, whichever moves between inbound_, incoming, waiting_ and    *)
(* running_ were made.  And the blocks of the pool belong to running       *)
(* requests only (and to the one that is being admitted): preempting,      *)
(* dropping, failing or retiring a request gives back all it held.         *)
Ownership ==
    LET all == inbound \o incoming \o waiting \o running
    IN /\ \A r \in submitted : Answered(r) \/ cancel[r] \/ r \in Queued
       /\ \A i, j \in DOMAIN all : all[i] = all[j] => i = j
       /\ \A r \in Req : table[r] # <<>> =>
             \/ r \in ToSet(running)
             \/ pc = "acquire" /\ r = Head(waiting)
             \/ freed[r] > 0

(* n_slots and max_waiting bound what the engine keeps, whatever arrives,  *)
(* is cancelled, admitted and retired between two looks at the inbox.      *)
QueueBound ==
    /\ Len(running) <= NSlots
    /\ MaxWaiting > 0 => Len(waiting) + Len(running) <= MaxWaiting + NSlots

(* A request's computed cursor never runs ahead of its KV: every position  *)
(* below it is stored, in the request's own table, and was computed from   *)
(* the request's own tokens.                                               *)
KvIntegrity ==
    \A r \in ToSet(running) : \A p \in 0 .. req[r].computed - 1 :
        /\ p \div BlockSize < Len(table[r])
        /\ LET s == Slot(table[r], p)
           IN kv[s[1]][s[2]] = SubSeq(Tokens(r), 1, p + 1)

(* The content hash tells the truth: a block a lookup can return holds the *)
(* KV of exactly the token chain it is indexed under.                      *)
CacheContent ==
    \A k \in DOMAIN cached : \A i \in 1 .. BlockSize :
        kv[cached[k]][i] = SubSeq(k, 1, Len(k) - BlockSize + i)

(* What the batch was told when its rows were emitted still holds when the *)
(* forward runs: each request is in it once, still runs, still owns the    *)
(* blocks the rows name, and no two rows store into one slot.              *)
BatchIsCurrent ==
    pc = "forward" =>
        /\ \A i \in DOMAIN batch :
              LET e == batch[i]
              IN /\ e.r \in ToSet(running)
                 /\ e.start = req[e.r].computed
                 /\ e.blocks = table[e.r]
        /\ \A i, j \in DOMAIN batch : \A p \in Rows(batch[i]), q \in Rows(batch[j]) :
              Slot(batch[i].blocks, p) = Slot(batch[j].blocks, q) => i = j /\ p = q

(* sampled[] parallels the rows that asked for a sample: when Apply comes  *)
(* to an entry, the next unread sample is the one of that entry's row, and *)
(* a request takes a sample exactly if its rows asked for one.             *)
SampledParallelsRows ==
    pc = "apply" =>
        /\ Len(sampled) = Cardinality({i \in at .. Len(batch) : batch[i].sample})
        /\ at <= Len(batch) => (Remaining(batch[at].r) = 0 <=> batch[at].sample)

(* A request that takes a sample takes the one of its own row. *)
SampleIsOwn ==
    pc = "apply" /\ at <= Len(batch) /\ Remaining(batch[at].r) = 0 /\ sampled # <<>> =>
        /\ batch[at].sample
        /\ Len(sampled) = Cardinality({i \in at .. Len(batch) : batch[i].sample})

(* The merged forward fits the buffers StepContext was sized with, and     *)
(* every position has its rope row: rows, requests, samples and table      *)
(* columns, whatever mix of chunks, decodes and resumed requests it packs. *)
FitsStepContext ==
    pc = "forward" =>
        /\ Cardinality(UNION {{i} \X Rows(batch[i]) : i \in DOMAIN batch}) <= TokenBudget
        /\ Len(batch) <= NSlots
        /\ \A i \in DOMAIN batch :
              /\ Len(batch[i].blocks) <= BlocksFor(MaxCtx)
              /\ batch[i].start + batch[i].n <= MaxCtx

(* Done or Error is the last event of a stream, there is one of them at    *)
(* most, and the token count it reports is the number of tokens streamed   *)
(* before it (without the stop token), preempted and resumed or not.       *)
TerminalIsLast ==
    \A r \in Req : \A i \in DOMAIN sink[r] :
        Terminal(sink[r][i]) =>
            /\ i = Len(sink[r])
            /\ sink[r][i].kind = "done" =>
                  sink[r][i].completion_tokens =
                     Cardinality({j \in 1 .. i - 1 : sink[r][j].token \notin StopIds})

(* Every submitted request is answered or its client went away: none is    *)
(* starved by preemption, by shorter requests or by a lost wakeup.         *)
EventuallyAnswered ==
    \A r \in Req : (r \in submitted) ~> (Answered(r) \/ cancel[r])

(* A cancelled request leaves the engine and its blocks are given back.    *)
CancelledIsDropped ==
    \A r \in Req : cancel[r] ~> (r \notin Queued /\ table[r] = <<>>)
=============================================================================
