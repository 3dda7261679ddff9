-------------------------- MODULE SchedulerProofs --------------------------
(***************************************************************************)
(* What the scheduler guarantees for every set of requests, every          *)
(* configuration and every interleaving of handler threads and engine      *)
(* thread, preemption included: its use of the allocator implements the    *)
(* block pool, no request is lost or has two owners, the queues are        *)
(* bounded, and the merged forward fits the buffers it was sized for.      *)
(*                                                                         *)
(* And what it guarantees where a preemption cannot shift the indices of   *)
(* running_ that the visiting order still holds: the KV of a request, the  *)
(* cache, the batch, the samples and the streams are right, and no read    *)
(* goes past an end.                                                       *)
(***************************************************************************)
EXTENDS Scheduler, BlockAllocatorProofs

-----------------------------------------------------------------------------
(* The inductive invariant *)

(* What Request, the entries of CurrentBatch and the locals of BuildBatch  *)
(* may contain.                                                            *)
RequestType == [output : Seq(Token), computed : Nat, num_new : Nat,
                cached_blocks : Nat, last_hash : Seq(Token)]
EntryType == [r : Req, start : Nat, n : Nat, blocks : Seq(Block), sample : BOOLEAN]
Loops == {"drain", "admit", "drop_waiting", "drop_running", "fill", "acquire", "build",
          "pick", "grow", "forward", "apply", "cache", "retire", "crash"}

SchedTypeOK ==
    /\ submitted \in SUBSET Req
    /\ caching \in BOOLEAN
    /\ inbound \in Seq(Req) /\ incoming \in Seq(Req)
    /\ waiting \in Seq(Req) /\ running \in Seq(Req)
    /\ req \in [Req -> RequestType]
    /\ pc \in Loops
    /\ at \in Nat \ {0}
    /\ order \in Seq(Nat \ {0}) /\ budget \in Nat
    /\ pc = "grow" => cur \in Req \X (Nat \ {0})
    /\ batch \in Seq(EntryType)
    /\ sampled \in Seq(Token) /\ done \in Seq(Req)

(* A request is in one place of one queue, and was submitted. *)
QueuesApart ==
    /\ Distinct(inbound) /\ Distinct(incoming) /\ Distinct(waiting) /\ Distinct(running)
    /\ ToSet(inbound) \cap ToSet(incoming) = {}
    /\ ToSet(inbound) \cap ToSet(waiting) = {}
    /\ ToSet(inbound) \cap ToSet(running) = {}
    /\ ToSet(incoming) \cap ToSet(waiting) = {}
    /\ ToSet(incoming) \cap ToSet(running) = {}
    /\ ToSet(waiting) \cap ToSet(running) = {}
    /\ ToSet(inbound) \cup ToSet(incoming) \cup ToSet(waiting) \cup ToSet(running)
          \subseteq submitted

(* Who may own blocks, and what the loops that hand blocks out rely on. *)
TablesOwned ==
    /\ \A r \in Req : table[r] # <<>> =>
          \/ r \in ToSet(running)
          \/ pc = "acquire" /\ r = Head(waiting)
          \/ freed[r] > 0
    /\ pc = "acquire" =>
          /\ waiting # <<>> /\ Len(running) < NSlots
          /\ Len(table[Head(waiting)]) <= (NumTokens(Head(waiting)) - 1) \div BlockSize
    /\ pc = "grow" => cur[1] \in ToSet(running)

(* How many rows the batch that is being built may already have. *)
Entries(r) == {i \in DOMAIN batch : batch[i].r = r}
Building == pc \in {"pick", "grow", "forward"}
BatchRows == UNION {{i} \X Rows(batch[i]) : i \in DOMAIN batch}

(* A request's cursor may run past its tokens, when preemption shifts the  *)
(* indices of running_ and a request is emitted twice, but never by more   *)
(* than the budget of one step: a second chunk of a request is no longer   *)
(* than its first.                                                         *)
CursorBound ==
    /\ \A r \in Req : req[r].computed <= NumTokens(r) + TokenBudget
    /\ Building => \A r \in Req : Entries(r) # {} =>
          /\ req[r].computed <= NumTokens(r)
          /\ budget + req[r].num_new * Cardinality(Entries(r)) <= TokenBudget
    /\ pc \in {"pick", "grow"} =>
          \A r \in ToSet(running) : Entries(r) # {} => ChunkFor(r) <= req[r].num_new
    /\ pc = "grow" => /\ Remaining(cur[1]) > 0
                      /\ cur[2] = ChunkFor(cur[1])

(* Rows, requests and slots of the batch under construction. *)
BatchBound ==
    Building =>
        /\ IsFiniteSet(BatchRows)
        /\ budget + Cardinality(BatchRows) <= TokenBudget
        /\ Len(batch) + Len(order) + (IF pc = "grow" THEN 1 ELSE 0) <= NSlots

SchedInv ==
    /\ AllocInv
    /\ SchedTypeOK
    /\ QueuesApart
    /\ QueueBound
    /\ TablesOwned
    /\ CursorBound
    /\ BatchBound
-----------------------------------------------------------------------------
(* The queues *)

QueueTypes ==
    /\ submitted \in SUBSET Req
    /\ inbound \in Seq(Req) /\ incoming \in Seq(Req)
    /\ waiting \in Seq(Req) /\ running \in Seq(Req)

QueueInv == QueueTypes /\ QueuesApart /\ QueueBound

(* The victim of a preemption is in running_, and is not the request that  *)
(* grows: running_ holds that one only once.                               *)
LEMMA VictimRuns ==
    ASSUME QueueInv, Others # {}
    PROVE  /\ Max(Others) \in 1 .. Len(running)
           /\ running[Max(Others)] # cur[1]
  <1> DEFINE n == Len(running)
  <1>1. n \in Nat /\ DOMAIN running = 1 .. n
    BY DEF QueueInv, QueueTypes
  <1> HIDE DEF n
  <1>2. \E k \in Others : \A j \in Others : k >= j
    <2>1. PICK k \in 1 .. n : running[k] # cur[1]
      BY <1>1 DEF Others
    <2>2. CASE running[n] # cur[1]
      <3>1. n \in Others /\ \A j \in Others : n >= j
        BY <2>1, <2>2, <1>1 DEF Others
      <3> QED BY <3>1
    <2>3. CASE running[n] = cur[1]
      <3>1. n \in 1 .. n /\ n - 1 \in 1 .. n
        BY <2>1, <2>3, <1>1
      <3>2. Distinct(running)
        BY DEF QueueInv, QueuesApart
      <3>3. \A j \in 1 .. n : running[j] = cur[1] => j = n
        BY <3>1, <3>2, <2>3, <1>1 DEF Distinct
      <3>4. n - 1 \in Others
        BY <3>1, <3>3, <1>1 DEF Others
      <3>5. \A j \in Others : n - 1 >= j
        BY <3>1, <2>3, <1>1 DEF Others
      <3> QED BY <3>4, <3>5
    <2> QED BY <2>2, <2>3
  <1>3. Max(Others) \in Others
    BY <1>2 DEF Max
  <1> QED BY <1>1, <1>3 DEF Others

(* Every step moves a request from one queue to the end or the front of    *)
(* another, drops it, or leaves the queues alone.                          *)
LEMMA QueueStep ==
    ASSUME SchedTypeOK, QueueInv, TablesOwned, [Next]_vars
    PROVE  QueueInv'
  <1> USE DEF QueueInv, QueueTypes
  <1>0. NSlots \in Nat /\ MaxWaiting \in Nat
    BY ConfigAssumption
  <1>1. ASSUME NEW r \in Req, Submit(r) PROVE QueueInv'
    <2>1. /\ r \notin submitted /\ submitted' = submitted \cup {r}
          /\ inbound' = Append(inbound, r)
          /\ incoming' = incoming /\ waiting' = waiting /\ running' = running
      BY <1>1 DEF Submit
    <2>2. /\ inbound' \in Seq(Req) /\ Distinct(inbound')
          /\ ToSet(inbound') = ToSet(inbound) \cup {r}
      <3>1. r \notin ToSet(inbound)
        BY <2>1 DEF QueuesApart
      <3> QED BY <3>1, <2>1, AppendQueue DEF QueuesApart
    <2>3. QueuesApart'
      BY <2>1, <2>2 DEF QueuesApart
    <2> QED BY <2>1, <2>2, <2>3 DEF QueueBound
  <1>2. ASSUME Drain PROVE QueueInv'
    <2>1. /\ submitted' = submitted /\ inbound' = <<>> /\ incoming' = inbound
          /\ waiting' = waiting /\ running' = running
      BY <1>2 DEF Drain, inputs
    <2>2. ToSet(inbound') = {} /\ Distinct(inbound') /\ inbound' \in Seq(Req)
      BY <2>1 DEF ToSet, Distinct
    <2>3. QueuesApart'
      BY <2>1, <2>2 DEF QueuesApart
    <2> QED BY <2>1, <2>2, <2>3 DEF QueueBound
  <1>3. ASSUME Admit PROVE QueueInv'
    <2>1. /\ submitted' = submitted /\ inbound' = inbound /\ running' = running
          /\ incoming # <<>> /\ incoming' = Tail(incoming)
          /\ \/ waiting' = waiting
             \/ ~Full /\ waiting' = Append(waiting, Head(incoming))
      BY <1>3 DEF Admit, inputs
    <2>2. /\ Head(incoming) \in Req /\ Head(incoming) \in ToSet(incoming)
          /\ incoming' \in Seq(Req) /\ Distinct(incoming')
          /\ ToSet(incoming') = ToSet(incoming) \ {Head(incoming)}
      BY <2>1, TailQueue DEF QueuesApart
    <2>3. CASE waiting' = waiting
      <3>1. QueuesApart'
        BY <2>1, <2>2, <2>3 DEF QueuesApart
      <3> QED BY <3>1, <2>1, <2>2, <2>3 DEF QueueBound
    <2>4. CASE ~Full /\ waiting' = Append(waiting, Head(incoming))
      <3>1. Head(incoming) \notin ToSet(waiting)
        BY <2>2 DEF QueuesApart
      <3>2. /\ waiting' \in Seq(Req) /\ Distinct(waiting')
            /\ Len(waiting') = Len(waiting) + 1
            /\ ToSet(waiting') = ToSet(waiting) \cup {Head(incoming)}
        BY <3>1, <2>2, <2>4, AppendQueue DEF QueuesApart
      <3>3. QueuesApart'
        BY <3>2, <2>1, <2>2 DEF QueuesApart
      <3>4. QueueBound'
        <4>1. Len(waiting) \in Nat /\ Len(running) \in Nat
          OBVIOUS
        <4>2. MaxWaiting > 0 => Len(waiting) < MaxWaiting
          BY <2>4, <4>1, <1>0 DEF Full
        <4> QED BY <4>1, <4>2, <3>2, <2>1, <1>0 DEF QueueBound
      <3> QED BY <3>2, <3>3, <3>4, <2>1, <2>2
    <2> QED BY <2>1, <2>3, <2>4
  <1>4. ASSUME DropWaiting, waiting' # waiting PROVE QueueInv'
    <2>1. /\ submitted' = submitted /\ inbound' = inbound /\ incoming' = incoming
          /\ running' = running
          /\ at <= Len(waiting) /\ waiting' = RemoveAt(waiting, at)
      BY <1>4 DEF DropWaiting, inputs
    <2>2. at \in 1 .. Len(waiting)
      BY <2>1 DEF SchedTypeOK
    <2>3. /\ waiting' \in Seq(Req) /\ Distinct(waiting') /\ Len(waiting') = Len(waiting) - 1
          /\ ToSet(waiting') \subseteq ToSet(waiting)
      BY <2>1, <2>2, EraseQueue DEF QueuesApart
    <2>4. QueuesApart'
      BY <2>1, <2>3 DEF QueuesApart
    <2>5. QueueBound'
      BY <2>1, <2>3, <1>0 DEF QueueBound
    <2> QED BY <2>1, <2>3, <2>4, <2>5
  <1>5. ASSUME NEW s \in Seq(Req), Distinct(s), ToSet(s) \subseteq ToSet(running),
               Len(s) <= Len(running), running' = s,
               UNCHANGED <<submitted, inbound, incoming, waiting>>
        PROVE  QueueInv'
    <2>1. QueuesApart'
      BY <1>5 DEF QueuesApart
    <2>2. QueueBound'
      BY <1>5, <1>0 DEF QueueBound
    <2> QED BY <1>5, <2>1, <2>2
  <1>6. ASSUME DropRunning, running' # running PROVE QueueInv'
    <2>1. /\ UNCHANGED <<submitted, inbound, incoming, waiting>>
          /\ at <= Len(running) /\ running' = RemoveAt(running, at)
      BY <1>6 DEF DropRunning, inputs
    <2>2. at \in 1 .. Len(running)
      BY <2>1 DEF SchedTypeOK
    <2>3. /\ running' \in Seq(Req) /\ Distinct(running') /\ Len(running') <= Len(running)
          /\ ToSet(running') \subseteq ToSet(running)
      BY <2>1, <2>2, EraseQueue DEF QueuesApart
    <2> QED BY <2>1, <2>3, <1>5
  <1>7. ASSUME NEW r, running' = RemoveFirst(running, r),
               UNCHANGED <<submitted, inbound, incoming, waiting>>
        PROVE  QueueInv'
    <2>1. /\ running' \in Seq(Req) /\ Distinct(running') /\ Len(running') <= Len(running)
          /\ ToSet(running') \subseteq ToSet(running)
      BY <1>7, RemoveFirstQueue DEF QueuesApart
    <2> QED BY <2>1, <1>5, <1>7
  <1>8. ASSUME GrowFail PROVE QueueInv'
    BY <1>7, <1>8 DEF GrowFail, inputs
  <1>9. ASSUME Retire PROVE QueueInv'
    BY <1>7, <1>9 DEF Retire, inputs
  <1>10. ASSUME ToRunning, MayFill, UNCHANGED <<submitted, inbound, incoming>>
         PROVE  QueueInv'
    <2>1. /\ waiting # <<>> /\ waiting' = Tail(waiting)
          /\ running' = Append(running, Head(waiting)) /\ Len(running) < NSlots
      BY <1>10 DEF ToRunning, MayFill
    <2>2. /\ Head(waiting) \in Req /\ Head(waiting) \in ToSet(waiting)
          /\ waiting' \in Seq(Req) /\ Distinct(waiting') /\ Len(waiting') = Len(waiting) - 1
          /\ ToSet(waiting') = ToSet(waiting) \ {Head(waiting)}
      BY <2>1, TailQueue DEF QueuesApart
    <2>3. Head(waiting) \notin ToSet(running)
      BY <2>2 DEF QueuesApart
    <2>4. /\ running' \in Seq(Req) /\ Distinct(running') /\ Len(running') = Len(running) + 1
          /\ ToSet(running') = ToSet(running) \cup {Head(waiting)}
      BY <2>1, <2>2, <2>3, AppendQueue DEF QueuesApart
    <2>5. QueuesApart'
      BY <2>2, <2>4, <1>10 DEF QueuesApart
    <2>6. QueueBound'
      BY <2>1, <2>2, <2>4, <1>0 DEF QueueBound
    <2> QED BY <2>2, <2>4, <2>5, <2>6, <1>10
  <1>11. ASSUME Fill, running' # running PROVE QueueInv'
    BY <1>10, <1>11 DEF Fill, inputs
  <1>12. ASSUME AcquireEnd PROVE QueueInv'
    <2>1. MayFill
      BY <1>12 DEF AcquireEnd, TablesOwned, MayFill
    <2> QED BY <2>1, <1>10, <1>12 DEF AcquireEnd, inputs
  <1>13. ASSUME Preempt PROVE QueueInv'
    <2>1. PICK k : k = Max(Others)
      OBVIOUS
    <2>2. /\ UNCHANGED <<submitted, inbound, incoming>> /\ Others # {}
          /\ waiting' = <<running[k]>> \o waiting /\ running' = RemoveAt(running, k)
      BY <1>13, <2>1 DEF Preempt, inputs
    <2>3. k \in 1 .. Len(running)
      BY <2>1, <2>2, VictimRuns
    <2>4. /\ running[k] \in Req /\ running[k] \in ToSet(running)
          /\ running' \in Seq(Req) /\ Distinct(running') /\ Len(running') = Len(running) - 1
          /\ ToSet(running') = ToSet(running) \ {running[k]}
      BY <2>2, <2>3, EraseQueue DEF QueuesApart
    <2>5. running[k] \notin ToSet(waiting)
      BY <2>4 DEF QueuesApart
    <2>6. /\ waiting' \in Seq(Req) /\ Distinct(waiting') /\ Len(waiting') = Len(waiting) + 1
          /\ ToSet(waiting') = ToSet(waiting) \cup {running[k]}
      BY <2>2, <2>4, <2>5, PushFrontQueue DEF QueuesApart
    <2>7. QueuesApart'
      <3>1. PICK v : v = running[k]
        OBVIOUS
      <3>2. /\ ToSet(running') = ToSet(running) \ {v} /\ v \in ToSet(running)
            /\ ToSet(waiting') = ToSet(waiting) \cup {v}
            /\ Distinct(running') /\ Distinct(waiting')
        BY <2>4, <2>6, <3>1
      <3>3. PICK A, B, W, R : A = ToSet(inbound) /\ B = ToSet(incoming) /\ W = ToSet(waiting) /\ R = ToSet(running)
        OBVIOUS
      <3>4. /\ A \cap B = {} /\ A \cap W = {} /\ A \cap R = {}
            /\ B \cap W = {} /\ B \cap R = {} /\ W \cap R = {}
            /\ A \cup B \cup W \cup R \subseteq submitted
        BY <3>3 DEF QueuesApart
      <3>5. PICK X, Y : X = W \cup {v} /\ Y = R \ {v}
        OBVIOUS
      <3>6. /\ A \cap X = {} /\ A \cap Y = {} /\ B \cap X = {} /\ B \cap Y = {} /\ X \cap Y = {}
            /\ A \cup B \cup X \cup Y \subseteq submitted
        BY <3>2, <3>3, <3>4, <3>5
      <3>7. /\ ToSet(inbound') = A /\ ToSet(incoming') = B /\ ToSet(waiting') = X /\ ToSet(running') = Y
            /\ submitted' = submitted /\ Distinct(inbound') /\ Distinct(incoming')
        BY <2>2, <3>2, <3>3, <3>5 DEF QueuesApart
      <3> QED BY <3>2, <3>4, <3>6, <3>7 DEF QueuesApart
    <2>8. QueueBound'
      BY <2>2, <2>4, <2>6, <1>0 DEF QueueBound
    <2> QED BY <2>2, <2>4, <2>6, <2>7, <2>8
  <1>14. ASSUME UNCHANGED <<submitted, queues>> PROVE QueueInv'
    BY <1>14 DEF queues, QueuesApart, QueueBound
  <1> HIDE DEF QueueInv, QueueTypes
  <1>15. ASSUME NEW r \in MayCancel, Cancel(r) PROVE QueueInv'
    BY <1>14, <1>15 DEF Cancel
  <1>16. CASE DropWaiting
    BY <1>4, <1>14, <1>16 DEF DropWaiting, inputs, queues
  <1>17. CASE DropRunning
    BY <1>6, <1>14, <1>17 DEF DropRunning, inputs, queues
  <1>18. CASE Fill
    <2>1. CASE running' # running
      BY <1>11, <1>18, <2>1
    <2>2. CASE running' = running
      <3>1. running' # Append(running, Head(waiting))
        BY <2>2 DEF QueueInv, QueueTypes
      <3> QED BY <3>1, <2>2, <1>14, <1>18 DEF Fill, ToRunning, inputs, queues
    <2> QED BY <2>1, <2>2
  <1>19. CASE \/ StartStep \/ FreeMore \/ AcquireHit \/ FillEnd
    BY <1>14, <1>19 DEF StartStep, FreeMore, AcquireHit, FillEnd, inputs
  <1>20. CASE \/ StartBuild \/ Pick \/ PickStale \/ PickEnd \/ GrowAlloc \/ AddRequest
    BY <1>14, <1>20 DEF StartBuild, Pick, PickStale, Crash, PickEnd, GrowAlloc, AddRequest,
                        inputs
  <1>21. CASE \/ Forward \/ Apply \/ ApplyPastEnd \/ ApplyEnd
    BY <1>14, <1>21 DEF Forward, Apply, ApplyPastEnd, Crash, ApplyEnd, inputs
  <1>22. CASE \/ CacheBlock \/ CacheBlockPastEnd \/ CacheNext \/ CacheEnd \/ StepEnd
    BY <1>14, <1>22 DEF CacheBlock, CacheBlockPastEnd, Crash, CacheNext, CacheEnd, StepEnd,
                        inputs
  <1>23. CASE UNCHANGED vars
    BY <1>14, <1>23 DEF vars, inputs
  <1> QED BY <1>1, <1>2, <1>3, <1>8, <1>9, <1>12, <1>13, <1>15, <1>16, <1>17, <1>18,
             <1>19, <1>20, <1>21, <1>22, <1>23 DEF Next, Engine

-----------------------------------------------------------------------------
(* Types *)

(* The constants of the configuration, one fact per use. *)
LEMMA Config ==
    /\ MaxCtx \in Nat \ {0} /\ BlockSize \in Nat \ {0} /\ NSlots \in Nat \ {0}
    /\ TokenBudget \in Nat \ {0} /\ PrefillChunk \in Nat \ {0} /\ MaxWaiting \in Nat
  BY ConfigAssumption

(* The tokens of a request: its prompt, never empty, then its output. *)
LEMMA TokensType ==
    ASSUME NEW r \in Req, req[r].output \in Seq(Token)
    PROVE  /\ Tokens(r) \in Seq(Token)
           /\ NumTokens(r) \in Nat /\ NumTokens(r) >= 1
           /\ NumTokens(r) = Len(Prompt[r]) + Len(req[r].output)
  <1>1. Prompt[r] \in Seq(Token) /\ Prompt[r] # <<>>
    BY RequestAssumption
  <1>2. Len(Prompt[r]) \in Nat /\ Len(Prompt[r]) >= 1 /\ Len(req[r].output) \in Nat
    BY <1>1
  <1>3. /\ Tokens(r) \in Seq(Token)
        /\ Len(Tokens(r)) = Len(Prompt[r]) + Len(req[r].output)
    BY <1>1 DEF Tokens
  <1>4. NumTokens(r) = Len(Prompt[r]) + Len(req[r].output)
    BY <1>3 DEF NumTokens
  <1>5. \A m, n \in Nat : m >= 1 => m + n \in Nat /\ m + n >= 1
    OBVIOUS
  <1>6. NumTokens(r) \in Nat /\ NumTokens(r) >= 1
    BY <1>2, <1>4, <1>5, Zenon
  <1> QED BY <1>3, <1>4, <1>6, Zenon

(* What each change of a Request keeps of its type. *)
LEMMA RequestFields ==
    ASSUME NEW q \in RequestType
    PROVE  /\ q.output \in Seq(Token) /\ q.computed \in Nat /\ q.num_new \in Nat
           /\ q.cached_blocks \in Nat /\ q.last_hash \in Seq(Token)
           /\ ResetForRecompute(q) \in RequestType
           /\ \A nb \in Nat, h \in Seq(Token) : AdoptPrefix(q, nb, h) \in RequestType
           /\ \A n \in Nat : [q EXCEPT !.num_new = n] \in RequestType
           /\ \A n \in Nat : [q EXCEPT !.computed = n] \in RequestType
           /\ \A n \in Nat : [q EXCEPT !.cached_blocks = n] \in RequestType
           /\ \A n \in Nat, h \in Seq(Token) :
                 [q EXCEPT !.cached_blocks = n, !.last_hash = h] \in RequestType
           /\ \A o \in Seq(Token) : [q EXCEPT !.output = o] \in RequestType
  <1> USE DEF RequestType
  <1>1. /\ q.output \in Seq(Token) /\ q.computed \in Nat /\ q.num_new \in Nat
        /\ q.cached_blocks \in Nat /\ q.last_hash \in Seq(Token)
    OBVIOUS
  <1>2. ResetForRecompute(q) \in RequestType
    <2>1. NoHash \in Seq(Token)
      BY HashAssumption
    <2> QED BY <2>1 DEF ResetForRecompute
  <1>3. ASSUME NEW nb \in Nat, NEW h \in Seq(Token)
        PROVE  AdoptPrefix(q, nb, h) \in RequestType
    <2>1. nb * BlockSize \in Nat
      BY Config
    <2> QED BY <2>1 DEF AdoptPrefix
  <1>4. ASSUME NEW n \in Nat
        PROVE  /\ [q EXCEPT !.num_new = n] \in RequestType
               /\ [q EXCEPT !.computed = n] \in RequestType
               /\ [q EXCEPT !.cached_blocks = n] \in RequestType
    OBVIOUS
  <1>5. ASSUME NEW n \in Nat, NEW h \in Seq(Token)
        PROVE  [q EXCEPT !.cached_blocks = n, !.last_hash = h] \in RequestType
    OBVIOUS
  <1>6. ASSUME NEW o \in Seq(Token) PROVE [q EXCEPT !.output = o] \in RequestType
    OBVIOUS
  <1> QED BY <1>1, <1>2, <1>3, <1>4, <1>5, <1>6

(* Full blocks lie inside what they are blocks of. *)
LEMMA FullBlocks ==
    ASSUME NEW c \in Nat, NEW b \in Nat \ {0}, NEW i \in Nat
    PROVE  /\ c \div b \in Nat
           /\ i <= c \div b => i * b <= c
           /\ i < c \div b => i * b + b <= c
  <1>1. /\ c \div b \in Nat /\ c % b \in Nat
        /\ c = b * (c \div b) + (c % b)
    OBVIOUS
  <1>2. ASSUME NEW d \in Nat, i <= d PROVE i * b <= b * d
    BY <1>2
  <1>3. ASSUME NEW d \in Nat, i < d PROVE i * b + b <= b * d
    <2>1. (i + 1) * b <= b * d
      BY <1>3
    <2>2. (i + 1) * b = i * b + b
      OBVIOUS
    <2> QED BY <2>1, <2>2
  <1>4. /\ b * (c \div b) \in Nat /\ i * b \in Nat
        /\ b * (c \div b) <= c
    BY <1>1
  <1>5. ASSUME i <= c \div b PROVE i * b <= c
    BY <1>1, <1>2, <1>4, <1>5
  <1>6. ASSUME i < c \div b PROVE i * b + b <= c
    BY <1>1, <1>3, <1>4, <1>6
  <1> QED BY <1>1, <1>5, <1>6

(* A chunk is at most what the request has left, and at most the budget. *)
LEMMA ChunkBounds ==
    ASSUME NEW r \in Req, Remaining(r) \in Int, budget \in Nat
    PROVE  /\ ChunkFor(r) \in Int /\ ChunkFor(r) <= Remaining(r) /\ ChunkFor(r) <= budget
           /\ Remaining(r) > 0 /\ budget > 0 => ChunkFor(r) \in Nat \ {0}
  BY Config DEF ChunkFor, AtMost

(* The hash of the next full block is a token chain. *)
LEMMA HashBlockType ==
    ASSUME NEW r \in Req, req[r] \in RequestType, NEW junk \in Token,
           req[r].computed <= NumTokens(r) + TokenBudget,
           req[r].cached_blocks < req[r].computed \div BlockSize
    PROVE  HashBlock(req[r].last_hash, r, req[r].cached_blocks * BlockSize, junk)
              \in Seq(Token) \ {<<>>}
  <1> DEFINE s == req[r].cached_blocks * BlockSize
             J == [i \in 1 .. TokenBudget |-> junk]
             T == Tokens(r) \o J
  <1>1. /\ req[r].computed \in Nat /\ req[r].cached_blocks \in Nat
        /\ req[r].last_hash \in Seq(Token) /\ req[r].output \in Seq(Token)
    BY RequestFields
  <1>2. s \in Nat /\ s + BlockSize <= req[r].computed /\ BlockSize \in Nat \ {0}
    <2>1. BlockSize \in Nat \ {0}
      BY Config
    <2>2. s + BlockSize <= req[r].computed
      BY <2>1, <1>1, FullBlocks, Zenon
    <2>3. s \in Nat
      BY <2>1, <1>1
    <2> QED BY <2>1, <2>2, <2>3
  <1>3. Tokens(r) \in Seq(Token) /\ NumTokens(r) \in Nat /\ Len(Tokens(r)) = NumTokens(r)
    BY <1>1, TokensType DEF NumTokens
  <1>4. J \in Seq(Token) /\ Len(J) = TokenBudget /\ TokenBudget \in Nat
    BY Config
  <1> HIDE DEF s, J
  <1>5. T \in Seq(Token) /\ Len(T) = NumTokens(r) + TokenBudget
    BY <1>3, <1>4
  <1>6. s + BlockSize <= Len(T) /\ Len(T) \in Nat
    <2>1. req[r].computed <= Len(T)
      BY <1>5
    <2> QED BY <2>1, <1>1, <1>2, <1>3, <1>4, <1>5
  <1> HIDE DEF T
  <1>7. /\ SubSeq(T, s + 1, s + BlockSize) \in Seq(Token)
        /\ Len(SubSeq(T, s + 1, s + BlockSize)) = BlockSize
    <2>1. \A i \in s + 1 .. s + BlockSize : T[i] \in Token
      BY <1>2, <1>5, <1>6
    <2> QED BY <2>1, <1>2, <1>5, SubSeqProperties
  <1>8. PICK u : u = SubSeq(T, s + 1, s + BlockSize)
    OBVIOUS
  <1>9. HashBlock(req[r].last_hash, r, s, junk) = req[r].last_hash \o u
    BY <1>8 DEF HashBlock, T, J
  <1>10. PICK v : v = req[r].last_hash \o u
    OBVIOUS
  <1>11. v \in Seq(Token) /\ Len(v) = Len(req[r].last_hash) + BlockSize
    BY <1>1, <1>7, <1>8, <1>10
  <1>12. v # <<>>
    <2>1. Len(v) # 0
      BY <1>1, <1>2, <1>11
    <2> QED BY <2>1
  <1> QED BY <1>9, <1>10, <1>11, <1>12 DEF s

(* The prefix that AcquirePrefix adopts ends before the last token. *)
LEMMA AdoptedPrefix ==
    ASSUME SchedTypeOK, AllocTypeOK, TablesOwned, pc = "acquire"
    PROVE  LET r == Head(waiting)
               nb == Len(table[r])
           IN /\ r \in Req /\ nb \in Nat /\ nb * BlockSize <= NumTokens(r)
              /\ nb * BlockSize \in Nat /\ PrefixHash(r, nb) \in Seq(Token)
  <1>1. PICK r : r = Head(waiting)
    OBVIOUS
  <1>2. PICK nb : nb = Len(table[r])
    OBVIOUS
  <1>3. r \in Req /\ req[r] \in RequestType /\ nb \in Nat
    <2>1. waiting \in Seq(Req) /\ waiting # <<>>
      BY DEF SchedTypeOK, TablesOwned
    <2>2. r \in Req
      BY <2>1, <1>1
    <2> QED BY <2>2, <1>2 DEF SchedTypeOK, AllocTypeOK
  <1>4. /\ Tokens(r) \in Seq(Token) /\ NumTokens(r) \in Nat /\ NumTokens(r) - 1 \in Nat
        /\ Len(Tokens(r)) = NumTokens(r)
    <2>1. NumTokens(r) \in Nat /\ NumTokens(r) >= 1
      BY <1>3, TokensType, RequestFields
    <2>2. NumTokens(r) - 1 \in Nat
      BY <2>1
    <2>3. Tokens(r) \in Seq(Token)
      BY <1>3, TokensType, RequestFields
    <2> QED BY <2>1, <2>2, <2>3 DEF NumTokens
  <1>5. nb <= (NumTokens(r) - 1) \div BlockSize
    BY <1>1, <1>2 DEF TablesOwned
  <1>6. BlockSize \in Nat \ {0}
    BY Config
  <1>7. nb * BlockSize <= NumTokens(r) - 1
    BY <1>3, <1>4, <1>5, <1>6, FullBlocks, Zenon
  <1>8. nb * BlockSize \in Nat /\ nb * BlockSize <= NumTokens(r)
    BY <1>3, <1>4, <1>6, <1>7
  <1>9. PrefixHash(r, nb) \in Seq(Token)
    <2>1. \A i \in 1 .. nb * BlockSize : Tokens(r)[i] \in Token
      BY <1>4, <1>8
    <2> QED BY <2>1, <1>8, SubSeqProperties DEF PrefixHash
  <1> QED BY <1>1, <1>2, <1>3, <1>8, <1>9

(* What an entry of the batch is made of. *)
LEMMA BatchEntry ==
    ASSUME SchedTypeOK, NEW i \in 1 .. Len(batch)
    PROVE  /\ i \in DOMAIN batch /\ batch[i] \in EntryType
           /\ batch[i].r \in Req /\ batch[i].start \in Nat /\ batch[i].n \in Nat
           /\ batch[i].blocks \in Seq(Block)
  <1>1. batch \in Seq(EntryType)
    BY DEF SchedTypeOK
  <1>2. i \in DOMAIN batch /\ batch[i] \in EntryType
    BY <1>1
  <1>3. PICK e : e = batch[i]
    OBVIOUS
  <1>4. e.r \in Req /\ e.start \in Nat /\ e.n \in Nat /\ e.blocks \in Seq(Block)
    BY <1>2, <1>3 DEF EntryType
  <1> QED BY <1>2, <1>3, <1>4

(* Every step keeps the type of every request. *)
LEMMA RequestStep ==
    ASSUME SchedTypeOK, AllocTypeOK, QueueInv, TablesOwned, CursorBound, [Next]_vars
    PROVE  req' \in [Req -> RequestType]
  <1>0. req \in [Req -> RequestType]
    BY DEF SchedTypeOK
  <1>1. ASSUME NEW r \in Req, NEW q \in RequestType, req' = [req EXCEPT ![r] = q]
        PROVE  req' \in [Req -> RequestType]
    BY <1>0, <1>1
  <1>2. CASE AcquireEnd
    <2>1. PICK r, nb : r = Head(waiting) /\ nb = Len(table[r])
      OBVIOUS
    <2>2. r \in Req /\ nb \in Nat /\ PrefixHash(r, nb) \in Seq(Token)
      BY <2>1, <1>2, AdoptedPrefix DEF AcquireEnd
    <2>3. \/ req' = [req EXCEPT ![r] = AdoptPrefix(req[r], nb, PrefixHash(r, nb))]
          \/ req' = req
      BY <2>1, <1>2 DEF AcquireEnd
    <2>4. AdoptPrefix(req[r], nb, PrefixHash(r, nb)) \in RequestType
      BY <2>2, <1>0, RequestFields
    <2> QED BY <2>2, <2>3, <2>4, <1>0, <1>1
  <1>3. CASE Preempt
    <2>1. PICK v : v = running[Max(Others)]
      OBVIOUS
    <2>2. v \in Req /\ req' = [req EXCEPT ![v] = ResetForRecompute(req[v])]
      <3>1. Max(Others) \in 1 .. Len(running)
        BY <1>3, VictimRuns DEF Preempt
      <3> QED BY <3>1, <2>1, <1>3 DEF Preempt, SchedTypeOK
    <2>3. ResetForRecompute(req[v]) \in RequestType
      BY <2>2, <1>0, RequestFields
    <2> QED BY <2>2, <2>3, <1>1
  <1>4. CASE AddRequest
    <2>1. PICK r, n : r = cur[1] /\ n = cur[2]
      OBVIOUS
    <2>2. r \in Req /\ n \in Nat
      BY <2>1, <1>4 DEF AddRequest, Growing, SchedTypeOK
    <2>3. req' = [req EXCEPT ![r] = [req[r] EXCEPT !.num_new = n]]
      BY <2>1, <1>4 DEF AddRequest
    <2>4. [req[r] EXCEPT !.num_new = n] \in RequestType
      BY <2>2, <1>0, RequestFields
    <2> QED BY <2>2, <2>3, <2>4, <1>1
  <1>5. CASE Forward
    <2>1. ASSUME NEW r \in Req
          PROVE  req[r].num_new * Cardinality({i \in DOMAIN batch : batch[i].r = r}) \in Nat
      <3>1. IsFiniteSet(DOMAIN batch)
        <4>1. Len(batch) \in Nat /\ DOMAIN batch = 1 .. Len(batch)
          BY DEF SchedTypeOK
        <4> QED BY <4>1, FS_Interval
      <3>2. Cardinality({i \in DOMAIN batch : batch[i].r = r}) \in Nat
        BY <3>1, FS_Subset, FS_CardinalityType
      <3>3. req[r].num_new \in Nat
        BY <1>0, RequestFields
      <3> QED BY <3>2, <3>3
    <2> DEFINE c(r) == req[r].num_new * Cardinality({i \in DOMAIN batch : batch[i].r = r})
    <2>2. req' = [r \in Req |-> [req[r] EXCEPT !.computed = req[r].computed + c(r)]]
      BY <1>5 DEF Forward
    <2> HIDE DEF c
    <2>3. ASSUME NEW r \in Req
          PROVE  [req[r] EXCEPT !.computed = req[r].computed + c(r)] \in RequestType
      <3>1. c(r) \in Nat
        BY <2>1 DEF c
      <3>2. req[r].computed \in Nat
        BY <1>0, RequestFields
      <3>3. req[r].computed + c(r) \in Nat
        BY <3>1, <3>2
      <3> QED BY <3>3, <1>0, RequestFields
    <2> QED BY <2>2, <2>3
  <1>6. ASSUME NEW r \in Req, NEW t \in Token, Accept(r, t)
        PROVE  req' \in [Req -> RequestType]
    <2>1. PICK o : o = Append(req[r].output, t)
      OBVIOUS
    <2>2. req[r].output \in Seq(Token)
      BY <1>0, RequestFields
    <2>3. o \in Seq(Token)
      BY <2>1, <2>2
    <2>4. req' = [req EXCEPT ![r] = [req[r] EXCEPT !.output = o]]
      BY <2>1, <1>6 DEF Accept
    <2> QED BY <2>3, <2>4, <1>0, <1>1, RequestFields
  <1>7. ASSUME at <= Len(batch) PROVE batch[at].r \in Req
    <2>1. at \in 1 .. Len(batch)
      BY <1>7 DEF SchedTypeOK
    <2> QED BY <2>1, BatchEntry
  <1>8. CASE Apply
    <2>1. sampled # <<>> => Head(sampled) \in Token
      BY DEF SchedTypeOK
    <2> QED BY <2>1, <1>0, <1>6, <1>7, <1>8 DEF Apply
  <1>9. CASE ApplyPastEnd
    BY <1>0, <1>6, <1>7, <1>9 DEF ApplyPastEnd, Crash
  <1>10. CASE CacheBlock
    <2>1. PICK r : r = batch[at].r
      OBVIOUS
    <2>2. r \in Req
      BY <2>1, <1>7, <1>10 DEF CacheBlock
    <2>3. PICK junk \in Token :
             LET h == HashBlock(req[r].last_hash, r, req[r].cached_blocks * BlockSize, junk)
             IN req' = [req EXCEPT ![r].cached_blocks = req[r].cached_blocks + 1,
                                   ![r].last_hash = h]
      BY <2>1, <1>10 DEF CacheBlock
    <2>4. PICK h : h = HashBlock(req[r].last_hash, r, req[r].cached_blocks * BlockSize, junk)
      OBVIOUS
    <2>5. h \in Seq(Token)
      BY <2>1, <2>2, <2>4, <1>0, <1>10, HashBlockType DEF CursorBound, CacheBlock, Uncached
    <2>6. req' = [req EXCEPT ![r] =
                     [req[r] EXCEPT !.cached_blocks = req[r].cached_blocks + 1,
                                    !.last_hash = h]]
      BY <2>2, <2>3, <2>4, <1>0
    <2>7. req[r].cached_blocks + 1 \in Nat
      <3>1. req[r].cached_blocks \in Nat
        BY <2>2, <1>0, RequestFields
      <3> QED BY <3>1
    <2> QED BY <2>2, <2>5, <2>6, <2>7, <1>0, <1>1, RequestFields
  <1>11. CASE CacheNext
    <2>1. PICK r : r = batch[at].r
      OBVIOUS
    <2>2. r \in Req
      BY <2>1, <1>7, <1>11 DEF CacheNext
    <2>3. PICK n : n = req[r].computed \div BlockSize
      OBVIOUS
    <2>4. n \in Nat
      <3>1. req[r].computed \in Nat
        BY <2>2, <1>0, RequestFields
      <3> QED BY <3>1, <2>3, FullBlocks, Config
    <2>5. req' = [req EXCEPT ![r] = [req[r] EXCEPT !.cached_blocks = n]]
      BY <2>1, <2>3, <1>11 DEF CacheNext
    <2> QED BY <2>2, <2>4, <2>5, <1>0, <1>1, RequestFields
  <1>12. CASE UNCHANGED req
    BY <1>0, <1>12
  <1>13. CASE (\E r \in Req : Submit(r)) \/ (\E r \in MayCancel : Cancel(r)) \/ UNCHANGED vars
    BY <1>12, <1>13 DEF Submit, Cancel, vars
  <1>14. CASE \/ Drain \/ Admit \/ StartStep \/ FreeMore \/ DropWaiting \/ DropRunning
              \/ Fill \/ AcquireHit \/ FillEnd
    BY <1>12, <1>14 DEF Drain, Admit, StartStep, FreeMore, DropWaiting, DropRunning, Fill,
                        AcquireHit, FillEnd
  <1>15. CASE \/ StartBuild \/ Pick \/ PickStale \/ PickEnd \/ GrowAlloc \/ GrowFail
    BY <1>12, <1>15 DEF StartBuild, Pick, PickStale, Crash, PickEnd, GrowAlloc, GrowFail
  <1>16. CASE \/ ApplyEnd \/ CacheBlockPastEnd \/ CacheEnd \/ Retire \/ StepEnd
    BY <1>12, <1>16 DEF ApplyEnd, CacheBlockPastEnd, Crash, CacheEnd, Retire, StepEnd
  <1> QED BY <1>2, <1>3, <1>4, <1>5, <1>8, <1>9, <1>10, <1>11, <1>13, <1>14, <1>15, <1>16
          DEF Next, Engine

(* The types a request's counters have while the invariant holds. *)
LEMMA RequestCounts ==
    ASSUME SchedTypeOK, NEW r \in Req
    PROVE  /\ req[r] \in RequestType
           /\ req[r].computed \in Nat /\ req[r].num_new \in Nat
           /\ req[r].cached_blocks \in Nat /\ req[r].output \in Seq(Token)
           /\ NumTokens(r) \in Nat /\ NumTokens(r) >= 1
           /\ Remaining(r) \in Int /\ Remaining(r) = NumTokens(r) - req[r].computed
  <1>1. req[r] \in RequestType
    BY DEF SchedTypeOK
  <1>2. /\ req[r].computed \in Nat /\ req[r].num_new \in Nat
        /\ req[r].cached_blocks \in Nat /\ req[r].output \in Seq(Token)
    BY <1>1, RequestFields
  <1>3. NumTokens(r) \in Nat /\ NumTokens(r) >= 1
    BY <1>2, TokensType
  <1>4. Remaining(r) \in Int /\ Remaining(r) = NumTokens(r) - req[r].computed
    BY <1>2, <1>3 DEF Remaining
  <1> QED BY <1>1, <1>2, <1>3, <1>4

(* The chunk of the request that grows is what is left of the budget, or   *)
(* less.                                                                   *)
LEMMA GrowingChunk ==
    ASSUME SchedTypeOK, CursorBound, pc = "grow"
    PROVE  /\ cur = <<cur[1], cur[2]>> /\ cur[1] \in Req /\ cur[2] \in Nat \ {0}
           /\ cur[2] <= budget /\ cur[2] <= Remaining(cur[1])
           /\ budget - cur[2] \in Nat
           /\ req[cur[1]].computed + cur[2] <= NumTokens(cur[1])
  <1>1. cur = <<cur[1], cur[2]>> /\ cur[1] \in Req /\ cur[2] \in Nat \ {0} /\ budget \in Nat
    BY DEF SchedTypeOK
  <1>2. /\ Remaining(cur[1]) \in Int /\ NumTokens(cur[1]) \in Nat
        /\ req[cur[1]].computed \in Nat
        /\ Remaining(cur[1]) = NumTokens(cur[1]) - req[cur[1]].computed
    BY <1>1, RequestCounts
  <1>3. cur[2] <= budget /\ cur[2] <= Remaining(cur[1])
    BY <1>1, <1>2, ChunkBounds DEF CursorBound
  <1>4. PICK n : n = cur[2]
    OBVIOUS
  <1>5. budget - n \in Nat
    BY <1>1, <1>3, <1>4
  <1>6. req[cur[1]].computed + n <= NumTokens(cur[1])
    BY <1>1, <1>2, <1>3, <1>4
  <1> QED BY <1>1, <1>3, <1>4, <1>5, <1>6, Zenon

(* Every step keeps the types of the engine thread's control state and of  *)
(* the batch it builds.                                                    *)
LEMMA TypeStep ==
    ASSUME SchedTypeOK, AllocTypeOK, QueueInv, TablesOwned, CursorBound, [Next]_vars
    PROVE  SchedTypeOK'
  <1>1. req' \in [Req -> RequestType]
    BY RequestStep
  <1>2. QueueTypes'
    BY QueueStep DEF QueueInv
  <1>3. pc' \in Loops /\ at' \in Nat \ {0} /\ caching' \in BOOLEAN
    <2> USE DEF SchedTypeOK, Loops
    <2>1. at + 1 \in Nat \ {0} /\ 1 \in Nat \ {0}
      OBVIOUS
    <2>2. CASE (\E r \in Req : Submit(r)) \/ (\E r \in MayCancel : Cancel(r)) \/ UNCHANGED vars
      BY <2>2 DEF Submit, Cancel, vars, inputs
    <2>3. CASE \/ Drain \/ Admit \/ StartStep \/ FreeMore \/ DropWaiting \/ DropRunning
               \/ Fill \/ AcquireHit \/ AcquireEnd \/ FillEnd
      BY <2>1, <2>3 DEF Drain, Admit, StartStep, FreeMore, DropWaiting, DropRunning, Fill,
                        AcquireHit, AcquireEnd, FillEnd, inputs
    <2>4. CASE \/ StartBuild \/ Pick \/ PickStale \/ PickEnd \/ GrowAlloc \/ GrowFail \/ Preempt
               \/ AddRequest
      BY <2>4 DEF StartBuild, Pick, PickStale, Crash, PickEnd, GrowAlloc, GrowFail, Preempt,
                  AddRequest, inputs
    <2>5. CASE \/ Forward \/ Apply \/ ApplyPastEnd \/ ApplyEnd
      BY <2>1, <2>5 DEF Forward, Apply, ApplyPastEnd, Crash, ApplyEnd, inputs
    <2>6. CASE \/ CacheBlock \/ CacheBlockPastEnd \/ CacheNext \/ CacheEnd \/ Retire \/ StepEnd
      BY <2>1, <2>6 DEF CacheBlock, CacheBlockPastEnd, Crash, CacheNext, CacheEnd, Retire,
                        StepEnd, inputs
    <2> QED BY <2>2, <2>3, <2>4, <2>5, <2>6 DEF Next, Engine
  <1>4. order' \in Seq(Nat \ {0}) /\ budget' \in Nat
    <2> USE DEF SchedTypeOK
    <2>1. CASE StartBuild
      <3>1. Len(running) \in Nat
        OBVIOUS
      <3>2. order' \in [1 .. Len(running) -> 1 .. Len(running)] /\ budget' = TokenBudget
        BY <2>1 DEF StartBuild, StableOrders
      <3>3. order' \in [1 .. Len(running) -> Nat \ {0}]
        BY <3>1, <3>2
      <3>4. order' \in Seq(Nat \ {0})
        <4>1. PICK n, S : n = Len(running) /\ S = Nat \ {0}
          OBVIOUS
        <4>2. order' \in [1 .. n -> S] /\ n \in Nat
          BY <4>1, <3>1, <3>3
        <4>3. order' \in Seq(S)
          BY <4>2, SeqDef
        <4> QED BY <4>1, <4>3
      <3> QED BY <3>2, <3>4, Config
    <2>2. CASE Pick
      BY <2>2 DEF Pick, Picking
    <2>3. CASE PickEnd \/ GrowFail
      <3>1. order' = <<>> /\ budget' = 0
        BY <2>3 DEF PickEnd, GrowFail
      <3> QED BY <3>1
    <2>4. CASE AddRequest
      <3>1. budget - cur[2] \in Nat
        BY <2>4, GrowingChunk DEF AddRequest, Growing
      <3> QED BY <3>1, <2>4 DEF AddRequest
    <2>5. CASE UNCHANGED <<order, budget>>
      BY <2>5
    <2>6. CASE (\E r \in Req : Submit(r)) \/ (\E r \in MayCancel : Cancel(r)) \/ UNCHANGED vars
      BY <2>5, <2>6 DEF Submit, Cancel, vars, build
    <2>7. CASE \/ Drain \/ Admit \/ StartStep \/ FreeMore \/ DropWaiting \/ DropRunning
               \/ Fill \/ AcquireHit \/ AcquireEnd \/ FillEnd
      BY <2>5, <2>7 DEF Drain, Admit, StartStep, FreeMore, DropWaiting, DropRunning, Fill,
                        AcquireHit, AcquireEnd, FillEnd, build
    <2>8. CASE \/ PickStale \/ GrowAlloc \/ Preempt
      BY <2>5, <2>8 DEF PickStale, Crash, GrowAlloc, Preempt, build
    <2>9. CASE \/ Forward \/ Apply \/ ApplyPastEnd \/ ApplyEnd
      BY <2>5, <2>9 DEF Forward, Apply, ApplyPastEnd, Crash, ApplyEnd, build
    <2>10. CASE \/ CacheBlock \/ CacheBlockPastEnd \/ CacheNext \/ CacheEnd \/ Retire \/ StepEnd
      BY <2>5, <2>10 DEF CacheBlock, CacheBlockPastEnd, Crash, CacheNext, CacheEnd, Retire,
                         StepEnd, build
    <2> QED BY <2>1, <2>2, <2>3, <2>4, <2>6, <2>7, <2>8, <2>9, <2>10 DEF Next, Engine
  <1>5. /\ pc' = "grow" => cur' \in Req \X (Nat \ {0})
        /\ batch' \in Seq(EntryType)
    <2> USE DEF SchedTypeOK
    <2>1. CASE Pick
      <3>1. /\ batch' = batch
            /\ pc' = "grow" => /\ cur' = <<running[Head(order)], ChunkFor(running[Head(order)])>>
                               /\ Remaining(running[Head(order)]) > 0
        <4>1. \/ Remaining(running[Head(order)]) <= 0 /\ pc' = "pick"
              \/ /\ ~(Remaining(running[Head(order)]) <= 0)
                 /\ cur' = <<running[Head(order)], ChunkFor(running[Head(order)])>>
          BY <2>1 DEF Pick, Picking
        <4>2. running[Head(order)] \in Req
          BY <2>1 DEF Pick, Picking
        <4>3. Remaining(running[Head(order)]) \in Int
          BY <4>2, RequestCounts
        <4> QED BY <4>1, <4>3, <2>1 DEF Pick
      <3>2. PICK r : r = running[Head(order)]
        OBVIOUS
      <3>3. r \in Req
        BY <3>2, <2>1 DEF Pick, Picking
      <3>4. budget > 0 /\ Remaining(r) \in Int
        BY <3>3, <2>1, RequestCounts DEF Pick, Picking
      <3>5. pc' = "grow" => ChunkFor(r) \in Nat \ {0}
        BY <3>1, <3>2, <3>3, <3>4, ChunkBounds
      <3> QED BY <3>1, <3>2, <3>3, <3>5
    <2>2. CASE AddRequest
      <3>1. PICK e : e = [r |-> cur[1], start |-> req[cur[1]].computed, n |-> cur[2],
                          blocks |-> table[cur[1]], sample |-> Samples(cur[1], cur[2])]
        OBVIOUS
      <3>2. batch' = Append(batch, e) /\ pc' = "pick" /\ pc = "grow"
        BY <3>1, <2>2 DEF AddRequest, Growing
      <3>3. cur[1] \in Req /\ cur[2] \in Nat
        BY <3>2
      <3>4. /\ req[cur[1]].computed \in Nat /\ table[cur[1]] \in Seq(Block)
            /\ Samples(cur[1], cur[2]) \in BOOLEAN
        <4>1. req[cur[1]].computed \in Nat
          BY <3>3, RequestCounts
        <4>2. table[cur[1]] \in Seq(Block)
          BY <3>3 DEF AllocTypeOK, Req
        <4>3. Samples(cur[1], cur[2]) \in BOOLEAN
          BY DEF Samples
        <4> QED BY <4>1, <4>2, <4>3
      <3>5. e \in EntryType
        BY <3>1, <3>3, <3>4 DEF EntryType
      <3> QED BY <3>2, <3>5
    <2>3. CASE StartBuild \/ GrowFail \/ StepEnd
      <3>1. batch' = <<>> /\ pc' # "grow"
        BY <2>3 DEF StartBuild, GrowFail, StepEnd
      <3> QED BY <3>1
    <2>4. CASE batch' = batch /\ pc' # "grow"
      BY <2>4
    <2>5. CASE batch' = batch /\ cur' = cur /\ pc' = pc
      BY <2>5
    <2>6. CASE (\E r \in Req : Submit(r)) \/ (\E r \in MayCancel : Cancel(r)) \/ UNCHANGED vars
      BY <2>5, <2>6 DEF Submit, Cancel, vars, build
    <2>7. CASE FreeMore \/ GrowAlloc \/ Preempt \/ Admit \/ AcquireHit \/ Apply \/ CacheBlock
               \/ CacheNext \/ Retire
      BY <2>5, <2>7 DEF FreeMore, GrowAlloc, Preempt, Admit, AcquireHit, Apply, CacheBlock,
                        CacheNext, Retire, build
    <2>8. CASE \/ Drain \/ StartStep \/ DropWaiting \/ DropRunning \/ Fill \/ AcquireEnd \/ FillEnd
      BY <2>4, <2>8 DEF Drain, StartStep, DropWaiting, DropRunning, Fill, AcquireEnd, FillEnd,
                        build
    <2>9. CASE \/ PickStale \/ PickEnd \/ Forward \/ ApplyPastEnd \/ ApplyEnd
               \/ CacheBlockPastEnd \/ CacheEnd
      BY <2>4, <2>9 DEF PickStale, Crash, PickEnd, Forward, ApplyPastEnd, ApplyEnd,
                        CacheBlockPastEnd, CacheEnd, build
    <2> QED BY <2>1, <2>2, <2>3, <2>6, <2>7, <2>8, <2>9 DEF Next, Engine
  <1>6. sampled' \in Seq(Token) /\ done' \in Seq(Req)
    <2> USE DEF SchedTypeOK
    <2>1. CASE Forward
      <3>1. PICK s \in [1 .. RowCount -> Token] : sampled' = s
        BY <2>1 DEF Forward
      <3>2. RowCount \in Nat
        <4>1. IsFiniteSet(DOMAIN batch)
          <5>1. Len(batch) \in Nat /\ DOMAIN batch = 1 .. Len(batch)
            OBVIOUS
          <5> QED BY <5>1, FS_Interval
        <4> QED BY <4>1, FS_Subset, FS_CardinalityType DEF RowCount
      <3>3. s \in Seq(Token)
        BY <3>1, <3>2, SeqDef
      <3> QED BY <3>1, <3>3, <2>1 DEF Forward
    <2>2. ASSUME NEW r \in Req, NEW t, Accept(r, t) PROVE done' \in Seq(Req)
      <3>1. done' = done \/ done' = Append(done, r)
        BY <2>2 DEF Accept
      <3>2. done \in Seq(Req) /\ Append(done, r) \in Seq(Req)
        BY AppendProperties
      <3> QED BY <3>1, <3>2
    <2>3. ASSUME at <= Len(batch) PROVE batch[at].r \in Req
      <3>1. at \in 1 .. Len(batch)
        BY <2>3
      <3> QED BY <3>1, BatchEntry
    <2>4. CASE Apply
      <3>1. batch[at].r \in Req
        BY <2>3, <2>4 DEF Apply
      <3>2. CASE UNCHANGED <<sampled, done>>
        BY <3>2
      <3>3. CASE /\ sampled # <<>> /\ sampled' = Tail(sampled)
                 /\ Accept(batch[at].r, Head(sampled))
        BY <3>1, <3>3, <2>2
      <3> QED BY <3>2, <3>3, <2>4 DEF Apply
    <2>5. CASE ApplyPastEnd
      <3>1. CASE UNCHANGED result
        BY <3>1 DEF result
      <3>2. CASE sampled' = sampled /\ \E t \in Token : Accept(batch[at].r, t)
        BY <3>2, <2>2, <2>3, <2>5 DEF ApplyPastEnd
      <3> QED BY <3>1, <3>2, <2>5 DEF ApplyPastEnd, Crash
    <2>6. CASE ApplyEnd
      <3>1. sampled' = <<>> /\ done' = done
        BY <2>6 DEF ApplyEnd
      <3> QED BY <3>1
    <2>7. CASE Retire
      BY <2>7 DEF Retire
    <2>8. CASE UNCHANGED result
      BY <2>8 DEF result
    <2>9. CASE (\E r \in Req : Submit(r)) \/ (\E r \in MayCancel : Cancel(r)) \/ UNCHANGED vars
      BY <2>8, <2>9 DEF Submit, Cancel, vars
    <2>10. CASE \/ Drain \/ Admit \/ StartStep \/ FreeMore \/ DropWaiting \/ DropRunning
                \/ Fill \/ AcquireHit \/ AcquireEnd \/ FillEnd
      BY <2>8, <2>10 DEF Drain, Admit, StartStep, FreeMore, DropWaiting, DropRunning, Fill,
                         AcquireHit, AcquireEnd, FillEnd
    <2>11. CASE \/ StartBuild \/ Pick \/ PickStale \/ PickEnd \/ GrowAlloc \/ GrowFail
                \/ Preempt \/ AddRequest
      BY <2>8, <2>11 DEF StartBuild, Pick, PickStale, Crash, PickEnd, GrowAlloc, GrowFail,
                         Preempt, AddRequest
    <2>12. CASE \/ CacheBlock \/ CacheBlockPastEnd \/ CacheNext \/ CacheEnd \/ StepEnd
      BY <2>8, <2>12 DEF CacheBlock, CacheBlockPastEnd, Crash, CacheNext, CacheEnd, StepEnd
    <2> QED BY <2>1, <2>4, <2>5, <2>6, <2>7, <2>9, <2>10, <2>11, <2>12 DEF Next, Engine
  <1> QED BY <1>1, <1>2, <1>3, <1>4, <1>5, <1>6 DEF SchedTypeOK, QueueTypes

-----------------------------------------------------------------------------
(* The allocator under the scheduler *)

(* The chained hashes of all prefixes are among the hashes: the bounded    *)
(* runs take those of the chains that their requests can build.            *)
ChainsAreHashes == Seq(Token) \ {<<>>} \subseteq Hash

(* The larger of two numbers is one of them. *)
LEMMA MaxOfTwo ==
    ASSUME NEW a \in Int, NEW b \in Int
    PROVE  Max({a, b}) \in {a, b}
  <1>1. \E x \in {a, b} : \A y \in {a, b} : x >= y
    <2>1. CASE a >= b
      BY <2>1
    <2>2. CASE b >= a
      BY <2>2
    <2> QED BY <2>1, <2>2
  <1> QED BY <1>1 DEF Max

(* The block CacheBlock inserts is one its request has, or had when the    *)
(* rows were emitted.                                                      *)
LEMMA InsertedBlock ==
    ASSUME SchedTypeOK, AllocTypeOK, CursorBound, ChainsAreHashes, CacheBlock
    PROVE  \E b \in Block, h \in Hash : CacheInsert(b, h)
  <1>1. at \in 1 .. Len(batch)
    <2>1. at <= Len(batch)
      BY DEF CacheBlock
    <2>2. at \in Nat \ {0}
      BY DEF SchedTypeOK
    <2> QED BY <2>1, <2>2
  <1>2. PICK r, idx, bs : r = batch[at].r /\ idx = req[r].cached_blocks /\ bs = batch[at].blocks
    OBVIOUS
  <1>3. r \in Req /\ bs \in Seq(Block)
    BY <1>1, <1>2, BatchEntry
  <1>4. idx \in Nat /\ table[r] \in Seq(Block)
    BY <1>2, <1>3, RequestCounts DEF AllocTypeOK, Req
  <1>5. PICK bt : bt = IF idx < Len(table[r]) THEN table[r] ELSE bs
    OBVIOUS
  <1>6. ~(idx >= Max({Len(table[r]), Len(bs)}))
    BY <1>2 DEF CacheBlock, ReadsPastEnd
  <1>7. bt[idx + 1] \in Block
    <2>1. CASE idx < Len(table[r])
      BY <2>1, <1>4, <1>5
    <2>2. CASE ~(idx < Len(table[r]))
      <3>1. Len(table[r]) \in Int /\ Len(bs) \in Int
        BY <1>3, <1>4
      <3>2. Max({Len(table[r]), Len(bs)}) \in {Len(table[r]), Len(bs)}
        BY <3>1, MaxOfTwo
      <3>3. idx < Len(bs)
        BY <3>1, <3>2, <2>2, <1>4, <1>6
      <3> QED BY <3>3, <2>2, <1>3, <1>4, <1>5
    <2> QED BY <2>1, <2>2
  <1>8. PICK junk \in Token :
           CacheInsert(bt[idx + 1], HashBlock(req[r].last_hash, r, idx * BlockSize, junk))
    BY <1>2, <1>5 DEF CacheBlock
  <1>9. HashBlock(req[r].last_hash, r, idx * BlockSize, junk) \in Hash
    <2>1. /\ req[r] \in RequestType
          /\ req[r].computed <= NumTokens(r) + TokenBudget
          /\ req[r].cached_blocks < req[r].computed \div BlockSize
      BY <1>2, <1>3, RequestCounts DEF CursorBound, CacheBlock, Uncached
    <2>2. HashBlock(req[r].last_hash, r, idx * BlockSize, junk) \in Seq(Token) \ {<<>>}
      BY <2>1, <1>2, <1>3, HashBlockType
    <2> QED BY <2>2 DEF ChainsAreHashes
  <1> QED BY <1>7, <1>8, <1>9

(* Whatever the engine thread does, the allocator sees one of its own      *)
(* operations or nothing.                                                  *)
LEMMA AllocStep ==
    ASSUME ChainsAreHashes, SchedTypeOK, AllocTypeOK, QueueInv, TablesOwned, CursorBound,
           [Next]_vars
    PROVE  [AllocNext]_allocVars
  <1>1. ASSUME NEW r \in Req, Release(r) PROVE [AllocNext]_allocVars
    BY <1>1 DEF Release, AllocNext, Req
  <1>2. CASE UNCHANGED allocVars
    BY <1>2
  <1>3. CASE FreeMore
    BY <1>3 DEF FreeMore, AllocNext, Req
  <1>4. CASE DropWaiting
    <2>1. at <= Len(waiting) => waiting[at] \in Req
      BY DEF SchedTypeOK
    <2> QED BY <2>1, <1>1, <1>4 DEF DropWaiting
  <1>5. CASE DropRunning
    <2>1. at <= Len(running) => running[at] \in Req
      BY DEF SchedTypeOK
    <2> QED BY <2>1, <1>1, <1>5 DEF DropRunning
  <1>6. CASE AcquireHit
    <2>1. PICK r, k : r = Head(waiting) /\ k = NextPrefix(r)
      OBVIOUS
    <2>2. r \in Holder
      BY <2>1, <1>6, AdoptedPrefix DEF AcquireHit, Req
    <2>3. CacheLookup(r, k) /\ k \in DOMAIN cached
      BY <2>1, <1>6 DEF AcquireHit, CacheLookup
    <2>4. k \in Hash
      BY <2>3 DEF AllocTypeOK
    <2> QED BY <2>2, <2>3, <2>4 DEF AllocNext
  <1>7. CASE GrowAlloc
    <2>1. cur[1] \in Holder
      BY <1>7 DEF GrowAlloc, Growing, SchedTypeOK, Req
    <2> QED BY <2>1, <1>7 DEF GrowAlloc, AllocNext
  <1>8. CASE Preempt
    <2>1. Max(Others) \in 1 .. Len(running)
      BY <1>8, VictimRuns DEF Preempt
    <2>2. running[Max(Others)] \in Req
      BY <2>1 DEF SchedTypeOK
    <2> QED BY <2>2, <1>1, <1>8 DEF Preempt
  <1>9. CASE GrowFail
    <2>1. cur[1] \in Req
      BY <1>9 DEF GrowFail, Growing, SchedTypeOK
    <2> QED BY <2>1, <1>1, <1>9 DEF GrowFail
  <1>10. CASE CacheBlock
    BY <1>10, InsertedBlock DEF AllocNext
  <1>11. CASE Retire
    <2>1. Head(done) \in Req
      BY <1>11 DEF Retire, SchedTypeOK
    <2> QED BY <2>1, <1>1, <1>11 DEF Retire
  <1>12. CASE (\E r \in Req : Submit(r)) \/ (\E r \in MayCancel : Cancel(r)) \/ UNCHANGED vars
    BY <1>2, <1>12 DEF Submit, Cancel, vars
  <1>13. CASE Drain \/ Admit \/ StartStep \/ Fill \/ AcquireEnd \/ FillEnd
    BY <1>2, <1>13 DEF Drain, Admit, StartStep, Fill, AcquireEnd, FillEnd
  <1>14. CASE StartBuild \/ Pick \/ PickStale \/ PickEnd \/ AddRequest
    BY <1>2, <1>14 DEF StartBuild, Pick, PickStale, Crash, PickEnd, AddRequest
  <1>15. CASE Forward \/ Apply \/ ApplyPastEnd \/ ApplyEnd
    BY <1>2, <1>15 DEF Forward, Apply, ApplyPastEnd, Crash, ApplyEnd
  <1>16. CASE CacheBlockPastEnd \/ CacheNext \/ CacheEnd \/ StepEnd
    BY <1>2, <1>16 DEF CacheBlockPastEnd, Crash, CacheNext, CacheEnd, StepEnd
  <1> QED BY <1>3, <1>4, <1>5, <1>6, <1>7, <1>8, <1>9, <1>10, <1>11, <1>12, <1>13, <1>14,
             <1>15, <1>16 DEF Next, Engine

-----------------------------------------------------------------------------
(* Who owns blocks *)

(* Freeing leaves a table empty or a Free() running on it, and the other   *)
(* tables alone.                                                           *)
Freeing(r) ==
    /\ table'[r] = <<>> \/ freed'[r] > 0
    /\ Len(table'[r]) <= Len(table[r])
    /\ \A g \in Req \ {r} : table'[g] = table[g] /\ freed'[g] = freed[g]

(* One iteration of FreeMany gives back blocks of its request and touches  *)
(* no other table.                                                         *)
LEMMA FreeOneFrees ==
    ASSUME AllocTypeOK, NEW r \in Req, FreeOne(r)
    PROVE  Freeing(r)
  <1> USE DEF AllocTypeOK, Req
  <1>1. freed[r] \in Nat /\ table[r] \in Seq(Block) /\ Len(table[r]) \in Nat
    OBVIOUS
  <1>2. CASE freed[r] + 1 = Len(table[r])
    <2>1. table' = [table EXCEPT ![r] = <<>>] /\ freed' = [freed EXCEPT ![r] = 0]
      BY <1>2 DEF FreeOne
    <2> QED BY <2>1, <1>1 DEF Freeing
  <1>3. CASE freed[r] + 1 # Len(table[r])
    <2>1. table' = table /\ freed' = [freed EXCEPT ![r] = freed[r] + 1]
      BY <1>3 DEF FreeOne
    <2> QED BY <2>1, <1>1 DEF Freeing
  <1> QED BY <1>2, <1>3

(* So does Release, whether or not the request has blocks. *)
LEMMA ReleaseFrees ==
    ASSUME AllocTypeOK, NEW r \in Req, Release(r)
    PROVE  Freeing(r)
  <1>1. CASE table[r] = <<>>
    <2>1. table' = table /\ freed' = freed
      BY <1>1 DEF Release, allocVars
    <2>2. Len(table[r]) \in Nat
      BY DEF AllocTypeOK, Req
    <2> QED BY <2>1, <2>2, <1>1 DEF Freeing
  <1>2. CASE table[r] # <<>>
    BY <1>2, FreeOneFrees DEF Release
  <1> QED BY <1>1, <1>2

Owned(r) == r \in ToSet(running) \/ (pc = "acquire" /\ r = Head(waiting)) \/ freed[r] > 0

(* Blocks stay with requests that run, are being admitted or are being     *)
(* freed.                                                                  *)
LEMMA OwnedStep ==
    ASSUME SchedTypeOK, AllocTypeOK, QueueInv, TablesOwned, CursorBound, [Next]_vars,
           NEW r \in Req, table'[r] # <<>>
    PROVE  Owned(r)'
  <1>0. table[r] # <<>> => Owned(r)
    BY DEF TablesOwned, Owned
  <1>1. CASE /\ UNCHANGED allocVars
             /\ \/ UNCHANGED <<pc, waiting, running>>
                \/ pc # "acquire" /\ ToSet(running) \subseteq ToSet(running')
    BY <1>0, <1>1 DEF Owned, allocVars
  <1>2. ASSUME NEW v \in Req, Freeing(v), pc # "acquire",
               ToSet(running) \ {v} \subseteq ToSet(running')
        PROVE  Owned(r)'
    BY <1>0, <1>2 DEF Owned, Freeing
  <1>3. CASE (\E q \in Req : Submit(q)) \/ (\E q \in MayCancel : Cancel(q)) \/ UNCHANGED vars
    BY <1>1, <1>3 DEF Submit, Cancel, vars, queues
  <1>4. CASE Drain \/ Admit \/ StartStep \/ FillEnd
    BY <1>1, <1>4 DEF Drain, Admit, StartStep, FillEnd, queues
  <1>5. CASE FreeMore
    <2>1. PICK v \in Req : FreeOne(v)
      BY <1>5 DEF FreeMore
    <2>2. Freeing(v) /\ UNCHANGED <<pc, waiting, running>>
      BY <2>1, <1>5, FreeOneFrees DEF FreeMore, queues
    <2> QED BY <2>2, <1>0 DEF Owned, Freeing
  <1>6. CASE DropWaiting
    <2>1. at <= Len(waiting) => waiting[at] \in Req
      BY DEF SchedTypeOK
    <2>2. \/ UNCHANGED allocVars
          \/ at <= Len(waiting) /\ Release(waiting[at])
      BY <1>6 DEF DropWaiting
    <2>3. pc # "acquire" /\ running' = running
      BY <1>6 DEF DropWaiting
    <2> QED BY <2>1, <2>2, <2>3, <1>1, <1>2, ReleaseFrees
  <1>7. CASE DropRunning
    <2>1. CASE UNCHANGED <<allocVars, running>>
      BY <2>1, <1>1, <1>7 DEF DropRunning
    <2>2. CASE /\ at <= Len(running) /\ Release(running[at])
               /\ running' = RemoveAt(running, at)
      <3>1. at \in 1 .. Len(running)
        BY <2>2 DEF SchedTypeOK
      <3>2. running[at] \in Req /\ ToSet(running') = ToSet(running) \ {running[at]}
        BY <3>1, <2>2, EraseQueue DEF QueueInv, QueueTypes, QueuesApart
      <3> QED BY <3>2, <2>2, <1>2, <1>7, ReleaseFrees DEF DropRunning
    <2> QED BY <2>1, <2>2, <1>7 DEF DropRunning
  <1>8. CASE Fill
    <2>1. pc # "acquire" /\ UNCHANGED allocVars
      BY <1>8 DEF Fill
    <2>2. ToSet(running) \subseteq ToSet(running')
      <3>1. CASE running' = running
        BY <3>1
      <3>2. CASE running' = Append(running, Head(waiting))
        <4>1. Head(waiting) \in Req
          BY <1>8 DEF Fill, MayFill, SchedTypeOK
        <4> QED BY <4>1, <3>2, AppendQueue DEF SchedTypeOK
      <3> QED BY <3>1, <3>2, <1>8 DEF Fill, ToRunning
    <2> QED BY <2>1, <2>2, <1>1
  <1>9. CASE AcquireHit
    <2>1. /\ Head(waiting) \in Req
          /\ UNCHANGED <<pc, waiting, running>> /\ pc = "acquire" /\ freed' = freed
          /\ \A g \in Req \ {Head(waiting)} : table'[g] = table[g]
      BY <1>9, AdoptedPrefix DEF AcquireHit, CacheLookup, queues, AllocTypeOK, Req
    <2> QED BY <2>1, <1>0 DEF Owned
  <1>10. CASE AcquireEnd
    <2>1. pc = "acquire" /\ running' = Append(running, Head(waiting)) /\ UNCHANGED allocVars
      BY <1>10 DEF AcquireEnd, ToRunning
    <2>2. Head(waiting) \in Req
      BY <2>1, AdoptedPrefix
    <2>3. ToSet(running') = ToSet(running) \cup {Head(waiting)}
      BY <2>1, <2>2, AppendQueue DEF SchedTypeOK
    <2> QED BY <2>1, <2>3, <1>0 DEF Owned, allocVars
  <1>11. CASE StartBuild \/ Pick \/ PickStale \/ PickEnd \/ AddRequest
    BY <1>1, <1>11 DEF StartBuild, Pick, Picking, PickStale, Crash, PickEnd, AddRequest,
                       Growing, queues
  <1>12. CASE GrowAlloc
    <2>1. /\ pc = "grow" /\ cur[1] \in Req
          /\ UNCHANGED <<pc, waiting, running>> /\ freed' = freed
          /\ \A g \in Req \ {cur[1]} : table'[g] = table[g]
      BY <1>12 DEF GrowAlloc, Growing, AllocOne, queues, AllocTypeOK, SchedTypeOK, Req
    <2>2. cur[1] \in ToSet(running)
      BY <2>1 DEF TablesOwned
    <2> QED BY <2>1, <2>2, <1>0 DEF Owned
  <1>13. CASE Preempt
    <2>1. PICK k : k = Max(Others)
      OBVIOUS
    <2>2. k \in 1 .. Len(running) /\ Release(running[k]) /\ running' = RemoveAt(running, k)
      BY <2>1, <1>13, VictimRuns DEF Preempt
    <2>3. running[k] \in Req /\ ToSet(running') = ToSet(running) \ {running[k]}
      BY <2>2, EraseQueue DEF QueueInv, QueueTypes, QueuesApart
    <2> QED BY <2>2, <2>3, <1>2, <1>13, ReleaseFrees DEF Preempt, Growing
  <1>14. ASSUME NEW v \in Req, Release(v), running' = RemoveFirst(running, v), pc # "acquire"
         PROVE  Owned(r)'
    <2>1. ToSet(running') = ToSet(running) \ {v}
      BY <1>14, RemoveFirstQueue DEF QueueInv, QueueTypes, QueuesApart
    <2> QED BY <2>1, <1>2, <1>14, ReleaseFrees
  <1>15. CASE GrowFail
    <2>1. cur[1] \in Req
      BY <1>15 DEF GrowFail, Growing, SchedTypeOK
    <2> QED BY <2>1, <1>14, <1>15 DEF GrowFail, Growing
  <1>16. CASE Retire
    <2>1. Head(done) \in Req
      BY <1>16 DEF Retire, SchedTypeOK
    <2> QED BY <2>1, <1>14, <1>16 DEF Retire
  <1>17. CASE Forward \/ Apply \/ ApplyPastEnd \/ ApplyEnd
    BY <1>1, <1>17 DEF Forward, Apply, ApplyPastEnd, Crash, ApplyEnd, queues
  <1>18. CASE CacheBlockPastEnd \/ CacheNext \/ CacheEnd \/ StepEnd
    BY <1>1, <1>18 DEF CacheBlockPastEnd, Crash, CacheNext, CacheEnd, StepEnd, queues
  <1>19. CASE CacheBlock
    <2>1. table' = table /\ freed' = freed /\ running' = running /\ pc # "acquire"
      BY <1>19 DEF CacheBlock, CacheInsert, queues
    <2> QED BY <2>1, <1>0 DEF Owned
  <1> QED BY <1>3, <1>4, <1>5, <1>6, <1>7, <1>8, <1>9, <1>10, <1>11, <1>12, <1>13, <1>15,
             <1>16, <1>17, <1>18, <1>19 DEF Next, Engine

(* The request under AcquirePrefix stays at the front of waiting_ with a   *)
(* free slot in running_, and takes no block past its last full one.       *)
LEMMA AcquiringStep ==
    ASSUME SchedTypeOK, AllocTypeOK, TablesOwned, [Next]_vars, pc' = "acquire"
    PROVE  /\ waiting' # <<>> /\ Len(running') < NSlots
           /\ Len(table'[Head(waiting')]) <= (NumTokens(Head(waiting))' - 1) \div BlockSize
  <1>1. CASE /\ UNCHANGED <<pc, waiting, running, req>>
             /\ table' = table
    <2>1. \A r : NumTokens(r)' = NumTokens(r)
      BY <1>1 DEF NumTokens, Tokens
    <2> QED BY <2>1, <1>1 DEF TablesOwned, NumTokens, Tokens
  <1>2. CASE (\E q \in Req : Submit(q)) \/ (\E q \in MayCancel : Cancel(q)) \/ UNCHANGED vars
    BY <1>1, <1>2 DEF Submit, Cancel, vars, queues, allocVars
  <1>3. CASE FreeMore
    <2>1. PICK v \in Req : FreeOne(v)
      BY <1>3 DEF FreeMore
    <2>2. Freeing(v) /\ UNCHANGED <<pc, waiting, running, req>>
      BY <2>1, <1>3, FreeOneFrees DEF FreeMore, queues
    <2>3. PICK r : r = Head(waiting)
      OBVIOUS
    <2>4. r \in Req /\ waiting # <<>> /\ Len(running) < NSlots
      BY <2>2, <2>3 DEF TablesOwned, SchedTypeOK
    <2>5. Len(table'[r]) <= Len(table[r])
      <3>1. CASE r = v
        BY <3>1, <2>2 DEF Freeing
      <3>2. CASE r # v
        <4>1. table'[r] = table[r]
          BY <3>2, <2>2, <2>4 DEF Freeing
        <4>2. Len(table[r]) \in Nat
          BY <2>4 DEF AllocTypeOK, Req
        <4> QED BY <4>1, <4>2
      <3> QED BY <3>1, <3>2
    <2>6. NumTokens(r)' = NumTokens(r)
      BY <2>2 DEF NumTokens, Tokens
    <2>7. /\ Len(table[r]) <= (NumTokens(r) - 1) \div BlockSize
          /\ Len(table[r]) \in Nat /\ Len(table'[r]) \in Nat
          /\ (NumTokens(r) - 1) \div BlockSize \in Nat
      <3>1. Len(table[r]) \in Nat
        BY <2>4 DEF AllocTypeOK, Req
      <3>2. Len(table'[r]) \in Nat
        <4>1. table'[r] = <<>> \/ table'[r] = table[r]
          BY <2>1, <2>4 DEF FreeOne, AllocTypeOK, Req
        <4> QED BY <4>1, <3>1
      <3>3. (NumTokens(r) - 1) \div BlockSize \in Nat
        <4>1. NumTokens(r) - 1 \in Nat
          <5>1. NumTokens(r) \in Nat /\ NumTokens(r) >= 1
            BY <2>4, RequestCounts
          <5> QED BY <5>1
        <4> QED BY <4>1, FullBlocks, Config
      <3>4. pc = "acquire"
        BY <2>2
      <3> QED BY <3>1, <3>2, <3>3, <3>4, <2>3 DEF TablesOwned
    <2>8. Len(table'[r]) <= (NumTokens(r) - 1) \div BlockSize
      BY <2>5, <2>7
    <2> QED BY <2>2, <2>3, <2>4, <2>6, <2>8 DEF NumTokens, Tokens
  <1>4. CASE Fill
    <2>1. /\ UNCHANGED <<waiting, running, table, req>>
          /\ waiting # <<>> /\ Len(running) < NSlots
          /\ table[Head(waiting)] = <<>>
      BY <1>4 DEF Fill, MayFill, allocVars
    <2>2. PICK r : r = Head(waiting)
      OBVIOUS
    <2>3. r \in Req /\ NumTokens(r)' = NumTokens(r)
      BY <2>1, <2>2 DEF NumTokens, Tokens, SchedTypeOK
    <2>4. NumTokens(r) - 1 \in Nat
      <3>1. NumTokens(r) \in Nat /\ NumTokens(r) >= 1
        BY <2>3, RequestCounts
      <3> QED BY <3>1
    <2>5. 0 <= (NumTokens(r) - 1) \div BlockSize
      BY <2>4, Config
    <2> QED BY <2>1, <2>2, <2>3, <2>5 DEF NumTokens, Tokens
  <1>5. CASE AcquireHit
    <2>1. PICK r : r = Head(waiting)
      OBVIOUS
    <2>2. r \in Req /\ waiting # <<>> /\ Len(running) < NSlots
      BY <2>1, <1>5 DEF AcquireHit, TablesOwned, SchedTypeOK
    <2>3. UNCHANGED <<waiting, running, req>>
      BY <1>5 DEF AcquireHit, queues
    <2>4. Len(table[r]) < (NumTokens(r) - 1) \div BlockSize
      BY <2>1, <1>5 DEF AcquireHit, PrefixHit
    <2>5. PICK k : CacheLookup(r, k)
      BY <2>1, <1>5 DEF AcquireHit
    <2>6. table'[r] = Append(table[r], cached[k]) /\ table[r] \in Seq(Block)
      BY <2>2, <2>5 DEF CacheLookup, AllocTypeOK, Req
    <2>7. Len(table'[r]) = Len(table[r]) + 1 /\ Len(table[r]) \in Nat
      <3>1. k \in DOMAIN cached
        BY <2>5 DEF CacheLookup
      <3>2. cached[k] \in Block
        BY <3>1 DEF AllocTypeOK
      <3> QED BY <3>2, <2>6
    <2>8. (NumTokens(r) - 1) \div BlockSize \in Int
      <3>1. NumTokens(r) \in Nat
        BY <2>2, RequestCounts
      <3> QED BY <3>1, Config
    <2>9. Len(table'[r]) <= (NumTokens(r) - 1) \div BlockSize
      BY <2>4, <2>7, <2>8
    <2>10. NumTokens(r)' = NumTokens(r)
      BY <2>3 DEF NumTokens, Tokens
    <2> QED BY <2>1, <2>2, <2>3, <2>9, <2>10 DEF NumTokens, Tokens
  <1>6. ~(\/ Drain \/ Admit \/ StartStep \/ DropWaiting \/ DropRunning \/ AcquireEnd \/ FillEnd)
    BY DEF Drain, Admit, StartStep, DropWaiting, DropRunning, AcquireEnd, FillEnd
  <1>7. ~(\/ StartBuild \/ Pick \/ PickStale \/ PickEnd \/ GrowAlloc \/ Preempt \/ GrowFail
          \/ AddRequest)
    BY DEF StartBuild, Pick, Picking, PickStale, Crash, PickEnd, GrowAlloc, Preempt, GrowFail,
           Growing, AddRequest
  <1>8. ~(\/ Forward \/ Apply \/ ApplyPastEnd \/ ApplyEnd \/ CacheBlock \/ CacheBlockPastEnd
          \/ CacheNext \/ CacheEnd \/ Retire \/ StepEnd)
    BY DEF Forward, Apply, ApplyPastEnd, Crash, ApplyEnd, CacheBlock, CacheBlockPastEnd,
           CacheNext, CacheEnd, Retire, StepEnd
  <1> QED BY <1>2, <1>3, <1>4, <1>5, <1>6, <1>7, <1>8 DEF Next, Engine

(* The request Grow works for keeps running: only others are preempted. *)
LEMMA GrowingStep ==
    ASSUME SchedTypeOK, QueueInv, TablesOwned, [Next]_vars, pc' = "grow"
    PROVE  cur'[1] \in ToSet(running')
  <1>1. CASE UNCHANGED <<pc, cur, running>>
    BY <1>1 DEF TablesOwned
  <1>2. CASE (\E q \in Req : Submit(q)) \/ (\E q \in MayCancel : Cancel(q)) \/ UNCHANGED vars
    BY <1>1, <1>2 DEF Submit, Cancel, vars, queues, build
  <1>3. CASE FreeMore \/ GrowAlloc
    BY <1>1, <1>3 DEF FreeMore, GrowAlloc, queues, build
  <1>4. CASE Pick
    <2>1. /\ order # <<>> /\ Head(order) <= Len(running) /\ running' = running
          /\ cur' = <<running[Head(order)], ChunkFor(running[Head(order)])>>
      BY <1>4 DEF Pick, Picking, queues
    <2>2. Head(order) \in DOMAIN running
      BY <2>1 DEF SchedTypeOK
    <2> QED BY <2>1, <2>2 DEF ToSet
  <1>5. CASE Preempt
    <2>1. PICK k : k = Max(Others)
      OBVIOUS
    <2>2. /\ k \in 1 .. Len(running) /\ running[k] # cur[1] /\ running' = RemoveAt(running, k)
          /\ cur' = cur /\ pc = "grow"
      BY <2>1, <1>5, VictimRuns DEF Preempt, build, Growing
    <2>3. ToSet(running') = ToSet(running) \ {running[k]}
      BY <2>2, EraseQueue DEF QueueInv, QueueTypes, QueuesApart
    <2> QED BY <2>2, <2>3 DEF TablesOwned
  <1>6. ~(\/ Drain \/ Admit \/ StartStep \/ DropWaiting \/ DropRunning \/ Fill \/ AcquireHit
          \/ AcquireEnd \/ FillEnd)
    BY DEF Drain, Admit, StartStep, DropWaiting, DropRunning, Fill, AcquireHit, AcquireEnd,
           FillEnd
  <1>7. ~(\/ StartBuild \/ PickStale \/ PickEnd \/ GrowFail \/ AddRequest)
    BY DEF StartBuild, PickStale, Crash, PickEnd, GrowFail, AddRequest
  <1>8. ~(\/ Forward \/ Apply \/ ApplyPastEnd \/ ApplyEnd \/ CacheBlock \/ CacheBlockPastEnd
          \/ CacheNext \/ CacheEnd \/ Retire \/ StepEnd)
    BY DEF Forward, Apply, ApplyPastEnd, Crash, ApplyEnd, CacheBlock, CacheBlockPastEnd,
           CacheNext, CacheEnd, Retire, StepEnd
  <1> QED BY <1>2, <1>3, <1>4, <1>5, <1>6, <1>7, <1>8 DEF Next, Engine

(* No step leaves blocks with a request that is neither running nor under  *)
(* AcquirePrefix, except while its Free() is under way.                    *)
LEMMA TablesOwnedStep ==
    ASSUME SchedTypeOK, AllocTypeOK, QueueInv, TablesOwned, CursorBound, [Next]_vars
    PROVE  TablesOwned'
  <1>1. ASSUME NEW r \in Req, table'[r] # <<>>
        PROVE  Owned(r)'
    BY <1>1, OwnedStep
  <1>2. pc' = "acquire" =>
           /\ waiting' # <<>> /\ Len(running') < NSlots
           /\ Len(table'[Head(waiting')]) <= (NumTokens(Head(waiting))' - 1) \div BlockSize
    BY AcquiringStep
  <1>3. pc' = "grow" => cur'[1] \in ToSet(running')
    BY GrowingStep
  <1> QED BY <1>1, <1>2, <1>3 DEF TablesOwned, Owned

-----------------------------------------------------------------------------
(* The batch under construction *)

(* The entries of a request in the batch are finitely many. *)
LEMMA EntriesFinite ==
    ASSUME SchedTypeOK, NEW r
    PROVE  IsFiniteSet(Entries(r)) /\ Cardinality(Entries(r)) \in Nat
  <1>1. Len(batch) \in Nat /\ DOMAIN batch = 1 .. Len(batch)
    BY DEF SchedTypeOK
  <1>2. IsFiniteSet(DOMAIN batch)
    BY <1>1, FS_Interval
  <1>3. Entries(r) \in SUBSET (DOMAIN batch)
    BY DEF Entries
  <1> QED BY <1>2, <1>3, FS_Subset, FS_CardinalityType

(* AddRequest gives its request one more entry, with n rows, and the       *)
(* others none.                                                            *)
LEMMA AddedEntry ==
    ASSUME SchedTypeOK, AllocTypeOK, CursorBound, AddRequest,
           NEW r, NEW n, NEW m, NEW c,
           r = cur[1], n = cur[2], m = Len(batch), c = req[r].computed
    PROVE  /\ Len(batch') = m + 1
           /\ Entries(r)' = Entries(r) \cup {m + 1} /\ m + 1 \notin Entries(r)
           /\ \A g \in Req \ {r} : Entries(g)' = Entries(g)
           /\ BatchRows' = BatchRows \cup ({m + 1} \X (c .. c + n - 1))
           /\ \A x \in BatchRows : x[1] # m + 1
  <1>2. r \in Req /\ n \in Nat /\ m \in Nat /\ c \in Nat /\ batch \in Seq(EntryType)
    BY GrowingChunk, RequestCounts DEF AddRequest, Growing, SchedTypeOK
  <1>3. PICK e : e = [r |-> r, start |-> c, n |-> n, blocks |-> table[r],
                      sample |-> Samples(r, n)]
    OBVIOUS
  <1>4. batch' = Append(batch, e) /\ e.r = r /\ e.start = c /\ e.n = n
    BY <1>3 DEF AddRequest
  <1>5. /\ Len(batch') = m + 1 /\ DOMAIN batch' = 1 .. m + 1 /\ DOMAIN batch = 1 .. m
        /\ batch'[m + 1] = e /\ \A i \in 1 .. m : batch'[i] = batch[i]
    <2>1. /\ Len(batch') = m + 1 /\ DOMAIN batch = 1 .. m
          /\ batch'[m + 1] = e /\ \A i \in 1 .. m : batch'[i] = batch[i]
      BY <1>2, <1>4
    <2>2. DOMAIN batch' = 1 .. m + 1
      BY <1>2, <1>4
    <2> QED BY <2>1, <2>2
  <1>6. \A g : Entries(g) = {i \in 1 .. m : batch[i].r = g}
    BY <1>5 DEF Entries
  <1>7. \A g : Entries(g)' = {i \in 1 .. m + 1 : batch'[i].r = g}
    BY <1>5 DEF Entries
  <1>8. 1 .. m + 1 = (1 .. m) \cup {m + 1} /\ m + 1 \notin 1 .. m
    BY <1>2
  <1>9. /\ Entries(r)' = Entries(r) \cup {m + 1} /\ m + 1 \notin Entries(r)
        /\ \A g \in Req \ {r} : Entries(g)' = Entries(g)
    <2>1. ASSUME NEW g, NEW i PROVE i \in Entries(g)' <=> i \in 1 .. m + 1 /\ batch'[i].r = g
      BY <1>7
    <2>2. ASSUME NEW g, NEW i PROVE i \in Entries(g) <=> i \in 1 .. m /\ batch[i].r = g
      BY <1>6
    <2>3. ASSUME NEW g, NEW i
          PROVE  i \in Entries(g)' <=> i \in Entries(g) \/ (i = m + 1 /\ g = r)
      BY <2>1, <2>2, <1>4, <1>5, <1>8
    <2>4. m + 1 \notin Entries(r)
      BY <2>2, <1>8
    <2>5. Entries(r)' = Entries(r) \cup {m + 1}
      BY <2>3
    <2>6. ASSUME NEW g \in Req \ {r} PROVE Entries(g)' = Entries(g)
      <3>1. ASSUME NEW i PROVE i \in Entries(g)' <=> i \in Entries(g)
        BY <2>3, <2>6
      <3>2. \A i : i \in Entries(g)' <=> i \in Entries(g)
        BY <3>1
      <3> QED BY <3>2, Zenon
    <2> QED BY <2>4, <2>5, <2>6
  <1>10. BatchRows' = BatchRows \cup ({m + 1} \X (c .. c + n - 1))
    <2>1. BatchRows = UNION {{i} \X Rows(batch[i]) : i \in 1 .. m}
      BY <1>5 DEF BatchRows
    <2>2. BatchRows' = UNION {{i} \X Rows(batch'[i]) : i \in 1 .. m + 1}
      BY <1>5 DEF BatchRows, Rows
    <2>3. Rows(batch'[m + 1]) = c .. c + n - 1
      BY <1>4, <1>5 DEF Rows
    <2>4. \A i \in 1 .. m : Rows(batch'[i]) = Rows(batch[i])
      BY <1>5
    <2>5. \A x : x \in BatchRows' <=> \/ \E i \in 1 .. m : x \in {i} \X Rows(batch[i])
                                      \/ x \in {m + 1} \X (c .. c + n - 1)
      <3>1. \A x : x \in BatchRows' <=> \E i \in 1 .. m + 1 : x \in {i} \X Rows(batch'[i])
        BY <2>2
      <3>2. \A x : (\E i \in 1 .. m + 1 : x \in {i} \X Rows(batch'[i]))
                      <=> \/ \E i \in 1 .. m : x \in {i} \X Rows(batch'[i])
                          \/ x \in {m + 1} \X Rows(batch'[m + 1])
        BY <1>8, Zenon
      <3> QED BY <3>1, <3>2, <2>3, <2>4, Zenon
    <2>6. \A x : x \in BatchRows <=> \E i \in 1 .. m : x \in {i} \X Rows(batch[i])
      BY <2>1
    <2>7. \A x : x \in BatchRows' <=> x \in BatchRows \/ x \in {m + 1} \X (c .. c + n - 1)
      BY <2>5, <2>6
    <2> QED BY <2>7, Zenon
  <1>11. \A x \in BatchRows : x[1] # m + 1
    BY <1>5, <1>8 DEF BatchRows
  <1> QED BY <1>5, <1>9, <1>10, <1>11

(* With less budget a request gets no longer a chunk. *)
LEMMA ChunkShrinks ==
    ASSUME NEW r \in Req, Remaining(r) \in Int, Remaining(r)' = Remaining(r),
           budget \in Nat, budget' \in Nat, budget' <= budget
    PROVE  ChunkFor(r)' <= ChunkFor(r)
  BY Config DEF ChunkFor, AtMost

(* The cursor of every request stays below its tokens and one budget. *)
CursorsBelow == \A r \in Req : req[r].computed <= NumTokens(r) + TokenBudget

(* A step that changes no request keeps all cursors within the bound. *)
LEMMA CursorsFrame ==
    ASSUME SchedTypeOK, CursorsBelow, UNCHANGED req
    PROVE  CursorsBelow'
  BY DEF CursorsBelow, NumTokens, Tokens

(* So does every step: only Apply moves a cursor up, by a chunk that the   *)
(* bound on batch entries limits.                                          *)
LEMMA CursorsStep ==
    ASSUME SchedTypeOK, AllocTypeOK, QueueInv, TablesOwned, CursorBound,
           [Next]_vars
    PROVE  CursorsBelow'
  <1>0. CursorsBelow /\ TokenBudget \in Nat /\ req \in [Req -> RequestType]
    BY Config DEF CursorBound, CursorsBelow, SchedTypeOK
  <1>1. ASSUME UNCHANGED req PROVE CursorsBelow'
    BY <1>0, <1>1, CursorsFrame
  <1>2. ASSUME NEW r \in Req,
               \A g \in Req \ {r} : req'[g] = req[g],
               req'[r].computed <= NumTokens(r)' + TokenBudget
        PROVE  CursorsBelow'
    <2>1. ASSUME NEW g \in Req \ {r}
          PROVE  NumTokens(g)' = NumTokens(g) /\ req'[g] = req[g]
      BY <1>2 DEF NumTokens, Tokens
    <2> QED BY <2>1, <1>0, <1>2 DEF CursorsBelow
  <1>3. ASSUME NEW r \in Req,
               \A g \in Req \ {r} : req'[g] = req[g],
               req'[r].computed = req[r].computed,
               NumTokens(r)' \in Nat, NumTokens(r)' >= NumTokens(r)
        PROVE  CursorsBelow'
    <2>1. NumTokens(r) \in Nat /\ req[r].computed \in Nat
      BY RequestCounts
    <2>2. req[r].computed <= NumTokens(r) + TokenBudget
      BY <1>0 DEF CursorsBelow
    <2>3. req'[r].computed <= NumTokens(r)' + TokenBudget
      BY <2>1, <2>2, <1>0, <1>3
    <2> QED BY <2>3, <1>2, <1>3
  <1>4. ASSUME NEW r \in Req,
               \A g \in Req \ {r} : req'[g] = req[g],
               req'[r].computed = req[r].computed, req'[r].output = req[r].output
        PROVE  CursorsBelow'
    <2>1. NumTokens(r)' = NumTokens(r)
      BY <1>4 DEF NumTokens, Tokens
    <2>2. NumTokens(r) \in Nat
      BY RequestCounts
    <2> QED BY <2>1, <2>2, <1>3, <1>4
  <1>5. CASE AcquireEnd
    <2>1. PICK r, nb : r = Head(waiting) /\ nb = Len(table[r])
      OBVIOUS
    <2>2. r \in Req /\ nb \in Nat /\ nb * BlockSize <= NumTokens(r) /\ nb * BlockSize \in Nat
      BY <2>1, <1>5, AdoptedPrefix DEF AcquireEnd
    <2>3. CASE req' = [req EXCEPT ![r] = AdoptPrefix(req[r], nb, PrefixHash(r, nb))]
      <3>1. req[r] \in RequestType /\ NumTokens(r) \in Nat
        BY <2>2, RequestCounts
      <3>2. /\ req'[r].computed = nb * BlockSize /\ req'[r].output = req[r].output
            /\ \A g \in Req \ {r} : req'[g] = req[g]
        BY <2>2, <2>3, <3>1, <1>0 DEF AdoptPrefix, RequestType
      <3>3. NumTokens(r)' = NumTokens(r)
        BY <3>2 DEF NumTokens, Tokens
      <3>4. req'[r].computed <= NumTokens(r)' + TokenBudget
        BY <3>1, <3>2, <3>3, <2>2, <1>0
      <3> QED BY <3>2, <3>4, <2>2, <1>2
    <2> QED BY <2>1, <2>3, <1>1, <1>5 DEF AcquireEnd
  <1>6. CASE Preempt
    <2>1. PICK v : v = running[Max(Others)]
      OBVIOUS
    <2>2. v \in Req /\ req' = [req EXCEPT ![v] = ResetForRecompute(req[v])]
      <3>1. Max(Others) \in 1 .. Len(running)
        BY <1>6, VictimRuns DEF Preempt
      <3> QED BY <3>1, <2>1, <1>6 DEF Preempt, SchedTypeOK
    <2>3. /\ req'[v].computed = 0 /\ req'[v].output = req[v].output
          /\ \A g \in Req \ {v} : req'[g] = req[g]
      BY <2>2, <1>0 DEF ResetForRecompute, RequestType
    <2>4. NumTokens(v)' = NumTokens(v) /\ NumTokens(v) \in Nat
      BY <2>2, <2>3, RequestCounts DEF NumTokens, Tokens
    <2>5. req'[v].computed <= NumTokens(v)' + TokenBudget
      BY <2>3, <2>4, <1>0
    <2> QED BY <2>2, <2>3, <2>5, <1>2
  <1>7. CASE AddRequest
    <2>1. PICK r, n : r = cur[1] /\ n = cur[2]
      OBVIOUS
    <2>2. r \in Req /\ req' = [req EXCEPT ![r].num_new = n]
      BY <2>1, <1>7 DEF AddRequest, Growing, SchedTypeOK
    <2>3. /\ req'[r].computed = req[r].computed /\ req'[r].output = req[r].output
          /\ \A g \in Req \ {r} : req'[g] = req[g]
      BY <2>2, <1>0 DEF RequestType
    <2> QED BY <2>2, <2>3, <1>4
  <1>8. CASE Forward
    <2>1. ASSUME NEW r \in Req
          PROVE  req'[r].computed <= NumTokens(r)' + TokenBudget
      <3>1. PICK k, c, n, m : /\ k = Cardinality(Entries(r)) /\ c = req[r].computed
                              /\ n = req[r].num_new /\ m = NumTokens(r)
        OBVIOUS
      <3>2. k \in Nat /\ c \in Nat /\ n \in Nat /\ m \in Nat /\ budget \in Nat
        BY <3>1, EntriesFinite, RequestCounts DEF SchedTypeOK
      <3>3. /\ req'[r].computed = c + n * k /\ req'[r].output = req[r].output
        <4>1. req'[r] = [req[r] EXCEPT !.computed = req[r].computed + req[r].num_new *
                            Cardinality(Entries(r))]
          BY <1>8 DEF Forward, Entries
        <4>2. req[r] \in RequestType
          BY <1>0
        <4> QED BY <4>1, <4>2, <3>1 DEF RequestType
      <3>4. NumTokens(r)' = m
        BY <3>1, <3>3 DEF NumTokens, Tokens
      <3>5. CASE Entries(r) = {}
        <4>1. k = 0
          BY <3>1, <3>5, FS_EmptySet
        <4>2. c <= m + TokenBudget
          BY <3>1, <1>0 DEF CursorsBelow
        <4>3. c + n * k <= m + TokenBudget
          BY <4>1, <4>2, <3>2, <1>0
        <4> QED BY <4>3, <3>3, <3>4
      <3>6. CASE Entries(r) # {}
        <4>1. c <= m /\ budget + n * k <= TokenBudget
          BY <3>1, <3>6, <1>8 DEF Forward, CursorBound, Building
        <4>2. n * k \in Nat
          BY <3>2
        <4>3. c + n * k <= m + TokenBudget
          BY <4>1, <4>2, <3>2, <1>0
        <4> QED BY <4>3, <3>3, <3>4
      <3> QED BY <3>5, <3>6
    <2> QED BY <2>1 DEF CursorsBelow
  <1>9. ASSUME NEW r \in Req, NEW t \in Token, Accept(r, t)
        PROVE  CursorsBelow'
    <2>1. PICK o : o = Append(req[r].output, t)
      OBVIOUS
    <2>2. req[r].output \in Seq(Token) /\ req[r] \in RequestType
      BY RequestCounts
    <2>3. o \in Seq(Token) /\ Len(o) = Len(req[r].output) + 1 /\ Len(req[r].output) \in Nat
      BY <2>1, <2>2
    <2>4. req' = [req EXCEPT ![r].output = o]
      BY <2>1, <1>9 DEF Accept
    <2>5. /\ req'[r].computed = req[r].computed /\ req'[r].output = o
          /\ \A g \in Req \ {r} : req'[g] = req[g]
      BY <2>2, <2>4, <1>0 DEF RequestType
    <2>6. NumTokens(r)' = Len(Prompt[r]) + Len(o) /\ Len(Prompt[r]) \in Nat
      <3>1. Prompt[r] \in Seq(Token)
        BY RequestAssumption
      <3>2. PICK p : p = Prompt[r]
        OBVIOUS
      <3>3. Len(p \o o) = Len(p) + Len(o)
        BY <3>1, <3>2, <2>3, ConcatProperties, Zenon
      <3> QED BY <3>1, <3>2, <3>3, <2>5 DEF NumTokens, Tokens
    <2>7. NumTokens(r) = Len(Prompt[r]) + Len(req[r].output)
      BY <2>2, TokensType
    <2>8. NumTokens(r)' \in Nat /\ NumTokens(r)' >= NumTokens(r)
      <3>1. \A x, y \in Nat : x + (y + 1) \in Nat /\ x + (y + 1) >= x + y
        OBVIOUS
      <3>2. NumTokens(r)' = Len(Prompt[r]) + (Len(req[r].output) + 1)
        BY <2>3, <2>6, Zenon
      <3> QED BY <3>1, <3>2, <2>3, <2>6, <2>7, Zenon
    <2> QED BY <2>5, <2>8, <1>3
  <1>10. ASSUME at <= Len(batch) PROVE batch[at].r \in Req
    <2>1. at \in 1 .. Len(batch)
      BY <1>10 DEF SchedTypeOK
    <2> QED BY <2>1, BatchEntry
  <1>11. CASE Apply
    <2>1. sampled # <<>> => Head(sampled) \in Token
      BY DEF SchedTypeOK
    <2> QED BY <2>1, <1>1, <1>9, <1>10, <1>11 DEF Apply
  <1>12. CASE ApplyPastEnd
    BY <1>1, <1>9, <1>10, <1>12 DEF ApplyPastEnd, Crash
  <1>13. CASE CacheBlock
    <2>1. PICK r : r = batch[at].r
      OBVIOUS
    <2>2. r \in Req /\ req[r] \in RequestType
      BY <2>1, <1>0, <1>10, <1>13 DEF CacheBlock
    <2>3. PICK k, h : req' = [req EXCEPT ![r].cached_blocks = k, ![r].last_hash = h]
      <3>1. PICK junk \in Token :
               LET h == HashBlock(req[r].last_hash, r, req[r].cached_blocks * BlockSize, junk)
               IN req' = [req EXCEPT ![r].cached_blocks = req[r].cached_blocks + 1,
                                     ![r].last_hash = h]
        BY <2>1, <1>13 DEF CacheBlock
      <3> QED BY <3>1, Zenon
    <2>4. /\ req'[r].computed = req[r].computed /\ req'[r].output = req[r].output
          /\ \A g \in Req \ {r} : req'[g] = req[g]
      BY <2>2, <2>3, <1>0 DEF RequestType
    <2> QED BY <2>2, <2>4, <1>4
  <1>14. CASE CacheNext
    <2>1. PICK r : r = batch[at].r
      OBVIOUS
    <2>2. r \in Req /\ req[r] \in RequestType
      BY <2>1, <1>0, <1>10, <1>14 DEF CacheNext
    <2>3. PICK k : req' = [req EXCEPT ![r].cached_blocks = k]
      BY <2>1, <1>14 DEF CacheNext
    <2>4. /\ req'[r].computed = req[r].computed /\ req'[r].output = req[r].output
          /\ \A g \in Req \ {r} : req'[g] = req[g]
      BY <2>2, <2>3, <1>0 DEF RequestType
    <2> QED BY <2>2, <2>4, <1>4
  <1>15. CASE (\E r \in Req : Submit(r)) \/ (\E r \in MayCancel : Cancel(r)) \/ UNCHANGED vars
    BY <1>1, <1>15 DEF Submit, Cancel, vars
  <1>16. CASE \/ Drain \/ Admit \/ StartStep \/ FreeMore \/ DropWaiting \/ DropRunning
              \/ Fill \/ AcquireHit \/ FillEnd
    BY <1>1, <1>16 DEF Drain, Admit, StartStep, FreeMore, DropWaiting, DropRunning, Fill,
                       AcquireHit, FillEnd
  <1>17. CASE \/ StartBuild \/ Pick \/ PickStale \/ PickEnd \/ GrowAlloc \/ GrowFail
    BY <1>1, <1>17 DEF StartBuild, Pick, PickStale, Crash, PickEnd, GrowAlloc, GrowFail
  <1>18. CASE \/ ApplyEnd \/ CacheBlockPastEnd \/ CacheEnd \/ Retire \/ StepEnd
    BY <1>1, <1>18 DEF ApplyEnd, CacheBlockPastEnd, Crash, CacheEnd, Retire, StepEnd
  <1> QED BY <1>5, <1>6, <1>7, <1>8, <1>11, <1>12, <1>13, <1>14, <1>15, <1>16, <1>17, <1>18
          DEF Next, Engine

(* The budget the chunks of a request have taken, and how long its next    *)
(* one can be: the parts of CursorBound about the batch under way.         *)
Charged(r) ==
    /\ req[r].computed <= NumTokens(r)
    /\ budget + req[r].num_new * Cardinality(Entries(r)) <= TokenBudget

(* A second chunk of r is no longer than the first, so that n more for     *)
(* each of the entries it then has still fits into the budget.             *)
LEMMA SecondChunk ==
    ASSUME NEW b \in Nat, NEW n \in Nat, NEW m \in Nat, NEW k \in Nat,
           NEW B \in Nat, n <= m, b + m * k <= B
    PROVE  (b - n) + n * (k + 1) <= B
  <1>1. n * k <= m * k
    OBVIOUS
  <1>2. n * (k + 1) = n * k + n /\ n * k \in Nat /\ m * k \in Nat
    OBVIOUS
  <1> QED BY <1>1, <1>2

(* A step that leaves requests, batch and budget alone, and adds nobody to *)
(* running_, keeps the bounds on cursors and chunks.                       *)
LEMMA CursorBoundFrame ==
    ASSUME SchedTypeOK, CursorBound, UNCHANGED <<req, batch, budget, pc, cur>>,
           ToSet(running') \subseteq ToSet(running)
    PROVE  CursorBound'
  <1>1. \A r : /\ NumTokens(r)' = NumTokens(r) /\ Remaining(r)' = Remaining(r)
               /\ ChunkFor(r)' = ChunkFor(r) /\ Entries(r)' = Entries(r)
    BY DEF NumTokens, Tokens, Remaining, ChunkFor, Entries
  <1>2. CursorsBelow'
    BY CursorsFrame DEF CursorBound, CursorsBelow
  <1>3. pc = "grow" => Remaining(cur[1])' = Remaining(cur[1]) /\ ChunkFor(cur[1])' = ChunkFor(cur[1])
    BY DEF NumTokens, Tokens, Remaining, ChunkFor
  <1> QED BY <1>1, <1>2, <1>3 DEF CursorBound, CursorsBelow, Building

(* What AddRequest charges stays within the budget of the step. *)
LEMMA AddRequestCharges ==
    ASSUME SchedTypeOK, AllocTypeOK, TablesOwned, CursorBound, BatchBound, AddRequest,
           NEW g \in Req, Entries(g)' # {}
    PROVE  /\ Charged(g)'
           /\ g \in ToSet(running) => ChunkFor(g)' <= req'[g].num_new
  <1>1. PICK r, n, m, c : r = cur[1] /\ n = cur[2] /\ m = Len(batch) /\ c = req[r].computed
    OBVIOUS
  <1>2. /\ pc = "grow" /\ r \in Req /\ n \in Nat \ {0} /\ budget \in Nat /\ n <= budget
        /\ budget' = budget - n /\ budget' \in Nat /\ budget' <= budget
        /\ Remaining(r) > 0 /\ n = ChunkFor(r) /\ r \in ToSet(running)
    <2>1. pc = "grow" /\ budget' = budget - n
      BY <1>1 DEF AddRequest, Growing
    <2>2. r \in Req /\ n \in Nat \ {0} /\ n <= budget /\ budget - n \in Nat /\ budget \in Nat
      BY <2>1, <1>1, GrowingChunk DEF SchedTypeOK
    <2>3. Remaining(r) > 0 /\ n = ChunkFor(r) /\ r \in ToSet(running)
      BY <2>1, <1>1 DEF CursorBound, TablesOwned
    <2> QED BY <2>1, <2>2, <2>3
  <1>3. /\ Entries(r)' = Entries(r) \cup {m + 1} /\ m + 1 \notin Entries(r)
        /\ \A q \in Req \ {r} : Entries(q)' = Entries(q)
    BY <1>1, AddedEntry
  <1>4. /\ req[g] \in RequestType /\ req[g].computed \in Nat /\ NumTokens(g) \in Nat
        /\ req[g].num_new \in Nat /\ Remaining(g) \in Int
        /\ Remaining(g) = NumTokens(g) - req[g].computed
    BY RequestCounts
  <1>5. /\ req'[g].computed = req[g].computed /\ req'[g].output = req[g].output
        /\ req'[g].num_new = IF g = r THEN n ELSE req[g].num_new
    <2>1. req' = [req EXCEPT ![r].num_new = n]
      BY <1>1 DEF AddRequest
    <2> QED BY <2>1, <1>2, <1>4 DEF RequestType, SchedTypeOK
  <1>6. NumTokens(g)' = NumTokens(g) /\ Remaining(g)' = Remaining(g)
    BY <1>5 DEF NumTokens, Remaining, Tokens
  <1>7. ChunkFor(g)' <= ChunkFor(g) /\ ChunkFor(g) \in Int
    BY <1>2, <1>4, <1>6, ChunkShrinks, ChunkBounds
  <1>8. TokenBudget \in Nat
    BY Config
  <1>9. CASE g # r
    <2>1. Entries(g)' = Entries(g) /\ Entries(g) # {} /\ req'[g].num_new = req[g].num_new
      BY <1>3, <1>5, <1>9
    <2>2. Charged(g)
      BY <2>1, <1>2 DEF CursorBound, Building, Charged
    <2>3. PICK k : k = Cardinality(Entries(g))
      OBVIOUS
    <2>4. k \in Nat
      BY <2>3, EntriesFinite
    <2>5. budget' + req[g].num_new * k <= TokenBudget
      <3>1. budget + req[g].num_new * k <= TokenBudget /\ req[g].num_new * k \in Nat
        BY <2>2, <2>3, <2>4, <1>4 DEF Charged
      <3> QED BY <3>1, <1>2, <1>8
    <2>6. Charged(g)'
      BY <2>1, <2>2, <2>3, <2>5, <1>5, <1>6 DEF Charged
    <2>7. g \in ToSet(running) => ChunkFor(g) <= req[g].num_new
      BY <2>1, <1>2 DEF CursorBound
    <2>8. ChunkFor(g)' \in Int
      <3>1. Remaining(g)' \in Int
        BY <1>4, <1>6
      <3> QED BY <3>1, <1>2, Config DEF ChunkFor, AtMost
    <2>9. g \in ToSet(running) => ChunkFor(g)' <= req[g].num_new
      BY <2>7, <2>8, <1>4, <1>7
    <2> QED BY <2>1, <2>6, <2>9
  <1>10. CASE g = r
    <2>1. PICK k : k = Cardinality(Entries(r))
      OBVIOUS
    <2>2. k \in Nat /\ IsFiniteSet(Entries(r))
      BY <2>1, EntriesFinite
    <2>3. Cardinality(Entries(r)') = k + 1
      BY <2>1, <2>2, <1>3, FS_AddElement
    <2>4. budget' + n * (k + 1) <= TokenBudget
      <3>1. CASE Entries(r) = {}
        <4>1. k = 0
          BY <3>1, <2>1, FS_EmptySet
        <4>2. budget <= TokenBudget
          <5>1. /\ IsFiniteSet(BatchRows)
                /\ budget + Cardinality(BatchRows) <= TokenBudget
            BY <1>2 DEF BatchBound, Building
          <5>2. Cardinality(BatchRows) \in Nat
            BY <5>1, FS_CardinalityType
          <5> QED BY <5>1, <5>2, <1>2, <1>8
        <4> QED BY <4>1, <4>2, <1>2, <1>8
      <3>2. CASE Entries(r) # {}
        <4>1. Charged(r) /\ n <= req[r].num_new
          BY <3>2, <1>2 DEF CursorBound, Building, Charged
        <4>2. budget + req[r].num_new * k <= TokenBudget
          BY <4>1, <2>1 DEF Charged
        <4>3. n \in Nat /\ req[r].num_new \in Nat
          BY <1>2, <1>4, <1>10
        <4>4. (budget - n) + n * (k + 1) <= TokenBudget
          BY <4>1, <4>2, <4>3, <2>2, <1>2, <1>8, SecondChunk, Zenon
        <4> QED BY <4>4, <1>2
      <3> QED BY <3>1, <3>2
    <2>5. req[r].computed <= NumTokens(r)
      BY <1>2, <1>4, <1>10
    <2>6. Charged(r)'
      BY <2>3, <2>4, <2>5, <1>5, <1>6, <1>10 DEF Charged
    <2> QED BY <2>6, <1>2, <1>5, <1>7, <1>10
  <1> QED BY <1>9, <1>10

(* No step takes a cursor past the tokens of its request by more than the  *)
(* budget, and the batch under way leaves room for that.                   *)
LEMMA CursorBoundStep ==
    ASSUME SchedTypeOK, AllocTypeOK, QueueInv, TablesOwned, CursorBound, BatchBound,
           [Next]_vars
    PROVE  CursorBound'
  <1>0. CursorsBelow'
    BY CursorsStep
  <1>1. ASSUME pc' \notin {"pick", "grow", "forward"} PROVE CursorBound'
    BY <1>0, <1>1 DEF CursorBound, CursorsBelow, Building
  <1>2. ASSUME UNCHANGED <<req, batch, budget, pc, cur, running>> PROVE CursorBound'
    BY <1>2, CursorBoundFrame
  <1>3. CASE (\E q \in Req : Submit(q)) \/ (\E q \in MayCancel : Cancel(q)) \/ UNCHANGED vars
    BY <1>2, <1>3 DEF Submit, Cancel, vars, queues, build
  <1>4. CASE FreeMore \/ GrowAlloc
    BY <1>2, <1>4 DEF FreeMore, GrowAlloc, queues, build
  <1>5. CASE StartBuild
    <2>1. batch' = <<>> /\ pc' = "pick"
      BY <1>5 DEF StartBuild
    <2>2. \A r : Entries(r)' = {}
      BY <2>1 DEF Entries
    <2> QED BY <2>1, <2>2, <1>0 DEF CursorBound, CursorsBelow, Building
  <1>6. CASE Pick
    <2>1. /\ UNCHANGED <<req, batch, budget, running>> /\ pc = "pick"
          /\ pc' \in {"pick", "grow"}
      BY <1>6 DEF Pick, Picking, queues
    <2>2. \A r : /\ NumTokens(r)' = NumTokens(r) /\ Remaining(r)' = Remaining(r)
                 /\ ChunkFor(r)' = ChunkFor(r) /\ Entries(r)' = Entries(r)
      BY <2>1 DEF NumTokens, Tokens, Remaining, ChunkFor, Entries
    <2>3. ASSUME pc' = "grow"
          PROVE  Remaining(cur[1])' > 0 /\ cur'[2] = ChunkFor(cur[1])'
      <3>1. PICK r : r = running[Head(order)]
        OBVIOUS
      <3>2. cur' = <<r, ChunkFor(r)>> /\ ~(Remaining(r) <= 0)
        BY <3>1, <2>1, <2>3, <1>6 DEF Pick
      <3>3. r \in Req
        BY <3>1, <1>6 DEF Pick, Picking, SchedTypeOK
      <3>4. Remaining(r) \in Int
        BY <3>3, RequestCounts
      <3>5. Remaining(r)' > 0 /\ ChunkFor(r)' = ChunkFor(r)
        BY <3>2, <3>4, <2>2
      <3>6. cur'[1] = r /\ cur'[2] = ChunkFor(r)
        BY <3>2
      <3> QED BY <3>5, <3>6 DEF Remaining, ChunkFor, NumTokens, Tokens
    <2> QED BY <2>1, <2>2, <2>3, <1>0 DEF CursorBound, CursorsBelow, Building
  <1>7. CASE PickEnd
    <2>1. /\ UNCHANGED <<req, batch>> /\ pc = "pick" /\ budget' = 0
          /\ pc' \in {"drain", "forward"}
      BY <1>7 DEF PickEnd
    <2>2. ASSUME NEW r \in Req, Entries(r)' # {} PROVE Charged(r)'
      <3>1. NumTokens(r)' = NumTokens(r) /\ Entries(r)' = Entries(r)
        BY <2>1 DEF NumTokens, Tokens, Entries
      <3>2. Charged(r)
        BY <3>1, <2>1, <2>2 DEF CursorBound, Building, Charged
      <3>3. PICK k : k = Cardinality(Entries(r))
        OBVIOUS
      <3>4. k \in Nat /\ req[r].num_new \in Nat /\ budget \in Nat /\ TokenBudget \in Nat
        BY <3>3, EntriesFinite, RequestCounts, Config DEF SchedTypeOK
      <3>5. req[r].num_new * k \in Nat /\ budget + req[r].num_new * k <= TokenBudget
        BY <3>2, <3>3, <3>4 DEF Charged
      <3>6. budget' + req[r].num_new * k <= TokenBudget
        BY <3>4, <3>5, <2>1
      <3> QED BY <3>1, <3>2, <3>3, <3>6, <2>1 DEF Charged
    <2> QED BY <2>1, <2>2, <1>0 DEF CursorBound, CursorsBelow, Building, Charged
  <1>8. CASE Preempt
    <2>1. PICK k, v : k = Max(Others) /\ v = running[k]
      OBVIOUS
    <2>2. /\ k \in 1 .. Len(running) /\ v # cur[1] /\ running' = RemoveAt(running, k)
          /\ v \in Req /\ req' = [req EXCEPT ![v] = ResetForRecompute(req[v])]
          /\ UNCHANGED <<batch, budget, cur, pc>> /\ pc = "grow" /\ cur[1] \in Req
      <3>1. k \in 1 .. Len(running) /\ v # cur[1]
        BY <2>1, <1>8, VictimRuns DEF Preempt
      <3>2. v \in Req
        BY <3>1, <2>1 DEF SchedTypeOK
      <3>3. pc = "grow" /\ cur[1] \in Req
        BY <1>8 DEF Preempt, Growing, SchedTypeOK
      <3> QED BY <3>1, <3>2, <3>3, <2>1, <1>8 DEF Preempt, build
    <2>3. ToSet(running') = ToSet(running) \ {v}
      BY <2>1, <2>2, EraseQueue DEF QueueInv, QueueTypes, QueuesApart
    <2>4. /\ req'[v].computed = 0 /\ req'[v].output = req[v].output
          /\ req'[v].num_new = req[v].num_new
          /\ \A g \in Req \ {v} : req'[g] = req[g]
      BY <2>2 DEF ResetForRecompute, RequestType, SchedTypeOK
    <2>5. ASSUME NEW g \in Req \ {v}
          PROVE  /\ NumTokens(g)' = NumTokens(g) /\ Remaining(g)' = Remaining(g)
                 /\ ChunkFor(g)' = ChunkFor(g)
      BY <2>2, <2>4 DEF NumTokens, Tokens, Remaining, ChunkFor
    <2>6. \A r : Entries(r)' = Entries(r)
      BY <2>2 DEF Entries
    <2>7. ASSUME NEW r \in Req, Entries(r)' # {} PROVE Charged(r)'
      <3>1. Charged(r)
        BY <2>2, <2>6, <2>7 DEF CursorBound, Building, Charged
      <3>2. CASE r = v
        <4>1. NumTokens(v)' = NumTokens(v) /\ NumTokens(v) \in Nat
          BY <2>2, <2>4, RequestCounts DEF NumTokens, Tokens
        <4> QED BY <4>1, <3>1, <3>2, <2>2, <2>4, <2>6 DEF Charged
      <3>3. CASE r # v
        <4>1. NumTokens(r)' = NumTokens(r) /\ req'[r] = req[r]
          BY <3>3, <2>4, <2>5
        <4> QED BY <4>1, <3>1, <2>2, <2>6 DEF Charged
      <3> QED BY <3>2, <3>3
    <2>8. ASSUME NEW r \in ToSet(running'), Entries(r)' # {}
          PROVE  ChunkFor(r)' <= req'[r].num_new
      <3>1. r \in ToSet(running) /\ r # v /\ Entries(r) # {}
        BY <2>3, <2>6, <2>8
      <3>2. r \in Req
        BY <3>1 DEF SchedTypeOK, ToSet
      <3>3. ChunkFor(r) <= req[r].num_new
        BY <3>1, <2>2 DEF CursorBound
      <3> QED BY <3>1, <3>2, <3>3, <2>4, <2>5
    <2>9. Remaining(cur[1])' > 0 /\ cur'[2] = ChunkFor(cur[1])'
      <3>1. PICK r : r = cur[1]
        OBVIOUS
      <3>2. Remaining(r) > 0 /\ cur[2] = ChunkFor(r)
        BY <3>1, <2>2 DEF CursorBound
      <3>3. Remaining(r)' > 0 /\ cur[2] = ChunkFor(r)' /\ cur' = cur
        BY <3>1, <3>2, <2>2, <2>5
      <3> QED BY <3>1, <3>3 DEF Remaining, ChunkFor, NumTokens, Tokens
    <2> QED BY <2>2, <2>7, <2>8, <2>9, <1>0 DEF CursorBound, CursorsBelow, Building, Charged
  <1>9. CASE AddRequest
    <2>1. pc' = "pick" /\ running' = running
      BY <1>9 DEF AddRequest, queues
    <2>2. ASSUME NEW g \in Req, Entries(g)' # {}
          PROVE  /\ Charged(g)'
                 /\ g \in ToSet(running) => ChunkFor(g)' <= req'[g].num_new
      BY <2>2, <1>9, AddRequestCharges
    <2>3. ToSet(running) \subseteq Req
      BY DEF SchedTypeOK, ToSet
    <2> QED BY <2>1, <2>2, <2>3, <1>0 DEF CursorBound, CursorsBelow, Building, Charged
  <1>10. CASE \/ Drain \/ Admit \/ StartStep \/ DropWaiting \/ DropRunning \/ Fill
              \/ AcquireHit \/ AcquireEnd \/ FillEnd
    BY <1>1, <1>10 DEF Drain, Admit, StartStep, DropWaiting, DropRunning, Fill,
           AcquireHit, AcquireEnd, FillEnd
  <1>11. CASE PickStale \/ GrowFail
    BY <1>1, <1>11 DEF PickStale, Crash, GrowFail
  <1>12. CASE \/ Forward \/ Apply \/ ApplyPastEnd \/ ApplyEnd \/ CacheBlock
              \/ CacheBlockPastEnd \/ CacheNext \/ CacheEnd \/ Retire \/ StepEnd
    <2>1. CASE Forward \/ Apply \/ ApplyPastEnd \/ ApplyEnd
      BY <2>1, <1>1 DEF Forward, Apply, ApplyPastEnd, Crash, ApplyEnd
    <2>2. CASE CacheBlock
      BY <2>2, <1>1 DEF CacheBlock
    <2>3. CASE CacheBlockPastEnd \/ CacheNext \/ CacheEnd \/ Retire \/ StepEnd
      BY <2>3, <1>1 DEF CacheBlockPastEnd, Crash, CacheNext, CacheEnd, Retire, StepEnd
    <2> QED BY <2>1, <2>2, <2>3, <1>12
  <1> QED BY <1>3, <1>4, <1>5, <1>6, <1>7, <1>8, <1>9, <1>10, <1>11, <1>12 DEF Next, Engine

(* The rows of the batch stay within the token budget, and the requests in *)
(* it, with those still to visit, within the slots.                        *)
LEMMA BatchBoundStep ==
    ASSUME SchedTypeOK, AllocTypeOK, QueueInv, CursorBound, BatchBound, [Next]_vars
    PROVE  BatchBound'
  <1>0. NSlots \in Nat /\ TokenBudget \in Nat
    BY Config
  <1>1. ASSUME pc' \notin {"pick", "grow", "forward"} PROVE BatchBound'
    BY <1>1 DEF BatchBound, Building
  <1>2. ASSUME UNCHANGED <<batch, budget, pc, order>> PROVE BatchBound'
    BY <1>2 DEF BatchBound, Building, BatchRows, Rows
  <1>3. CASE (\E q \in Req : Submit(q)) \/ (\E q \in MayCancel : Cancel(q)) \/ UNCHANGED vars
    BY <1>2, <1>3 DEF Submit, Cancel, vars, build
  <1>4. CASE FreeMore \/ GrowAlloc \/ Preempt
    BY <1>2, <1>4 DEF FreeMore, GrowAlloc, Preempt, build
  <1>5. CASE StartBuild
    <2>1. /\ batch' = <<>> /\ pc' = "pick" /\ budget' = TokenBudget
          /\ order' \in [1 .. Len(running) -> 1 .. Len(running)]
      BY <1>5 DEF StartBuild, StableOrders
    <2>2. BatchRows' = {}
      BY <2>1 DEF BatchRows
    <2>3. IsFiniteSet(BatchRows') /\ Cardinality(BatchRows') = 0
      BY <2>2, FS_EmptySet
    <2>4. Len(running) \in Nat /\ Len(running) <= NSlots
      BY DEF QueueInv, QueueTypes, QueueBound
    <2>5. order' \in Seq(1 .. Len(running)) /\ Len(order') = Len(running)
      BY <2>1, <2>4, SeqDef
    <2>6. budget' + Cardinality(BatchRows') <= TokenBudget
      BY <2>1, <2>3, <1>0
    <2>7. Len(batch') + Len(order') <= NSlots /\ Len(batch') + Len(order') \in Nat
      BY <2>1, <2>4, <2>5
    <2> QED BY <2>1, <2>3, <2>6, <2>7, <1>0 DEF BatchBound
  <1>6. CASE Pick
    <2>1. /\ UNCHANGED <<batch, budget>> /\ pc = "pick" /\ order # <<>>
          /\ order' = Tail(order) /\ pc' \in {"pick", "grow"}
      BY <1>6 DEF Pick, Picking
    <2>2. /\ Len(order') = Len(order) - 1 /\ Len(order) \in Nat /\ Len(order) > 0
          /\ Len(batch) \in Nat
      BY <2>1 DEF SchedTypeOK
    <2>3. BatchRows' = BatchRows
      BY <2>1 DEF BatchRows, Rows
    <2>4. /\ IsFiniteSet(BatchRows) /\ budget + Cardinality(BatchRows) <= TokenBudget
          /\ Len(batch) + Len(order) <= NSlots
      <3>1. Len(batch) + Len(order) + 0 <= NSlots
        BY <2>1 DEF BatchBound, Building
      <3> QED BY <3>1, <2>1, <2>2 DEF BatchBound, Building
    <2>5. Len(batch') + Len(order') + (IF pc' = "grow" THEN 1 ELSE 0) <= NSlots
      BY <2>1, <2>2, <2>4, <1>0
    <2> QED BY <2>1, <2>3, <2>4, <2>5 DEF BatchBound
  <1>7. CASE PickEnd
    <2>1. /\ UNCHANGED batch /\ pc = "pick" /\ order' = <<>> /\ budget' = 0
          /\ pc' \in {"drain", "forward"}
      BY <1>7 DEF PickEnd
    <2>2. BatchRows' = BatchRows
      BY <2>1 DEF BatchRows, Rows
    <2>3. Len(order) \in Nat /\ Len(batch) \in Nat /\ budget \in Nat /\ Len(order') = 0
      BY <2>1 DEF SchedTypeOK
    <2>4. /\ IsFiniteSet(BatchRows) /\ budget + Cardinality(BatchRows) <= TokenBudget
          /\ Len(batch) + Len(order) + 0 <= NSlots
      BY <2>1 DEF BatchBound, Building
    <2>5. Cardinality(BatchRows) \in Nat
      BY <2>4, FS_CardinalityType
    <2>6. budget' + Cardinality(BatchRows') <= TokenBudget
      BY <2>1, <2>2, <2>3, <2>4, <2>5, <1>0
    <2>7. Len(batch') + Len(order') + (IF pc' = "grow" THEN 1 ELSE 0) <= NSlots
      BY <2>1, <2>3, <2>4, <1>0
    <2> QED BY <2>2, <2>4, <2>6, <2>7 DEF BatchBound
  <1>8. CASE AddRequest
    <2>1. PICK r, n, m, c : r = cur[1] /\ n = cur[2] /\ m = Len(batch) /\ c = req[r].computed
      OBVIOUS
    <2>2. /\ pc = "grow" /\ pc' = "pick" /\ order' = order /\ budget' = budget - n
      BY <2>1, <1>8 DEF AddRequest, Growing
    <2>3. /\ r \in Req /\ n \in Nat \ {0} /\ c \in Nat /\ m \in Nat /\ budget \in Nat
          /\ Len(order) \in Nat
      BY <2>1, <2>2, GrowingChunk, RequestCounts DEF SchedTypeOK
    <2>4. PICK new : new = {m + 1} \X (c .. c + n - 1)
      OBVIOUS
    <2>5. BatchRows' = BatchRows \cup new /\ BatchRows \cap new = {} /\ Len(batch') = m + 1
      <3>1. /\ Len(batch') = m + 1
            /\ BatchRows' = BatchRows \cup ({m + 1} \X (c .. c + n - 1))
            /\ \A x \in BatchRows : x[1] # m + 1
        BY <2>1, <1>8, AddedEntry
      <3>2. \A x \in new : x[1] = m + 1
        BY <2>4
      <3> QED BY <3>1, <3>2, <2>4
    <2>6. IsFiniteSet(new) /\ Cardinality(new) = n
      <3>1. IsFiniteSet(c .. c + n - 1) /\ Cardinality(c .. c + n - 1) = n
        <4>1. c \in Int /\ c + n - 1 \in Int /\ ~(c > c + n - 1) /\ (c + n - 1) - c + 1 = n
          BY <2>3
        <4> QED BY <4>1, FS_Interval
      <3>2. IsFiniteSet({m + 1}) /\ Cardinality({m + 1}) = 1
        BY FS_Singleton
      <3>3. /\ IsFiniteSet(new)
            /\ Cardinality(new) = Cardinality({m + 1}) * Cardinality(c .. c + n - 1)
        BY <3>1, <3>2, <2>4, FS_Product
      <3>4. 1 * n = n
        BY <2>3
      <3> QED BY <3>1, <3>2, <3>3, <3>4
    <2>7. /\ IsFiniteSet(BatchRows) /\ budget + Cardinality(BatchRows) <= TokenBudget
          /\ m + Len(order) + 1 <= NSlots
      BY <2>1, <2>2 DEF BatchBound, Building
    <2>8. Cardinality(BatchRows) \in Nat
      BY <2>7, FS_CardinalityType
    <2>9. IsFiniteSet(BatchRows') /\ Cardinality(BatchRows') = Cardinality(BatchRows) + n
      <3>1. Cardinality({}) = 0
        BY FS_EmptySet
      <3>2. /\ IsFiniteSet(BatchRows \cup new)
            /\ Cardinality(BatchRows \cup new) =
                  Cardinality(BatchRows) + Cardinality(new) - Cardinality(BatchRows \cap new)
        BY <2>6, <2>7, FS_Union, Zenon
      <3>3. Cardinality(BatchRows \cup new) = Cardinality(BatchRows) + n - 0
        BY <3>1, <3>2, <2>5, <2>6, Zenon
      <3>4. Cardinality(BatchRows') = Cardinality(BatchRows) + n - 0
        BY <3>3, <2>5, Zenon
      <3>5. Cardinality(BatchRows') = Cardinality(BatchRows) + n
        BY <3>4, <2>3, <2>8
      <3> QED BY <3>2, <3>5, <2>5, Zenon
    <2>10. budget' + Cardinality(BatchRows') <= TokenBudget
      BY <2>2, <2>3, <2>7, <2>8, <2>9, <1>0
    <2>11. Len(batch') + Len(order') + (IF pc' = "grow" THEN 1 ELSE 0) <= NSlots
      BY <2>2, <2>3, <2>5, <2>7, <1>0
    <2> QED BY <2>9, <2>10, <2>11 DEF BatchBound
  <1>9. CASE \/ Drain \/ Admit \/ StartStep \/ DropWaiting \/ DropRunning \/ Fill
             \/ AcquireHit \/ AcquireEnd \/ FillEnd
    BY <1>1, <1>9 DEF Drain, Admit, StartStep, DropWaiting, DropRunning, Fill,
           AcquireHit, AcquireEnd, FillEnd
  <1>10. CASE PickStale \/ GrowFail
    BY <1>1, <1>10 DEF PickStale, Crash, GrowFail
  <1>11. CASE Forward \/ Apply \/ ApplyPastEnd \/ ApplyEnd
    BY <1>1, <1>11 DEF Forward, Apply, ApplyPastEnd, Crash, ApplyEnd
  <1>12. CASE CacheBlock
    BY <1>1, <1>12 DEF CacheBlock
  <1>13. CASE CacheBlockPastEnd \/ CacheNext \/ CacheEnd \/ Retire \/ StepEnd
    BY <1>1, <1>13 DEF CacheBlockPastEnd, Crash, CacheNext, CacheEnd, Retire, StepEnd
  <1> QED BY <1>3, <1>4, <1>5, <1>6, <1>7, <1>8, <1>9, <1>10, <1>11, <1>12, <1>13
          DEF Next, Engine

-----------------------------------------------------------------------------
(* The invariant is inductive *)

(* The engine starts in a state that satisfies the invariant. *)
LEMMA SchedInit == Init => SchedInv
  <1> SUFFICES ASSUME Init PROVE SchedInv
    OBVIOUS
  <1>1. AllocInv
    BY InitInv DEF Init
  <1>2. /\ submitted = {} /\ inbound = <<>> /\ incoming = <<>> /\ waiting = <<>>
        /\ running = <<>> /\ batch = <<>> /\ order = <<>> /\ sampled = <<>> /\ done = <<>>
        /\ pc = "drain" /\ at = 1 /\ budget = 0 /\ caching \in BOOLEAN
    BY ConfigAssumption DEF Init
  <1>3. \A r \in Req : req[r] = NewRequest
    BY DEF Init
  <1>4. NewRequest \in RequestType
    BY HashAssumption DEF NewRequest, RequestType
  <1>5. req \in [Req -> RequestType]
    BY <1>4 DEF Init
  <1>6. SchedTypeOK
    BY <1>2, <1>5 DEF SchedTypeOK, Loops
  <1>7. ToSet(<<>>) = {} /\ Distinct(<<>>)
    BY DEF ToSet, Distinct
  <1>8. QueuesApart
    BY <1>2, <1>7 DEF QueuesApart
  <1>9. QueueBound
    BY <1>2, Config DEF QueueBound
  <1>10. TablesOwned
    BY <1>2 DEF TablesOwned, Init, AllocInit, Req
  <1>11. CursorBound
    <2>1. ASSUME NEW r \in Req PROVE req[r].computed <= NumTokens(r) + TokenBudget
      <3>1. req[r].computed = 0
        BY <1>3 DEF NewRequest
      <3>2. NumTokens(r) \in Nat /\ TokenBudget \in Nat
        BY <1>6, RequestCounts, Config
      <3> QED BY <3>1, <3>2
    <2> QED BY <2>1, <1>2 DEF CursorBound, Building
  <1>12. BatchBound
    BY <1>2 DEF BatchBound, Building
  <1> QED BY <1>1, <1>6, <1>8, <1>9, <1>10, <1>11, <1>12 DEF SchedInv

(* Every step of the engine or of a client keeps the invariant, and is one *)
(* step of the allocator or leaves it alone.                               *)
LEMMA SchedNext ==
    ASSUME ChainsAreHashes, SchedInv, [Next]_vars
    PROVE  SchedInv' /\ [AllocNext]_allocVars
  <1>1. AllocTypeOK /\ SchedTypeOK /\ QueueInv /\ TablesOwned /\ CursorBound /\ BatchBound
    BY DEF SchedInv, AllocInv, QueueInv, QueueTypes, SchedTypeOK
  <1>2. [AllocNext]_allocVars
    BY <1>1, AllocStep
  <1>3. AllocInv'
    BY <1>2, NextInv DEF SchedInv
  <1>4. SchedTypeOK' /\ QueueInv' /\ TablesOwned'
    BY <1>1, TypeStep, QueueStep, TablesOwnedStep
  <1>5. CursorBound' /\ BatchBound'
    BY <1>1, CursorBoundStep, BatchBoundStep
  <1> QED BY <1>2, <1>3, <1>4, <1>5 DEF SchedInv, QueueInv

(* Queues that have no request in common, one after the other, hold no     *)
(* request twice.                                                          *)
LEMMA ConcatQueues ==
    ASSUME NEW S, NEW s \in Seq(S), NEW t \in Seq(S),
           Distinct(s), Distinct(t), ToSet(s) \cap ToSet(t) = {}
    PROVE  /\ s \o t \in Seq(S) /\ Distinct(s \o t)
           /\ ToSet(s \o t) = ToSet(s) \cup ToSet(t)
  <1>1. PICK u, m, n : u = s \o t /\ m = Len(s) /\ n = Len(t)
    OBVIOUS
  <1>2. m \in Nat /\ n \in Nat /\ DOMAIN s = 1 .. m /\ DOMAIN t = 1 .. n
    BY <1>1
  <1>3. /\ u \in Seq(S) /\ Len(u) = m + n
        /\ \A i \in 1 .. m + n : u[i] = IF i <= m THEN s[i] ELSE t[i - m]
    BY <1>1, ConcatProperties
  <1>4. DOMAIN u = 1 .. m + n
    BY <1>2, <1>3
  <1>5. \A i \in 1 .. m + n : \/ i \in 1 .. m /\ u[i] = s[i]
                              \/ i - m \in 1 .. n /\ ~(i \in 1 .. m) /\ u[i] = t[i - m]
    BY <1>2, <1>3
  <1>6. /\ \A i \in 1 .. m : i \in 1 .. m + n /\ u[i] = s[i]
        /\ \A j \in 1 .. n : j + m \in 1 .. m + n /\ u[j + m] = t[j]
    <2>1. ASSUME NEW j \in 1 .. n PROVE j + m \in 1 .. m + n /\ u[j + m] = t[j]
      <3>1. j + m \in 1 .. m + n /\ ~(j + m <= m) /\ (j + m) - m = j
        BY <1>2
      <3> QED BY <3>1, <1>3
    <2> QED BY <2>1, <1>2, <1>3
  <1>7. ToSet(u) = ToSet(s) \cup ToSet(t)
    <2>1. \A x : x \in ToSet(u) <=> \E i \in 1 .. m + n : u[i] = x
      BY <1>4 DEF ToSet
    <2>2. \A x : x \in ToSet(s) <=> \E i \in 1 .. m : s[i] = x
      BY <1>2 DEF ToSet
    <2>3. \A x : x \in ToSet(t) <=> \E i \in 1 .. n : t[i] = x
      BY <1>2 DEF ToSet
    <2> QED BY <2>1, <2>2, <2>3, <1>5, <1>6
  <1>8. ASSUME NEW i \in 1 .. m + n, NEW j \in 1 .. m + n, u[i] = u[j] PROVE i = j
    <2>1. \A k \in 1 .. m : s[k] \in ToSet(s)
      BY <1>2 DEF ToSet
    <2>2. \A k \in 1 .. n : t[k] \in ToSet(t)
      BY <1>2 DEF ToSet
    <2>3. CASE i \in 1 .. m /\ j \in 1 .. m
      BY <2>3, <1>2, <1>6, <1>8 DEF Distinct
    <2>4. CASE i - m \in 1 .. n /\ j - m \in 1 .. n /\ u[i] = t[i - m] /\ u[j] = t[j - m]
      <3>1. i - m = j - m
        BY <2>4, <1>2, <1>8 DEF Distinct
      <3> QED BY <3>1, <1>2
    <2> QED BY <2>1, <2>2, <2>3, <2>4, <1>5, <1>8
  <1>9. Distinct(u)
    BY <1>4, <1>8 DEF Distinct
  <1> QED BY <1>1, <1>3, <1>7, <1>9

-----------------------------------------------------------------------------
(* Nobody is lost *)

(* What is given to a sink. *)
EventType ==
    {TokenEvent(t) : t \in Token} \cup {ErrorEvent} \cup {DoneEvent(o) : o \in Seq(Token)}

(* Who is in no queue has left for a reason.  What Run has swapped out is  *)
(* admitted before it looks again, and what Apply finished was told so.    *)
NoneLost ==
    /\ sink \in [Req -> Seq(EventType)] /\ cancel \in [Req -> BOOLEAN]
    /\ \A r \in submitted : Answered(r) \/ cancel[r] \/ r \in Queued
    /\ \A r \in ToSet(done) : Answered(r)
    /\ pc # "admit" => incoming = <<>>

(* A stream that is only added to stays answered, and is answered by Done  *)
(* or Error.                                                               *)
LEMMA StaysAnswered ==
    ASSUME NEW E, NEW s \in Seq(E), NEW e \in E, NEW f \in E
    PROVE  /\ Append(s, e) \in Seq(E) /\ s \o <<e, f>> \in Seq(E)
           /\ \A i \in DOMAIN s : /\ i \in DOMAIN Append(s, e) /\ Append(s, e)[i] = s[i]
                                  /\ i \in DOMAIN (s \o <<e, f>>) /\ (s \o <<e, f>>)[i] = s[i]
           /\ Len(s) + 1 \in DOMAIN Append(s, e) /\ Append(s, e)[Len(s) + 1] = e
           /\ Len(s) + 2 \in DOMAIN (s \o <<e, f>>) /\ (s \o <<e, f>>)[Len(s) + 2] = f
  <1>1. PICK n, t : n = Len(s) /\ t = <<e, f>>
    OBVIOUS
  <1>2. n \in Nat /\ DOMAIN s = 1 .. n /\ Len(t) = 2 /\ t[2] = f
    BY <1>1
  <1>3. t \in Seq(E)
    BY <1>1
  <1>4. /\ s \o t \in Seq(E) /\ Len(s \o t) = n + 2
        /\ \A i \in 1 .. n : (s \o t)[i] = s[i]
        /\ (s \o t)[n + 2] = f
    <2>1. /\ s \o t \in Seq(E) /\ Len(s \o t) = Len(s) + Len(t)
          /\ \A j \in 1 .. Len(s) : (s \o t)[j] = s[j]
          /\ \A k \in 1 .. Len(t) : (s \o t)[Len(s) + k] = t[k]
      BY <1>3, ConcatAt
    <2> QED BY <2>1, <1>1, <1>2
  <1>5. DOMAIN (s \o t) = 1 .. n + 2
    BY <1>2, <1>4
  <1>6. /\ Append(s, e) \in Seq(E) /\ DOMAIN Append(s, e) = 1 .. n + 1
        /\ \A i \in 1 .. n : Append(s, e)[i] = s[i]
        /\ Append(s, e)[n + 1] = e
    BY <1>1, <1>2
  <1> QED BY <1>1, <1>2, <1>4, <1>5, <1>6

(* What is added to one stream takes no answer back. *)
LEMMA EmitAnswers ==
    ASSUME NEW r \in Req, NEW e \in EventType, sink \in [Req -> Seq(EventType)],
           sink' = [sink EXCEPT ![r] = Append(sink[r], e)]
    PROVE  /\ sink' \in [Req -> Seq(EventType)]
           /\ \A x \in Req : Answered(x) => Answered(x)'
           /\ Terminal(e) => Answered(r)'
  <1>1. PICK s : s = sink[r]
    OBVIOUS
  <1>2. s \in Seq(EventType) /\ sink'[r] = Append(s, e) /\ \A x \in Req : x # r => sink'[x] = sink[x]
    BY <1>1
  <1>3. sink' \in [Req -> Seq(EventType)]
    BY <1>1, <1>2, StaysAnswered
  <1>4. Answered(r) => Answered(r)'
    BY <1>1, <1>2, StaysAnswered DEF Answered
  <1>5. Terminal(e) => Answered(r)'
    BY <1>1, <1>2, StaysAnswered DEF Answered
  <1>6. ASSUME NEW x \in Req, x # r, Answered(x) PROVE Answered(x)'
    BY <1>2, <1>6 DEF Answered
  <1> QED BY <1>3, <1>4, <1>5, <1>6

(* The last token of a stream is followed by its end. *)
LEMMA EndAnswers ==
    ASSUME NEW r \in Req, NEW e \in EventType, NEW f \in EventType, Terminal(f),
           sink \in [Req -> Seq(EventType)],
           sink' = [sink EXCEPT ![r] = sink[r] \o <<e, f>>]
    PROVE  /\ sink' \in [Req -> Seq(EventType)]
           /\ \A x \in Req : Answered(x) => Answered(x)'
           /\ Answered(r)'
  <1>1. PICK s : s = sink[r]
    OBVIOUS
  <1>2. s \in Seq(EventType) /\ sink'[r] = s \o <<e, f>> /\ \A x \in Req : x # r => sink'[x] = sink[x]
    BY <1>1
  <1>3. sink' \in [Req -> Seq(EventType)]
    BY <1>1, <1>2, StaysAnswered
  <1>4. Answered(r)'
    <2>1. Len(s) + 2 \in DOMAIN (sink'[r]) /\ sink'[r][Len(s) + 2] = f
      BY <1>2, StaysAnswered
    <2> QED BY <2>1 DEF Answered
  <1>5. ASSUME NEW x \in Req, x # r, Answered(x) PROVE Answered(x)'
    BY <1>2, <1>5 DEF Answered
  <1> QED BY <1>3, <1>4, <1>5

(* AcceptSampled keeps the answers, and who is finished is answered. *)
LEMMA AcceptAnswers ==
    ASSUME SchedTypeOK, NoneLost, NEW r \in Req, NEW t \in Token, Accept(r, t)
    PROVE  /\ sink' \in [Req -> Seq(EventType)]
           /\ \A x \in Req : Answered(x) => Answered(x)'
           /\ done' = done \/ (done' = Append(done, r) /\ Answered(r)')
  <1>1. PICK out : out = Append(req[r].output, t)
    OBVIOUS
  <1>2. out \in Seq(Token)
    BY <1>1 DEF SchedTypeOK, RequestType
  <1>3. TokenEvent(t) \in EventType /\ DoneEvent(out) \in EventType
    BY <1>2 DEF EventType
  <1>4. Terminal(DoneEvent(out))
    BY DEF Terminal, DoneEvent
  <1>5. sink \in [Req -> Seq(EventType)]
    BY DEF NoneLost
  <1>6. CASE IsFinished(r, out)
    <2>1. /\ sink' = [sink EXCEPT ![r] = sink[r] \o <<TokenEvent(t), DoneEvent(out)>>]
          /\ done' = Append(done, r)
      BY <1>1, <1>6 DEF Accept
    <2> QED BY <2>1, <1>3, <1>4, <1>5, EndAnswers
  <1>7. CASE ~IsFinished(r, out)
    <2>1. sink' = [sink EXCEPT ![r] = Append(sink[r], TokenEvent(t))] /\ done' = done
      BY <1>1, <1>7 DEF Accept, Emit
    <2> QED BY <2>1, <1>3, <1>5, EmitAnswers
  <1> QED BY <1>6, <1>7

(* What a step has to do for nobody to be lost: submit nobody, take no     *)
(* answer and no cancel flag back, and let nobody go who has neither.      *)
LEMMA NobodyGoes ==
    ASSUME SchedTypeOK, NoneLost, submitted' = submitted,
           sink' \in [Req -> Seq(EventType)], cancel' = cancel,
           \A x \in Req : Answered(x) => Answered(x)',
           \A x \in Req : x \in Queued => x \in Queued' \/ Answered(x)' \/ cancel[x],
           \A x \in ToSet(done') : x \in ToSet(done) \/ Answered(x)',
           pc' # "admit" => incoming' = <<>>
    PROVE  NoneLost'
  <1>1. submitted \subseteq Req /\ ToSet(done) \subseteq Req
    BY DEF SchedTypeOK, ToSet
  <1>2. ASSUME NEW r \in submitted' PROVE Answered(r)' \/ cancel'[r] \/ r \in Queued'
    BY <1>1, <1>2 DEF NoneLost
  <1>3. ASSUME NEW r \in ToSet(done') PROVE Answered(r)'
    BY <1>1, <1>3 DEF NoneLost
  <1> QED BY <1>2, <1>3 DEF NoneLost

(* Submit adds to the inbox, cancelling is a reason to go, and no step     *)
(* drops a request that is neither answered nor cancelled: preemption puts *)
(* its victim back, what Retire erases was told Done, what fails or is     *)
(* turned away was told the error.                                         *)
LEMMA NoneLostStep ==
    ASSUME SchedInv, NoneLost, [Next]_vars
    PROVE  NoneLost'
  <1>0. SchedTypeOK /\ QueueInv /\ QueueTypes /\ QueuesApart /\ TablesOwned
    BY DEF SchedInv, QueueInv, QueueTypes, SchedTypeOK
  <1>1. /\ inbound \in Seq(Req) /\ incoming \in Seq(Req) /\ waiting \in Seq(Req)
        /\ running \in Seq(Req) /\ done \in Seq(Req) /\ at \in Nat \ {0}
        /\ Distinct(inbound) /\ Distinct(incoming) /\ Distinct(waiting) /\ Distinct(running)
        /\ batch \in Seq(EntryType) /\ sampled \in Seq(Token)
    BY <1>0 DEF SchedTypeOK, QueuesApart
  <1>2. sink \in [Req -> Seq(EventType)] /\ (pc # "admit" => incoming = <<>>)
    BY DEF NoneLost
  <1>3. ASSUME UNCHANGED <<submitted, cancel, sink, done>>,
               \A x \in Req : x \in Queued => x \in Queued' \/ cancel[x],
               pc' # "admit" => incoming' = <<>>
        PROVE  NoneLost'
    <2>1. \A x \in Req : Answered(x) => Answered(x)'
      BY <1>3 DEF Answered
    <2> QED BY <2>1, <1>0, <1>2, <1>3, NobodyGoes
  <1>4. ASSUME NEW r \in Req, Submit(r) PROVE NoneLost'
    <2>1. /\ submitted' = submitted \cup {r} /\ inbound' = Append(inbound, r)
          /\ UNCHANGED <<cancel, sink, incoming, waiting, running, pc, done>>
      BY <1>4 DEF Submit, result
    <2>2. ToSet(inbound') = ToSet(inbound) \cup {r}
      BY <2>1, <1>1, AppendQueue
    <2>3. Queued' = Queued \cup {r}
      BY <2>1, <2>2 DEF Queued
    <2>4. \A x : Answered(x)' <=> Answered(x)
      BY <2>1 DEF Answered
    <2> QED BY <2>1, <2>3, <2>4 DEF NoneLost
  <1>5. ASSUME NEW r \in MayCancel, Cancel(r) PROVE NoneLost'
    <2>1. /\ cancel' = [cancel EXCEPT ![r] = TRUE]
          /\ UNCHANGED <<submitted, sink, queues, pc, done>>
      BY <1>5 DEF Cancel, result
    <2>2. Queued' = Queued /\ \A x : Answered(x)' <=> Answered(x)
      BY <2>1 DEF Queued, queues, Answered
    <2>3. cancel' \in [Req -> BOOLEAN] /\ \A x \in Req : cancel[x] => cancel'[x]
      BY <2>1 DEF NoneLost
    <2>4. submitted \subseteq Req
      BY <1>0 DEF SchedTypeOK
    <2> QED BY <2>1, <2>2, <2>3, <2>4 DEF NoneLost, queues
  <1>6. CASE Drain
    <2>1. /\ UNCHANGED <<submitted, cancel, sink, done, waiting, running>>
          /\ incoming' = inbound /\ inbound' = <<>> /\ incoming = <<>> /\ pc' = "admit"
      BY <1>2, <1>6 DEF Drain, inputs, result
    <2>2. ToSet(<<>>) = {}
      BY DEF ToSet
    <2>3. Queued' = Queued
      BY <2>1, <2>2 DEF Queued
    <2> QED BY <2>1, <2>3, <1>3
  <1>7. CASE Admit
    <2>1. PICK h : h = Head(incoming)
      OBVIOUS
    <2>2. /\ UNCHANGED <<submitted, cancel, done, inbound, running, pc>> /\ pc = "admit"
          /\ incoming # <<>> /\ incoming' = Tail(incoming)
          /\ \/ Emit(h, ErrorEvent) /\ waiting' = waiting
             \/ waiting' = Append(waiting, h) /\ sink' = sink
      BY <2>1, <1>7 DEF Admit, inputs, result
    <2>3. /\ h \in Req /\ h \in ToSet(incoming) /\ ToSet(incoming') = ToSet(incoming) \ {h}
      BY <2>1, <2>2, <1>1, TailQueue
    <2>4. CASE Emit(h, ErrorEvent) /\ waiting' = waiting
      <3>1. ErrorEvent \in EventType /\ Terminal(ErrorEvent)
        BY DEF EventType, ErrorEvent, Terminal
      <3>2. /\ sink' \in [Req -> Seq(EventType)] /\ Answered(h)'
            /\ \A x \in Req : Answered(x) => Answered(x)'
        BY <2>3, <2>4, <3>1, <1>2, EmitAnswers DEF Emit
      <3>3. \A x \in Req : x \in Queued => x \in Queued' \/ x = h
        BY <2>2, <2>3, <2>4 DEF Queued
      <3> QED BY <3>2, <3>3, <2>2, <1>0, NobodyGoes
    <2>5. CASE waiting' = Append(waiting, h) /\ sink' = sink
      <3>1. ToSet(waiting') = ToSet(waiting) \cup {h}
        BY <2>3, <2>5, <1>1, AppendQueue
      <3>2. \A x \in Req : x \in Queued => x \in Queued'
        BY <2>2, <2>3, <3>1 DEF Queued
      <3> QED BY <3>2, <2>2, <2>5, <1>3
    <2> QED BY <2>2, <2>4, <2>5
  <1>8. CASE DropWaiting
    <2>1. /\ UNCHANGED <<submitted, cancel, sink, done, inbound, incoming, running>>
          /\ pc = "drop_waiting" /\ pc' # "admit"
          /\ \/ waiting' = waiting
             \/ /\ at <= Len(waiting) /\ cancel[waiting[at]]
                /\ waiting' = RemoveAt(waiting, at)
      BY <1>8 DEF DropWaiting, inputs, result
    <2>2. CASE waiting' = waiting
      <3>1. Queued' = Queued
        BY <2>1, <2>2 DEF Queued
      <3> QED BY <3>1, <2>1, <1>2, <1>3
    <2>3. CASE at <= Len(waiting) /\ cancel[waiting[at]] /\ waiting' = RemoveAt(waiting, at)
      <3>1. at \in 1 .. Len(waiting)
        BY <2>3, <1>1
      <3>2. ToSet(waiting') = ToSet(waiting) \ {waiting[at]}
        BY <3>1, <2>3, <1>1, EraseQueue
      <3>3. \A x \in Req : x \in Queued => x \in Queued' \/ cancel[x]
        BY <3>2, <2>1, <2>3 DEF Queued
      <3> QED BY <3>3, <2>1, <1>2, <1>3
    <2> QED BY <2>1, <2>2, <2>3
  <1>9. CASE DropRunning
    <2>1. /\ UNCHANGED <<submitted, cancel, sink, done, inbound, incoming, waiting>>
          /\ pc = "drop_running" /\ pc' # "admit"
          /\ \/ running' = running
             \/ /\ at <= Len(running) /\ cancel[running[at]]
                /\ running' = RemoveAt(running, at)
      BY <1>9 DEF DropRunning, inputs, result
    <2>2. CASE running' = running
      <3>1. Queued' = Queued
        BY <2>1, <2>2 DEF Queued
      <3> QED BY <3>1, <2>1, <1>2, <1>3
    <2>3. CASE at <= Len(running) /\ cancel[running[at]] /\ running' = RemoveAt(running, at)
      <3>1. at \in 1 .. Len(running)
        BY <2>3, <1>1
      <3>2. ToSet(running') = ToSet(running) \ {running[at]}
        BY <3>1, <2>3, <1>1, EraseQueue
      <3>3. \A x \in Req : x \in Queued => x \in Queued' \/ cancel[x]
        BY <3>2, <2>1, <2>3 DEF Queued
      <3> QED BY <3>3, <2>1, <1>2, <1>3
    <2> QED BY <2>1, <2>2, <2>3
  <1>10. ASSUME ToRunning, waiting # <<>>, pc # "admit", pc' # "admit",
                UNCHANGED <<submitted, cancel, sink, done, inbound, incoming>>
         PROVE  NoneLost'
    <2>1. PICK h : h = Head(waiting)
      OBVIOUS
    <2>2. waiting' = Tail(waiting) /\ running' = Append(running, h)
      BY <2>1, <1>10 DEF ToRunning
    <2>3. h \in Req /\ h \in ToSet(waiting) /\ ToSet(waiting') = ToSet(waiting) \ {h}
      BY <2>1, <2>2, <1>1, <1>10, TailQueue
    <2>4. ToSet(running') = ToSet(running) \cup {h}
      BY <2>2, <2>3, <1>1, AppendQueue
    <2>5. \A x \in Req : x \in Queued => x \in Queued'
      BY <2>3, <2>4, <1>10 DEF Queued
    <2> QED BY <2>5, <1>2, <1>3, <1>10
  <1>11. ASSUME UNCHANGED <<submitted, cancel, sink, done, queues>>,
                pc' # "admit" => pc # "admit" \/ incoming = <<>>
         PROVE  NoneLost'
    <2>1. Queued' = Queued /\ incoming' = incoming
      BY <1>11 DEF Queued, queues
    <2> QED BY <2>1, <1>2, <1>3, <1>11
  <1>12. CASE Fill
    <2>1. CASE ToRunning
      BY <2>1, <1>10, <1>12 DEF Fill, MayFill, inputs, result
    <2>2. CASE UNCHANGED <<waiting, running>>
      BY <2>2, <1>11, <1>12 DEF Fill, inputs, result, queues
    <2> QED BY <2>1, <2>2, <1>12 DEF Fill
  <1>13. CASE AcquireEnd
    <2>1. waiting # <<>>
      BY <1>0, <1>13 DEF AcquireEnd, TablesOwned
    <2> QED BY <2>1, <1>10, <1>13 DEF AcquireEnd, inputs, result
  <1>14. CASE Preempt
    <2>1. PICK k, v : k = Max(Others) /\ v = running[k]
      OBVIOUS
    <2>2. /\ UNCHANGED <<submitted, cancel, sink, done, inbound, incoming, pc>>
          /\ Others # {} /\ pc = "grow"
          /\ waiting' = <<v>> \o waiting /\ running' = RemoveAt(running, k)
      BY <2>1, <1>14 DEF Preempt, Growing, inputs, result
    <2>3. k \in 1 .. Len(running)
      BY <2>1, <2>2, <1>0, VictimRuns
    <2>4. v \in Req /\ v \in ToSet(running) /\ ToSet(running') = ToSet(running) \ {v}
      BY <2>1, <2>2, <2>3, <1>1, EraseQueue
    <2>5. ToSet(waiting') = ToSet(waiting) \cup {v}
      BY <2>2, <2>4, <1>1, PushFrontQueue
    <2>6. \A x \in Req : x \in Queued => x \in Queued'
      BY <2>2, <2>4, <2>5 DEF Queued
    <2> QED BY <2>2, <2>6, <1>2, <1>3
  <1>15. CASE GrowFail
    <2>1. PICK r : r = cur[1]
      OBVIOUS
    <2>2. /\ UNCHANGED <<submitted, cancel, done, inbound, incoming, waiting>>
          /\ pc = "grow" /\ pc' = "build"
          /\ Emit(r, ErrorEvent) /\ running' = RemoveFirst(running, r)
      BY <2>1, <1>15 DEF GrowFail, Growing, inputs, result
    <2>3. r \in Req
      BY <2>1, <2>2, <1>0 DEF SchedTypeOK
    <2>4. ErrorEvent \in EventType /\ Terminal(ErrorEvent)
      BY DEF EventType, ErrorEvent, Terminal
    <2>5. /\ sink' \in [Req -> Seq(EventType)] /\ Answered(r)'
          /\ \A x \in Req : Answered(x) => Answered(x)'
      BY <2>2, <2>3, <2>4, <1>2, EmitAnswers DEF Emit
    <2>6. ToSet(running') = ToSet(running) \ {r}
      BY <2>2, <1>1, RemoveFirstQueue
    <2>7. \A x \in Req : x \in Queued => x \in Queued' \/ x = r
      BY <2>2, <2>6 DEF Queued
    <2> QED BY <2>2, <2>5, <2>7, <1>0, <1>2, NobodyGoes
  <1>16. ASSUME NEW r \in Req, NEW t \in Token, Accept(r, t),
                UNCHANGED <<submitted, cancel, queues, pc>>, pc = "apply"
         PROVE  NoneLost'
    <2>1. /\ sink' \in [Req -> Seq(EventType)]
          /\ \A x \in Req : Answered(x) => Answered(x)'
          /\ done' = done \/ (done' = Append(done, r) /\ Answered(r)')
      BY <1>0, <1>16, AcceptAnswers
    <2>2. \A x \in ToSet(Append(done, r)) : x \in ToSet(done) \/ x = r
      BY <1>1 DEF ToSet
    <2>3. \A x \in ToSet(done') : x \in ToSet(done) \/ Answered(x)'
      BY <2>1, <2>2
    <2>4. Queued' = Queued /\ incoming' = incoming
      BY <1>16 DEF Queued, queues
    <2> QED BY <2>1, <2>3, <2>4, <1>0, <1>2, <1>16, NobodyGoes
  <1>17. CASE Apply
    <2>1. PICK r : r = batch[at].r
      OBVIOUS
    <2>2. pc = "apply" /\ at <= Len(batch) /\ UNCHANGED <<submitted, cancel, queues, pc>>
      BY <1>17 DEF Apply, inputs
    <2>3. r \in Req
      <3>1. at \in 1 .. Len(batch)
        BY <2>2, <1>1
      <3> QED BY <3>1, <2>1, <1>0, BatchEntry
    <2>4. CASE UNCHANGED <<sink, done>>
      BY <2>2, <2>4, <1>11
    <2>5. CASE sampled # <<>> /\ Accept(r, Head(sampled))
      <3>1. Head(sampled) \in Token
        BY <2>5, <1>1
      <3> QED BY <3>1, <2>2, <2>3, <2>5, <1>16
    <2> QED BY <2>1, <2>4, <2>5, <1>17 DEF Apply
  <1>18. CASE ApplyPastEnd
    <2>1. CASE Crash
      BY <2>1, <1>11, <1>18 DEF ApplyPastEnd, Crash, inputs, result
    <2>2. CASE ~Crash
      <3>1. PICK t \in Token : Accept(batch[at].r, t)
        BY <2>2, <1>18 DEF ApplyPastEnd
      <3>2. pc = "apply" /\ at <= Len(batch) /\ UNCHANGED <<submitted, cancel, queues, pc>>
        BY <2>2, <1>18 DEF ApplyPastEnd, inputs
      <3>3. batch[at].r \in Req
        <4>1. at \in 1 .. Len(batch)
          BY <3>2, <1>1
        <4> QED BY <4>1, <1>0, BatchEntry
      <3> QED BY <3>1, <3>2, <3>3, <1>16
    <2> QED BY <2>1, <2>2
  <1>19. CASE Retire
    <2>1. PICK r : r = Head(done)
      OBVIOUS
    <2>2. /\ UNCHANGED <<submitted, cancel, sink, inbound, incoming, waiting, pc>>
          /\ pc = "retire" /\ done # <<>> /\ done' = Tail(done)
          /\ running' = RemoveFirst(running, r)
      BY <2>1, <1>19 DEF Retire, inputs
    <2>3. r \in ToSet(done) /\ ToSet(done') \subseteq ToSet(done)
      BY <2>1, <2>2, <1>1 DEF ToSet
    <2>4. ToSet(running') = ToSet(running) \ {r}
      BY <2>2, <1>1, RemoveFirstQueue
    <2>5. Answered(r) /\ \A x \in Req : Answered(x)' <=> Answered(x)
      BY <2>2, <2>3 DEF NoneLost, Answered
    <2>6. r \in Req
      BY <2>1, <2>2, <1>1
    <2>7. \A x \in Req : x \in Queued => x \in Queued' \/ Answered(x)'
      BY <2>2, <2>4, <2>5, <2>6 DEF Queued
    <2> QED BY <2>2, <2>3, <2>5, <2>7, <1>0, <1>2, NobodyGoes
  <1>20. CASE StartStep
    BY <1>11, <1>20 DEF StartStep, inputs, result
  <1>21. CASE FreeMore \/ AcquireHit \/ FillEnd \/ StartBuild
    BY <1>11, <1>21 DEF FreeMore, AcquireHit, FillEnd, StartBuild, inputs, result
  <1>22. CASE Pick \/ PickStale \/ PickEnd \/ GrowAlloc \/ AddRequest
    BY <1>11, <1>22 DEF Pick, PickStale, Picking, Crash, PickEnd, GrowAlloc, Growing, AddRequest,
                        inputs, result
  <1>23. CASE Forward \/ ApplyEnd
    BY <1>11, <1>23 DEF Forward, ApplyEnd, inputs
  <1>24. CASE CacheBlock \/ CacheBlockPastEnd \/ CacheNext \/ CacheEnd \/ StepEnd
    <2>1. /\ UNCHANGED <<submitted, cancel, sink, done, queues>>
          /\ pc \in {"cache", "retire"}
      <3>1. CASE CacheBlock
        BY <3>1 DEF CacheBlock, inputs, result
      <3>2. CASE CacheBlockPastEnd \/ CacheNext
        BY <3>2 DEF CacheBlockPastEnd, Crash, CacheNext, inputs, result
      <3>3. CASE CacheEnd \/ StepEnd
        BY <3>3 DEF CacheEnd, StepEnd, inputs, result
      <3> QED BY <3>1, <3>2, <3>3, <1>24
    <2> QED BY <2>1, <1>11
  <1>25. CASE UNCHANGED vars
    BY <1>11, <1>25 DEF vars, inputs, result
  <1> QED BY <1>4, <1>5, <1>6, <1>7, <1>8, <1>9, <1>12, <1>13, <1>14, <1>15, <1>17, <1>18,
             <1>19, <1>20, <1>21, <1>22, <1>23, <1>24, <1>25 DEF Next, Engine

(* Before the first request nobody can be lost. *)
LEMMA NoneLostInit == Init => NoneLost
  <1> SUFFICES ASSUME Init PROVE NoneLost
    OBVIOUS
  <1>1. ToSet(<<>>) = {} /\ <<>> \in Seq(EventType)
    BY DEF ToSet
  <1> QED BY <1>1 DEF Init, NoneLost

(* The parts of the invariant together give Ownership: nobody is lost, the *)
(* queues are apart, and tables belong to those who run.                   *)
LEMMA OwnershipHolds == SchedInv /\ NoneLost => Ownership
  <1> SUFFICES ASSUME SchedInv, NoneLost PROVE Ownership
    OBVIOUS
  <1>1. /\ inbound \in Seq(Req) /\ incoming \in Seq(Req) /\ waiting \in Seq(Req)
        /\ running \in Seq(Req) /\ QueuesApart
    BY DEF SchedInv, SchedTypeOK
  <1>2. PICK a : a = inbound \o incoming
    OBVIOUS
  <1>3. a \in Seq(Req) /\ Distinct(a) /\ ToSet(a) = ToSet(inbound) \cup ToSet(incoming)
    BY <1>1, <1>2, ConcatQueues DEF QueuesApart
  <1>4. PICK b : b = a \o waiting
    OBVIOUS
  <1>5. ToSet(a) \cap ToSet(waiting) = {}
    BY <1>1, <1>3 DEF QueuesApart
  <1>6. b \in Seq(Req) /\ Distinct(b) /\ ToSet(b) = ToSet(a) \cup ToSet(waiting)
    BY <1>1, <1>3, <1>4, <1>5, ConcatQueues DEF QueuesApart
  <1>7. ToSet(b) \cap ToSet(running) = {}
    BY <1>1, <1>3, <1>6 DEF QueuesApart
  <1>8. Distinct(b \o running)
    BY <1>1, <1>6, <1>7, ConcatQueues DEF QueuesApart
  <1> QED BY <1>2, <1>4, <1>8 DEF Ownership, Distinct, SchedInv, TablesOwned, NoneLost

-----------------------------------------------------------------------------
(* Theorems *)

(* The inductive invariant holds in every state of the scheduler. *)
THEOREM SchedulerInvariant ==
    ASSUME ChainsAreHashes
    PROVE  Spec => []SchedInv
  <1>1. SchedInv /\ [Next]_vars => SchedInv'
    BY SchedNext
  <1> QED BY <1>1, SchedInit, PTL DEF Spec

(* No request is lost: whoever was submitted is answered, was cancelled or *)
(* is in exactly one place of the four queues, and the pool's blocks       *)
(* belong to running requests only (or to the one under AcquirePrefix, or  *)
(* to a Free() under way), preemption included.                            *)
THEOREM EveryRequestOwned ==
    ASSUME ChainsAreHashes
    PROVE  Spec => []Ownership
  <1>1. SchedInv /\ NoneLost /\ [Next]_vars => NoneLost'
    BY NoneLostStep
  <1> QED BY <1>1, SchedulerInvariant, NoneLostInit, OwnershipHolds, PTL DEF Spec

(* n_slots and max_waiting bound running_ and waiting_, whatever arrives.  *)
THEOREM QueuesBounded ==
    ASSUME ChainsAreHashes
    PROVE  Spec => []QueueBound
  <1>1. SchedInv => QueueBound
    BY DEF SchedInv
  <1> QED BY <1>1, SchedulerInvariant, PTL

(* However admission, growth, preemption, caching and retirement           *)
(* interleave, what they do to the allocator implements the block pool: no *)
(* block has two unrelated owners, none is lost, none keeps a stale name.  *)
THEOREM SchedulerImplementsPool ==
    ASSUME ChainsAreHashes
    PROVE  Spec => PoolSpec
  <1>1. SchedInv /\ [Next]_vars => SchedInv'
    BY SchedNext
  <1>2. SchedInv /\ [Next]_vars => [Pool!Next]_(Pool!poolVars)
    <2>1. SchedInv => AllocInv
      BY DEF SchedInv
    <2> QED BY <2>1, SchedNext, PoolNext
  <1>3. Init => Pool!Init
    BY PoolInit DEF Init
  <1> QED BY <1>1, <1>2, <1>3, SchedInit, PTL DEF Spec, PoolSpec, Pool!Spec

(* The merged forward never has more rows than the token budget nor more   *)
(* entries than slots, the sizes StepContext was built with, even when     *)
(* preemption shifts running_ under the visiting order; and no cursor runs *)
(* ahead of the tokens of its request by more than one step's budget.      *)
ForwardFits ==
    /\ pc = "forward" => Cardinality(BatchRows) <= TokenBudget /\ Len(batch) <= NSlots
    /\ \A r \in Req : req[r].computed <= NumTokens(r) + TokenBudget

(* ForwardFits, for every workload, pool size, budget and number of slots. *)
THEOREM ForwardAlwaysFits ==
    ASSUME ChainsAreHashes
    PROVE  Spec => []ForwardFits
  <1>1. SchedInv => ForwardFits
    <2> SUFFICES ASSUME SchedInv PROVE ForwardFits
      OBVIOUS
    <2>1. ASSUME pc = "forward"
          PROVE  Cardinality(BatchRows) <= TokenBudget /\ Len(batch) <= NSlots
      <3>1. /\ IsFiniteSet(BatchRows) /\ budget + Cardinality(BatchRows) <= TokenBudget
            /\ Len(batch) + Len(order) + 0 <= NSlots
        BY <2>1 DEF SchedInv, BatchBound, Building
      <3>2. budget \in Nat /\ Len(batch) \in Nat /\ Len(order) \in Nat
        BY DEF SchedInv, SchedTypeOK
      <3>3. NSlots \in Nat /\ TokenBudget \in Nat
        BY Config
      <3>4. Cardinality(BatchRows) \in Nat
        BY <3>1, FS_CardinalityType
      <3> QED BY <3>1, <3>2, <3>3, <3>4
    <2> QED BY <2>1 DEF ForwardFits, SchedInv, CursorBound
  <1> QED BY <1>1, SchedulerInvariant, PTL
-----------------------------------------------------------------------------
(* When a step preempts for one request only *)

(* Grow works for the first request of the step, and that request gets the *)
(* whole budget: nobody is visited after it, so that nothing uses an index *)
(* of running_ that the preemption shifted, or rows emitted before it.     *)
Lone == batch = <<>> /\ cur[2] = budget
PreemptsAlone == [][Preempt => Lone]_vars

(* The control of a step *)

(* The requests that have rows in the batch. *)
Batched == {batch[i].r : i \in DOMAIN batch}
InStep == pc \in {"pick", "grow", "forward", "apply", "cache"}

(* A batch has one entry for a request; the request runs and still has the *)
(* blocks its rows name, and they suffice.                                 *)
BatchOwned ==
    InStep =>
        /\ \A i, j \in DOMAIN batch : batch[i].r = batch[j].r => i = j
        /\ \A i \in DOMAIN batch :
              /\ batch[i].r \in ToSet(running)
              /\ batch[i].blocks = table[batch[i].r]
              /\ batch[i].n >= 1
              /\ batch[i].start + batch[i].n <= Len(batch[i].blocks) * BlockSize

(* Until the forward, the rows of an entry start at the request's cursor   *)
(* and end at its last token at most.                                      *)
BatchFresh ==
    Building => \A i \in DOMAIN batch :
        /\ batch[i].start = req[batch[i].r].computed
        /\ batch[i].n = req[batch[i].r].num_new
        /\ batch[i].start + batch[i].n <= NumTokens(batch[i].r)
        /\ batch[i].sample <=> batch[i].start + batch[i].n = NumTokens(batch[i].r)

(* As long as there is budget to visit another request, the visiting order *)
(* names requests of running_ that were not visited.                       *)
Left == IF pc = "grow" THEN budget - cur[2] ELSE budget
OrderFresh ==
    /\ pc \in {"pick", "grow"} /\ Left > 0 =>
          /\ \A k \in DOMAIN order : order[k] \in DOMAIN running
          /\ \A k, l \in DOMAIN order : order[k] = order[l] => k = l
          /\ \A k \in DOMAIN order : running[order[k]] \notin Batched
          /\ pc = "grow" => \A k \in DOMAIN order : running[order[k]] # cur[1]
    /\ pc = "grow" => cur[1] \notin Batched

(* Apply reads one sample for every entry that asked for one. *)
Asking == {i \in at .. Len(batch) : batch[i].sample}
SamplesLeft ==
    pc = "apply" =>
        /\ Len(sampled) = Cardinality(Asking)
        /\ \A i \in at .. Len(batch) :
              /\ Remaining(batch[i].r) = 0 <=> batch[i].sample
              /\ batch[i].r \notin ToSet(done)

(* What Apply finished still runs, until Retire. *)
DoneRuns ==
    /\ Distinct(done) /\ ToSet(done) \subseteq ToSet(running)
    /\ done # <<>> => pc \in {"apply", "cache", "retire"}

(* A Free() under way is one of a request that runs no more, and ends      *)
(* before the loop that started it does.                                   *)
FreesApart ==
    \A r \in Req : freed[r] > 0 =>
        r \notin ToSet(running) /\ pc \in {"drop_waiting", "drop_running", "build", "grow", "retire"}

(* The blocks AcquirePrefix has taken are those of the request's prefix. *)
AcquiredIsPrefix ==
    pc = "acquire" => LET r == Head(waiting) IN
        \A k \in DOMAIN table[r] : blk_hash[table[r][k]] = PrefixHash(r, k)

StepInv ==
    /\ pc # "crash"
    /\ BatchOwned /\ BatchFresh /\ OrderFresh /\ SamplesLeft /\ DoneRuns
    /\ FreesApart /\ AcquiredIsPrefix

-----------------------------------------------------------------------------
(* What the requests and the pool contain *)

(* A running request's cursor is within its tokens, and it has no more     *)
(* blocks than they need.                                                  *)
CursorsBehind == \A r \in ToSet(running) : req[r].computed <= NumTokens(r)
TablesSuffice == \A r \in ToSet(running) : Len(table[r]) <= BlocksFor(NumTokens(r))

(* A block that still has rows to come has one owner and no name. *)
Unfilled(r, k) == k > req[r].computed \div BlockSize
UnfilledIsPrivate ==
    \A r \in ToSet(running) : \A k \in DOMAIN table[r] : Unfilled(r, k) =>
        /\ blk_hash[table[r][k]] = NoHash
        /\ \A s \in Req : \A l \in DOMAIN table[s] : table[s][l] = table[r][k] => s = r /\ l = k

(* The chained hash of a request is that of the blocks it has named, which *)
(* are full.                                                               *)
ChainsKept ==
    \A r \in ToSet(running) :
        /\ req[r].cached_blocks <= req[r].computed \div BlockSize
        /\ req[r].last_hash = PrefixHash(r, req[r].cached_blocks)

DataInv ==
    /\ CursorsBehind /\ TablesSuffice /\ UnfilledIsPrivate /\ ChainsKept
    /\ KvIntegrity /\ CacheContent

(* What a client was told *)

(* A request that does not run, and was not dropped, starts from the       *)
(* beginning.                                                              *)
Pending(r) == r \in submitted => r \in Queued
WaitingIsReset ==
    \A r \in Req : r \notin ToSet(running) /\ Pending(r) =>
        req[r].computed = 0 /\ req[r].cached_blocks = 0 /\ req[r].last_hash = NoHash

(* What a request that is not finished has streamed. *)
TokenEvents(o) == [i \in DOMAIN o |-> TokenEvent(o[i])]
Live(r) == r \in submitted => r \in Queued /\ r \notin ToSet(done)
Unfinished ==
    \A r \in Req : Live(r) =>
        /\ sink[r] = TokenEvents(req[r].output)
        /\ \A i \in DOMAIN req[r].output : req[r].output[i] \notin StopIds
        /\ req[r].output # <<>> => ~IsFinished(r, req[r].output)

StreamInv == DOMAIN sink = Req /\ WaitingIsReset /\ Unfinished /\ TerminalIsLast

LoneInv == SchedInv /\ StepInv /\ DataInv /\ StreamInv
-----------------------------------------------------------------------------
(* Positions and blocks *)

(* Two rows of one block at one place in it are one row. *)
LEMMA SameRow ==
    ASSUME NEW p \in Nat, NEW q \in Nat, NEW b \in Nat \ {0},
           p \div b = q \div b, (p % b) + 1 = (q % b) + 1
    PROVE  p = q
  <1>1. /\ p \div b \in Nat /\ p % b \in 0 .. b - 1 /\ p = (p \div b) * b + (p % b)
        /\ q \div b \in Nat /\ q % b \in 0 .. b - 1 /\ q = (q \div b) * b + (q % b)
    BY BlockOf
  <1>2. PICK m, l : m = p % b /\ l = q % b
    OBVIOUS
  <1>3. m = l
    BY <1>1, <1>2
  <1> QED BY <1>1, <1>2, <1>3

(* What BlocksFor rounds up to. *)
LEMMA BlocksForBounds ==
    ASSUME NEW n \in Nat, NEW m \in Nat
    PROVE  /\ BlocksFor(n) \in Nat
           /\ n <= m => BlocksFor(n) <= BlocksFor(m)
           /\ n <= BlocksFor(n) * BlockSize
           /\ n - 1 \in Nat => (n - 1) \div BlockSize <= BlocksFor(n)
  <1>1. BlockSize \in Nat \ {0}
    BY Config
  <1>2. PICK x, y : x = n + BlockSize - 1 /\ y = m + BlockSize - 1
    OBVIOUS
  <1>3. x \in Nat /\ y \in Nat /\ (n <= m => x <= y)
    BY <1>1, <1>2
  <1>4. BlocksFor(n) = x \div BlockSize /\ BlocksFor(m) = y \div BlockSize
    BY <1>2 DEF BlocksFor
  <1>5. BlocksFor(n) \in Nat
    <2>1. x \div BlockSize \in Nat
      BY <1>1, <1>3, BlockOf
    <2> QED BY <2>1, <1>4
  <1>6. n <= m => BlocksFor(n) <= BlocksFor(m)
    BY <1>1, <1>3, <1>4, BlockOfLater
  <1>7. n <= BlocksFor(n) * BlockSize
    <2>1. PICK d, l : d = x \div BlockSize /\ l = x % BlockSize
      OBVIOUS
    <2>2. d \in Nat /\ l \in 0 .. BlockSize - 1 /\ x = d * BlockSize + l
      BY <2>1, <1>1, <1>3, BlockOf
    <2>3. PICK z : z = d * BlockSize
      OBVIOUS
    <2>4. z \in Nat /\ n + BlockSize - 1 = z + l /\ l <= BlockSize - 1 /\ l \in Nat
      BY <2>2, <2>3, <1>1, <1>2
    <2>5. n <= z
      BY <2>4, <1>1
    <2> QED BY <2>1, <2>3, <2>5, <1>4
  <1>8. n - 1 \in Nat => (n - 1) \div BlockSize <= BlocksFor(n)
    <2>1. n - 1 \in Nat => n - 1 <= x
      BY <1>1, <1>2
    <2> QED BY <2>1, <1>1, <1>3, <1>4, BlockOfLater
  <1> QED BY <1>5, <1>6, <1>7, <1>8

(* A prefix of a prefix is a prefix. *)
LEMMA PrefixOfPrefix ==
    ASSUME NEW S, NEW s \in Seq(S), NEW m \in Nat, NEW n \in Nat, n <= m, m <= Len(s)
    PROVE  /\ SubSeq(s, 1, m) \in Seq(S) /\ Len(SubSeq(s, 1, m)) = m
           /\ SubSeq(SubSeq(s, 1, m), 1, n) = SubSeq(s, 1, n)
  OBVIOUS

(* What is appended does not show in a prefix. *)
LEMMA PrefixOfConcat ==
    ASSUME NEW S, NEW s \in Seq(S), NEW t \in Seq(S), NEW n \in Nat, n <= Len(s)
    PROVE  SubSeq(s \o t, 1, n) = SubSeq(s, 1, n)
  OBVIOUS

(* A prefix and the next tokens are a longer prefix. *)
LEMMA PrefixGrows ==
    ASSUME NEW S, NEW s \in Seq(S), NEW m \in Nat, NEW n \in Nat, m <= n, n <= Len(s)
    PROVE  SubSeq(s, 1, m) \o SubSeq(s, m + 1, n) = SubSeq(s, 1, n)
  OBVIOUS

-----------------------------------------------------------------------------
(* The kinds of steps *)

(* The request of a batch entry runs, and has the types of a request. *)
LEMMA StepEntry ==
    ASSUME SchedInv, BatchOwned, InStep, NEW i \in 1 .. Len(batch)
    PROVE  /\ i \in DOMAIN batch /\ batch[i].r \in Req /\ batch[i].r \in ToSet(running)
           /\ batch[i].start \in Nat /\ batch[i].n \in Nat \ {0}
           /\ batch[i].blocks \in Seq(Block) /\ batch[i].blocks = table[batch[i].r]
           /\ batch[i].start + batch[i].n <= Len(table[batch[i].r]) * BlockSize
  <1>1. /\ i \in DOMAIN batch /\ batch[i].r \in Req /\ batch[i].start \in Nat
        /\ batch[i].n \in Nat /\ batch[i].blocks \in Seq(Block)
    BY BatchEntry DEF SchedInv
  <1>2. /\ batch[i].r \in ToSet(running) /\ batch[i].blocks = table[batch[i].r]
        /\ batch[i].n >= 1
        /\ batch[i].start + batch[i].n <= Len(batch[i].blocks) * BlockSize
    BY <1>1 DEF BatchOwned
  <1>3. batch[i].n \in Nat \ {0}
    BY <1>1, <1>2
  <1> QED BY <1>1, <1>2, <1>3

(* Running requests are requests. *)
LEMMA RunningReq ==
    ASSUME SchedInv
    PROVE  ToSet(running) \subseteq Req /\ ToSet(done) \subseteq Req
  BY DEF SchedInv, SchedTypeOK, ToSet

(* A full block below the cursor of a running request is in its table, and *)
(* all its tokens are there.                                               *)
LEMMA FullBlockHeld ==
    ASSUME SchedInv, DataInv, NEW r \in ToSet(running), NEW i \in Nat,
           i < req[r].computed \div BlockSize
    PROVE  /\ i + 1 \in DOMAIN table[r] /\ i < Len(table[r])
           /\ i * BlockSize + BlockSize <= req[r].computed
           /\ i * BlockSize + BlockSize <= NumTokens(r)
           /\ i * BlockSize \in Nat
  <1>1. r \in Req /\ BlockSize \in Nat \ {0}
    BY RunningReq, Config
  <1>2. req[r].computed \in Nat /\ NumTokens(r) \in Nat /\ req[r].computed <= NumTokens(r)
    BY <1>1, RequestCounts DEF SchedInv, DataInv, CursorsBehind
  <1>3. i * BlockSize + BlockSize <= req[r].computed
    BY <1>1, <1>2, FullBlocks
  <1>4. i * BlockSize \in Nat
    BY <1>1
  <1>5. PICK p : p = i * BlockSize
    OBVIOUS
  <1>6. p \in 0 .. req[r].computed - 1 /\ p \in Nat
    BY <1>1, <1>2, <1>3, <1>4, <1>5
  <1>7. p \div BlockSize < Len(table[r])
    BY <1>6 DEF DataInv, KvIntegrity
  <1>8. i <= p \div BlockSize /\ p \div BlockSize \in Nat
    <2>1. i * BlockSize <= p
      BY <1>4, <1>5
    <2> QED BY <2>1, <1>1, <1>6, BlockOf
  <1>9. table[r] \in Seq(Block)
    BY <1>1 DEF SchedInv, AllocInv, AllocTypeOK, Req
  <1>10. i < Len(table[r]) /\ i + 1 \in DOMAIN table[r]
    BY <1>7, <1>8, <1>9
  <1>11. p + BlockSize <= NumTokens(r)
    BY <1>1, <1>2, <1>3, <1>5, <1>6
  <1> QED BY <1>3, <1>4, <1>5, <1>10, <1>11

(* None of the faults of the code can happen: no stale index of running_,  *)
(* no sample past the end, no block or token past the end.                 *)
LEMMA Faultless ==
    ASSUME SchedInv, StepInv, DataInv
    PROVE  ~PickStale /\ ~ApplyPastEnd /\ ~CacheBlockPastEnd
  <1>1. ASSUME PickStale PROVE FALSE
    <2>1. pc = "pick" /\ order # <<>> /\ budget > 0 /\ Head(order) > Len(running)
      BY <1>1 DEF PickStale, Picking
    <2>2. order \in Seq(Nat \ {0}) /\ running \in Seq(Req)
      BY DEF SchedInv, SchedTypeOK
    <2>3. 1 \in DOMAIN order /\ Head(order) = order[1]
      BY <2>1, <2>2
    <2>4. Left > 0
      BY <2>1 DEF Left
    <2>5. order[1] \in DOMAIN running
      BY <2>1, <2>3, <2>4 DEF StepInv, OrderFresh
    <2> QED BY <2>1, <2>2, <2>3, <2>5
  <1>2. ASSUME ApplyPastEnd PROVE FALSE
    <2>1. pc = "apply" /\ at <= Len(batch) /\ Remaining(batch[at].r) = 0 /\ sampled = <<>>
      BY <1>2 DEF ApplyPastEnd
    <2>2. at \in at .. Len(batch) /\ Len(batch) \in Nat /\ at \in Nat
      BY <2>1 DEF SchedInv, SchedTypeOK
    <2>3. at \in Asking
      BY <2>1, <2>2 DEF StepInv, SamplesLeft, Asking
    <2>4. Cardinality(Asking) = 0
      BY <2>1 DEF StepInv, SamplesLeft
    <2>5. IsFiniteSet(Asking)
      <3>1. IsFiniteSet(at .. Len(batch))
        BY <2>2, FS_Interval
      <3>2. Asking \subseteq at .. Len(batch)
        BY DEF Asking
      <3> QED BY <3>1, <3>2, FS_Subset
    <2> QED BY <2>3, <2>4, <2>5, FS_EmptySet
  <1>3. ASSUME CacheBlockPastEnd PROVE FALSE
    <2>1. pc = "cache" /\ at <= Len(batch) /\ Uncached /\ ReadsPastEnd
      BY <1>3 DEF CacheBlockPastEnd
    <2>2. at \in 1 .. Len(batch)
      BY <2>1 DEF SchedInv, SchedTypeOK
    <2>3. PICK r, i : r = batch[at].r /\ i = req[r].cached_blocks
      OBVIOUS
    <2>4. r \in Req /\ r \in ToSet(running) /\ batch[at].blocks = table[r]
      BY <2>1, <2>2, <2>3, StepEntry DEF StepInv, InStep
    <2>5. i \in Nat /\ NumTokens(r) \in Nat /\ req[r].computed \in Nat
      BY <2>3, <2>4, RequestCounts DEF SchedInv
    <2>6. i < req[r].computed \div BlockSize
      BY <2>1, <2>3 DEF Uncached
    <2>7. i < Len(table[r]) /\ i * BlockSize + BlockSize <= NumTokens(r) /\ i * BlockSize \in Nat
      BY <2>4, <2>5, <2>6, FullBlockHeld
    <2>8. Len(table[r]) \in Nat
      BY <2>4 DEF SchedInv, AllocInv, AllocTypeOK, Req
    <2>9. Max({Len(table[r]), Len(table[r])}) = Len(table[r])
      BY <2>8, MaxOfTwo
    <2>10. (i + 1) * BlockSize = i * BlockSize + BlockSize /\ BlockSize \in Nat
      BY <2>5, Config
    <2>11. \/ i >= Len(table[r])
           \/ (i + 1) * BlockSize > NumTokens(r)
      BY <2>1, <2>3, <2>4, <2>9 DEF ReadsPastEnd
    <2> QED BY <2>5, <2>7, <2>8, <2>10, <2>11
  <1> QED BY <1>1, <1>2, <1>3

(* A step changes what requests, tables and slots contain in one of these  *)
(* ways, or is one of the steps that do more.                              *)
Keeps == UNCHANGED <<req, running, table, blk_hash, cached, kv>>

Drops(v) ==
    /\ ToSet(running') = ToSet(running) \ {v}
    /\ table'[v] \in {<<>>, table[v]}
    /\ \A g \in Req \ {v} : table'[g] = table[g] /\ req'[g] = req[g]
    /\ UNCHANGED <<blk_hash, cached, kv>>

(* Head(waiting) starts to run, with the blocks of the prefix it adopted. *)
Joins(r, nb) ==
    /\ r \in Req /\ r \notin ToSet(running) /\ ToSet(running') = ToSet(running) \cup {r}
    /\ nb \in Nat /\ Len(table[r]) = nb /\ nb <= (NumTokens(r) - 1) \div BlockSize
    /\ \A k \in DOMAIN table[r] : blk_hash[table[r][k]] = PrefixHash(r, k)
    /\ req'[r].computed = nb * BlockSize /\ req'[r].cached_blocks = nb
    /\ req'[r].last_hash = PrefixHash(r, nb) /\ req'[r].output = req[r].output
    /\ \A g \in Req \ {r} : req'[g] = req[g]
    /\ UNCHANGED <<table, blk_hash, cached, kv>>

(* Release gives back blocks of one request, and changes no name. *)
LEMMA ReleaseDrops ==
    ASSUME AllocTypeOK, NEW v \in Req, Release(v) \/ FreeOne(v)
    PROVE  /\ table'[v] \in {<<>>, table[v]}
           /\ \A g \in Req \ {v} : table'[g] = table[g]
           /\ UNCHANGED <<blk_hash, cached>>
  <1>1. CASE UNCHANGED allocVars
    BY <1>1 DEF allocVars
  <1>2. CASE FreeOne(v)
    BY <1>2 DEF FreeOne, AllocTypeOK, Req
  <1> QED BY <1>1, <1>2 DEF Release

(* The request at the front of waiting_ that is given a slot. *)
LEMMA JoinStep ==
    ASSUME SchedInv, StepInv, StreamInv, (Fill /\ running' # running) \/ AcquireEnd
    PROVE  Joins(Head(waiting), Len(table[Head(waiting)]))
  <1>1. PICK r, nb : r = Head(waiting) /\ nb = Len(table[r])
    OBVIOUS
  <1>2. /\ waiting # <<>> /\ waiting \in Seq(Req) /\ running \in Seq(Req)
        /\ req \in [Req -> RequestType]
    BY DEF SchedInv, SchedTypeOK, TablesOwned, Fill, MayFill, AcquireEnd
  <1>3. r \in Req /\ r \in ToSet(waiting) /\ r \notin ToSet(running)
    <2>1. r \in Req /\ r \in ToSet(waiting)
      BY <1>1, <1>2, TailQueue
    <2> QED BY <2>1 DEF SchedInv, QueuesApart
  <1>4. /\ running' = Append(running, r)
        /\ UNCHANGED <<table, blk_hash, cached, kv>>
    BY <1>1 DEF Fill, AcquireEnd, ToRunning, allocVars
  <1>5. ToSet(running') = ToSet(running) \cup {r}
    BY <1>2, <1>3, <1>4, AppendQueue
  <1>6. req[r].computed = 0 /\ req[r].cached_blocks = 0 /\ req[r].last_hash = <<>>
    BY <1>3, HashAssumption DEF StreamInv, WaitingIsReset, Pending, Queued
  <1>7. table[r] \in Seq(Block) /\ nb \in Nat
    BY <1>1, <1>3 DEF SchedInv, AllocInv, AllocTypeOK, Req
  <1>8. NumTokens(r) \in Nat /\ NumTokens(r) >= 1 /\ BlockSize \in Nat \ {0}
    BY <1>3, RequestCounts, Config DEF SchedInv
  <1>9. CASE nb = 0 /\ req' = req
    <2>1. DOMAIN table[r] = {}
      <3>1. DOMAIN table[r] = 1 .. Len(table[r])
        BY <1>7
      <3>2. Len(table[r]) = 0
        BY <1>1, <1>9
      <3>3. 1 .. 0 = {}
        OBVIOUS
      <3> QED BY <3>1, <3>2, <3>3
    <2>2. PrefixHash(r, 0) = <<>>
      BY <1>8 DEF PrefixHash
    <2>3. 0 <= (NumTokens(r) - 1) \div BlockSize /\ 0 * BlockSize = 0
      <3>1. NumTokens(r) - 1 \in Nat
        BY <1>8
      <3> QED BY <3>1, <1>8, BlockOf
    <2> QED BY <2>1, <2>2, <2>3, <1>1, <1>3, <1>4, <1>5, <1>6, <1>7, <1>9 DEF Joins
  <1>10. CASE Fill /\ running' # running
    <2>1. req' = req /\ pc = "fill"
      BY <1>10 DEF Fill
    <2>2. freed[r] = 0
      <3>1. ~(freed[r] > 0)
        BY <2>1, <1>3 DEF StepInv, FreesApart
      <3>2. freed[r] \in Nat
        BY <1>3 DEF SchedInv, AllocInv, AllocTypeOK, Req
      <3> QED BY <3>1, <3>2
    <2>3. table[r] = <<>>
      BY <2>1, <2>2, <1>3 DEF SchedInv, TablesOwned
    <2>4. nb = 0
      BY <2>3, <1>1
    <2> QED BY <2>1, <2>4, <1>9
  <1>11. CASE AcquireEnd
    <2>1. /\ req' = IF nb > 0 THEN [req EXCEPT ![r] = AdoptPrefix(req[r], nb, PrefixHash(r, nb))]
                    ELSE req
          /\ pc = "acquire"
      BY <1>1, <1>11 DEF AcquireEnd
    <2>2. CASE nb = 0
      BY <2>1, <2>2, <1>9
    <2>3. CASE nb > 0
      <3>1. req' = [req EXCEPT ![r] = AdoptPrefix(req[r], nb, PrefixHash(r, nb))]
        BY <2>1, <2>3
      <3>2. /\ req'[r].computed = nb * BlockSize /\ req'[r].cached_blocks = nb
            /\ req'[r].last_hash = PrefixHash(r, nb) /\ req'[r].output = req[r].output
            /\ \A g \in Req \ {r} : req'[g] = req[g]
        BY <3>1, <1>2, <1>3 DEF AdoptPrefix, RequestType
      <3>3. \A k \in DOMAIN table[r] : blk_hash[table[r][k]] = PrefixHash(r, k)
        BY <2>1, <1>1 DEF StepInv, AcquiredIsPrefix
      <3>4. nb <= (NumTokens(r) - 1) \div BlockSize
        BY <2>1, <1>1 DEF SchedInv, TablesOwned
      <3> QED BY <3>2, <3>3, <3>4, <1>1, <1>3, <1>4, <1>5, <1>7 DEF Joins
    <2> QED BY <2>2, <2>3, <1>7
  <1> QED BY <1>10, <1>11

(* CacheBlocks ends with the count it has reached. *)
LEMMA CacheNextKeeps ==
    ASSUME SchedInv, StepInv, DataInv, CacheNext
    PROVE  req' = req
  <1>1. PICK r, c : r = batch[at].r /\ c = req[r].cached_blocks
    OBVIOUS
  <1>2. pc = "cache" /\ at <= Len(batch) /\ ~Uncached
    BY DEF CacheNext
  <1>3. at \in 1 .. Len(batch)
    BY <1>2 DEF SchedInv, SchedTypeOK
  <1>4. r \in Req /\ r \in ToSet(running)
    BY <1>1, <1>2, <1>3, StepEntry DEF StepInv, InStep
  <1>5. req[r] \in RequestType /\ c \in Nat /\ req[r].computed \in Nat
    BY <1>1, <1>4, RequestCounts DEF SchedInv
  <1>6. req[r].computed \div BlockSize \in Nat
    BY <1>5, Config, BlockOf
  <1>7. c = req[r].computed \div BlockSize
    BY <1>1, <1>2, <1>4, <1>5, <1>6 DEF Uncached, DataInv, ChainsKept
  <1>8. req' = [req EXCEPT ![r] = [req[r] EXCEPT !.cached_blocks = c]]
    BY <1>1, <1>7 DEF CacheNext
  <1>9. [req[r] EXCEPT !.cached_blocks = c] = req[r]
    BY <1>1, <1>5 DEF RequestType
  <1>10. req \in [Req -> RequestType]
    BY DEF SchedInv, SchedTypeOK
  <1> QED BY <1>4, <1>8, <1>9, <1>10

(* Every step is of one of these kinds. *)
LEMMA StepKinds ==
    ASSUME SchedInv, StepInv, DataInv, StreamInv, [Next]_vars
    PROVE  \/ Keeps
           \/ \E v \in Req : Drops(v)
           \/ \E r, nb : Joins(r, nb)
           \/ AcquireHit \/ GrowAlloc \/ AddRequest \/ Forward \/ Apply \/ CacheBlock
  <1>0. AllocTypeOK /\ SchedTypeOK /\ QueuesApart /\ running \in Seq(Req) /\ waiting \in Seq(Req)
    BY DEF SchedInv, AllocInv, SchedTypeOK
  <1>1. ASSUME NEW v \in Req, Release(v) \/ FreeOne(v), ToSet(running') = ToSet(running) \ {v},
               \A g \in Req \ {v} : req'[g] = req[g], kv' = kv
        PROVE  Drops(v)
    BY <1>0, <1>1, ReleaseDrops DEF Drops
  <1>2. CASE (\E r \in Req : Submit(r)) \/ (\E r \in MayCancel : Cancel(r)) \/ UNCHANGED vars
    BY <1>2 DEF Submit, Cancel, vars, Keeps, allocVars, queues
  <1>3. CASE Drain \/ Admit \/ StartStep \/ FillEnd \/ StartBuild
    BY <1>3 DEF Drain, Admit, StartStep, FillEnd, StartBuild, Keeps, allocVars, queues
  <1>4. CASE Pick \/ PickEnd \/ ApplyEnd \/ CacheEnd \/ StepEnd
    BY <1>4 DEF Pick, PickEnd, ApplyEnd, CacheEnd, StepEnd, Keeps, allocVars, queues
  <1>5. CASE CacheNext
    <2>1. req' = req
      BY <1>5, CacheNextKeeps
    <2> QED BY <2>1, <1>5 DEF CacheNext, Keeps, allocVars, queues
  <1>6. CASE Fill
    <2>1. CASE running' = running
      <3>1. running' # Append(running, Head(waiting))
        BY <2>1, <1>0
      <3> QED BY <3>1, <2>1, <1>6 DEF Fill, ToRunning, Keeps, allocVars
    <2> QED BY <2>1, <1>6, JoinStep
  <1>7. CASE AcquireEnd
    BY <1>7, JoinStep
  <1>8. CASE FreeMore
    <2>1. PICK v \in Req : freed[v] > 0 /\ FreeOne(v)
      BY <1>8 DEF FreeMore
    <2>2. v \notin ToSet(running)
      BY <2>1 DEF StepInv, FreesApart
    <2>3. running' = running /\ req' = req /\ kv' = kv
      BY <1>8 DEF FreeMore, queues
    <2> QED BY <2>1, <2>2, <2>3, <1>1
  <1>9. CASE DropWaiting
    <2>1. running' = running /\ req' = req /\ kv' = kv
      BY <1>9 DEF DropWaiting
    <2>2. CASE UNCHANGED allocVars
      BY <2>1, <2>2 DEF Keeps, allocVars
    <2>3. CASE at <= Len(waiting) /\ Release(waiting[at])
      <3>1. at \in 1 .. Len(waiting)
        BY <2>3, <1>0 DEF SchedTypeOK
      <3>2. waiting[at] \in Req /\ waiting[at] \in ToSet(waiting)
        BY <3>1, <1>0, EraseQueue DEF QueuesApart
      <3>3. waiting[at] \notin ToSet(running)
        BY <3>2, <1>0 DEF QueuesApart
      <3> QED BY <3>2, <3>3, <2>1, <2>3, <1>1
    <2> QED BY <2>2, <2>3, <1>9 DEF DropWaiting
  <1>10. CASE DropRunning
    <2>1. req' = req /\ kv' = kv
      BY <1>10 DEF DropRunning
    <2>2. CASE UNCHANGED <<allocVars, running>>
      BY <2>1, <2>2 DEF Keeps, allocVars
    <2>3. CASE at <= Len(running) /\ Release(running[at]) /\ running' = RemoveAt(running, at)
      <3>1. at \in 1 .. Len(running)
        BY <2>3, <1>0 DEF SchedTypeOK
      <3>2. running[at] \in Req /\ ToSet(running') = ToSet(running) \ {running[at]}
        BY <3>1, <2>3, <1>0, EraseQueue DEF QueuesApart
      <3> QED BY <3>2, <2>1, <2>3, <1>1
    <2> QED BY <2>2, <2>3, <1>10 DEF DropRunning
  <1>11. CASE Preempt
    <2>1. PICK k, v : k = Max(Others) /\ v = running[k]
      OBVIOUS
    <2>2. /\ Release(v) /\ req' = [req EXCEPT ![v] = ResetForRecompute(req[v])]
          /\ running' = RemoveAt(running, k) /\ kv' = kv /\ Others # {}
      BY <2>1, <1>11 DEF Preempt
    <2>3. k \in 1 .. Len(running)
      BY <2>1, <2>2, VictimRuns DEF SchedInv, SchedTypeOK, QueueInv, QueueTypes
    <2>4. v \in Req /\ ToSet(running') = ToSet(running) \ {v}
      BY <2>1, <2>2, <2>3, <1>0, EraseQueue DEF QueuesApart
    <2>5. \A g \in Req \ {v} : req'[g] = req[g]
      BY <2>2 DEF SchedInv, SchedTypeOK
    <2> QED BY <2>2, <2>4, <2>5, <1>1
  <1>12. ASSUME NEW v \in Req, Release(v), running' = RemoveFirst(running, v), req' = req, kv' = kv
         PROVE  Drops(v)
    <2>1. ToSet(running') = ToSet(running) \ {v}
      BY <1>0, <1>12, RemoveFirstQueue DEF QueuesApart
    <2> QED BY <2>1, <1>1, <1>12
  <1>13. CASE GrowFail
    <2>1. cur[1] \in Req
      BY <1>0, <1>13 DEF GrowFail, Growing, SchedTypeOK
    <2> QED BY <2>1, <1>12, <1>13 DEF GrowFail
  <1>14. CASE Retire
    <2>1. Head(done) \in Req
      BY <1>0, <1>14 DEF Retire, SchedTypeOK
    <2> QED BY <2>1, <1>12, <1>14 DEF Retire
  <1> QED BY <1>2, <1>3, <1>4, <1>5, <1>6, <1>7, <1>8, <1>9, <1>10, <1>11, <1>13, <1>14,
             Faultless DEF Next, Engine
-----------------------------------------------------------------------------
(* Requests, tables and slots, one kind of step at a time *)

(* What is known of a running request. *)
LEMMA RunningTypes ==
    ASSUME SchedInv, NEW r \in ToSet(running)
    PROVE  /\ r \in Req /\ req[r].computed \in Nat /\ req[r].cached_blocks \in Nat
           /\ req[r].last_hash \in Seq(Token) /\ req[r].output \in Seq(Token)
           /\ Tokens(r) \in Seq(Token) /\ NumTokens(r) \in Nat /\ NumTokens(r) >= 1
           /\ Len(Tokens(r)) = NumTokens(r)
           /\ table[r] \in Seq(Block) /\ Len(table[r]) \in Nat
           /\ DOMAIN table[r] = 1 .. Len(table[r])
           /\ req[r].computed \div BlockSize \in Nat
  <1>1. r \in Req
    BY RunningReq
  <1>2. /\ req[r] \in RequestType /\ req[r].computed \in Nat /\ req[r].cached_blocks \in Nat
        /\ req[r].output \in Seq(Token) /\ NumTokens(r) \in Nat /\ NumTokens(r) >= 1
    BY <1>1, RequestCounts DEF SchedInv
  <1>3. Tokens(r) \in Seq(Token) /\ Len(Tokens(r)) = NumTokens(r)
    BY <1>1, <1>2, TokensType DEF NumTokens
  <1>4. req[r].last_hash \in Seq(Token)
    BY <1>2, RequestFields
  <1>5. table[r] \in Seq(Block)
    BY <1>1 DEF SchedInv, AllocInv, AllocTypeOK, Req
  <1>6. req[r].computed \div BlockSize \in Nat
    BY <1>2, Config, BlockOf
  <1> QED BY <1>1, <1>2, <1>3, <1>4, <1>5, <1>6

(* Tokens of a request that a step leaves alone. *)
LEMMA SameTokens ==
    ASSUME NEW r, req'[r].output = req[r].output
    PROVE  /\ Tokens(r)' = Tokens(r) /\ NumTokens(r)' = NumTokens(r)
           /\ \A n : PrefixHash(r, n)' = PrefixHash(r, n)
  BY DEF Tokens, NumTokens, PrefixHash

(* A step that at most appends tokens to outputs. *)
Lengthens(r) ==
    /\ req'[r].computed = req[r].computed /\ req'[r].cached_blocks = req[r].cached_blocks
    /\ req'[r].last_hash = req[r].last_hash
    /\ \E u \in Seq(Token) : Tokens(r)' = Tokens(r) \o u
Extends ==
    /\ UNCHANGED <<running, table, blk_hash, cached, kv>>
    /\ \A r \in Req : Lengthens(r)

(* It leaves the prefixes of a request as they are. *)
LEMMA LongerTokens ==
    ASSUME SchedInv, NEW r \in ToSet(running), Lengthens(r)
    PROVE  /\ NumTokens(r)' \in Nat /\ NumTokens(r) <= NumTokens(r)'
           /\ \A n \in Nat : n <= NumTokens(r) => SubSeq(Tokens(r)', 1, n) = SubSeq(Tokens(r), 1, n)
  <1>1. PICK u \in Seq(Token) : Tokens(r)' = Tokens(r) \o u
    BY DEF Lengthens
  <1>2. PICK T : T = Tokens(r)
    OBVIOUS
  <1>3. T \in Seq(Token) /\ Len(T) = NumTokens(r) /\ Len(T) \in Nat /\ Len(u) \in Nat
    BY <1>2, RunningTypes
  <1>4. NumTokens(r)' = Len(T \o u)
    BY <1>1, <1>2 DEF NumTokens
  <1>5. Len(T \o u) = Len(T) + Len(u)
    BY <1>3
  <1>6. NumTokens(r)' \in Nat /\ NumTokens(r) <= NumTokens(r)'
    BY <1>3, <1>4, <1>5
  <1>7. ASSUME NEW n \in Nat, n <= NumTokens(r)
        PROVE  SubSeq(T \o u, 1, n) = SubSeq(T, 1, n)
    BY <1>3, <1>7, PrefixOfConcat
  <1> QED BY <1>1, <1>2, <1>6, <1>7

(* Appended tokens disturb nothing that is stored or named. *)
LEMMA ExtendsData ==
    ASSUME SchedInv, DataInv, Extends
    PROVE  DataInv'
  <1>0. /\ CursorsBehind /\ TablesSuffice /\ UnfilledIsPrivate /\ ChainsKept /\ KvIntegrity
        /\ CacheContent /\ BlockSize \in Nat \ {0}
    BY Config DEF DataInv
  <1>1. UNCHANGED <<running, table, blk_hash, cached, kv>>
    BY DEF Extends
  <1>2. ASSUME NEW r \in ToSet(running)
        PROVE  /\ r \in Req /\ Lengthens(r)
               /\ req'[r].computed = req[r].computed
               /\ req'[r].cached_blocks = req[r].cached_blocks
               /\ req'[r].last_hash = req[r].last_hash
               /\ NumTokens(r)' \in Nat /\ NumTokens(r) <= NumTokens(r)'
               /\ \A n \in Nat : n <= NumTokens(r) =>
                     SubSeq(Tokens(r)', 1, n) = SubSeq(Tokens(r), 1, n)
    <2>1. r \in Req /\ Lengthens(r)
      BY RunningTypes DEF Extends
    <2>2. /\ NumTokens(r)' \in Nat /\ NumTokens(r) <= NumTokens(r)'
          /\ \A n \in Nat : n <= NumTokens(r) => SubSeq(Tokens(r)', 1, n) = SubSeq(Tokens(r), 1, n)
      BY <2>1, LongerTokens
    <2> QED BY <2>1, <2>2 DEF Lengthens
  <1>3. CursorsBehind'
    <2>1. ASSUME NEW r \in ToSet(running) PROVE req'[r].computed <= NumTokens(r)'
      BY <1>0, <1>2, RunningTypes DEF CursorsBehind
    <2> QED BY <2>1, <1>1 DEF CursorsBehind
  <1>4. TablesSuffice'
    <2>1. ASSUME NEW r \in ToSet(running) PROVE Len(table[r]) <= BlocksFor(NumTokens(r)')
      <3>1. /\ BlocksFor(NumTokens(r)) <= BlocksFor(NumTokens(r)')
            /\ BlocksFor(NumTokens(r)) \in Nat /\ BlocksFor(NumTokens(r)') \in Nat
        BY <1>2, RunningTypes, BlocksForBounds
      <3>2. Len(table[r]) <= BlocksFor(NumTokens(r)) /\ Len(table[r]) \in Nat
        BY <1>0, RunningTypes DEF TablesSuffice
      <3> QED BY <3>1, <3>2
    <2> QED BY <2>1, <1>1 DEF TablesSuffice, BlocksFor
  <1>5. UnfilledIsPrivate'
    BY <1>0, <1>1, <1>2 DEF UnfilledIsPrivate, Unfilled
  <1>6. ChainsKept'
    <2>1. ASSUME NEW r \in ToSet(running)
          PROVE  /\ req'[r].cached_blocks <= req'[r].computed \div BlockSize
                 /\ req'[r].last_hash = SubSeq(Tokens(r)', 1, req'[r].cached_blocks * BlockSize)
      <3>1. PICK c : c = req[r].cached_blocks
        OBVIOUS
      <3>2. c <= req[r].computed \div BlockSize /\ req[r].last_hash = SubSeq(Tokens(r), 1, c * BlockSize)
        BY <3>1, <1>0 DEF ChainsKept, PrefixHash
      <3>3. c \in Nat /\ req[r].computed \in Nat /\ NumTokens(r) \in Nat
            /\ req[r].computed <= NumTokens(r)
        BY <3>1, <1>0, RunningTypes DEF CursorsBehind
      <3>4. c * BlockSize <= req[r].computed /\ c * BlockSize \in Nat
        <4>1. c * BlockSize <= req[r].computed
          BY <3>2, <3>3, <1>0, FullBlocks
        <4> QED BY <4>1, <3>3, <1>0
      <3>5. c * BlockSize <= NumTokens(r)
        BY <3>3, <3>4
      <3>6. SubSeq(Tokens(r)', 1, c * BlockSize) = SubSeq(Tokens(r), 1, c * BlockSize)
        BY <3>4, <3>5, <1>2
      <3> QED BY <3>1, <3>2, <3>6, <1>2
    <2> QED BY <2>1, <1>1 DEF ChainsKept, PrefixHash
  <1>7. KvIntegrity'
    <2>1. ASSUME NEW r \in ToSet(running), NEW p \in 0 .. req[r].computed - 1
          PROVE  /\ p \div BlockSize < Len(table[r])
                 /\ LET s == Slot(table[r], p)
                    IN kv[s[1]][s[2]] = SubSeq(Tokens(r)', 1, p + 1)
      <3>1. req[r].computed \in Nat /\ NumTokens(r) \in Nat /\ req[r].computed <= NumTokens(r)
        BY <1>0, RunningTypes DEF CursorsBehind
      <3>2. p + 1 \in Nat /\ p + 1 <= NumTokens(r)
        BY <3>1
      <3>3. SubSeq(Tokens(r)', 1, p + 1) = SubSeq(Tokens(r), 1, p + 1)
        BY <3>2, <1>2
      <3> QED BY <3>3, <1>0 DEF KvIntegrity
    <2> QED BY <2>1, <1>1, <1>2 DEF KvIntegrity, Slot
  <1>8. CacheContent'
    BY <1>0, <1>1 DEF CacheContent
  <1> QED BY <1>3, <1>4, <1>5, <1>6, <1>7, <1>8 DEF DataInv

(* A request that leaves running_ takes nothing from the others. *)
LEMMA DropsData ==
    ASSUME SchedInv, DataInv, NEW v \in Req, Drops(v)
    PROVE  DataInv'
  <1>0. /\ CursorsBehind /\ TablesSuffice /\ UnfilledIsPrivate /\ ChainsKept /\ KvIntegrity
        /\ CacheContent
    BY DEF DataInv
  <1>1. ASSUME NEW r \in ToSet(running')
        PROVE  /\ r \in Req /\ r # v /\ r \in ToSet(running)
               /\ req'[r] = req[r] /\ table'[r] = table[r]
               /\ Tokens(r)' = Tokens(r) /\ NumTokens(r)' = NumTokens(r)
               /\ \A n : PrefixHash(r, n)' = PrefixHash(r, n)
    <2>1. r \in ToSet(running) /\ r # v
      BY <1>1 DEF Drops
    <2>2. r \in Req
      BY <2>1, RunningReq
    <2>3. req'[r] = req[r] /\ table'[r] = table[r]
      BY <2>1, <2>2 DEF Drops
    <2> QED BY <2>1, <2>2, <2>3, SameTokens
  <1>2. UNCHANGED <<blk_hash, cached, kv>>
    BY DEF Drops
  <1>3. CursorsBehind'
    BY <1>0, <1>1 DEF CursorsBehind
  <1>4. TablesSuffice'
    <2>1. \A r \in ToSet(running') : Len(table'[r]) <= BlocksFor(NumTokens(r)')
      BY <1>0, <1>1 DEF TablesSuffice
    <2> QED BY <2>1 DEF TablesSuffice, BlocksFor
  <1>5. UnfilledIsPrivate'
    <2>1. ASSUME NEW s \in Req, NEW l \in DOMAIN table'[s]
          PROVE  l \in DOMAIN table[s] /\ table'[s][l] = table[s][l]
      BY <2>1 DEF Drops
    <2>2. ASSUME NEW r \in ToSet(running'), NEW k \in DOMAIN table'[r], Unfilled(r, k)'
          PROVE  /\ blk_hash'[table'[r][k]] = NoHash
                 /\ \A s \in Req : \A l \in DOMAIN table'[s] :
                       table'[s][l] = table'[r][k] => s = r /\ l = k
      <3>1. /\ r \in ToSet(running) /\ req'[r] = req[r] /\ table'[r] = table[r]
        BY <1>1
      <3>2. k \in DOMAIN table[r] /\ Unfilled(r, k)
        BY <3>1, <2>2 DEF Unfilled
      <3> QED BY <3>1, <3>2, <2>1, <1>0, <1>2 DEF UnfilledIsPrivate
    <2> QED BY <2>2 DEF UnfilledIsPrivate
  <1>6. ChainsKept'
    <2>1. ASSUME NEW r \in ToSet(running')
          PROVE  /\ req'[r].cached_blocks <= req'[r].computed \div BlockSize
                 /\ req'[r].last_hash = SubSeq(Tokens(r)', 1, req'[r].cached_blocks * BlockSize)
      BY <1>0, <1>1 DEF ChainsKept, PrefixHash
    <2> QED BY <2>1 DEF ChainsKept, PrefixHash
  <1>7. KvIntegrity'
    <2>1. ASSUME NEW r \in ToSet(running'), NEW p \in 0 .. req'[r].computed - 1
          PROVE  /\ p \div BlockSize < Len(table'[r])
                 /\ LET s == Slot(table'[r], p)
                    IN kv'[s[1]][s[2]] = SubSeq(Tokens(r)', 1, p + 1)
      BY <1>0, <1>1, <1>2 DEF KvIntegrity
    <2> QED BY <2>1 DEF KvIntegrity, Slot
  <1>8. CacheContent'
    BY <1>0, <1>2 DEF CacheContent
  <1> QED BY <1>3, <1>4, <1>5, <1>6, <1>7, <1>8 DEF DataInv

(* Named blocks hold the rows of the chain they are named by, so that a    *)
(* request which adopts them has its own prefix in them.                   *)
LEMMA NamedBlock ==
    ASSUME SchedInv, CacheContent, NEW b \in Block, NEW r \in Req, NEW k \in Nat \ {0},
           k * BlockSize <= NumTokens(r), blk_hash[b] = PrefixHash(r, k), NEW p \in Nat,
           p \div BlockSize = k - 1
    PROVE  kv[b][(p % BlockSize) + 1] = SubSeq(Tokens(r), 1, p + 1)
  <1>1. PICK B, T, m : B = BlockSize /\ T = Tokens(r) /\ m = k * BlockSize
    OBVIOUS
  <1>2. B \in Nat \ {0}
    BY <1>1, Config
  <1>3. T \in Seq(Token) /\ Len(T) = NumTokens(r) /\ NumTokens(r) \in Nat
    <2>1. req[r].output \in Seq(Token)
      BY RequestCounts DEF SchedInv
    <2> QED BY <2>1, <1>1, TokensType DEF NumTokens
  <1>4. m \in Nat \ {0} /\ m <= Len(T)
    BY <1>1, <1>2, <1>3
  <1>5. PICK i : i = (p % B) + 1
    OBVIOUS
  <1>6. i \in 1 .. B /\ p = (k - 1) * B + (p % B) /\ p % B \in Nat
    <2>1. p % B \in 0 .. B - 1 /\ (p % B) + 1 \in 1 .. B /\ p = (p \div B) * B + (p % B)
      BY <1>2, BlockOf
    <2>2. p \div B = k - 1
      BY <1>1
    <2> QED BY <2>1, <2>2, <1>2, <1>5
  <1>7. (k - 1) * B = m - B
    BY <1>1, <1>2
  <1>8. m - B + i = p + 1 /\ p + 1 <= m
    BY <1>2, <1>4, <1>5, <1>6, <1>7
  <1>9. PICK h : h = SubSeq(T, 1, m)
    OBVIOUS
  <1>10. h = PrefixHash(r, k)
    BY <1>1, <1>9 DEF PrefixHash
  <1>11. Len(h) = m /\ h # <<>> /\ SubSeq(h, 1, p + 1) = SubSeq(T, 1, p + 1)
    <2>1. Len(h) = m /\ SubSeq(h, 1, p + 1) = SubSeq(T, 1, p + 1)
      BY <1>3, <1>4, <1>8, <1>9, PrefixOfPrefix
    <2> QED BY <2>1, <1>4
  <1>12. h \in DOMAIN cached /\ cached[h] = b
    BY <1>10, <1>11, HashAssumption DEF SchedInv, AllocInv, CacheExact
  <1>13. kv[b][i] = SubSeq(h, 1, Len(h) - B + i)
    BY <1>1, <1>6, <1>12 DEF CacheContent
  <1> QED BY <1>1, <1>5, <1>8, <1>11, <1>13

(* A request that starts to run has the prefix it adopted. *)
LEMMA JoinsData ==
    ASSUME SchedInv, DataInv, NEW x, NEW nb, Joins(x, nb)
    PROVE  DataInv'
  <1>0. /\ CursorsBehind /\ TablesSuffice /\ UnfilledIsPrivate /\ ChainsKept /\ KvIntegrity
        /\ CacheContent /\ BlockSize \in Nat \ {0}
    BY Config DEF DataInv
  <1>1. /\ x \in Req /\ nb \in Nat /\ Len(table[x]) = nb
        /\ nb <= (NumTokens(x) - 1) \div BlockSize
        /\ \A k \in DOMAIN table[x] : blk_hash[table[x][k]] = PrefixHash(x, k)
        /\ req'[x].computed = nb * BlockSize /\ req'[x].cached_blocks = nb
        /\ req'[x].last_hash = PrefixHash(x, nb)
        /\ Tokens(x)' = Tokens(x) /\ NumTokens(x)' = NumTokens(x)
    BY SameTokens DEF Joins
  <1>2. /\ ToSet(running') = ToSet(running) \cup {x} /\ x \notin ToSet(running)
        /\ table' = table /\ blk_hash' = blk_hash /\ cached' = cached /\ kv' = kv
    BY DEF Joins
  <1>3. ASSUME NEW r \in ToSet(running), r # x
        PROVE  /\ r \in Req /\ req'[r] = req[r]
               /\ Tokens(r)' = Tokens(r) /\ NumTokens(r)' = NumTokens(r)
    <2>1. r \in Req
      BY RunningReq
    <2>2. req'[r] = req[r]
      BY <2>1, <1>3 DEF Joins
    <2> QED BY <2>1, <2>2, SameTokens
  <1>4. NumTokens(x) \in Nat /\ NumTokens(x) - 1 \in Nat
    <2>1. NumTokens(x) \in Nat /\ NumTokens(x) >= 1
      BY <1>1, RequestCounts DEF SchedInv
    <2> QED BY <2>1
  <1>5. nb * BlockSize \in Nat /\ nb * BlockSize <= NumTokens(x)
    <2>1. nb * BlockSize <= NumTokens(x) - 1 /\ nb * BlockSize \in Nat
      BY <1>0, <1>1, <1>4, FullBlocks
    <2> QED BY <2>1, <1>4
  <1>6. nb <= (nb * BlockSize) \div BlockSize /\ (nb * BlockSize) \div BlockSize \in Nat
    <2>1. PICK c : c = nb * BlockSize
      OBVIOUS
    <2>2. c \in Nat /\ nb * BlockSize <= c
      BY <2>1, <1>5
    <2>3. nb <= c \div BlockSize /\ c \div BlockSize \in Nat
      BY <2>2, <1>0, <1>1, BlockOf
    <2> QED BY <2>1, <2>3
  <1>7. table[x] \in Seq(Block) /\ DOMAIN table[x] = 1 .. nb
    <2>1. table[x] \in Seq(Block)
      BY <1>1 DEF SchedInv, AllocInv, AllocTypeOK, Req
    <2> QED BY <2>1, <1>1
  <1>8. CursorsBehind'
    <2>1. ASSUME NEW r \in ToSet(running') PROVE req'[r].computed <= NumTokens(r)'
      BY <1>0, <1>1, <1>2, <1>3, <1>5 DEF CursorsBehind
    <2> QED BY <2>1 DEF CursorsBehind
  <1>9. TablesSuffice'
    <2>1. nb <= BlocksFor(NumTokens(x))
      <3>1. (NumTokens(x) - 1) \div BlockSize <= BlocksFor(NumTokens(x))
        BY <1>4, BlocksForBounds
      <3>2. (NumTokens(x) - 1) \div BlockSize \in Nat /\ BlocksFor(NumTokens(x)) \in Nat
        BY <1>0, <1>4, BlocksForBounds, BlockOf
      <3> QED BY <3>1, <3>2, <1>1
    <2>2. ASSUME NEW r \in ToSet(running') PROVE Len(table[r]) <= BlocksFor(NumTokens(r)')
      BY <2>1, <1>0, <1>1, <1>2, <1>3 DEF TablesSuffice
    <2> QED BY <2>2, <1>2 DEF TablesSuffice, BlocksFor
  <1>10. UnfilledIsPrivate'
    <2>1. ASSUME NEW r \in ToSet(running'), NEW k \in DOMAIN table[r], Unfilled(r, k)'
          PROVE  r \in ToSet(running) /\ Unfilled(r, k)
      <3>1. CASE r = x
        <4>1. k > (nb * BlockSize) \div BlockSize /\ k \in 1 .. nb
          BY <3>1, <2>1, <1>1, <1>7 DEF Unfilled
        <4> QED BY <4>1, <1>1, <1>6
      <3>2. CASE r # x
        BY <3>2, <2>1, <1>2, <1>3 DEF Unfilled
      <3> QED BY <3>1, <3>2
    <2> QED BY <2>1, <1>0, <1>2 DEF UnfilledIsPrivate
  <1>11. ChainsKept'
    <2>1. ASSUME NEW r \in ToSet(running')
          PROVE  /\ req'[r].cached_blocks <= req'[r].computed \div BlockSize
                 /\ req'[r].last_hash = SubSeq(Tokens(r)', 1, req'[r].cached_blocks * BlockSize)
      <3>1. CASE r = x
        BY <3>1, <1>1, <1>6 DEF PrefixHash
      <3>2. CASE r # x
        BY <3>2, <1>0, <1>2, <1>3 DEF ChainsKept, PrefixHash
      <3> QED BY <3>1, <3>2
    <2> QED BY <2>1 DEF ChainsKept, PrefixHash
  <1>12. KvIntegrity'
    <2>1. ASSUME NEW r \in ToSet(running'), NEW p \in 0 .. req'[r].computed - 1
          PROVE  /\ p \div BlockSize < Len(table[r])
                 /\ LET s == Slot(table[r], p)
                    IN kv[s[1]][s[2]] = SubSeq(Tokens(r)', 1, p + 1)
      <3>1. CASE r = x
        <4>1. p \in Nat /\ p < nb * BlockSize
          BY <3>1, <2>1, <1>1, <1>5
        <4>2. p \div BlockSize \in Nat /\ p \div BlockSize < nb
          BY <4>1, <1>0, <1>1, BlockOf
        <4>3. PICK k : k = p \div BlockSize + 1
          OBVIOUS
        <4>4. k \in 1 .. nb /\ k \in Nat \ {0} /\ p \div BlockSize = k - 1
          BY <4>2, <4>3, <1>1
        <4>5. table[x][k] \in Block /\ blk_hash[table[x][k]] = PrefixHash(x, k)
          BY <4>4, <1>1, <1>7
        <4>6. k * BlockSize <= NumTokens(x)
          <5>1. k * BlockSize <= nb * BlockSize
            BY <4>4, <1>0, <1>1
          <5>2. k * BlockSize \in Nat
            BY <4>4, <1>0
          <5> QED BY <5>1, <5>2, <1>4, <1>5
        <4>7. kv[table[x][k]][(p % BlockSize) + 1] = SubSeq(Tokens(x), 1, p + 1)
          BY <4>1, <4>4, <4>5, <4>6, <1>0, <1>1, NamedBlock
        <4> QED BY <3>1, <4>2, <4>3, <4>7, <1>1 DEF Slot
      <3>2. CASE r # x
        BY <3>2, <2>1, <1>0, <1>2, <1>3 DEF KvIntegrity
      <3> QED BY <3>1, <3>2
    <2> QED BY <2>1, <1>2 DEF KvIntegrity, Slot
  <1>13. CacheContent'
    BY <1>0, <1>2 DEF CacheContent
  <1> QED BY <1>8, <1>9, <1>10, <1>11, <1>12, <1>13 DEF DataInv

(* A block appended to one table, which no running request has rows to     *)
(* come in.                                                                *)
Appends(x, b) ==
    /\ x \in Req /\ b \in Block
    /\ table' = [table EXCEPT ![x] = Append(table[x], b)]
    /\ UNCHANGED <<req, running, kv>>

(* The table entries after it are those before it and the new one. *)
LEMMA AppendedEntries ==
    ASSUME SchedInv, NEW x, NEW b, Appends(x, b), NEW s \in Req
    PROVE  /\ \A l \in DOMAIN table'[s] :
                 \/ l \in DOMAIN table[s] /\ table'[s][l] = table[s][l]
                 \/ s = x /\ l = Len(table[x]) + 1 /\ table'[s][l] = b
           /\ \A l \in DOMAIN table[s] : l \in DOMAIN table'[s] /\ table'[s][l] = table[s][l]
           /\ s # x => table'[s] = table[s]
           /\ Len(table'[x]) = Len(table[x]) + 1 /\ Len(table[x]) \in Nat
           /\ Len(table[s]) <= Len(table'[s]) /\ Len(table[s]) \in Nat /\ Len(table'[s]) \in Nat
  <1>1. /\ x \in Req /\ b \in Block /\ table \in [Req -> Seq(Block)]
        /\ table' = [table EXCEPT ![x] = Append(table[x], b)]
    BY DEF Appends, SchedInv, AllocInv, AllocTypeOK, Req
  <1>2. s # x => table'[s] = table[s]
    BY <1>1
  <1>3. PICK t, u : t = table[x] /\ u = Append(t, b)
    OBVIOUS
  <1>4. t \in Seq(Block) /\ table'[x] = u
    BY <1>1, <1>3
  <1>5. /\ Len(u) = Len(t) + 1 /\ Len(t) \in Nat /\ DOMAIN u = 1 .. Len(t) + 1
        /\ DOMAIN t = 1 .. Len(t) /\ u[Len(t) + 1] = b
        /\ \A l \in 1 .. Len(t) : u[l] = t[l]
    BY <1>1, <1>3, <1>4
  <1>6. /\ \A l \in DOMAIN u : \/ l \in DOMAIN t /\ u[l] = t[l]
                               \/ l = Len(t) + 1 /\ u[l] = b
        /\ \A l \in DOMAIN t : l \in DOMAIN u /\ u[l] = t[l]
        /\ Len(t) <= Len(u) /\ Len(u) \in Nat
    BY <1>5
  <1>7. s # x => Len(table[s]) \in Nat /\ Len(table[s]) <= Len(table[s])
    BY <1>1
  <1> QED BY <1>2, <1>3, <1>4, <1>5, <1>6, <1>7

(* What does not read names or the tables of others survives it. *)
LEMMA AppendsKeeps ==
    ASSUME SchedInv, DataInv, NEW x, NEW b, Appends(x, b)
    PROVE  CursorsBehind' /\ ChainsKept' /\ KvIntegrity'
  <1>0. CursorsBehind /\ ChainsKept /\ KvIntegrity
    BY DEF DataInv
  <1>1. req' = req /\ running' = running /\ kv' = kv
    BY DEF Appends
  <1>2. \A r : Tokens(r)' = Tokens(r) /\ NumTokens(r)' = NumTokens(r)
    BY <1>1 DEF Tokens, NumTokens
  <1>3. CursorsBehind'
    BY <1>0, <1>1, <1>2 DEF CursorsBehind
  <1>4. ChainsKept'
    <2>1. ASSUME NEW r \in ToSet(running)
          PROVE  /\ req[r].cached_blocks <= req[r].computed \div BlockSize
                 /\ req[r].last_hash = SubSeq(Tokens(r)', 1, req[r].cached_blocks * BlockSize)
      BY <1>0, <1>2 DEF ChainsKept, PrefixHash
    <2> QED BY <2>1, <1>1 DEF ChainsKept, PrefixHash
  <1>5. KvIntegrity'
    <2>1. ASSUME NEW r \in ToSet(running), NEW p \in 0 .. req[r].computed - 1
          PROVE  /\ p \div BlockSize < Len(table'[r])
                 /\ LET s == Slot(table'[r], p)
                    IN kv[s[1]][s[2]] = SubSeq(Tokens(r)', 1, p + 1)
      <3>1. r \in Req /\ p \in Nat /\ DOMAIN table[r] = 1 .. Len(table[r])
        BY RunningTypes
      <3>2. /\ p \div BlockSize < Len(table[r])
            /\ kv[table[r][p \div BlockSize + 1]][(p % BlockSize) + 1] = SubSeq(Tokens(r), 1, p + 1)
        BY <1>0 DEF KvIntegrity, Slot
      <3>3. p \div BlockSize \in Nat
        BY <3>1, Config, BlockOf
      <3>4. /\ Len(table[r]) <= Len(table'[r]) /\ Len(table[r]) \in Nat /\ Len(table'[r]) \in Nat
            /\ \A l \in DOMAIN table[r] : table'[r][l] = table[r][l]
        BY <3>1, AppendedEntries
      <3>5. p \div BlockSize + 1 \in DOMAIN table[r] /\ p \div BlockSize < Len(table'[r])
        BY <3>1, <3>2, <3>3, <3>4
      <3> QED BY <3>2, <3>4, <3>5, <1>2 DEF Slot
    <2> QED BY <2>1, <1>1 DEF KvIntegrity, Slot
  <1> QED BY <1>3, <1>4, <1>5

(* A lookup that hits takes a named block, for a request that does not     *)
(* run yet.                                                                *)
LEMMA HitStep ==
    ASSUME SchedInv, AcquireHit
    PROVE  \E b : /\ Appends(Head(waiting), b) /\ Head(waiting) \notin ToSet(running)
                  /\ blk_hash[b] # NoHash /\ blk_hash[b] = NextPrefix(Head(waiting))
                  /\ UNCHANGED <<blk_hash, cached, freed>>
  <1>1. PICK x, h : x = Head(waiting) /\ h = NextPrefix(x)
    OBVIOUS
  <1>2. x \in Req /\ x \notin ToSet(running)
    <2>1. waiting \in Seq(Req) /\ waiting # <<>>
      BY DEF SchedInv, SchedTypeOK, TablesOwned, AcquireHit
    <2>2. x \in Req /\ x \in ToSet(waiting)
      BY <2>1, <1>1, TailQueue
    <2> QED BY <2>2 DEF SchedInv, QueuesApart
  <1>3. CacheLookup(x, h) /\ req' = req /\ running' = running /\ kv' = kv
    BY <1>1 DEF AcquireHit, queues
  <1>4. PICK b : b = cached[h]
    OBVIOUS
  <1>5. h \in DOMAIN cached /\ h \in Hash /\ b \in Block /\ blk_hash[b] = h
    BY <1>3, <1>4 DEF CacheLookup, SchedInv, AllocInv, AllocTypeOK, CacheExact
  <1>6. table' = [table EXCEPT ![x] = Append(table[x], b)] /\ UNCHANGED <<blk_hash, cached, freed>>
    BY <1>3, <1>4 DEF CacheLookup
  <1>7. blk_hash[b] # NoHash
    BY <1>5, NoHashAssumption
  <1> QED BY <1>1, <1>2, <1>3, <1>5, <1>6, <1>7 DEF Appends

(* A hit takes a full block of the same prefix: nothing that is computed   *)
(* later goes into it.                                                     *)
LEMMA HitData ==
    ASSUME SchedInv, DataInv, AcquireHit
    PROVE  DataInv'
  <1>0. TablesSuffice /\ UnfilledIsPrivate /\ CacheContent
    BY DEF DataInv
  <1>1. PICK b : /\ Appends(Head(waiting), b) /\ Head(waiting) \notin ToSet(running)
                 /\ blk_hash[b] # NoHash
                 /\ UNCHANGED <<blk_hash, cached, freed>>
    BY HitStep
  <1>2. PICK x : x = Head(waiting)
    OBVIOUS
  <1>3. Appends(x, b) /\ x \notin ToSet(running) /\ x \in Req
        /\ req' = req /\ running' = running /\ kv' = kv
    BY <1>1, <1>2 DEF Appends
  <1>4. CursorsBehind' /\ ChainsKept' /\ KvIntegrity'
    BY <1>3, AppendsKeeps
  <1>5. ASSUME NEW r \in ToSet(running)
        PROVE  r \in Req /\ r # x /\ table'[r] = table[r] /\ NumTokens(r)' = NumTokens(r)
    <2>1. r \in Req /\ r # x
      BY <1>3, RunningReq
    <2> QED BY <2>1, <1>3, AppendedEntries DEF NumTokens, Tokens
  <1>6. TablesSuffice'
    <2>1. \A r \in ToSet(running) : Len(table'[r]) <= BlocksFor(NumTokens(r)')
      BY <1>0, <1>5 DEF TablesSuffice
    <2> QED BY <2>1, <1>3 DEF TablesSuffice, BlocksFor
  <1>7. UnfilledIsPrivate'
    <2>1. ASSUME NEW r \in ToSet(running), NEW k \in DOMAIN table[r], Unfilled(r, k)
          PROVE  /\ blk_hash[table[r][k]] = NoHash
                 /\ \A s \in Req : \A l \in DOMAIN table'[s] :
                       table'[s][l] = table[r][k] => s = r /\ l = k
      <3>1. /\ blk_hash[table[r][k]] = NoHash
            /\ \A s \in Req : \A l \in DOMAIN table[s] : table[s][l] = table[r][k] => s = r /\ l = k
        BY <2>1, <1>0 DEF UnfilledIsPrivate
      <3>2. table[r][k] # b
        BY <3>1, <1>1
      <3> QED BY <3>1, <3>2, <1>3, AppendedEntries
    <2> QED BY <2>1, <1>1, <1>3, <1>5 DEF UnfilledIsPrivate, Unfilled
  <1>8. CacheContent'
    BY <1>0, <1>1, <1>3 DEF CacheContent
  <1> QED BY <1>4, <1>6, <1>7, <1>8 DEF DataInv

(* The block AllocOne hands out is in no table, and has lost its name. *)
LEMMA GrowStep ==
    ASSUME SchedInv, GrowAlloc
    PROVE  \E b : /\ Appends(cur[1], b) /\ cur[1] \in ToSet(running)
                  /\ \A s \in Req : \A l \in DOMAIN table[s] : table[s][l] # b
                  /\ blk_hash' = [blk_hash EXCEPT ![b] = NoHash]
                  /\ DOMAIN cached' \subseteq DOMAIN cached
                  /\ \A k \in DOMAIN cached' : cached'[k] = cached[k]
                  /\ UNCHANGED freed
  <1>1. PICK x, b : x = cur[1] /\ b = Head(free_lru)
    OBVIOUS
  <1>2. AllocTypeOK /\ LruExact /\ RefExact /\ SchedTypeOK
    BY DEF SchedInv, AllocInv
  <1>3. AllocOne(x) /\ req' = req /\ running' = running /\ kv' = kv /\ pc = "grow"
    BY <1>1 DEF GrowAlloc, Growing, queues
  <1>4. x \in Req /\ x \in ToSet(running)
    BY <1>1, <1>2, <1>3 DEF SchedTypeOK, SchedInv, TablesOwned
  <1>5. b \in Block /\ ref_cnt[b] = 0 /\ NoFreeRunning
    BY <1>1, <1>2, <1>3, LruHead DEF AllocOne
  <1>6. Refs(b) = {}
    BY <1>2, <1>5, FS_EmptySet DEF RefExact
  <1>7. ASSUME NEW s \in Req, NEW l \in DOMAIN table[s], table[s][l] = b PROVE FALSE
    <2>1. s \in Holder /\ table[s] \in Seq(Block) /\ freed[s] = 0
      BY <1>2, <1>5 DEF AllocTypeOK, NoFreeRunning, Req
    <2>2. l \in freed[s] + 1 .. Len(table[s])
      BY <2>1
    <2>3. <<s, l>> \in RefsIn(table, freed, b)
      BY <2>1, <2>2, <1>7, RefsInMember
    <2> QED BY <2>3, <1>6 DEF Refs
  <1>8. /\ table' = [table EXCEPT ![x] = Append(table[x], b)]
        /\ blk_hash' = [blk_hash EXCEPT ![b] = NoHash] /\ freed' = freed
        /\ \/ cached' = cached \/ cached' = Without(cached, blk_hash[b])
    BY <1>1, <1>3 DEF AllocOne
  <1>9. DOMAIN cached' \subseteq DOMAIN cached /\ \A k \in DOMAIN cached' : cached'[k] = cached[k]
    BY <1>8 DEF Without
  <1> QED BY <1>1, <1>3, <1>4, <1>5, <1>7, <1>8, <1>9 DEF Appends

(* A block that Grow takes from the pool is unnamed and held once.         *)
LEMMA GrowData ==
    ASSUME SchedInv, DataInv, GrowAlloc
    PROVE  DataInv'
  <1>0. TablesSuffice /\ UnfilledIsPrivate /\ CacheContent
    BY DEF DataInv
  <1>1. PICK x : x = cur[1]
    OBVIOUS
  <1>2. PICK b : /\ Appends(x, b) /\ x \in ToSet(running)
                 /\ \A s \in Req : \A l \in DOMAIN table[s] : table[s][l] # b
                 /\ blk_hash' = [blk_hash EXCEPT ![b] = NoHash]
                 /\ DOMAIN cached' \subseteq DOMAIN cached
                 /\ \A k \in DOMAIN cached' : cached'[k] = cached[k]
    BY <1>1, GrowStep
  <1>3. x \in Req /\ b \in Block /\ req' = req /\ running' = running /\ kv' = kv
    BY <1>2 DEF Appends
  <1>4. CursorsBehind' /\ ChainsKept' /\ KvIntegrity'
    BY <1>2, AppendsKeeps
  <1>5. \A r : NumTokens(r)' = NumTokens(r)
    BY <1>3 DEF NumTokens, Tokens
  <1>6. TablesSuffice'
    <2>1. Len(table'[x]) <= BlocksFor(NumTokens(x))
      <3>1. PICK m : m = req[x].computed + cur[2]
        OBVIOUS
      <3>2. pc = "grow" /\ ~(Len(table[x]) >= BlocksFor(m))
        BY <3>1, <1>1 DEF GrowAlloc, Growing, Covered
      <3>3. m \in Nat /\ m <= NumTokens(x) /\ NumTokens(x) \in Nat
        <4>1. /\ cur[2] \in Nat /\ req[x].computed + cur[2] <= NumTokens(x)
          BY <3>2, <1>1, GrowingChunk DEF SchedInv
        <4>2. req[x].computed \in Nat /\ NumTokens(x) \in Nat
          BY <1>3, RequestCounts DEF SchedInv
        <4> QED BY <4>1, <4>2, <3>1
      <3>4. BlocksFor(m) <= BlocksFor(NumTokens(x)) /\ BlocksFor(m) \in Nat
            /\ BlocksFor(NumTokens(x)) \in Nat
        BY <3>3, BlocksForBounds
      <3>5. Len(table'[x]) = Len(table[x]) + 1 /\ Len(table[x]) \in Nat
        BY <1>2, <1>3, AppendedEntries
      <3> QED BY <3>2, <3>4, <3>5
    <2>2. ASSUME NEW r \in ToSet(running) PROVE Len(table'[r]) <= BlocksFor(NumTokens(r)')
      <3>1. r \in Req
        BY RunningReq
      <3>2. r # x => table'[r] = table[r]
        BY <3>1, <1>2, AppendedEntries
      <3> QED BY <3>2, <2>1, <1>0, <1>5 DEF TablesSuffice
    <2> QED BY <2>2, <1>3 DEF TablesSuffice, BlocksFor
  <1>7. UnfilledIsPrivate'
    <2>0. blk_hash \in [Block -> Hash \cup {NoHash}]
      BY DEF SchedInv, AllocInv, AllocTypeOK
    <2>1. ASSUME NEW r \in ToSet(running), NEW k \in DOMAIN table'[r], Unfilled(r, k)
          PROVE  /\ blk_hash'[table'[r][k]] = NoHash
                 /\ \A s \in Req : \A l \in DOMAIN table'[s] :
                       table'[s][l] = table'[r][k] => s = r /\ l = k
      <3>1. r \in Req
        BY RunningReq
      <3>2. CASE k \in DOMAIN table[r] /\ table'[r][k] = table[r][k]
        <4>1. /\ blk_hash[table[r][k]] = NoHash
              /\ \A s \in Req : \A l \in DOMAIN table[s] :
                    table[s][l] = table[r][k] => s = r /\ l = k
          BY <3>2, <2>1, <1>0 DEF UnfilledIsPrivate
        <4>2. table[r][k] # b
          BY <3>1, <3>2, <1>2
        <4>3. blk_hash'[table[r][k]] = NoHash
          <5>1. table[r][k] \in Block
            BY <3>1, <3>2 DEF SchedInv, AllocInv, AllocTypeOK, Req
          <5> QED BY <5>1, <4>1, <2>0, <1>2
        <4> QED BY <4>1, <4>2, <4>3, <3>2, <1>2, AppendedEntries
      <3>3. CASE r = x /\ k = Len(table[x]) + 1 /\ table'[r][k] = b
        <4>1. blk_hash'[b] = NoHash
          BY <2>0, <1>2, <1>3
        <4> QED BY <4>1, <3>3, <1>2, AppendedEntries
      <3> QED BY <3>1, <3>2, <3>3, <1>2, AppendedEntries
    <2> QED BY <2>1, <1>3 DEF UnfilledIsPrivate, Unfilled
  <1>8. CacheContent'
    BY <1>0, <1>2, <1>3 DEF CacheContent
  <1> QED BY <1>4, <1>6, <1>7, <1>8 DEF DataInv

(* Where a row of the batch goes: into a block of its request's own table  *)
(* that still has rows to come.                                            *)
LEMMA RowPlace ==
    ASSUME SchedInv, StepInv, pc = "forward",
           NEW i \in DOMAIN batch, NEW q \in Rows(batch[i]), NEW r, r = batch[i].r
    PROVE  /\ r \in ToSet(running) /\ q \in Nat
           /\ q >= req[r].computed /\ q + 1 <= NumTokens(r)
           /\ q \div BlockSize + 1 \in DOMAIN table[r] /\ q \div BlockSize < Len(table[r])
           /\ Unfilled(r, q \div BlockSize + 1)
  <1>1. PICK c, n : c = batch[i].start /\ n = batch[i].n
    OBVIOUS
  <1>2. batch \in Seq(EntryType)
    BY DEF SchedInv, SchedTypeOK
  <1>3. i \in 1 .. Len(batch)
    BY <1>2
  <1>4. /\ r \in ToSet(running) /\ c \in Nat /\ n \in Nat /\ c + n <= Len(table[r]) * BlockSize
    BY <1>1, <1>3, StepEntry DEF StepInv, InStep
  <1>5. c = req[r].computed /\ c + n <= NumTokens(r)
    BY <1>1 DEF StepInv, BatchFresh, Building
  <1>6. q \in c .. c + n - 1
    BY <1>1 DEF Rows
  <1>7. BlockSize \in Nat \ {0} /\ Len(table[r]) \in Nat /\ DOMAIN table[r] = 1 .. Len(table[r])
        /\ NumTokens(r) \in Nat
    BY <1>4, RunningTypes, Config
  <1>8. PICK z : z = Len(table[r]) * BlockSize
    OBVIOUS
  <1>9. q \in Nat /\ q >= c /\ q + 1 <= NumTokens(r) /\ q < Len(table[r]) * BlockSize
    <2>1. z \in Nat /\ c + n <= z
      BY <1>4, <1>7, <1>8
    <2>2. q \in Nat /\ q >= c /\ q + 1 <= c + n
      BY <1>4, <1>6
    <2>3. q + 1 <= NumTokens(r)
      BY <2>2, <1>4, <1>5, <1>7
    <2>4. q < z
      BY <2>1, <2>2, <1>4
    <2> QED BY <2>2, <2>3, <2>4, <1>8
  <1>10. q \div BlockSize \in Nat /\ q \div BlockSize < Len(table[r])
    BY <1>7, <1>9, BlockOf
  <1>11. c \div BlockSize <= q \div BlockSize /\ c \div BlockSize \in Nat
    BY <1>4, <1>7, <1>9, BlockOfLater, BlockOf
  <1>12. Unfilled(r, q \div BlockSize + 1)
    BY <1>5, <1>10, <1>11 DEF Unfilled
  <1>13. q \div BlockSize + 1 \in DOMAIN table[r]
    BY <1>7, <1>10
  <1> QED BY <1>4, <1>5, <1>9, <1>10, <1>12, <1>13

(* Nobody else reads or writes that place. *)
LEMMA RowsApart ==
    ASSUME SchedInv, StepInv, DataInv, pc = "forward",
           NEW i \in DOMAIN batch, NEW q \in Rows(batch[i]),
           NEW s \in Req, NEW p \in Nat, p \div BlockSize + 1 \in DOMAIN table[s],
           Slot(table[s], p) = Slot(batch[i].blocks, q)
    PROVE  s = batch[i].r /\ p = q
  <1>1. PICK r, l, k : r = batch[i].r /\ l = p \div BlockSize + 1 /\ k = q \div BlockSize + 1
    OBVIOUS
  <1>2. r \in ToSet(running) /\ q \in Nat /\ k \in DOMAIN table[r] /\ Unfilled(r, k)
    BY <1>1, RowPlace
  <1>3. batch[i].blocks = table[r]
    BY <1>1 DEF StepInv, BatchOwned, InStep
  <1>4. table[s][l] = table[r][k] /\ (p % BlockSize) + 1 = (q % BlockSize) + 1
    BY <1>1, <1>3 DEF Slot
  <1>5. s = r /\ l = k
    <2>1. \A t \in Req : \A m \in DOMAIN table[t] : table[t][m] = table[r][k] => t = r /\ m = k
      BY <1>2 DEF DataInv, UnfilledIsPrivate
    <2>2. l \in DOMAIN table[s]
      BY <1>1
    <2> QED BY <2>1, <2>2, <1>4
  <1>6. BlockSize \in Nat \ {0}
    BY Config
  <1>7. p \div BlockSize \in Nat /\ q \div BlockSize \in Nat
    BY <1>2, <1>6, BlockOf
  <1>8. p \div BlockSize = q \div BlockSize
    <2>1. p \div BlockSize + 1 = q \div BlockSize + 1
      BY <1>1, <1>5
    <2> QED BY <2>1, <1>7
  <1>9. p = q
    BY <1>2, <1>4, <1>6, <1>8, SameRow
  <1> QED BY <1>1, <1>5, <1>9

(* What the forward stores, entry by entry. *)
LEMMA StoresMember ==
    ASSUME SchedInv, NEW slot, NEW c
    PROVE  c \in Stores(slot) <=>
              \E i \in DOMAIN batch : \E q \in Rows(batch[i]) :
                 /\ Slot(batch[i].blocks, q) = slot
                 /\ c = SubSeq(Tokens(batch[i].r), 1, q + 1)
  <1>1. \A e : e \in ToSet(batch) <=> \E i \in DOMAIN batch : batch[i] = e
    BY DEF ToSet
  <1>2. c \in Stores(slot) <=>
           \E e \in ToSet(batch) : \E q \in Rows(e) :
              Slot(e.blocks, q) = slot /\ c = SubSeq(Tokens(e.r), 1, q + 1)
    BY DEF Stores
  <1> QED BY <1>1, <1>2

(* A slot no row names keeps its content, and a row's slot gets its own.   *)
LEMMA ForwardKeeps ==
    ASSUME SchedInv, Forward, NEW b \in Block, NEW m \in 1 .. BlockSize,
           \A i \in DOMAIN batch : \A q \in Rows(batch[i]) : Slot(batch[i].blocks, q) # <<b, m>>
    PROVE  kv'[b][m] = kv[b][m]
  <1>1. Stores(<<b, m>>) = {}
    <2>1. ASSUME NEW c, c \in Stores(<<b, m>>) PROVE FALSE
      BY <2>1, StoresMember
    <2> QED BY <2>1
  <1>2. PICK w : w = Stores(<<b, m>>)
    OBVIOUS
  <1>3. kv'[b][m] = IF w = {} THEN kv[b][m]
                    ELSE IF Cardinality(w) = 1 THEN CHOOSE c \in w : TRUE ELSE <<>>
    BY <1>2 DEF Forward
  <1> QED BY <1>1, <1>2, <1>3

(* The slot of a row gets the content of that row and of no other.         *)
LEMMA ForwardWrites ==
    ASSUME SchedInv, StepInv, DataInv, Forward,
           NEW i \in DOMAIN batch, NEW p \in Rows(batch[i]), NEW r, r = batch[i].r
    PROVE  LET s == Slot(table[r], p) IN kv'[s[1]][s[2]] = SubSeq(Tokens(r), 1, p + 1)
  <1>0. pc = "forward"
    BY DEF Forward
  <1>1. PICK b, m : b = table[r][p \div BlockSize + 1] /\ m = (p % BlockSize) + 1
    OBVIOUS
  <1>2. /\ r \in ToSet(running) /\ p \in Nat /\ p \div BlockSize + 1 \in DOMAIN table[r]
    BY <1>0, RowPlace
  <1>3. b \in Block /\ m \in 1 .. BlockSize /\ r \in Req
    <2>1. table[r] \in Seq(Block) /\ r \in Req
      BY <1>2, RunningTypes
    <2>2. m \in 1 .. BlockSize
      BY <1>1, <1>2, Config, BlockOf
    <2> QED BY <2>1, <2>2, <1>1, <1>2
  <1>4. batch[i].blocks = table[r] /\ Slot(table[r], p) = <<b, m>>
    BY <1>0, <1>1 DEF StepInv, BatchOwned, InStep, Slot
  <1>5. PICK w, v : w = Stores(<<b, m>>) /\ v = SubSeq(Tokens(r), 1, p + 1)
    OBVIOUS
  <1>6. v \in w
    BY <1>4, <1>5, StoresMember
  <1>7. ASSUME NEW c \in w PROVE c = v
    <2>1. PICK j \in DOMAIN batch : \E q \in Rows(batch[j]) :
             /\ Slot(batch[j].blocks, q) = <<b, m>>
             /\ c = SubSeq(Tokens(batch[j].r), 1, q + 1)
      BY <1>5, StoresMember
    <2>2. PICK q \in Rows(batch[j]) :
             /\ Slot(batch[j].blocks, q) = <<b, m>>
             /\ c = SubSeq(Tokens(batch[j].r), 1, q + 1)
      BY <2>1
    <2>3. Slot(table[r], p) = Slot(batch[j].blocks, q)
      BY <2>2, <1>4
    <2>4. r = batch[j].r /\ p = q
      BY <2>3, <1>0, <1>2, <1>3, RowsApart
    <2> QED BY <2>2, <2>4, <1>5
  <1>8. w = {v}
    BY <1>6, <1>7
  <1>9. Cardinality(w) = 1 /\ w # {} /\ (CHOOSE c \in w : TRUE) = v
    BY <1>8, FS_Singleton
  <1>10. kv'[b][m] = IF w = {} THEN kv[b][m]
                     ELSE IF Cardinality(w) = 1 THEN CHOOSE c \in w : TRUE ELSE <<>>
    BY <1>3, <1>5 DEF Forward
  <1>11. kv'[b][m] = v
    BY <1>9, <1>10
  <1> QED BY <1>4, <1>5, <1>11

(* Forward moves the cursors of the requests in the batch, each by its own *)
(* rows.                                                                   *)
LEMMA ForwardMoves ==
    ASSUME SchedInv, StepInv, Forward, NEW r \in Req
    PROVE  /\ req'[r].output = req[r].output /\ req'[r].cached_blocks = req[r].cached_blocks
           /\ req'[r].last_hash = req[r].last_hash
           /\ \/ /\ \A i \in DOMAIN batch : batch[i].r # r
                 /\ req'[r].computed = req[r].computed
              \/ \E i \in DOMAIN batch :
                    /\ batch[i].r = r /\ req[r].computed = batch[i].start
                    /\ req'[r].computed = batch[i].start + batch[i].n
                    /\ batch[i].start + batch[i].n <= NumTokens(r)
                    /\ Rows(batch[i]) = req[r].computed .. req'[r].computed - 1
  <1>0. pc = "forward" /\ batch \in Seq(EntryType) /\ req[r] \in RequestType
    BY RequestCounts DEF Forward, SchedInv, SchedTypeOK
  <1>1. PICK E, c : E = {i \in DOMAIN batch : batch[i].r = r} /\ c = Cardinality(E)
    OBVIOUS
  <1>2. req'[r] = [req[r] EXCEPT !.computed = req[r].computed + req[r].num_new * c]
    BY <1>1 DEF Forward
  <1>3. /\ req'[r].output = req[r].output /\ req'[r].cached_blocks = req[r].cached_blocks
        /\ req'[r].last_hash = req[r].last_hash
        /\ req'[r].computed = req[r].computed + req[r].num_new * c
    BY <1>0, <1>2 DEF RequestType
  <1>4. req[r].computed \in Nat /\ req[r].num_new \in Nat
    BY RequestCounts DEF SchedInv
  <1>5. CASE \A i \in DOMAIN batch : batch[i].r # r
    <2>1. E = {}
      BY <1>1, <1>5
    <2>2. c = 0
      BY <2>1, <1>1, FS_EmptySet
    <2>3. req[r].computed + req[r].num_new * 0 = req[r].computed
      BY <1>4
    <2> QED BY <2>2, <2>3, <1>3, <1>5
  <1>6. ASSUME NEW i \in DOMAIN batch, batch[i].r = r
        PROVE  /\ req[r].computed = batch[i].start
               /\ req'[r].computed = batch[i].start + batch[i].n
               /\ batch[i].start + batch[i].n <= NumTokens(r)
               /\ Rows(batch[i]) = req[r].computed .. req'[r].computed - 1
    <2>1. E = {i}
      BY <1>0, <1>1, <1>6 DEF StepInv, BatchOwned, InStep
    <2>2. c = 1
      BY <2>1, <1>1, FS_Singleton
    <2>3. /\ batch[i].start = req[r].computed /\ batch[i].n = req[r].num_new
          /\ batch[i].start + batch[i].n <= NumTokens(r)
      BY <1>0, <1>6 DEF StepInv, BatchFresh, Building
    <2>4. req[r].num_new * 1 = req[r].num_new
      BY <1>4
    <2>5. req'[r].computed = batch[i].start + batch[i].n
      BY <2>2, <2>3, <2>4, <1>3
    <2>6. Rows(batch[i]) = req[r].computed .. req'[r].computed - 1
      <3>1. Rows(batch[i]) = batch[i].start .. batch[i].start + batch[i].n - 1
        BY DEF Rows
      <3>2. batch[i].start \in Nat /\ batch[i].n \in Nat
        <4>1. i \in 1 .. Len(batch)
          BY <1>0
        <4> QED BY <4>1, BatchEntry DEF SchedInv
      <3>3. Rows(batch[i]) = batch[i].start .. (batch[i].start + batch[i].n) - 1
        BY <3>1, <3>2
      <3> QED BY <3>3, <2>3, <2>5, Zenon
    <2> QED BY <2>3, <2>5, <2>6
  <1> QED BY <1>3, <1>5, <1>6

(* The forward writes where nothing is to be kept: not into what a request *)
(* has computed, not into a named block, not twice into one slot.          *)
LEMMA ForwardData ==
    ASSUME SchedInv, StepInv, DataInv, Forward
    PROVE  DataInv'
  <1>0. /\ CursorsBehind /\ TablesSuffice /\ UnfilledIsPrivate /\ ChainsKept /\ KvIntegrity
        /\ CacheContent /\ BlockSize \in Nat \ {0}
    BY Config DEF DataInv
  <1>1. /\ pc = "forward" /\ running' = running /\ table' = table
        /\ blk_hash' = blk_hash /\ cached' = cached
    BY DEF Forward, queues, allocVars
  <1>2. ASSUME NEW r \in ToSet(running)
        PROVE  /\ r \in Req /\ req[r].computed \in Nat /\ req'[r].computed \in Nat
               /\ req[r].computed <= req'[r].computed /\ req'[r].computed <= NumTokens(r)
               /\ NumTokens(r) \in Nat
               /\ Tokens(r)' = Tokens(r) /\ NumTokens(r)' = NumTokens(r)
               /\ req'[r].cached_blocks = req[r].cached_blocks
               /\ req'[r].last_hash = req[r].last_hash
    <2>1. r \in Req /\ req[r].computed \in Nat /\ NumTokens(r) \in Nat
      BY RunningTypes
    <2>2. Tokens(r)' = Tokens(r) /\ NumTokens(r)' = NumTokens(r)
      BY <2>1, ForwardMoves, SameTokens
    <2>3. CASE req'[r].computed = req[r].computed
      BY <2>1, <2>2, <2>3, <1>0, ForwardMoves DEF CursorsBehind
    <2>4. ASSUME NEW i \in DOMAIN batch, batch[i].r = r, req[r].computed = batch[i].start,
                 req'[r].computed = batch[i].start + batch[i].n,
                 batch[i].start + batch[i].n <= NumTokens(r)
          PROVE  /\ req'[r].computed \in Nat /\ req[r].computed <= req'[r].computed
                 /\ req'[r].computed <= NumTokens(r)
      <3>1. i \in 1 .. Len(batch)
        BY DEF SchedInv, SchedTypeOK
      <3>2. batch[i].start \in Nat /\ batch[i].n \in Nat
        BY <3>1, BatchEntry DEF SchedInv
      <3> QED BY <3>2, <2>4
    <2> QED BY <2>1, <2>2, <2>3, <2>4, ForwardMoves
  <1>3. CursorsBehind'
    BY <1>1, <1>2 DEF CursorsBehind
  <1>4. TablesSuffice'
    <2>1. \A r \in ToSet(running) : Len(table[r]) <= BlocksFor(NumTokens(r)')
      BY <1>0, <1>2 DEF TablesSuffice
    <2> QED BY <2>1, <1>1 DEF TablesSuffice, BlocksFor
  <1>5. ASSUME NEW r \in ToSet(running)
        PROVE  /\ req[r].computed \div BlockSize <= req'[r].computed \div BlockSize
               /\ req[r].computed \div BlockSize \in Nat
               /\ req'[r].computed \div BlockSize \in Nat
    BY <1>0, <1>2, BlockOf, BlockOfLater
  <1>6. UnfilledIsPrivate'
    <2>1. ASSUME NEW r \in ToSet(running), NEW k \in DOMAIN table[r], Unfilled(r, k)'
          PROVE  Unfilled(r, k)
      <3>1. k > req'[r].computed \div BlockSize /\ k \in Nat
        BY <2>1, RunningTypes DEF Unfilled
      <3> QED BY <3>1, <1>5 DEF Unfilled
    <2> QED BY <2>1, <1>0, <1>1 DEF UnfilledIsPrivate
  <1>7. ChainsKept'
    <2>1. ASSUME NEW r \in ToSet(running)
          PROVE  /\ req'[r].cached_blocks <= req'[r].computed \div BlockSize
                 /\ req'[r].last_hash = SubSeq(Tokens(r)', 1, req'[r].cached_blocks * BlockSize)
      <3>1. req[r].cached_blocks <= req[r].computed \div BlockSize /\ req[r].cached_blocks \in Nat
        BY <1>0, RunningTypes DEF ChainsKept
      <3>2. req[r].cached_blocks <= req'[r].computed \div BlockSize
        BY <3>1, <1>5
      <3>3. req[r].last_hash = SubSeq(Tokens(r), 1, req[r].cached_blocks * BlockSize)
        BY <1>0 DEF ChainsKept, PrefixHash
      <3> QED BY <3>2, <3>3, <1>2
    <2> QED BY <2>1, <1>1 DEF ChainsKept, PrefixHash
  <1>8. KvIntegrity'
    <2>1. ASSUME NEW r \in ToSet(running), NEW p \in 0 .. req'[r].computed - 1
          PROVE  /\ p \div BlockSize < Len(table[r])
                 /\ LET s == Slot(table[r], p)
                    IN kv'[s[1]][s[2]] = SubSeq(Tokens(r)', 1, p + 1)
      <3>1. p \in Nat /\ r \in Req
        BY <1>2
      <3>2. CASE p < req[r].computed
        <4>1. p \in 0 .. req[r].computed - 1
          BY <3>1, <3>2, <1>2
        <4>2. PICK b, m : b = table[r][p \div BlockSize + 1] /\ m = (p % BlockSize) + 1
          OBVIOUS
        <4>3. p \div BlockSize < Len(table[r]) /\ kv[b][m] = SubSeq(Tokens(r), 1, p + 1)
          BY <4>1, <4>2, <1>0 DEF KvIntegrity, Slot
        <4>4. p \div BlockSize + 1 \in DOMAIN table[r] /\ m \in 1 .. BlockSize
          <5>1. p \div BlockSize \in Nat /\ m \in 1 .. BlockSize
            BY <3>1, <4>2, <1>0, BlockOf
          <5> QED BY <5>1, <4>3, RunningTypes
        <4>5. b \in Block
          <5>1. table[r] \in Seq(Block)
            BY RunningTypes
          <5> QED BY <5>1, <4>2, <4>4
        <4>6. ASSUME NEW i \in DOMAIN batch, NEW q \in Rows(batch[i]),
                     Slot(batch[i].blocks, q) = <<b, m>>
              PROVE  FALSE
          <5>1. Slot(table[r], p) = Slot(batch[i].blocks, q)
            BY <4>2, <4>6 DEF Slot
          <5>2. r = batch[i].r /\ p = q
            BY <5>1, <4>4, <3>1, <1>1, RowsApart
          <5>3. q >= req[r].computed /\ q \in Nat
            BY <5>2, <1>1, RowPlace
          <5> QED BY <5>2, <5>3, <3>2, <1>2
        <4>7. kv'[b][m] = kv[b][m]
          BY <4>4, <4>5, <4>6, ForwardKeeps
        <4> QED BY <4>2, <4>3, <4>7, <1>2 DEF Slot
      <3>3. CASE ~(p < req[r].computed)
        <4>1. req'[r].computed # req[r].computed
          BY <3>1, <3>3, <2>1, <1>2
        <4>2. PICK i \in DOMAIN batch :
                 /\ batch[i].r = r
                 /\ Rows(batch[i]) = req[r].computed .. req'[r].computed - 1
          BY <4>1, <3>1, ForwardMoves
        <4>3. p \in Rows(batch[i])
          BY <4>2, <3>1, <3>3, <2>1, <1>2
        <4>4. LET s == Slot(table[r], p) IN kv'[s[1]][s[2]] = SubSeq(Tokens(r), 1, p + 1)
          BY <4>2, <4>3, ForwardWrites
        <4>5. p \div BlockSize < Len(table[r])
          BY <4>2, <4>3, <1>1, RowPlace
        <4> QED BY <4>4, <4>5, <1>2
      <3> QED BY <3>2, <3>3
    <2> QED BY <2>1, <1>1 DEF KvIntegrity, Slot
  <1>9. CacheContent'
    <2>1. ASSUME NEW k \in DOMAIN cached, NEW m \in 1 .. BlockSize
          PROVE  kv'[cached[k]][m] = kv[cached[k]][m]
      <3>1. PICK b : b = cached[k]
        OBVIOUS
      <3>2. b \in Block /\ blk_hash[b] # NoHash
        BY <3>1, NoHashAssumption DEF SchedInv, AllocInv, AllocTypeOK, CacheExact
      <3>3. ASSUME NEW i \in DOMAIN batch, NEW q \in Rows(batch[i]),
                   Slot(batch[i].blocks, q) = <<b, m>>
            PROVE  FALSE
        <4>1. PICK r, l : r = batch[i].r /\ l = q \div BlockSize + 1
          OBVIOUS
        <4>2. r \in ToSet(running) /\ l \in DOMAIN table[r] /\ Unfilled(r, l)
          BY <4>1, <1>1, RowPlace
        <4>3. blk_hash[table[r][l]] = NoHash
          BY <4>2, <1>0 DEF UnfilledIsPrivate
        <4>4. batch[i].blocks = table[r]
          BY <4>1, <1>1 DEF StepInv, BatchOwned, InStep
        <4>5. table[r][l] = b
          BY <4>1, <4>4, <3>3 DEF Slot
        <4> QED BY <4>3, <4>5, <3>2
      <3>4. kv'[b][m] = kv[b][m]
        BY <3>2, <3>3, ForwardKeeps
      <3> QED BY <3>1, <3>4
    <2> QED BY <2>1, <1>0, <1>1 DEF CacheContent
  <1> QED BY <1>3, <1>4, <1>6, <1>7, <1>8, <1>9 DEF DataInv

(* The next full block of r, the one after the first i, is named by the    *)
(* tokens up to its end.                                                   *)
Names(r, i) ==
    /\ i = req[r].cached_blocks /\ i < req[r].computed \div BlockSize
    /\ CacheInsert(table[r][i + 1], PrefixHash(r, i + 1))
    /\ req' = [req EXCEPT ![r] = [req[r] EXCEPT !.cached_blocks = i + 1,
                                                !.last_hash = PrefixHash(r, i + 1)]]
    /\ UNCHANGED <<running, kv>>

(* CacheBlocks names a full block of a running request by the tokens up to *)
(* its end: nothing of what it hashes is past the end of them.             *)
LEMMA CacheBlockStep ==
    ASSUME SchedInv, StepInv, DataInv, CacheBlock
    PROVE  \E r \in ToSet(running), i \in Nat : Names(r, i)
  <1>1. PICK r, i : r = batch[at].r /\ i = req[r].cached_blocks
    OBVIOUS
  <1>2. pc = "cache" /\ at <= Len(batch) /\ Uncached
    BY DEF CacheBlock
  <1>3. at \in 1 .. Len(batch)
    BY <1>2 DEF SchedInv, SchedTypeOK
  <1>4. r \in Req /\ r \in ToSet(running)
    BY <1>1, <1>2, <1>3, StepEntry DEF StepInv, InStep
  <1>5. i \in Nat
    BY <1>1, <1>4, RunningTypes
  <1>6. i < req[r].computed \div BlockSize
    BY <1>1, <1>2 DEF Uncached
  <1>7. PICK m, B : m = i * BlockSize /\ B = BlockSize
    OBVIOUS
  <1>8. m \in Nat /\ m + B <= NumTokens(r) /\ i < Len(table[r])
    BY <1>4, <1>5, <1>6, <1>7, FullBlockHeld
  <1>9. PICK junk \in Token :
           LET h == HashBlock(req[r].last_hash, r, i * BlockSize, junk)
           IN /\ CacheInsert(table[r][i + 1], h)
              /\ req' = [req EXCEPT ![r].cached_blocks = i + 1, ![r].last_hash = h]
    BY <1>1, <1>8 DEF CacheBlock
  <1>10. HashBlock(req[r].last_hash, r, i * BlockSize, junk) = PrefixHash(r, i + 1)
    <2>1. PICK T, J : T = Tokens(r) /\ J = [k \in 1 .. TokenBudget |-> junk]
      OBVIOUS
    <2>2. /\ T \in Seq(Token) /\ Len(T) = NumTokens(r) /\ Len(T) \in Nat
          /\ J \in Seq(Token) /\ B \in Nat \ {0}
      BY <2>1, <1>4, <1>7, RunningTypes, Config
    <2>3. req[r].last_hash = SubSeq(T, 1, m)
      BY <2>1, <1>1, <1>4, <1>7 DEF DataInv, ChainsKept, PrefixHash
    <2>4. HashBlock(req[r].last_hash, r, i * BlockSize, junk) =
             SubSeq(T, 1, m) \o SubSeq(T \o J, m + 1, m + B)
      BY <2>1, <2>3, <1>7 DEF HashBlock
    <2>5. PICK U : U = T \o J
      OBVIOUS
    <2>6. U \in Seq(Token) /\ Len(U) = Len(T) + Len(J) /\ Len(J) \in Nat
      <3>1. Len(J) \in Nat
        BY <2>2
      <3>2. T \o J \in Seq(Token) /\ Len(T \o J) = Len(T) + Len(J)
        BY <2>2, ConcatProperties
      <3> QED BY <3>1, <3>2, <2>5
    <2>7. m <= Len(T) /\ m + B <= Len(T) /\ m + B <= Len(U) /\ m + B \in Nat /\ m <= m + B
      BY <2>2, <2>6, <1>8
    <2>8. SubSeq(T, 1, m) = SubSeq(U, 1, m) /\ SubSeq(U, 1, m + B) = SubSeq(T, 1, m + B)
      BY <2>2, <2>5, <2>7, <1>8, PrefixOfConcat
    <2>9. SubSeq(U, 1, m) \o SubSeq(U, m + 1, m + B) = SubSeq(U, 1, m + B)
      BY <2>6, <2>7, <1>8, PrefixGrows
    <2>10. (i + 1) * BlockSize = m + B
      BY <2>2, <1>5, <1>7
    <2>11. PrefixHash(r, i + 1) = SubSeq(T, 1, m + B)
      BY <2>1, <2>10 DEF PrefixHash
    <2> QED BY <2>4, <2>5, <2>8, <2>9, <2>11
  <1>11. PICK h : h = PrefixHash(r, i + 1)
    OBVIOUS
  <1>12. CacheInsert(table[r][i + 1], h)
         /\ req' = [req EXCEPT ![r].cached_blocks = i + 1, ![r].last_hash = h]
    BY <1>9, <1>10, <1>11
  <1>13. req' = [req EXCEPT ![r] = [req[r] EXCEPT !.cached_blocks = i + 1, !.last_hash = h]]
    BY <1>4, <1>12 DEF SchedInv, SchedTypeOK
  <1>14. UNCHANGED <<running, kv>>
    BY DEF CacheBlock, queues
  <1>15. Names(r, i)
    <2>1. /\ CacheInsert(table[r][i + 1], PrefixHash(r, i + 1))
          /\ req' = [req EXCEPT ![r] = [req[r] EXCEPT !.cached_blocks = i + 1,
                                                      !.last_hash = PrefixHash(r, i + 1)]]
      BY <1>11, <1>12, <1>13
    <2>2. i = req[r].cached_blocks
      BY <1>1
    <2> QED BY <2>1, <2>2, <1>6, <1>14, Zenon DEF Names
  <1> QED BY <1>4, <1>5, <1>15

(* A block that is named is full, and holds the tokens it is named by. *)
LEMMA CacheBlockData ==
    ASSUME SchedInv, StepInv, DataInv, CacheBlock
    PROVE  DataInv'
  <1>0. /\ CursorsBehind /\ TablesSuffice /\ UnfilledIsPrivate /\ ChainsKept /\ KvIntegrity
        /\ CacheContent /\ BlockSize \in Nat \ {0}
    BY Config DEF DataInv
  <1>1. PICK x \in ToSet(running), i \in Nat : Names(x, i)
    BY CacheBlockStep
  <1>2. PICK b, h : b = table[x][i + 1] /\ h = PrefixHash(x, i + 1)
    OBVIOUS
  <1>3. /\ x \in Req /\ i + 1 \in DOMAIN table[x] /\ b \in Block
        /\ i * BlockSize + BlockSize <= req[x].computed
        /\ i * BlockSize + BlockSize <= NumTokens(x)
        /\ req[x].computed \in Nat /\ NumTokens(x) \in Nat /\ i * BlockSize \in Nat
    <2>1. /\ x \in Req /\ i + 1 \in DOMAIN table[x]
          /\ i * BlockSize + BlockSize <= req[x].computed
          /\ i * BlockSize + BlockSize <= NumTokens(x) /\ i * BlockSize \in Nat
      BY <1>1, FullBlockHeld, RunningTypes DEF Names
    <2>2. table[x] \in Seq(Block) /\ req[x].computed \in Nat /\ NumTokens(x) \in Nat
      BY RunningTypes
    <2>3. b \in Block
      BY <2>1, <2>2, <1>2
    <2> QED BY <2>1, <2>2, <2>3
  <1>4. /\ table' = table
        /\ \/ blk_hash' = blk_hash /\ cached' = cached
           \/ /\ blk_hash' = [blk_hash EXCEPT ![b] = h]
              /\ cached' = [k \in DOMAIN cached \cup {h} |-> IF k = h THEN b ELSE cached[k]]
    BY <1>1, <1>2 DEF CacheInsert, Names
  <1>5. /\ req'[x].computed = req[x].computed /\ req'[x].output = req[x].output
        /\ req'[x].cached_blocks = i + 1 /\ req'[x].last_hash = h
        /\ \A r \in Req \ {x} : req'[r] = req[r]
    <2>1. req \in [Req -> RequestType] /\ req[x] \in RequestType
      BY <1>3 DEF SchedInv, SchedTypeOK
    <2> QED BY <2>1, <1>1, <1>2, <1>3 DEF RequestType, Names
  <1>6. ASSUME NEW r \in ToSet(running)
        PROVE  /\ r \in Req /\ req'[r].computed = req[r].computed
               /\ Tokens(r)' = Tokens(r) /\ NumTokens(r)' = NumTokens(r)
    <2>1. r \in Req
      BY RunningReq
    <2>2. req'[r].computed = req[r].computed /\ req'[r].output = req[r].output
      BY <2>1, <1>5
    <2> QED BY <2>1, <2>2, SameTokens
  <1>7. running' = running /\ kv' = kv
    BY <1>1 DEF Names
  <1>8. CursorsBehind'
    BY <1>0, <1>6, <1>7 DEF CursorsBehind
  <1>9. TablesSuffice'
    <2>1. \A r \in ToSet(running) : Len(table[r]) <= BlocksFor(NumTokens(r)')
      BY <1>0, <1>6 DEF TablesSuffice
    <2> QED BY <2>1, <1>4, <1>7 DEF TablesSuffice, BlocksFor
  <1>10. UnfilledIsPrivate'
    <2>1. ASSUME NEW r \in ToSet(running), NEW k \in DOMAIN table[r], Unfilled(r, k)
          PROVE  /\ blk_hash'[table[r][k]] = NoHash
                 /\ \A s \in Req : \A l \in DOMAIN table[s] :
                       table[s][l] = table[r][k] => s = r /\ l = k
      <3>1. /\ blk_hash[table[r][k]] = NoHash
            /\ \A s \in Req : \A l \in DOMAIN table[s] :
                  table[s][l] = table[r][k] => s = r /\ l = k
        BY <2>1, <1>0 DEF UnfilledIsPrivate
      <3>2. b # table[r][k]
        <4>1. SUFFICES ASSUME b = table[r][k] PROVE FALSE
          OBVIOUS
        <4>2. x = r /\ i + 1 = k
          BY <4>1, <3>1, <1>2, <1>3
        <4>3. i + 1 > req[x].computed \div BlockSize
          BY <4>2, <2>1 DEF Unfilled
        <4>4. req[x].computed \div BlockSize \in Nat
          BY <1>0, <1>3, BlockOf
        <4> QED BY <4>3, <4>4, <1>1 DEF Names
      <3>3. blk_hash'[table[r][k]] = NoHash
        <4>1. table[r][k] \in Block
          BY RunningTypes, <2>1
        <4>2. blk_hash \in [Block -> Hash \cup {NoHash}]
          BY DEF SchedInv, AllocInv, AllocTypeOK
        <4> QED BY <4>1, <4>2, <3>1, <3>2, <1>4
      <3> QED BY <3>1, <3>3
    <2> QED BY <2>1, <1>4, <1>6, <1>7 DEF UnfilledIsPrivate, Unfilled
  <1>11. ChainsKept'
    <2>1. ASSUME NEW r \in ToSet(running)
          PROVE  /\ req'[r].cached_blocks <= req'[r].computed \div BlockSize
                 /\ req'[r].last_hash = SubSeq(Tokens(r)', 1, req'[r].cached_blocks * BlockSize)
      <3>1. CASE r = x
        <4>1. i + 1 <= req[x].computed \div BlockSize
          <5>1. req[x].computed \div BlockSize \in Nat
            BY <1>0, <1>3, BlockOf
          <5> QED BY <5>1, <1>1 DEF Names
        <4>2. h = SubSeq(Tokens(x), 1, (i + 1) * BlockSize)
          BY <1>2 DEF PrefixHash
        <4> QED BY <4>1, <4>2, <3>1, <1>5, <1>6
      <3>2. CASE r # x
        BY <3>2, <1>0, <1>5, <1>6 DEF ChainsKept, PrefixHash
      <3> QED BY <3>1, <3>2
    <2> QED BY <2>1, <1>7 DEF ChainsKept, PrefixHash
  <1>12. KvIntegrity'
    <2>1. ASSUME NEW r \in ToSet(running), NEW p \in 0 .. req'[r].computed - 1
          PROVE  /\ p \div BlockSize < Len(table[r])
                 /\ LET s == Slot(table[r], p)
                    IN kv[s[1]][s[2]] = SubSeq(Tokens(r)', 1, p + 1)
      BY <1>0, <1>6 DEF KvIntegrity
    <2> QED BY <2>1, <1>4, <1>7 DEF KvIntegrity, Slot
  <1>13. CacheContent'
    <2>1. ASSUME NEW m \in 1 .. BlockSize PROVE kv[b][m] = SubSeq(h, 1, Len(h) - BlockSize + m)
      <3>1. PICK c, p, T : c = i * BlockSize /\ p = c + m - 1 /\ T = Tokens(x)
        OBVIOUS
      <3>2. c \in Nat /\ c + BlockSize <= req[x].computed /\ c + BlockSize <= NumTokens(x)
        BY <3>1, <1>3
      <3>3. p \in Nat /\ p \in 0 .. req[x].computed - 1 /\ p + 1 = c + m /\ p < c + BlockSize
            /\ c <= p
        BY <3>1, <3>2, <1>0, <1>3
      <3>4. p \div BlockSize = i
        <4>1. i * BlockSize <= p /\ p < (i + 1) * BlockSize
          <5>1. (i + 1) * BlockSize = c + BlockSize
            BY <3>1, <1>0
          <5> QED BY <5>1, <3>1, <3>3
        <4>2. i <= p \div BlockSize /\ p \div BlockSize \in Nat
          BY <4>1, <3>3, <1>0, BlockOf
        <4>3. i + 1 \in Nat
          OBVIOUS
        <4>4. p \div BlockSize < i + 1
          BY <4>1, <4>3, <3>3, <1>0, BlockOf
        <4> QED BY <4>2, <4>4
      <3>5. (p % BlockSize) + 1 = m
        <4>1. PICK e : e = p % BlockSize
          OBVIOUS
        <4>2. p = (p \div BlockSize) * BlockSize + e /\ e \in Nat
          BY <4>1, <3>3, <1>0, BlockOf
        <4>3. p = c + e
          BY <4>2, <3>1, <3>4
        <4>4. m \in Nat /\ c \in Nat /\ p \in Nat /\ p + 1 = c + m
          BY <3>2, <3>3, <1>0
        <4>5. e + 1 = m
          BY <4>2, <4>3, <4>4
        <4> QED BY <4>1, <4>5
      <3>6. kv[b][m] = SubSeq(T, 1, p + 1)
        BY <3>1, <3>3, <3>4, <3>5, <1>0, <1>2 DEF KvIntegrity, Slot
      <3>7. T \in Seq(Token) /\ Len(T) = NumTokens(x) /\ Len(T) \in Nat
        BY <3>1, RunningTypes
      <3>8. h = SubSeq(T, 1, c + BlockSize)
        <4>1. (i + 1) * BlockSize = c + BlockSize
          BY <3>1, <1>0
        <4> QED BY <4>1, <3>1, <1>2 DEF PrefixHash
      <3>9. c + BlockSize \in Nat /\ c + BlockSize <= Len(T) /\ p + 1 \in Nat /\ p + 1 <= c + BlockSize
        BY <3>2, <3>3, <3>7, <1>0
      <3>10. Len(h) = c + BlockSize /\ SubSeq(h, 1, p + 1) = SubSeq(T, 1, p + 1)
        BY <3>7, <3>8, <3>9, PrefixOfPrefix
      <3>11. Len(h) - BlockSize + m = p + 1
        BY <3>2, <3>3, <3>10, <1>0
      <3> QED BY <3>6, <3>10, <3>11
    <2>2. CASE cached' = cached
      BY <2>2, <1>0, <1>7 DEF CacheContent
    <2>3. CASE cached' = [k \in DOMAIN cached \cup {h} |-> IF k = h THEN b ELSE cached[k]]
      <3>1. ASSUME NEW k \in DOMAIN cached', NEW m \in 1 .. BlockSize
            PROVE  kv[cached'[k]][m] = SubSeq(k, 1, Len(k) - BlockSize + m)
        <4>1. CASE k = h
          BY <4>1, <2>1, <2>3
        <4>2. CASE k # h
          <5>1. k \in DOMAIN cached /\ cached'[k] = cached[k]
            BY <4>2, <3>1, <2>3
          <5> QED BY <5>1, <1>0 DEF CacheContent
        <4> QED BY <4>1, <4>2
      <3> QED BY <3>1, <1>7 DEF CacheContent
    <2> QED BY <2>2, <2>3, <1>4
  <1> QED BY <1>8, <1>9, <1>10, <1>11, <1>12, <1>13 DEF DataInv

(* Apply appends the sampled token to the output of one request. *)
LEMMA AcceptLengthens ==
    ASSUME SchedInv, NEW r \in Req, NEW t \in Token, Accept(r, t), NEW s \in Req
    PROVE  Lengthens(s)
  <1>1. req \in [Req -> RequestType] /\ req[r] \in RequestType /\ req[r].output \in Seq(Token)
    BY RequestCounts DEF SchedInv, SchedTypeOK
  <1>2. PICK o : o = Append(req[r].output, t)
    OBVIOUS
  <1>3. req' = [req EXCEPT ![r] = [req[r] EXCEPT !.output = o]]
    BY <1>2 DEF Accept
  <1>4. CASE s = r
    <2>1. /\ req'[r].computed = req[r].computed /\ req'[r].cached_blocks = req[r].cached_blocks
          /\ req'[r].last_hash = req[r].last_hash /\ req'[r].output = o
      BY <1>1, <1>3 DEF RequestType
    <2>2. Tokens(r)' = Tokens(r) \o <<t>>
      <3>1. PICK P, q : P = Prompt[r] /\ q = req[r].output
        OBVIOUS
      <3>2. P \in Seq(Token) /\ q \in Seq(Token)
        BY <3>1, <1>1, RequestAssumption
      <3>3. P \o Append(q, t) = (P \o q) \o <<t>>
        BY <3>2
      <3> QED BY <3>1, <3>3, <2>1, <1>2 DEF Tokens
    <2>3. <<t>> \in Seq(Token)
      OBVIOUS
    <2> QED BY <2>1, <2>2, <2>3, <1>4 DEF Lengthens
  <1>5. CASE s # r
    <2>1. req'[s] = req[s]
      BY <1>1, <1>3, <1>5
    <2>2. Tokens(s)' = Tokens(s) \o <<>>
      <3>1. Tokens(s) \in Seq(Token)
        BY RequestCounts, TokensType DEF SchedInv
      <3>2. Tokens(s)' = Tokens(s)
        BY <2>1 DEF Tokens
      <3> QED BY <3>1, <3>2
    <2>3. <<>> \in Seq(Token)
      OBVIOUS
    <2> QED BY <2>1, <2>2, <2>3 DEF Lengthens
  <1> QED BY <1>4, <1>5

(* The other steps that change requests append at most a token. *)
LEMMA ExtendsStep ==
    ASSUME SchedInv, StepInv, Keeps \/ AddRequest \/ Apply
    PROVE  Extends
  <1>0. SchedTypeOK /\ req \in [Req -> RequestType]
    BY DEF SchedInv, SchedTypeOK
  <1>1. UNCHANGED <<running, table, blk_hash, cached, kv>>
    BY DEF Keeps, AddRequest, Apply, allocVars, queues
  <1>2. ASSUME NEW s \in Req, req'[s].output = req[s].output,
               req'[s].computed = req[s].computed, req'[s].cached_blocks = req[s].cached_blocks,
               req'[s].last_hash = req[s].last_hash
        PROVE  Lengthens(s)
    <2>1. Tokens(s) \in Seq(Token)
      BY RequestCounts, TokensType DEF SchedInv
    <2>2. Tokens(s)' = Tokens(s)
      BY <1>2, SameTokens
    <2>3. Tokens(s)' = Tokens(s) \o <<>> /\ <<>> \in Seq(Token)
      BY <2>1, <2>2
    <2> QED BY <2>3, <1>2 DEF Lengthens
  <1>3. ASSUME NEW s \in Req PROVE Lengthens(s)
    <2>1. CASE req' = req
      BY <2>1, <1>2
    <2>2. CASE AddRequest
      <3>1. PICK r, n : r = cur[1] /\ n = cur[2]
        OBVIOUS
      <3>2. r \in Req /\ req' = [req EXCEPT ![r] = [req[r] EXCEPT !.num_new = n]]
        BY <3>1, <2>2, <1>0 DEF AddRequest, Growing, SchedTypeOK
      <3>3. /\ req'[s].output = req[s].output /\ req'[s].computed = req[s].computed
            /\ req'[s].cached_blocks = req[s].cached_blocks
            /\ req'[s].last_hash = req[s].last_hash
        BY <3>2, <1>0 DEF RequestType
      <3> QED BY <3>3, <1>2
    <2>3. CASE Apply /\ req' # req
      <3>1. sampled # <<>> /\ Accept(batch[at].r, Head(sampled)) /\ at <= Len(batch)
        BY <2>3 DEF Apply
      <3>2. at \in 1 .. Len(batch) /\ Head(sampled) \in Token
        BY <3>1, <1>0 DEF SchedTypeOK
      <3>3. batch[at].r \in Req
        BY <3>2, <1>0, BatchEntry
      <3> QED BY <3>1, <3>2, <3>3, AcceptLengthens
    <2> QED BY <2>1, <2>2, <2>3 DEF Keeps
  <1> QED BY <1>1, <1>3 DEF Extends

(* Every step keeps what the tables, the slots and the names say. *)
LEMMA DataStep ==
    ASSUME SchedInv, StepInv, DataInv, StreamInv, [Next]_vars
    PROVE  DataInv'
  BY StepKinds, ExtendsStep, ExtendsData, DropsData, JoinsData, HitData, GrowData, ForwardData,
     CacheBlockData
-----------------------------------------------------------------------------
(* The control of a step, one invariant at a time *)

(* AddRequest appends one entry, for the rows the growing request gets. *)
LEMMA AddsEntry ==
    ASSUME SchedInv, AddRequest
    PROVE  \E r \in Req, n \in Nat \ {0}, m \in Nat :
              /\ r = cur[1] /\ n = cur[2] /\ r \in ToSet(running)
              /\ DOMAIN batch = 1 .. m /\ DOMAIN batch' = 1 .. m + 1
              /\ \A i \in 1 .. m : batch'[i] = batch[i]
              /\ batch'[m + 1].r = r /\ batch'[m + 1].start = req[r].computed
              /\ batch'[m + 1].n = n /\ batch'[m + 1].blocks = table[r]
              /\ batch'[m + 1].sample <=> req[r].computed + n = NumTokens(r)
              /\ req' = [req EXCEPT ![r] = [req[r] EXCEPT !.num_new = n]]
              /\ budget' = budget - n /\ pc = "grow" /\ pc' = "pick"
              /\ UNCHANGED <<table, running, order>>
  <1>1. pc = "grow" /\ SchedTypeOK /\ CursorBound /\ batch \in Seq(EntryType)
    BY DEF AddRequest, Growing, SchedInv, SchedTypeOK
  <1>2. PICK r, n, m : r = cur[1] /\ n = cur[2] /\ m = Len(batch)
    OBVIOUS
  <1>3. r \in Req /\ n \in Nat \ {0} /\ m \in Nat /\ DOMAIN batch = 1 .. m
    BY <1>1, <1>2, GrowingChunk
  <1>4. r \in ToSet(running)
    BY <1>1, <1>2 DEF SchedInv, TablesOwned
  <1>5. PICK e : e = [r |-> r, start |-> req[r].computed, n |-> n, blocks |-> table[r],
                      sample |-> Samples(r, n)]
    OBVIOUS
  <1>6. batch' = Append(batch, e)
    BY <1>2, <1>5 DEF AddRequest
  <1>7. /\ DOMAIN batch' = 1 .. m + 1 /\ batch'[m + 1] = e
        /\ \A i \in 1 .. m : batch'[i] = batch[i]
    BY <1>1, <1>2, <1>3, <1>6
  <1>8. /\ e.r = r /\ e.start = req[r].computed /\ e.n = n /\ e.blocks = table[r]
        /\ e.sample <=> req[r].computed + n = NumTokens(r)
    BY <1>5 DEF Samples
  <1>9. /\ req' = [req EXCEPT ![r] = [req[r] EXCEPT !.num_new = n]]
        /\ budget' = budget - n /\ pc' = "pick" /\ UNCHANGED <<table, running, order>>
    BY <1>2 DEF AddRequest, allocVars, queues
  <1> QED BY <1>1, <1>2, <1>3, <1>4, <1>7, <1>8, <1>9

(* The blocks a batch names stay with its requests. *)
LEMMA BatchOwnedStep ==
    ASSUME SchedInv, StepInv, [Next]_vars, Preempt => Lone
    PROVE  BatchOwned'
  <1>0. BatchOwned /\ OrderFresh /\ FreesApart /\ SchedTypeOK /\ AllocTypeOK /\ batch \in Seq(EntryType)
    BY DEF StepInv, SchedInv, SchedTypeOK, AllocInv
  <1>1. ASSUME ~InStep' PROVE BatchOwned'
    BY <1>1 DEF BatchOwned
  <1>2. ASSUME InStep, batch' = batch, running' = running,
               \A i \in DOMAIN batch : table'[batch[i].r] = table[batch[i].r]
        PROVE  BatchOwned'
    BY <1>0, <1>2 DEF BatchOwned
  <1>3. ASSUME batch' = <<>> PROVE BatchOwned'
    <2>1. DOMAIN batch' = {}
      BY <1>3
    <2> QED BY <2>1 DEF BatchOwned
  <1>4. CASE (\E q \in Req : Submit(q)) \/ (\E q \in MayCancel : Cancel(q)) \/ UNCHANGED vars
    BY <1>1, <1>2, <1>4 DEF Submit, Cancel, vars, queues, build, allocVars, InStep
  <1>5. CASE FreeMore
    <2>1. PICK v \in Req : freed[v] > 0 /\ FreeOne(v)
      BY <1>5 DEF FreeMore
    <2>2. v \notin ToSet(running) /\ \A g \in Req \ {v} : table'[g] = table[g]
      BY <2>1, <1>0, FreeOneFrees DEF FreesApart, Freeing
    <2>3. UNCHANGED <<batch, running, pc>>
      BY <1>5 DEF FreeMore, queues, build
    <2>4. CASE InStep
      <3>1. ASSUME NEW i \in DOMAIN batch PROVE table'[batch[i].r] = table[batch[i].r]
        <4>1. i \in 1 .. Len(batch)
          BY <1>0
        <4>2. batch[i].r \in Req /\ batch[i].r \in ToSet(running)
          BY <4>1, <2>4, <1>0, StepEntry
        <4> QED BY <4>2, <2>2
      <3> QED BY <3>1, <2>3, <2>4, <1>2
    <2> QED BY <2>3, <2>4, <1>1 DEF InStep
  <1>6. CASE GrowAlloc
    <2>1. PICK b : Appends(cur[1], b)
      BY <1>6, GrowStep
    <2>2. UNCHANGED <<batch, running, pc>> /\ pc = "grow"
      BY <1>6 DEF GrowAlloc, Growing, queues, build
    <2>3. ASSUME NEW i \in DOMAIN batch PROVE table'[batch[i].r] = table[batch[i].r]
      <3>1. batch[i].r # cur[1]
        BY <2>2, <1>0 DEF OrderFresh, Batched
      <3>2. i \in 1 .. Len(batch) /\ InStep
        BY <2>2, <1>0 DEF InStep
      <3>3. batch[i].r \in Req
        BY <3>2, <1>0, StepEntry
      <3> QED BY <3>1, <3>3, <2>1, AppendedEntries
    <2> QED BY <2>2, <2>3, <1>2 DEF InStep
  <1>7. CASE Preempt
    BY <1>3, <1>7 DEF Lone, Preempt, build
  <1>8. CASE AddRequest
    <2>1. PICK r \in Req, n \in Nat \ {0}, m \in Nat :
              /\ r = cur[1] /\ n = cur[2] /\ r \in ToSet(running)
              /\ DOMAIN batch = 1 .. m /\ DOMAIN batch' = 1 .. m + 1
              /\ \A i \in 1 .. m : batch'[i] = batch[i]
              /\ batch'[m + 1].r = r /\ batch'[m + 1].start = req[r].computed
              /\ batch'[m + 1].n = n /\ batch'[m + 1].blocks = table[r]
              /\ pc = "grow" /\ UNCHANGED <<table, running>>
      BY <1>8, AddsEntry
    <2>2. /\ \A i, j \in 1 .. m : batch[i].r = batch[j].r => i = j
          /\ \A i \in 1 .. m :
              /\ batch[i].r \in ToSet(running)
              /\ batch[i].blocks = table[batch[i].r]
              /\ batch[i].n >= 1
              /\ batch[i].start + batch[i].n <= Len(batch[i].blocks) * BlockSize
      BY <2>1, <1>0 DEF BatchOwned, InStep
    <2>3. \A i \in 1 .. m : batch[i].r # r
      BY <2>1, <1>0 DEF OrderFresh, Batched
    <2>4. \A i \in 1 .. m + 1 : i \in 1 .. m \/ i = m + 1
      BY <2>1
    <2>5. req[r].computed + n <= Len(table[r]) * BlockSize
      <3>1. PICK t, c : t = Len(table[r]) /\ c = req[r].computed + n
        OBVIOUS
      <3>2. t \in Nat /\ c \in Nat
        <4>1. req[r].computed \in Nat /\ n \in Nat
          BY <2>1, <1>0, RequestCounts
        <4>2. table[r] \in Seq(Block)
          BY <2>1, <1>0 DEF AllocTypeOK, Req
        <4> QED BY <4>1, <4>2, <3>1
      <3>3. t >= BlocksFor(c)
        BY <3>1, <2>1, <1>8 DEF AddRequest, Covered
      <3>4. BlocksFor(c) \in Nat /\ c <= BlocksFor(c) * BlockSize /\ BlockSize \in Nat
        BY <3>2, BlocksForBounds, Config
      <3>5. BlocksFor(c) * BlockSize <= t * BlockSize /\ BlocksFor(c) * BlockSize \in Nat
            /\ t * BlockSize \in Nat
        <4>1. PICK x : x = BlocksFor(c)
          OBVIOUS
        <4>2. x * BlockSize <= t * BlockSize /\ x * BlockSize \in Nat /\ t * BlockSize \in Nat
          BY <4>1, <3>2, <3>3, <3>4
        <4> QED BY <4>1, <4>2
      <3>6. c <= t * BlockSize
        BY <3>2, <3>4, <3>5
      <3> QED BY <3>1, <3>6
    <2>6. \A i, j \in 1 .. m + 1 : batch'[i].r = batch'[j].r => i = j
      BY <2>1, <2>2, <2>3, <2>4
    <2>7. \A i \in 1 .. m + 1 :
              /\ batch'[i].r \in ToSet(running)
              /\ batch'[i].blocks = table[batch'[i].r]
              /\ batch'[i].n >= 1
              /\ batch'[i].start + batch'[i].n <= Len(batch'[i].blocks) * BlockSize
      BY <2>1, <2>2, <2>4, <2>5
    <2> QED BY <2>1, <2>6, <2>7 DEF BatchOwned
  <1>9. CASE Pick \/ PickEnd \/ Forward
    BY <1>1, <1>2, <1>9 DEF Pick, Picking, PickEnd, Forward, InStep, queues, build, allocVars
  <1>10. CASE Apply \/ ApplyEnd \/ CacheNext
    BY <1>1, <1>2, <1>10 DEF Apply, ApplyEnd, CacheNext, InStep, queues, build, allocVars
  <1>11. CASE CacheBlock
    <2>1. \E b, k : CacheInsert(b, k)
      BY <1>11, Zenon DEF CacheBlock
    <2>2. table' = table
      BY <2>1 DEF CacheInsert
    <2>3. UNCHANGED <<queues, build>> /\ pc = "cache"
      BY <1>11 DEF CacheBlock
    <2> QED BY <2>2, <2>3, <1>2 DEF InStep, queues, build
  <1>12. CASE StartBuild
    BY <1>3, <1>12 DEF StartBuild
  <1>13. CASE PickStale \/ GrowFail \/ ApplyPastEnd \/ CacheBlockPastEnd \/ CacheEnd
    <2>1. CASE ApplyPastEnd
      <3>1. batch' = batch /\ running' = running /\ table' = table /\ pc = "apply"
        BY <2>1 DEF ApplyPastEnd, Crash, queues, build, allocVars
      <3> QED BY <3>1, <1>2 DEF InStep
    <2> QED BY <2>1, <1>1, <1>13 DEF PickStale, GrowFail, CacheBlockPastEnd, CacheEnd, Crash, InStep
  <1>14. CASE \/ Drain \/ Admit \/ StartStep \/ DropWaiting \/ DropRunning \/ Fill
              \/ AcquireHit \/ AcquireEnd \/ FillEnd \/ Retire \/ StepEnd
    BY <1>1, <1>14 DEF Drain, Admit, StartStep, DropWaiting, DropRunning, Fill,
           AcquireHit, AcquireEnd, FillEnd, Retire, StepEnd, InStep
  <1> QED BY <1>4, <1>5, <1>6, <1>7, <1>8, <1>9, <1>10, <1>11, <1>12, <1>13, <1>14
          DEF Next, Engine

(* Nothing moves the cursor of a request between its rows and the forward. *)
LEMMA BatchFreshStep ==
    ASSUME SchedInv, StepInv, [Next]_vars, Preempt => Lone
    PROVE  BatchFresh'
  <1>0. BatchFresh /\ OrderFresh /\ SchedTypeOK /\ CursorBound /\ batch \in Seq(EntryType)
        /\ req \in [Req -> RequestType]
    BY DEF StepInv, SchedInv, SchedTypeOK
  <1>1. ASSUME ~Building' PROVE BatchFresh'
    BY <1>1 DEF BatchFresh
  <1>2. ASSUME Building, batch' = batch, req' = req PROVE BatchFresh'
    BY <1>0, <1>2 DEF BatchFresh, NumTokens, Tokens
  <1>3. ASSUME batch' = <<>> PROVE BatchFresh'
    <2>1. DOMAIN batch' = {}
      BY <1>3
    <2> QED BY <2>1 DEF BatchFresh
  <1>4. CASE (\E q \in Req : Submit(q)) \/ (\E q \in MayCancel : Cancel(q)) \/ UNCHANGED vars
    BY <1>1, <1>2, <1>4 DEF Submit, Cancel, vars, build, Building
  <1>5. CASE FreeMore \/ GrowAlloc \/ Pick \/ PickEnd
    BY <1>1, <1>2, <1>5 DEF FreeMore, GrowAlloc, Growing, Pick, Picking, PickEnd, build, Building
  <1>6. CASE Preempt
    BY <1>3, <1>6 DEF Lone, Preempt, build
  <1>7. CASE AddRequest
    <2>1. PICK r \in Req, n \in Nat \ {0}, m \in Nat :
              /\ r = cur[1] /\ n = cur[2]
              /\ DOMAIN batch = 1 .. m /\ DOMAIN batch' = 1 .. m + 1
              /\ \A i \in 1 .. m : batch'[i] = batch[i]
              /\ batch'[m + 1].r = r /\ batch'[m + 1].start = req[r].computed
              /\ batch'[m + 1].n = n
              /\ batch'[m + 1].sample <=> req[r].computed + n = NumTokens(r)
              /\ req' = [req EXCEPT ![r] = [req[r] EXCEPT !.num_new = n]]
              /\ pc = "grow"
      BY <1>7, AddsEntry
    <2>2. ASSUME NEW i \in 1 .. m
          PROVE  /\ batch[i].start = req'[batch[i].r].computed
                 /\ batch[i].n = req'[batch[i].r].num_new
                 /\ batch[i].start + batch[i].n <= NumTokens(batch[i].r)'
                 /\ batch[i].sample <=> batch[i].start + batch[i].n = NumTokens(batch[i].r)'
                 /\ batch'[i] = batch[i]
      <3>1. PICK g : g = batch[i].r
        OBVIOUS
      <3>2. g # r /\ g \in Req
        BY <3>1, <2>1, <1>0, BatchEntry DEF OrderFresh, Batched
      <3>3. req'[g] = req[g]
        BY <3>2, <2>1, <1>0
      <3>4. NumTokens(g)' = NumTokens(g)
        BY <3>3, SameTokens
      <3>5. /\ batch[i].start = req[g].computed
            /\ batch[i].n = req[g].num_new
            /\ batch[i].start + batch[i].n <= NumTokens(g)
            /\ batch[i].sample <=> batch[i].start + batch[i].n = NumTokens(g)
        BY <3>1, <2>1, <1>0 DEF BatchFresh, Building
      <3>6. NumTokens(batch[i].r)' = NumTokens(g)
        <4>1. batch'[i] = batch[i]
          BY <2>1
        <4> QED BY <4>1, <3>1, <3>3 DEF NumTokens, Tokens
      <3> QED BY <3>1, <3>3, <3>5, <3>6, <2>1
    <2>3. /\ req'[r].computed = req[r].computed /\ req'[r].num_new = n
          /\ NumTokens(r)' = NumTokens(r) /\ req[r].computed + n <= NumTokens(r)
      <3>1. req[r] \in RequestType
        BY <1>0
      <3>2. /\ req'[r].computed = req[r].computed /\ req'[r].num_new = n
            /\ req'[r].output = req[r].output
        BY <3>1, <2>1, <1>0 DEF RequestType
      <3> QED BY <3>2, <2>1, <1>0, SameTokens, GrowingChunk
    <2>4. ASSUME NEW i \in 1 .. m + 1
          PROVE  LET g == batch'[i].r IN
                 /\ batch'[i].start = req'[g].computed
                 /\ batch'[i].n = req'[g].num_new
                 /\ batch'[i].start + batch'[i].n <= Len(Prompt[g] \o req'[g].output)
                 /\ batch'[i].sample <=> batch'[i].start + batch'[i].n = Len(Prompt[g] \o req'[g].output)
      <3>1. CASE i \in 1 .. m
        BY <3>1, <2>2 DEF NumTokens, Tokens
      <3>2. CASE i = m + 1
        BY <3>2, <2>1, <2>3 DEF NumTokens, Tokens
      <3>3. i \in 1 .. m \/ i = m + 1
        BY <2>4
      <3> QED BY <3>1, <3>2, <3>3
    <2> QED BY <2>1, <2>4 DEF BatchFresh, NumTokens, Tokens
  <1>8. CASE StartBuild
    BY <1>3, <1>8 DEF StartBuild
  <1>9. CASE PickStale \/ GrowFail \/ Forward \/ Apply \/ ApplyPastEnd \/ ApplyEnd
    BY <1>1, <1>9 DEF PickStale, GrowFail, Forward, Apply, ApplyPastEnd, ApplyEnd, Crash, Building
  <1>10. CASE \/ CacheBlock \/ CacheBlockPastEnd \/ CacheNext \/ CacheEnd \/ Retire \/ StepEnd
    <2>1. CASE CacheBlock
      <3>1. pc = "cache" /\ pc' = pc
        BY <2>1 DEF CacheBlock
      <3> QED BY <3>1, <1>1 DEF Building
    <2> QED BY <2>1, <1>1, <1>10 DEF CacheBlockPastEnd, CacheNext, CacheEnd, Retire, StepEnd,
           Crash, Building
  <1>11. CASE \/ Drain \/ Admit \/ StartStep \/ DropWaiting \/ DropRunning \/ Fill
              \/ AcquireHit \/ AcquireEnd \/ FillEnd
    BY <1>1, <1>11 DEF Drain, Admit, StartStep, DropWaiting, DropRunning, Fill,
           AcquireHit, AcquireEnd, FillEnd, Building
  <1> QED BY <1>4, <1>5, <1>6, <1>7, <1>8, <1>9, <1>10, <1>11 DEF Next, Engine

(* The visiting order of a step names every running request once. *)
LEMMA OrdersInject ==
    ASSUME SchedTypeOK, NEW o \in StableOrders
    PROVE  /\ DOMAIN o = 1 .. Len(running) /\ \A k \in DOMAIN o : o[k] \in DOMAIN running
           /\ \A k, l \in DOMAIN o : o[k] = o[l] => k = l
  <1>1. running \in Seq(Req) /\ Len(running) \in Nat /\ DOMAIN running = 1 .. Len(running)
    BY DEF SchedTypeOK
  <1>2. o \in [1 .. Len(running) -> 1 .. Len(running)]
    BY DEF StableOrders
  <1>3. ASSUME NEW i \in 1 .. Len(running), NEW j \in 1 .. Len(running), i < j
        PROVE  o[i] # o[j]
    <2>1. PICK x, y : x = o[i] /\ y = o[j]
      OBVIOUS
    <2>2. \/ Remaining(running[x]) < Remaining(running[y])
          \/ Remaining(running[x]) = Remaining(running[y]) /\ x < y
      BY <2>1, <1>3 DEF StableOrders
    <2>3. x \in 1 .. Len(running) /\ running[x] \in Req
      BY <2>1, <1>1, <1>2
    <2>4. Remaining(running[x]) \in Int
      BY <2>3, RequestCounts
    <2> QED BY <2>1, <2>2, <2>3, <2>4, <1>1
  <1>4. ASSUME NEW i \in 1 .. Len(running), NEW j \in 1 .. Len(running), o[i] = o[j]
        PROVE  i = j
    <2>1. ~(i < j) /\ ~(j < i)
      BY <1>3, <1>4
    <2> QED BY <2>1, <1>1
  <1> QED BY <1>1, <1>2, <1>4

(* Until the budget is used up, no request is visited twice. *)
LEMMA OrderFreshStep ==
    ASSUME SchedInv, SchedInv', StepInv, [Next]_vars, Preempt => Lone
    PROVE  OrderFresh'
  <1>0. /\ OrderFresh /\ SchedTypeOK /\ CursorBound /\ budget \in Nat
        /\ order \in Seq(Nat \ {0}) /\ running \in Seq(Req) /\ Distinct(running)
    BY DEF StepInv, SchedInv, SchedTypeOK, QueuesApart
  <1>1. ASSUME pc' \notin {"pick", "grow"} PROVE OrderFresh'
    BY <1>1 DEF OrderFresh
  <1>2. ASSUME UNCHANGED <<pc, order, running, batch, budget, cur>> PROVE OrderFresh'
    BY <1>0, <1>2 DEF OrderFresh, Left, Batched
  <1>3. CASE (\E q \in Req : Submit(q)) \/ (\E q \in MayCancel : Cancel(q)) \/ UNCHANGED vars
    BY <1>2, <1>3 DEF Submit, Cancel, vars, queues, build
  <1>4. CASE FreeMore \/ GrowAlloc
    BY <1>2, <1>4 DEF FreeMore, GrowAlloc, queues, build
  <1>5. CASE StartBuild
    <2>1. order' \in StableOrders /\ batch' = <<>> /\ pc' = "pick" /\ running' = running
      BY <1>5 DEF StartBuild, queues
    <2>2. Batched' = {}
      BY <2>1 DEF Batched
    <2>3. /\ \A k \in DOMAIN order' : order'[k] \in DOMAIN running
          /\ \A k, l \in DOMAIN order' : order'[k] = order'[l] => k = l
      BY <2>1, <1>0, OrdersInject
    <2> QED BY <2>1, <2>2, <2>3 DEF OrderFresh
  <1>6. CASE Pick
    <2>1. /\ pc = "pick" /\ order # <<>> /\ budget > 0 /\ order' = Tail(order)
          /\ UNCHANGED <<running, batch, budget>>
          /\ \/ pc' = pc
             \/ pc' = "grow" /\ cur'[1] = running[Head(order)]
      BY <1>6 DEF Pick, Picking, queues
    <2>2. /\ \A k \in DOMAIN order : order[k] \in DOMAIN running /\ running[order[k]] \notin Batched
          /\ \A k, l \in DOMAIN order : order[k] = order[l] => k = l
      BY <2>1, <1>0 DEF OrderFresh, Left
    <2>3. 1 \in DOMAIN order /\ Head(order) = order[1]
      BY <2>1, <1>0
    <2>4. \A k \in DOMAIN order' : k + 1 \in DOMAIN order /\ order'[k] = order[k + 1] /\ k + 1 # 1
                                   /\ k \in Nat
      <3>1. PICK t, m : t = Tail(order) /\ m = Len(order)
        OBVIOUS
      <3>2. /\ m \in Nat /\ DOMAIN order = 1 .. m /\ DOMAIN t = 1 .. m - 1
            /\ \A k \in 1 .. m - 1 : t[k] = order[k + 1]
        BY <3>1, <2>1, <1>0
      <3>3. \A k \in 1 .. m - 1 : k \in Nat /\ k + 1 \in 1 .. m /\ k + 1 # 1
        BY <3>2
      <3> QED BY <3>1, <3>2, <3>3, <2>1
    <2>5. Batched' = Batched
      BY <2>1 DEF Batched
    <2>6. \A k \in DOMAIN order' : order'[k] \in DOMAIN running /\ running[order'[k]] \notin Batched
      BY <2>2, <2>4
    <2>7. ASSUME NEW k \in DOMAIN order', NEW l \in DOMAIN order', order'[k] = order'[l] PROVE k = l
      <3>1. k + 1 = l + 1
        BY <2>2, <2>4, <2>7
      <3> QED BY <3>1, <2>4
    <2>8. ASSUME NEW k \in DOMAIN order' PROVE running[order'[k]] # running[Head(order)]
      <3>1. order[k + 1] # order[1]
        BY <2>2, <2>3, <2>4
      <3> QED BY <3>1, <2>2, <2>3, <2>4, <1>0 DEF Distinct
    <2>9. running[Head(order)] \notin Batched
      BY <2>2, <2>3
    <2> QED BY <2>1, <2>5, <2>6, <2>7, <2>8, <2>9 DEF OrderFresh
  <1>7. CASE Preempt
    <2>1. pc = "grow" /\ UNCHANGED <<pc, budget, cur, batch>> /\ batch = <<>> /\ cur[2] = budget
      BY <1>7 DEF Preempt, Growing, build, Lone
    <2>2. Batched' = {}
      BY <2>1 DEF Batched
    <2>3. ~(Left' > 0)
      BY <2>1, <1>0 DEF Left
    <2> QED BY <2>2, <2>3 DEF OrderFresh
  <1>8. CASE AddRequest
    <2>1. PICK r \in Req, n \in Nat \ {0}, m \in Nat :
              /\ r = cur[1] /\ n = cur[2]
              /\ DOMAIN batch = 1 .. m /\ DOMAIN batch' = 1 .. m + 1
              /\ \A i \in 1 .. m : batch'[i] = batch[i]
              /\ batch'[m + 1].r = r
              /\ budget' = budget - n /\ pc = "grow" /\ pc' = "pick"
              /\ UNCHANGED <<running, order>>
      BY <1>8, AddsEntry
    <2>2. Left' = Left
      BY <2>1 DEF Left
    <2>3. ASSUME NEW g \in Batched' PROVE g \in Batched \/ g = r
      <3>1. PICK i \in 1 .. m + 1 : g = batch'[i].r
        BY <2>1 DEF Batched
      <3>2. i \in 1 .. m \/ i = m + 1
        OBVIOUS
      <3> QED BY <3>1, <3>2, <2>1 DEF Batched
    <2> QED BY <2>1, <2>2, <2>3, <1>0 DEF OrderFresh
  <1>9. CASE PickStale \/ PickEnd \/ GrowFail \/ Forward \/ Apply \/ ApplyPastEnd \/ ApplyEnd
    BY <1>1, <1>9 DEF PickStale, PickEnd, GrowFail, Forward, Apply, ApplyPastEnd, ApplyEnd, Crash
  <1>10. CASE \/ CacheBlock \/ CacheBlockPastEnd \/ CacheNext \/ CacheEnd \/ Retire \/ StepEnd
    <2>1. CASE CacheBlock
      <3>1. pc = "cache" /\ pc' = pc
        BY <2>1 DEF CacheBlock
      <3> QED BY <3>1, <1>1
    <2> QED BY <2>1, <1>1, <1>10 DEF CacheBlockPastEnd, CacheNext, CacheEnd, Retire, StepEnd, Crash
  <1>11. CASE \/ Drain \/ Admit \/ StartStep \/ DropWaiting \/ DropRunning \/ Fill
              \/ AcquireHit \/ AcquireEnd \/ FillEnd
    BY <1>1, <1>11 DEF Drain, Admit, StartStep, DropWaiting, DropRunning, Fill,
           AcquireHit, AcquireEnd, FillEnd
  <1> QED BY <1>3, <1>4, <1>5, <1>6, <1>7, <1>8, <1>9, <1>10, <1>11 DEF Next, Engine

(* A Free() ends before anything runs that could see its request. *)
LEMMA FreesApartStep ==
    ASSUME SchedInv, StepInv, [Next]_vars
    PROVE  FreesApart'
  <1> DEFINE Loop == {"drop_waiting", "drop_running", "build", "grow", "retire"}
  <1>0. /\ FreesApart /\ SchedTypeOK /\ AllocTypeOK /\ QueuesApart /\ QueueInv
        /\ running \in Seq(Req) /\ waiting \in Seq(Req)
        /\ freed \in [Req -> Nat]
    BY DEF StepInv, SchedInv, SchedTypeOK, QueueInv, QueueTypes, AllocInv, AllocTypeOK, Req
  <1>1. ASSUME freed' = freed, NoFreeRunning PROVE FreesApart'
    BY <1>0, <1>1 DEF FreesApart, NoFreeRunning, Req
  <1>2. ASSUME freed' = freed, pc \notin Loop PROVE FreesApart'
    <2>1. \A r \in Req : ~(freed[r] > 0)
      BY <1>0, <1>2 DEF FreesApart
    <2> QED BY <2>1, <1>2 DEF FreesApart
  <1>3. ASSUME UNCHANGED <<freed, running, pc>> PROVE FreesApart'
    BY <1>0, <1>3 DEF FreesApart
  <1>4. ASSUME NEW v \in Req, Release(v), NoFreeRunning, v \notin ToSet(running'), pc' \in Loop
        PROVE  FreesApart'
    <2>1. Freeing(v)
      BY <1>0, <1>4, ReleaseFrees
    <2>2. \A g \in Req \ {v} : ~(freed'[g] > 0)
      BY <2>1, <1>4 DEF Freeing, NoFreeRunning, Req
    <2> QED BY <2>2, <1>4 DEF FreesApart
  <1> HIDE DEF Loop
  <1>5. CASE (\E q \in Req : Submit(q)) \/ (\E q \in MayCancel : Cancel(q)) \/ UNCHANGED vars
    BY <1>3, <1>5 DEF Submit, Cancel, vars, queues, allocVars
  <1>6. CASE Drain \/ Admit \/ StartStep \/ Fill \/ AcquireEnd \/ FillEnd
    BY <1>2, <1>6 DEF Drain, Admit, StartStep, Fill, AcquireEnd, FillEnd, allocVars, Loop
  <1>7. CASE AcquireHit
    <2>1. freed' = freed /\ pc = "acquire"
      BY <1>7, HitStep DEF AcquireHit
    <2> QED BY <2>1, <1>2 DEF Loop
  <1>8. CASE FreeMore
    <2>1. PICK v \in Req : freed[v] > 0 /\ FreeOne(v)
      BY <1>8 DEF FreeMore
    <2>2. Freeing(v) /\ UNCHANGED <<running, pc>>
      BY <2>1, <1>0, <1>8, FreeOneFrees DEF FreeMore, queues
    <2> QED BY <2>1, <2>2, <1>0 DEF FreesApart, Freeing
  <1>9. CASE DropWaiting
    <2>1. NoFreeRunning /\ running' = running /\ pc = "drop_waiting"
      BY <1>9 DEF DropWaiting
    <2>2. CASE UNCHANGED allocVars
      BY <2>1, <2>2, <1>1 DEF allocVars
    <2>3. CASE at <= Len(waiting) /\ Release(waiting[at]) /\ pc' = pc
      <3>1. at \in 1 .. Len(waiting)
        BY <2>3, <1>0 DEF SchedTypeOK
      <3>2. waiting[at] \in Req /\ waiting[at] \in ToSet(waiting)
        BY <3>1, <1>0, EraseQueue DEF QueuesApart
      <3>3. waiting[at] \notin ToSet(running)
        BY <3>2, <1>0 DEF QueuesApart
      <3> QED BY <3>2, <3>3, <2>1, <2>3, <1>4 DEF Loop
    <2> QED BY <2>2, <2>3, <1>9 DEF DropWaiting
  <1>10. CASE DropRunning
    <2>1. NoFreeRunning /\ pc = "drop_running"
      BY <1>10 DEF DropRunning
    <2>2. CASE UNCHANGED allocVars
      BY <2>1, <2>2, <1>1 DEF allocVars
    <2>3. CASE at <= Len(running) /\ Release(running[at]) /\ running' = RemoveAt(running, at) /\ pc' = pc
      <3>1. at \in 1 .. Len(running)
        BY <2>3, <1>0 DEF SchedTypeOK
      <3>2. running[at] \in Req /\ ToSet(running') = ToSet(running) \ {running[at]}
        BY <3>1, <2>3, <1>0, EraseQueue DEF QueuesApart
      <3> QED BY <3>2, <2>1, <2>3, <1>4 DEF Loop
    <2> QED BY <2>2, <2>3, <1>10 DEF DropRunning
  <1>11. CASE StartBuild \/ AddRequest \/ StepEnd
    BY <1>1, <1>11 DEF StartBuild, AddRequest, Growing, StepEnd, allocVars
  <1>12. CASE GrowAlloc
    <2>1. freed' = freed /\ NoFreeRunning
      BY <1>12, GrowStep DEF GrowAlloc, Growing
    <2> QED BY <2>1, <1>1
  <1>13. CASE Preempt
    <2>1. PICK k, v : k = Max(Others) /\ v = running[k]
      OBVIOUS
    <2>2. /\ Release(v) /\ running' = RemoveAt(running, k) /\ Others # {} /\ NoFreeRunning
          /\ pc' = "grow"
      BY <2>1, <1>13 DEF Preempt, Growing
    <2>3. k \in 1 .. Len(running)
      BY <2>1, <2>2, <1>0, VictimRuns
    <2>4. v \in Req /\ ToSet(running') = ToSet(running) \ {v}
      BY <2>1, <2>2, <2>3, <1>0, EraseQueue DEF QueuesApart
    <2> QED BY <2>2, <2>4, <1>4 DEF Loop
  <1>14. ASSUME NEW v \in Req, Release(v), running' = RemoveFirst(running, v), NoFreeRunning,
                pc' \in Loop
         PROVE  FreesApart'
    <2>1. ToSet(running') = ToSet(running) \ {v}
      BY <1>0, <1>14, RemoveFirstQueue DEF QueuesApart
    <2> QED BY <2>1, <1>4, <1>14
  <1>15. CASE GrowFail
    <2>1. cur[1] \in Req
      BY <1>0, <1>15 DEF GrowFail, Growing, SchedTypeOK
    <2> QED BY <2>1, <1>14, <1>15 DEF GrowFail, Growing, Loop
  <1>16. CASE Retire
    <2>1. Head(done) \in Req
      BY <1>0, <1>16 DEF Retire, SchedTypeOK
    <2> QED BY <2>1, <1>14, <1>16 DEF Retire, Loop
  <1>17. CASE Pick \/ PickStale \/ PickEnd \/ Forward \/ Apply \/ ApplyPastEnd \/ ApplyEnd
    BY <1>2, <1>17 DEF Pick, Picking, PickStale, PickEnd, Forward, Apply, ApplyPastEnd, ApplyEnd,
           Crash, allocVars, Loop
  <1>18. CASE CacheBlock
    <2>1. \E b, k : CacheInsert(b, k)
      BY <1>18, Zenon DEF CacheBlock
    <2>2. freed' = freed /\ NoFreeRunning
      BY <2>1 DEF CacheInsert
    <2> QED BY <2>2, <1>1
  <1>19. CASE CacheBlockPastEnd \/ CacheNext \/ CacheEnd
    BY <1>2, <1>19 DEF CacheBlockPastEnd, CacheNext, CacheEnd, Crash, allocVars, Loop
  <1> QED BY <1>5, <1>6, <1>7, <1>8, <1>9, <1>10, <1>11, <1>12, <1>13, <1>15, <1>16, <1>17,
             <1>18, <1>19 DEF Next, Engine

(* What Apply finished leaves running_ in Retire, and nowhere else. *)
LEMMA DoneRunsStep ==
    ASSUME SchedInv, StepInv, DataInv, [Next]_vars
    PROVE  DoneRuns'
  <1>0. /\ DoneRuns /\ SchedTypeOK /\ QueuesApart
        /\ running \in Seq(Req) /\ done \in Seq(Req) /\ Distinct(running)
    BY DEF StepInv, SchedInv, SchedTypeOK, QueuesApart
  <1>1. ASSUME done' = done, ToSet(running) \subseteq ToSet(running'),
               pc' = pc \/ pc' \in {"apply", "cache", "retire"}
        PROVE  DoneRuns'
    BY <1>0, <1>1 DEF DoneRuns
  <1>2. ASSUME done' = done, done = <<>> PROVE DoneRuns'
    BY <1>2 DEF DoneRuns, ToSet, Distinct
  <1>3. CASE (\E q \in Req : Submit(q)) \/ (\E q \in MayCancel : Cancel(q)) \/ UNCHANGED vars
    BY <1>1, <1>3 DEF Submit, Cancel, vars, queues, result
  <1>4. CASE Apply
    <2>1. pc = "apply" /\ pc' = pc /\ running' = running /\ at <= Len(batch)
      BY <1>4 DEF Apply, queues
    <2>2. CASE done' = done
      BY <2>1, <2>2, <1>1
    <2>3. CASE done' = Append(done, batch[at].r)
      <3>1. at \in 1 .. Len(batch) /\ at \in at .. Len(batch)
        BY <2>1, <1>0 DEF SchedTypeOK
      <3>2. PICK r : r = batch[at].r
        OBVIOUS
      <3>3. r \in Req /\ r \in ToSet(running)
        BY <3>1, <3>2, <2>1, StepEntry DEF StepInv, InStep
      <3>4. r \notin ToSet(done)
        BY <3>1, <3>2, <2>1 DEF StepInv, SamplesLeft
      <3>5. Distinct(done') /\ ToSet(done') = ToSet(done) \cup {r}
        BY <3>2, <3>3, <3>4, <2>3, <1>0, AppendQueue DEF DoneRuns
      <3> QED BY <3>3, <3>5, <2>1, <1>0 DEF DoneRuns
    <2> QED BY <2>2, <2>3, <1>4 DEF Apply, Accept
  <1>5. CASE Retire
    <2>1. /\ pc = "retire" /\ pc' = pc /\ done # <<>> /\ done' = Tail(done)
          /\ running' = RemoveFirst(running, Head(done))
      BY <1>5 DEF Retire
    <2>2. Distinct(Tail(done)) /\ ToSet(Tail(done)) = ToSet(done) \ {Head(done)}
      BY <2>1, <1>0, TailQueue DEF DoneRuns
    <2>3. ToSet(running') = ToSet(running) \ {Head(done)}
      BY <2>1, <1>0, RemoveFirstQueue
    <2> QED BY <2>1, <2>2, <2>3, <1>0 DEF DoneRuns
  <1>6. CASE FreeMore \/ ApplyEnd \/ CacheNext \/ CacheEnd
    BY <1>1, <1>6 DEF FreeMore, ApplyEnd, CacheNext, CacheEnd, queues, result
  <1>7. CASE CacheBlock
    <2>1. UNCHANGED <<queues, pc, result>>
      BY <1>7 DEF CacheBlock
    <2> QED BY <2>1, <1>1 DEF queues, result
  <1>8. CASE StepEnd
    BY <1>2, <1>8 DEF StepEnd, result
  <1>9. ASSUME pc \notin {"apply", "cache", "retire"} PROVE done = <<>>
    BY <1>0, <1>9 DEF DoneRuns
  <1>10. CASE \/ Drain \/ Admit \/ StartStep \/ DropWaiting \/ DropRunning \/ Fill
              \/ AcquireHit \/ AcquireEnd \/ FillEnd
    <2>1. done' = done /\ pc \notin {"apply", "cache", "retire"}
      BY <1>10 DEF Drain, Admit, StartStep, DropWaiting, DropRunning, Fill,
             AcquireHit, AcquireEnd, FillEnd, result
    <2> QED BY <2>1, <1>2, <1>9
  <1>11. CASE StartBuild \/ Pick \/ PickStale \/ PickEnd \/ GrowAlloc \/ Preempt \/ GrowFail
              \/ AddRequest \/ Forward
    <2>1. done' = done /\ pc \notin {"apply", "cache", "retire"}
      BY <1>11 DEF StartBuild, Pick, Picking, PickStale, Crash, PickEnd, GrowAlloc, Preempt,
             GrowFail, Growing, AddRequest, Forward, result
    <2> QED BY <2>1, <1>2, <1>9
  <1> QED BY <1>3, <1>4, <1>5, <1>6, <1>7, <1>8, <1>10, <1>11, Faultless DEF Next, Engine

(* AcquirePrefix takes the blocks of the prefix in order. *)
LEMMA AcquiredIsPrefixStep ==
    ASSUME SchedInv, StepInv, [Next]_vars
    PROVE  AcquiredIsPrefix'
  <1>0. AcquiredIsPrefix /\ FreesApart /\ SchedTypeOK /\ AllocTypeOK
    BY DEF StepInv, SchedInv, AllocInv
  <1>1. ASSUME pc' # "acquire" PROVE AcquiredIsPrefix'
    BY <1>1 DEF AcquiredIsPrefix
  <1>2. ASSUME UNCHANGED <<pc, waiting, table, blk_hash, req>> PROVE AcquiredIsPrefix'
    BY <1>0, <1>2 DEF AcquiredIsPrefix, PrefixHash, Tokens
  <1>3. CASE (\E q \in Req : Submit(q)) \/ (\E q \in MayCancel : Cancel(q)) \/ UNCHANGED vars
    BY <1>2, <1>3 DEF Submit, Cancel, vars, queues, allocVars
  <1>4. CASE FreeMore
    <2>1. pc \in {"drop_waiting", "drop_running", "build", "grow", "retire"} /\ pc' = pc
      BY <1>0, <1>4 DEF FreeMore, FreesApart
    <2> QED BY <2>1, <1>1
  <1>5. CASE Fill
    <2>1. CASE pc' = "acquire"
      <3>1. table'[Head(waiting')] = <<>>
        BY <2>1, <1>5 DEF Fill, allocVars
      <3>2. DOMAIN table'[Head(waiting')] = {}
        BY <3>1
      <3> QED BY <3>2 DEF AcquiredIsPrefix
    <2> QED BY <2>1, <1>1
  <1>6. CASE AcquireHit
    <2>1. PICK x : x = Head(waiting)
      OBVIOUS
    <2>2. PICK b : /\ Appends(x, b) /\ blk_hash[b] = NextPrefix(x) /\ UNCHANGED blk_hash
      BY <2>1, <1>6, HitStep
    <2>3. pc = "acquire" /\ waiting' = waiting /\ req' = req
      BY <1>6 DEF AcquireHit, queues
    <2>4. \A k : PrefixHash(x, k)' = PrefixHash(x, k)
      BY <2>3 DEF PrefixHash, Tokens
    <2>5. \A k \in DOMAIN table[x] : blk_hash[table[x][k]] = PrefixHash(x, k)
      BY <2>1, <2>3, <1>0 DEF AcquiredIsPrefix
    <2>6. x \in Req
      BY <2>2 DEF Appends
    <2>7. ASSUME NEW k \in DOMAIN table'[x] PROVE blk_hash'[table'[x][k]] = PrefixHash(x, k)
      <3>1. \/ k \in DOMAIN table[x] /\ table'[x][k] = table[x][k]
            \/ k = Len(table[x]) + 1 /\ table'[x][k] = b
        BY <2>2, <2>6, AppendedEntries
      <3> QED BY <3>1, <2>2, <2>5 DEF NextPrefix
    <2>8. \A k \in DOMAIN table'[x] : blk_hash'[table'[x][k]] = SubSeq(Prompt[x] \o req'[x].output, 1, k * BlockSize)
      BY <2>3, <2>7 DEF PrefixHash, Tokens
    <2> QED BY <2>1, <2>3, <2>8 DEF AcquiredIsPrefix, PrefixHash, Tokens
  <1>7. CASE \/ Drain \/ Admit \/ StartStep \/ DropWaiting \/ DropRunning \/ AcquireEnd \/ FillEnd
    BY <1>1, <1>7 DEF Drain, Admit, StartStep, DropWaiting, DropRunning, AcquireEnd, FillEnd
  <1>8. CASE StartBuild \/ Pick \/ PickStale \/ PickEnd \/ GrowAlloc \/ Preempt \/ GrowFail
              \/ AddRequest \/ Forward
    BY <1>1, <1>8 DEF StartBuild, Pick, Picking, PickStale, Crash, PickEnd, GrowAlloc, Preempt,
             GrowFail, Growing, AddRequest, Forward
  <1>9. CASE CacheBlock
    <2>1. pc = "cache" /\ pc' = pc
      BY <1>9 DEF CacheBlock
    <2> QED BY <2>1, <1>1
  <1>10. CASE \/ Apply \/ ApplyPastEnd \/ ApplyEnd \/ CacheBlockPastEnd \/ CacheNext \/ CacheEnd
              \/ Retire \/ StepEnd
    BY <1>1, <1>10 DEF Apply, ApplyPastEnd, ApplyEnd, CacheBlockPastEnd, CacheNext, CacheEnd,
             Retire, StepEnd, Crash
  <1> QED BY <1>3, <1>4, <1>5, <1>6, <1>7, <1>8, <1>9, <1>10 DEF Next, Engine

(* Forward samples one token for every entry that asked; Apply reads them  *)
(* in the order of the entries.                                            *)
LEMMA SamplesLeftStep ==
    ASSUME SchedInv, StepInv, DataInv, [Next]_vars
    PROVE  SamplesLeft'
  <1>0. /\ SamplesLeft /\ BatchFresh /\ BatchOwned /\ DoneRuns /\ SchedTypeOK
        /\ batch \in Seq(EntryType) /\ Len(batch) \in Nat /\ DOMAIN batch = 1 .. Len(batch)
        /\ at \in Nat \ {0} /\ sampled \in Seq(Token) /\ done \in Seq(Req)
    BY DEF StepInv, SchedInv, SchedTypeOK
  <1>1. ASSUME pc' # "apply" PROVE SamplesLeft'
    BY <1>1 DEF SamplesLeft
  <1>2. ASSUME UNCHANGED <<pc, at, batch, sampled, done, req>> PROVE SamplesLeft'
    BY <1>0, <1>2 DEF SamplesLeft, Asking, Remaining, NumTokens, Tokens
  <1>3. CASE (\E q \in Req : Submit(q)) \/ (\E q \in MayCancel : Cancel(q)) \/ UNCHANGED vars
    BY <1>2, <1>3 DEF Submit, Cancel, vars, build, result
  <1>4. CASE FreeMore
    BY <1>2, <1>4 DEF FreeMore, build, result
  <1>5. CASE Forward
    <2>1. pc = "forward" /\ at' = 1 /\ batch' = batch /\ done' = done
      BY <1>5 DEF Forward, build
    <2>2. Asking' = {i \in DOMAIN batch : batch[i].sample}
      BY <2>1, <1>0 DEF Asking
    <2>3. Len(sampled') = Cardinality(Asking')
      <3>1. RowCount = Cardinality(Asking')
        BY <2>2 DEF RowCount
      <3>2. PICK c : c = Cardinality(Asking')
        OBVIOUS
      <3>3. sampled' \in [1 .. c -> Token]
        BY <3>1, <3>2, <1>5 DEF Forward
      <3>4. c \in Nat
        <4>1. IsFiniteSet(DOMAIN batch)
          BY <1>0, FS_Interval
        <4>2. Asking' \subseteq DOMAIN batch
          BY <2>2
        <4> QED BY <4>1, <4>2, <3>2, FS_Subset, FS_CardinalityType
      <3>5. Len(sampled') = c
        BY <3>3, <3>4
      <3> QED BY <3>2, <3>5
    <2>4. done = <<>>
      BY <2>1, <1>0 DEF DoneRuns
    <2>5. ASSUME NEW i \in 1 .. Len(batch)
          PROVE  Remaining(batch[i].r)' = 0 <=> batch[i].sample
      <3>1. PICK r : r = batch[i].r
        OBVIOUS
      <3>2. r \in Req /\ i \in DOMAIN batch
        BY <3>1, <1>0, BatchEntry
      <3>3. PICK j \in DOMAIN batch :
                    /\ batch[j].r = r
                    /\ req'[r].computed = batch[j].start + batch[j].n
        BY <3>1, <3>2, <1>5, ForwardMoves
      <3>4. j = i
        BY <3>1, <3>2, <3>3, <2>1, <1>0 DEF BatchOwned, InStep
      <3>5. req'[r].output = req[r].output
        BY <3>2, <1>5, ForwardMoves
      <3>6. NumTokens(r)' = NumTokens(r)
        BY <3>5, SameTokens
      <3>7. batch[i].sample <=> batch[i].start + batch[i].n = NumTokens(r)
        BY <3>1, <3>2, <2>1, <1>0 DEF BatchFresh, Building
      <3>8. batch[i].start + batch[i].n \in Nat /\ NumTokens(r) \in Nat
        BY <3>2, <1>0, BatchEntry, RequestCounts
      <3>9. Remaining(r)' = NumTokens(r) - (batch[i].start + batch[i].n)
        BY <3>3, <3>4, <3>6 DEF Remaining
      <3>10. Remaining(r)' = 0 <=> batch[i].sample
        BY <3>7, <3>8, <3>9
      <3> QED BY <3>1, <3>10, <2>1 DEF Remaining, NumTokens, Tokens
    <2>6. \A i : batch[i].r \notin ToSet(done)
      BY <2>4 DEF ToSet
    <2> QED BY <2>1, <2>3, <2>5, <2>6 DEF SamplesLeft, Remaining, NumTokens, Tokens
  <1>6. CASE Apply
    <2>1. pc = "apply" /\ at <= Len(batch) /\ at' = at + 1 /\ batch' = batch
      BY <1>6 DEF Apply, build
    <2>2. PICK r : r = batch[at].r
      OBVIOUS
    <2>3. at \in 1 .. Len(batch) /\ at \in at .. Len(batch)
      BY <2>1, <1>0
    <2>4. r \in Req /\ Remaining(r) \in Int
      BY <2>2, <2>3, <1>0, BatchEntry, RequestCounts
    <2>5. Remaining(r) = 0 <=> batch[at].sample
      BY <2>1, <2>2, <2>3, <1>0 DEF SamplesLeft
    <2>6. IsFiniteSet(Asking) /\ IsFiniteSet(Asking')
      <3>1. IsFiniteSet(at .. Len(batch))
        BY <1>0, FS_Interval
      <3>2. Asking \subseteq at .. Len(batch) /\ Asking' \subseteq at .. Len(batch)
        BY <2>1, <1>0 DEF Asking
      <3> QED BY <3>1, <3>2, FS_Subset
    <2>7. at .. Len(batch) = {at} \cup (at + 1 .. Len(batch)) /\ at \notin at + 1 .. Len(batch)
      BY <2>3, <1>0
    <2>8. /\ Len(sampled) = Cardinality(Asking)
          /\ \A i \in at + 1 .. Len(batch) :
              /\ Remaining(batch[i].r) = 0 <=> batch[i].sample
              /\ batch[i].r \notin ToSet(done)
      BY <2>1, <2>7, <1>0 DEF SamplesLeft
    <2>9. CASE Remaining(r) # 0
      <3>1. UNCHANGED <<req, sampled, done>>
        BY <2>2, <2>9, <1>6 DEF Apply
      <3>2. Asking' = Asking
        BY <2>1, <2>5, <2>7, <2>9 DEF Asking
      <3> QED BY <3>1, <3>2, <2>1, <2>8 DEF SamplesLeft, Remaining, NumTokens, Tokens
    <2>10. CASE Remaining(r) = 0
      <3>1. sampled # <<>> /\ sampled' = Tail(sampled) /\ Accept(r, Head(sampled))
        BY <2>2, <2>10, <1>6 DEF Apply
      <3>2. Asking = Asking' \cup {at} /\ at \notin Asking'
        BY <2>1, <2>5, <2>7, <2>10 DEF Asking
      <3>3. Cardinality(Asking) = Cardinality(Asking') + 1 /\ Cardinality(Asking') \in Nat
        BY <3>2, <2>6, FS_AddElement, FS_CardinalityType
      <3>4. Len(sampled') = Len(sampled) - 1
        BY <3>1, <1>0
      <3>5. Len(sampled') = Cardinality(Asking')
        BY <3>3, <3>4, <2>8
      <3>6. ASSUME NEW i \in at + 1 .. Len(batch)
            PROVE  /\ Remaining(batch[i].r)' = 0 <=> batch[i].sample
                   /\ batch[i].r \notin ToSet(done')
        <4>1. i \in 1 .. Len(batch) /\ i # at
          BY <2>3, <1>0
        <4>2. PICK g : g = batch[i].r
          OBVIOUS
        <4>3. g # r /\ g \in Req
          BY <4>1, <4>2, <2>1, <2>2, <2>3, <1>0, BatchEntry DEF BatchOwned, InStep
        <4>4. req' = [req EXCEPT ![r].output = Append(req[r].output, Head(sampled))]
          BY <3>1 DEF Accept
        <4>5. req'[g] = req[g]
          BY <4>3, <4>4, <2>4, <1>0 DEF SchedTypeOK
        <4>6. Remaining(g)' = Remaining(g)
          BY <4>5, SameTokens DEF Remaining
        <4>7. done' = done \/ done' = Append(done, r)
          BY <3>1 DEF Accept
        <4>8. ToSet(Append(done, r)) = ToSet(done) \cup {r}
          BY <2>4, <1>0, AppendQueue
        <4>9. g \notin ToSet(done')
          BY <4>2, <4>3, <4>7, <4>8, <2>8
        <4>10. Remaining(g)' = 0 <=> batch[i].sample
          BY <4>2, <4>6, <2>8
        <4> QED BY <4>2, <4>9, <4>10, <2>1 DEF Remaining, NumTokens, Tokens
      <3> QED BY <3>5, <3>6, <2>1 DEF SamplesLeft, Remaining, NumTokens, Tokens
    <2> QED BY <2>9, <2>10
  <1>7. CASE \/ Drain \/ Admit \/ StartStep \/ DropWaiting \/ DropRunning \/ Fill
             \/ AcquireHit \/ AcquireEnd \/ FillEnd
    BY <1>1, <1>7 DEF Drain, Admit, StartStep, DropWaiting, DropRunning, Fill, AcquireHit,
             AcquireEnd, FillEnd
  <1>8. CASE StartBuild \/ Pick \/ PickEnd \/ GrowAlloc \/ Preempt \/ GrowFail \/ AddRequest
    BY <1>1, <1>8 DEF StartBuild, Pick, Picking, PickEnd, GrowAlloc, Preempt,
             GrowFail, Growing, AddRequest
  <1>9. CASE CacheBlock
    <2>1. pc = "cache" /\ pc' = pc
      BY <1>9 DEF CacheBlock
    <2> QED BY <2>1, <1>1
  <1>10. CASE ApplyEnd \/ CacheNext \/ CacheEnd \/ Retire \/ StepEnd
    BY <1>1, <1>10 DEF ApplyEnd, CacheNext, CacheEnd, Retire, StepEnd
  <1> QED BY <1>3, <1>4, <1>5, <1>6, <1>7, <1>8, <1>9, <1>10, Faultless DEF Next, Engine

(* Every step keeps the control of the engine thread in order. *)
LEMMA ControlStep ==
    ASSUME SchedInv, SchedInv', StepInv, DataInv, [Next]_vars, Preempt => Lone
    PROVE  StepInv'
  <1>1. pc' # "crash"
    <2>0. pc # "crash"
      BY DEF StepInv
    <2>1. CASE (\E q \in Req : Submit(q)) \/ (\E q \in MayCancel : Cancel(q)) \/ UNCHANGED vars
      BY <2>0, <2>1 DEF Submit, Cancel, vars
    <2>2. CASE \/ Drain \/ Admit \/ StartStep \/ FreeMore \/ DropWaiting \/ DropRunning \/ Fill
               \/ AcquireHit \/ AcquireEnd \/ FillEnd
      BY <2>0, <2>2 DEF Drain, Admit, StartStep, FreeMore, DropWaiting, DropRunning, Fill,
             AcquireHit, AcquireEnd, FillEnd
    <2>3. CASE StartBuild \/ Pick \/ PickEnd \/ GrowAlloc \/ Preempt \/ GrowFail \/ AddRequest
               \/ Forward
      BY <2>0, <2>3 DEF StartBuild, Pick, Picking, PickEnd, GrowAlloc, Preempt,
             GrowFail, Growing, AddRequest, Forward
    <2>4. CASE CacheBlock
      BY <2>0, <2>4 DEF CacheBlock
    <2>5. CASE Apply \/ ApplyEnd \/ CacheNext \/ CacheEnd \/ Retire \/ StepEnd
      BY <2>0, <2>5 DEF Apply, ApplyEnd, CacheNext, CacheEnd, Retire, StepEnd
    <2> QED BY <2>1, <2>2, <2>3, <2>4, <2>5, Faultless DEF Next, Engine
  <1> QED BY <1>1, BatchOwnedStep, BatchFreshStep, OrderFreshStep, SamplesLeftStep, DoneRunsStep,
             FreesApartStep, AcquiredIsPrefixStep DEF StepInv
-----------------------------------------------------------------------------
(* What a client was told, step by step *)

(* A queue is only entered from Submit or from another queue, and a        *)
(* request that leaves running_ for another queue was preempted.           *)
LEMMA QueueMoves ==
    ASSUME SchedInv, [Next]_vars
    PROVE  /\ submitted \subseteq submitted'
           /\ \A r \in submitted : r \in Queued' => r \in Queued
           /\ \A r \in ToSet(running) : r \in Queued' => r \in ToSet(running') \/ Preempt
  <1>0. /\ SchedTypeOK /\ QueuesApart /\ QueueInv
        /\ inbound \in Seq(Req) /\ incoming \in Seq(Req)
        /\ waiting \in Seq(Req) /\ running \in Seq(Req)
    BY DEF SchedInv, SchedTypeOK, QueueInv, QueueTypes
  <1> DEFINE Goal == /\ submitted \subseteq submitted'
                     /\ \A r \in submitted : r \in Queued' => r \in Queued
                     /\ \A r \in ToSet(running) : r \in Queued' => r \in ToSet(running') \/ Preempt
  <1>1. ASSUME UNCHANGED <<queues, submitted>> PROVE Goal
    BY <1>1 DEF Queued, queues
  <1>2. ASSUME NEW v, ToSet(running') = ToSet(running) \ {v},
               UNCHANGED <<submitted, inbound, incoming, waiting>>
        PROVE  Goal
    BY <1>0, <1>2 DEF Queued, QueuesApart
  <1>3. ASSUME NEW q \in Req, Submit(q) PROVE Goal
    <2>1. /\ q \notin submitted /\ submitted' = submitted \cup {q} /\ inbound' = Append(inbound, q)
          /\ UNCHANGED <<incoming, waiting, running>>
      BY <1>3 DEF Submit
    <2>2. ToSet(inbound') = ToSet(inbound) \cup {q}
      BY <2>1, <1>0, AppendQueue
    <2> QED BY <2>1, <2>2 DEF Queued
  <1>4. CASE (\E q \in MayCancel : Cancel(q)) \/ UNCHANGED vars
    BY <1>1, <1>4 DEF Cancel, vars, inputs
  <1>5. CASE Drain
    <2>1. incoming' = inbound /\ inbound' = <<>> /\ UNCHANGED <<submitted, waiting, running>>
      BY <1>5 DEF Drain, inputs
    <2>2. ToSet(inbound') = {}
      BY <2>1 DEF ToSet
    <2> QED BY <2>1, <2>2 DEF Queued
  <1>6. CASE Admit
    <2>1. /\ incoming # <<>> /\ incoming' = Tail(incoming)
          /\ UNCHANGED <<submitted, inbound, running>>
          /\ waiting' \in {waiting, Append(waiting, Head(incoming))}
      BY <1>6 DEF Admit, inputs
    <2>2. Head(incoming) \in Req /\ Head(incoming) \in ToSet(incoming)
          /\ ToSet(incoming') \subseteq ToSet(incoming)
      BY <2>1, <1>0, TailQueue
    <2>3. ToSet(waiting') \subseteq ToSet(waiting) \cup {Head(incoming)}
      <3>1. ToSet(Append(waiting, Head(incoming))) = ToSet(waiting) \cup {Head(incoming)}
        BY <2>2, <1>0, AppendQueue
      <3> QED BY <3>1, <2>1
    <2> QED BY <2>1, <2>2, <2>3 DEF Queued
  <1>7. CASE DropWaiting
    <2>1. UNCHANGED <<submitted, inbound, incoming, running>>
      BY <1>7 DEF DropWaiting, inputs
    <2>2. ToSet(waiting') \subseteq ToSet(waiting)
      <3>1. CASE waiting' = waiting
        BY <3>1
      <3>2. CASE at <= Len(waiting) /\ waiting' = RemoveAt(waiting, at)
        <4>1. at \in 1 .. Len(waiting)
          BY <3>2, <1>0 DEF SchedTypeOK
        <4> QED BY <4>1, <3>2, <1>0, EraseQueue DEF QueuesApart
      <3> QED BY <3>1, <3>2, <1>7 DEF DropWaiting
    <2> QED BY <2>1, <2>2 DEF Queued
  <1>8. CASE DropRunning
    <2>1. UNCHANGED <<submitted, inbound, incoming, waiting>>
      BY <1>8 DEF DropRunning, inputs
    <2>2. CASE running' = running
      BY <2>1, <2>2, <1>1 DEF queues
    <2>3. CASE at <= Len(running) /\ running' = RemoveAt(running, at)
      <3>1. at \in 1 .. Len(running)
        BY <2>3, <1>0 DEF SchedTypeOK
      <3>2. ToSet(running') = ToSet(running) \ {running[at]}
        BY <3>1, <2>3, <1>0, EraseQueue DEF QueuesApart
      <3> QED BY <3>2, <2>1, <1>2
    <2> QED BY <2>2, <2>3, <1>8 DEF DropRunning
  <1>9. ASSUME waiting # <<>>, ToRunning, UNCHANGED <<submitted, inbound, incoming>> PROVE Goal
    <2>1. /\ Head(waiting) \in Req /\ Head(waiting) \in ToSet(waiting)
          /\ ToSet(waiting') \subseteq ToSet(waiting)
      BY <1>0, <1>9, TailQueue DEF ToRunning
    <2>2. ToSet(running') = ToSet(running) \cup {Head(waiting)}
      BY <2>1, <1>0, <1>9, AppendQueue DEF ToRunning
    <2> QED BY <2>1, <2>2, <1>9 DEF Queued
  <1>10. CASE Fill
    BY <1>1, <1>9, <1>10 DEF Fill, MayFill, inputs, queues
  <1>11. CASE AcquireEnd
    <2>1. waiting # <<>>
      BY <1>11 DEF AcquireEnd, SchedInv, TablesOwned
    <2> QED BY <2>1, <1>9, <1>11 DEF AcquireEnd, inputs
  <1>12. CASE Preempt
    <2>1. PICK k, v : k = Max(Others) /\ v = running[k]
      OBVIOUS
    <2>2. /\ running' = RemoveAt(running, k) /\ Others # {} /\ waiting' = <<v>> \o waiting
          /\ UNCHANGED <<submitted, inbound, incoming>>
      BY <2>1, <1>12 DEF Preempt, inputs
    <2>3. k \in 1 .. Len(running)
      BY <2>1, <2>2, <1>0, VictimRuns
    <2>4. v \in Req /\ v \in ToSet(running) /\ ToSet(running') \subseteq ToSet(running)
      BY <2>1, <2>2, <2>3, <1>0, EraseQueue DEF QueuesApart
    <2>5. ToSet(waiting') = ToSet(waiting) \cup {v}
      BY <2>2, <2>4, <1>0, PushFrontQueue
    <2> QED BY <2>2, <2>4, <2>5, <1>12 DEF Queued
  <1>13. CASE GrowFail \/ Retire
    <2>1. PICK v : running' = RemoveFirst(running, v)
      BY <1>13 DEF GrowFail, Retire
    <2>2. ToSet(running') = ToSet(running) \ {v}
      BY <2>1, <1>0, RemoveFirstQueue DEF QueuesApart
    <2>3. UNCHANGED <<submitted, inbound, incoming, waiting>>
      BY <1>13 DEF GrowFail, Retire, inputs
    <2> QED BY <2>2, <2>3, <1>2
  <1>14. CASE StartStep \/ FreeMore \/ AcquireHit \/ FillEnd
    BY <1>1, <1>14 DEF StartStep, FreeMore, AcquireHit, FillEnd, inputs
  <1>15. CASE StartBuild \/ Pick \/ PickStale \/ PickEnd \/ GrowAlloc \/ AddRequest \/ Forward
    BY <1>1, <1>15 DEF StartBuild, Pick, PickStale, PickEnd, GrowAlloc, AddRequest, Forward,
           Crash, inputs
  <1>16. CASE Apply \/ ApplyPastEnd \/ ApplyEnd
    BY <1>1, <1>16 DEF Apply, ApplyPastEnd, ApplyEnd, Crash, inputs
  <1>17. CASE CacheBlock
    <2>1. UNCHANGED <<inputs, queues>>
      BY <1>17 DEF CacheBlock
    <2> QED BY <2>1, <1>1 DEF inputs
  <1>18. CASE CacheBlockPastEnd \/ CacheNext \/ CacheEnd \/ StepEnd
    BY <1>1, <1>18 DEF CacheBlockPastEnd, CacheNext, CacheEnd, StepEnd, Crash, inputs
  <1> QED BY <1>3, <1>4, <1>5, <1>6, <1>7, <1>8, <1>10, <1>11, <1>12, <1>13, <1>14, <1>15,
             <1>16, <1>17, <1>18 DEF Next, Engine

(* The engine changes a request only while it runs. *)
LEMMA IdleKept ==
    ASSUME SchedInv, StepInv, DataInv, [Next]_vars,
           NEW r \in Req, r \notin ToSet(running), r \notin ToSet(running')
    PROVE  req'[r].computed = req[r].computed /\ req'[r].cached_blocks = req[r].cached_blocks
           /\ req'[r].last_hash = req[r].last_hash
  <1>0. SchedTypeOK /\ req \in [Req -> RequestType] /\ running \in Seq(Req) /\ batch \in Seq(EntryType)
    BY DEF SchedInv, SchedTypeOK
  <1>1. CASE req' = req
    BY <1>1
  <1>2. ASSUME NEW v, v # r, NEW q, req' = [req EXCEPT ![v] = q]
        PROVE  req'[r] = req[r]
    BY <1>0, <1>2
  <1>3. ASSUME InStep, NEW i \in 1 .. Len(batch) PROVE batch[i].r # r
    BY <1>3, StepEntry DEF StepInv
  <1>4. CASE AcquireEnd
    <2>1. PICK x, nb : x = Head(waiting) /\ nb = Len(table[x])
      OBVIOUS
    <2>2. waiting # <<>> /\ waiting \in Seq(Req)
      BY <1>0, <1>4 DEF AcquireEnd, SchedInv, TablesOwned, SchedTypeOK
    <2>3. ToSet(running') = ToSet(running) \cup {x}
      BY <2>1, <2>2, <1>0, <1>4, TailQueue, AppendQueue DEF AcquireEnd, ToRunning
    <2>4. x # r
      BY <2>3
    <2>5. req' = req \/ \E q : req' = [req EXCEPT ![x] = q]
      BY <2>1, <1>4 DEF AcquireEnd
    <2> QED BY <2>4, <2>5, <1>1, <1>2
  <1>5. CASE Preempt
    <2>1. PICK k, v : k = Max(Others) /\ v = running[k]
      OBVIOUS
    <2>2. req' = [req EXCEPT ![v] = ResetForRecompute(req[v])] /\ Others # {}
      BY <2>1, <1>5 DEF Preempt
    <2>3. k \in 1 .. Len(running)
      BY <2>1, <2>2, VictimRuns DEF SchedInv, SchedTypeOK, QueueInv, QueueTypes
    <2>4. v # r
      BY <2>1, <2>3, <1>0 DEF ToSet
    <2> QED BY <2>2, <2>4, <1>2
  <1>6. CASE AddRequest
    <2>1. PICK v \in Req, n \in Nat \ {0}, m \in Nat :
             /\ v \in ToSet(running)
             /\ req' = [req EXCEPT ![v] = [req[v] EXCEPT !.num_new = n]]
      BY <1>6, AddsEntry
    <2> QED BY <2>1, <1>2
  <1>7. CASE Forward
    <2>1. pc = "forward" /\ InStep
      BY <1>7 DEF Forward, InStep
    <2>2. \A i \in DOMAIN batch : batch[i].r # r
      BY <2>1, <1>0, <1>3
    <2> QED BY <2>2, <1>7, ForwardMoves
  <1>8. CASE Apply
    <2>1. pc = "apply" /\ at <= Len(batch) /\ InStep
      BY <1>8 DEF Apply, InStep
    <2>2. at \in 1 .. Len(batch)
      BY <2>1, <1>0 DEF SchedTypeOK
    <2>3. batch[at].r # r
      BY <2>1, <2>2, <1>3
    <2>4. req' = req \/ \E t : Accept(batch[at].r, t)
      BY <1>8 DEF Apply
    <2>5. CASE \E t : Accept(batch[at].r, t)
      <3>1. PICK v, o : v = batch[at].r /\ req' = [req EXCEPT ![v].output = o]
        BY <2>5 DEF Accept
      <3>2. req'[r] = req[r]
        BY <3>1, <2>3, <1>0
      <3> QED BY <3>2
    <2> QED BY <2>4, <2>5, <1>1
  <1>9. CASE CacheBlock
    <2>1. PICK x \in ToSet(running), i \in Nat : Names(x, i)
      BY <1>9, CacheBlockStep
    <2> QED BY <2>1, <1>2 DEF Names
  <1>10. CASE CacheNext
    BY <1>1, <1>10, CacheNextKeeps
  <1>11. CASE (\E q \in Req : Submit(q)) \/ (\E q \in MayCancel : Cancel(q)) \/ UNCHANGED vars
    BY <1>1, <1>11 DEF Submit, Cancel, vars
  <1>12. CASE \/ Drain \/ Admit \/ StartStep \/ FreeMore \/ DropWaiting \/ DropRunning \/ Fill
              \/ AcquireHit \/ FillEnd
    BY <1>1, <1>12 DEF Drain, Admit, StartStep, FreeMore, DropWaiting, DropRunning, Fill,
           AcquireHit, FillEnd
  <1>13. CASE \/ StartBuild \/ Pick \/ PickEnd \/ GrowAlloc \/ GrowFail
              \/ ApplyEnd \/ CacheEnd \/ Retire \/ StepEnd
    BY <1>1, <1>13 DEF StartBuild, Pick, PickEnd, GrowAlloc, GrowFail, ApplyEnd, CacheEnd, Retire,
           StepEnd
  <1> QED BY <1>4, <1>5, <1>6, <1>7, <1>8, <1>9, <1>10, <1>11, <1>12, <1>13, Faultless
          DEF Next, Engine

(* A request that waits starts from the beginning, preempted or new. *)
LEMMA WaitingIsResetStep ==
    ASSUME SchedInv, StepInv, DataInv, StreamInv, [Next]_vars
    PROVE  WaitingIsReset'
  <1>0. WaitingIsReset /\ QueuesApart /\ running \in Seq(Req) /\ req \in [Req -> RequestType]
    BY DEF StreamInv, SchedInv, SchedTypeOK
  <1>1. ASSUME NEW r \in Req, r \notin ToSet(running'), Pending(r)'
        PROVE  req'[r].computed = 0 /\ req'[r].cached_blocks = 0 /\ req'[r].last_hash = NoHash
    <2>1. Pending(r)
      BY <1>1, QueueMoves DEF Pending
    <2>2. CASE r \notin ToSet(running)
      BY <2>1, <2>2, <1>0, <1>1, IdleKept DEF WaitingIsReset
    <2>3. CASE r \in ToSet(running)
      <3>1. r \in submitted
        BY <2>3, <1>0 DEF QueuesApart
      <3>2. Preempt
        BY <3>1, <2>3, <1>1, QueueMoves DEF Pending
      <3>3. PICK k, v : k = Max(Others) /\ v = running[k]
        OBVIOUS
      <3>4. /\ req' = [req EXCEPT ![v] = ResetForRecompute(req[v])] /\ Others # {}
            /\ running' = RemoveAt(running, k)
        BY <3>2, <3>3 DEF Preempt
      <3>5. k \in 1 .. Len(running)
        BY <3>3, <3>4, VictimRuns DEF SchedInv, SchedTypeOK, QueueInv, QueueTypes
      <3>6. ToSet(running') = ToSet(running) \ {v}
        BY <3>3, <3>4, <3>5, <1>0, EraseQueue DEF QueuesApart
      <3>7. r = v
        BY <3>6, <2>3, <1>1
      <3>8. req[r] \in RequestType
        BY <1>0
      <3> QED BY <3>4, <3>7, <3>8, <1>0 DEF ResetForRecompute, RequestType
    <2> QED BY <2>2, <2>3
  <1> QED BY <1>1 DEF WaitingIsReset

(* A request is told something when it fails, which ends it, or when Apply *)
(* accepts its sampled token.                                              *)
Fails(r) ==
    /\ sink' = [sink EXCEPT ![r] = Append(sink[r], ErrorEvent)]
    /\ r \in submitted' /\ r \notin Queued'
    /\ \A g \in Req : req'[g].output = req[g].output
Quiet == sink' = sink /\ \A g \in Req : req'[g].output = req[g].output

(* Every step is silent, fails a request or accepts a token of a request   *)
(* that is not finished.                                                   *)
LEMMA StreamKinds ==
    ASSUME SchedInv, StepInv, DataInv, [Next]_vars
    PROVE  \/ Quiet
           \/ \E r \in Req : Live(r) /\ Fails(r)
           \/ \E r \in Req, t \in Token : Live(r) /\ r \in submitted' /\ Accept(r, t)
  <1>0. /\ SchedTypeOK /\ QueuesApart /\ DoneRuns /\ req \in [Req -> RequestType]
        /\ incoming \in Seq(Req) /\ running \in Seq(Req) /\ batch \in Seq(EntryType)
        /\ submitted \subseteq submitted'
    BY QueueMoves DEF SchedInv, StepInv, SchedTypeOK
  <1>1. ASSUME sink' = sink, req' = req PROVE Quiet
    BY <1>1 DEF Quiet
  <1>2. ASSUME NEW v \in Req, NEW q, req' = [req EXCEPT ![v] = q], q.output = req[v].output,
               sink' = sink
        PROVE  Quiet
    BY <1>0, <1>2 DEF Quiet
  <1>3. CASE Admit
    <2>1. CASE sink' = sink
      BY <2>1, <1>1, <1>3 DEF Admit
    <2>2. CASE Full
      <3>1. PICK r : r = Head(incoming)
        OBVIOUS
      <3>2. /\ incoming # <<>> /\ incoming' = Tail(incoming) /\ pc = "admit"
            /\ sink' = [sink EXCEPT ![r] = Append(sink[r], ErrorEvent)] /\ req' = req
            /\ UNCHANGED <<inbound, waiting, running>>
        BY <3>1, <2>2, <1>3 DEF Admit, Emit
      <3>3. r \in Req /\ r \in ToSet(incoming) /\ ToSet(incoming') = ToSet(incoming) \ {r}
        BY <3>1, <3>2, <1>0, TailQueue DEF QueuesApart
      <3>4. r \notin Queued' /\ r \in submitted /\ r \in Queued
        BY <3>2, <3>3, <1>0 DEF Queued, QueuesApart
      <3>5. done = <<>>
        BY <3>2, <1>0 DEF DoneRuns
      <3>6. Live(r)
        BY <3>4, <3>5 DEF Live, ToSet
      <3>7. Fails(r)
        BY <3>2, <3>4, <1>0 DEF Fails
      <3> QED BY <3>3, <3>6, <3>7
    <2> QED BY <2>1, <2>2, <1>3 DEF Admit
  <1>4. CASE GrowFail
    <2>1. PICK r : r = cur[1]
      OBVIOUS
    <2>2. /\ pc = "grow" /\ sink' = [sink EXCEPT ![r] = Append(sink[r], ErrorEvent)] /\ req' = req
          /\ running' = RemoveFirst(running, r) /\ UNCHANGED <<inbound, incoming, waiting>>
      BY <2>1, <1>4 DEF GrowFail, Growing, Emit
    <2>3. r \in Req /\ r \in ToSet(running)
      BY <2>1, <2>2, <1>0 DEF SchedInv, TablesOwned, SchedTypeOK
    <2>4. ToSet(running') = ToSet(running) \ {r}
      BY <2>2, <1>0, RemoveFirstQueue DEF QueuesApart
    <2>5. r \notin Queued' /\ r \in submitted /\ r \in Queued
      BY <2>2, <2>3, <2>4, <1>0 DEF Queued, QueuesApart
    <2>6. done = <<>>
      BY <2>2, <1>0 DEF DoneRuns
    <2>7. Live(r)
      BY <2>5, <2>6 DEF Live, ToSet
    <2>8. Fails(r)
      BY <2>2, <2>5, <1>0 DEF Fails
    <2> QED BY <2>3, <2>7, <2>8
  <1>5. CASE Apply
    <2>1. pc = "apply" /\ at <= Len(batch) /\ InStep
      BY <1>5 DEF Apply, InStep
    <2>2. PICK r, t : r = batch[at].r /\ t = Head(sampled)
      OBVIOUS
    <2>3. at \in 1 .. Len(batch) /\ at \in at .. Len(batch)
      BY <2>1, <1>0 DEF SchedTypeOK
    <2>4. r \in Req /\ r \in ToSet(running)
      BY <2>1, <2>2, <2>3, StepEntry DEF StepInv
    <2>5. r \notin ToSet(done)
      BY <2>1, <2>2, <2>3 DEF StepInv, SamplesLeft
    <2>6. r \in submitted /\ r \in Queued
      BY <2>4, <1>0 DEF QueuesApart, Queued
    <2>7. CASE sink' = sink /\ req' = req
      BY <2>7, <1>1
    <2>8. CASE sampled # <<>> /\ Accept(r, t)
      <3>1. t \in Token
        BY <2>2, <2>8, <1>0 DEF SchedTypeOK
      <3>2. Live(r) /\ r \in submitted'
        BY <2>5, <2>6, <1>0 DEF Live
      <3> QED BY <3>1, <3>2, <2>4, <2>8
    <2> QED BY <2>2, <2>7, <2>8, <1>5 DEF Apply
  <1>6. CASE AcquireEnd
    <2>1. PICK x, nb : x = Head(waiting) /\ nb = Len(table[x])
      OBVIOUS
    <2>2. waiting # <<>> /\ waiting \in Seq(Req)
      BY <1>0, <1>6 DEF AcquireEnd, SchedInv, TablesOwned, SchedTypeOK
    <2>3. x \in Req
      BY <2>1, <2>2
    <2>4. sink' = sink /\ (req' = req \/ req' = [req EXCEPT ![x] = AdoptPrefix(req[x], nb, PrefixHash(x, nb))])
      BY <2>1, <1>6 DEF AcquireEnd
    <2>5. AdoptPrefix(req[x], nb, PrefixHash(x, nb)).output = req[x].output
      <3>1. req[x] \in RequestType
        BY <2>3, <1>0
      <3> QED BY <3>1 DEF AdoptPrefix, RequestType
    <2> QED BY <2>3, <2>4, <2>5, <1>1, <1>2
  <1>7. CASE Preempt
    <2>1. PICK k, v : k = Max(Others) /\ v = running[k]
      OBVIOUS
    <2>2. req' = [req EXCEPT ![v] = ResetForRecompute(req[v])] /\ Others # {} /\ sink' = sink
      BY <2>1, <1>7 DEF Preempt
    <2>3. k \in 1 .. Len(running)
      BY <2>1, <2>2, VictimRuns DEF SchedInv, SchedTypeOK, QueueInv, QueueTypes
    <2>4. v \in Req
      BY <2>1, <2>3, <1>0
    <2>5. ResetForRecompute(req[v]).output = req[v].output
      <3>1. req[v] \in RequestType
        BY <2>4, <1>0
      <3> QED BY <3>1 DEF ResetForRecompute, RequestType
    <2> QED BY <2>2, <2>4, <2>5, <1>2
  <1>8. CASE AddRequest
    <2>1. PICK v \in Req, n \in Nat \ {0}, m \in Nat :
             req' = [req EXCEPT ![v] = [req[v] EXCEPT !.num_new = n]]
      BY <1>8, AddsEntry
    <2>2. sink' = sink
      BY <1>8 DEF AddRequest
    <2>3. [req[v] EXCEPT !.num_new = n].output = req[v].output
      <3>1. req[v] \in RequestType
        BY <1>0
      <3> QED BY <3>1 DEF RequestType
    <2> QED BY <2>1, <2>2, <2>3, <1>2
  <1>9. CASE Forward
    <2>1. sink' = sink
      BY <1>9 DEF Forward
    <2> QED BY <2>1, <1>9, ForwardMoves DEF Quiet
  <1>10. CASE CacheBlock
    <2>1. PICK x \in ToSet(running), i \in Nat : Names(x, i)
      BY <1>10, CacheBlockStep
    <2>2. sink' = sink
      BY <1>10 DEF CacheBlock
    <2>3. x \in Req
      BY RunningReq
    <2>4. [req[x] EXCEPT !.cached_blocks = i + 1, !.last_hash = PrefixHash(x, i + 1)].output
             = req[x].output
      <3>1. req[x] \in RequestType
        BY <2>3, <1>0
      <3> QED BY <3>1 DEF RequestType
    <2> QED BY <2>1, <2>2, <2>3, <2>4, <1>2 DEF Names
  <1>11. CASE CacheNext
    <2>1. req' = req
      BY <1>11, CacheNextKeeps
    <2> QED BY <2>1, <1>1, <1>11 DEF CacheNext
  <1>12. CASE (\E q \in Req : Submit(q)) \/ (\E q \in MayCancel : Cancel(q)) \/ UNCHANGED vars
    BY <1>1, <1>12 DEF Submit, Cancel, vars
  <1>13. CASE \/ Drain \/ StartStep \/ FreeMore \/ DropWaiting \/ DropRunning \/ Fill
              \/ AcquireHit \/ FillEnd
    BY <1>1, <1>13 DEF Drain, StartStep, FreeMore, DropWaiting, DropRunning, Fill,
           AcquireHit, FillEnd
  <1>14. CASE \/ StartBuild \/ Pick \/ PickEnd \/ GrowAlloc
              \/ ApplyEnd \/ CacheEnd \/ Retire \/ StepEnd
    BY <1>1, <1>14 DEF StartBuild, Pick, PickEnd, GrowAlloc, ApplyEnd, CacheEnd, Retire, StepEnd
  <1> QED BY <1>3, <1>4, <1>5, <1>6, <1>7, <1>8, <1>9, <1>10, <1>11, <1>12, <1>13, <1>14,
             Faultless DEF Next, Engine

(* No request comes back once it is finished or gone. *)
LEMMA LiveBefore ==
    ASSUME SchedInv, StepInv, DataInv, [Next]_vars, NEW r \in Req, Live(r)'
    PROVE  Live(r)
  <1>0. SchedTypeOK /\ QueuesApart /\ DoneRuns /\ running \in Seq(Req) /\ done \in Seq(Req)
    BY DEF SchedInv, StepInv, SchedTypeOK
  <1>1. SUFFICES ASSUME r \in submitted PROVE r \in Queued /\ r \notin ToSet(done)
    BY DEF Live
  <1>2. r \in Queued' /\ r \notin ToSet(done') /\ r \in Queued
    BY <1>1, QueueMoves DEF Live
  <1>3. CASE ToSet(done) \subseteq ToSet(done')
    BY <1>2, <1>3
  <1>4. CASE Retire
    <2>1. /\ done # <<>> /\ done' = Tail(done) /\ running' = RemoveFirst(running, Head(done))
          /\ UNCHANGED <<inbound, incoming, waiting>>
      BY <1>4 DEF Retire
    <2>2. ToSet(done') = ToSet(done) \ {Head(done)} /\ Head(done) \in ToSet(done)
      BY <2>1, <1>0, TailQueue DEF DoneRuns
    <2>3. ToSet(running') = ToSet(running) \ {Head(done)} /\ Head(done) \in ToSet(running)
      BY <2>1, <2>2, <1>0, RemoveFirstQueue DEF QueuesApart, DoneRuns
    <2>4. Head(done) \notin Queued'
      BY <2>1, <2>3, <1>0 DEF Queued, QueuesApart
    <2> QED BY <2>2, <2>4, <1>2
  <1>5. CASE Apply
    <2>1. done' = done \/ done' = Append(done, batch[at].r)
      BY <1>5 DEF Apply, Accept
    <2>2. at <= Len(batch)
      BY <1>5 DEF Apply
    <2>3. at \in 1 .. Len(batch)
      BY <2>2, <1>0 DEF SchedTypeOK
    <2>4. batch[at].r \in Req
      BY <2>3, <1>0, BatchEntry
    <2>5. ToSet(Append(done, batch[at].r)) = ToSet(done) \cup {batch[at].r}
      BY <2>4, <1>0, AppendQueue
    <2> QED BY <2>1, <2>5, <1>3
  <1>6. ASSUME done' = done PROVE r \notin ToSet(done)
    BY <1>2, <1>6
  <1>7. CASE (\E q \in Req : Submit(q)) \/ (\E q \in MayCancel : Cancel(q)) \/ UNCHANGED vars
    BY <1>2, <1>6, <1>7 DEF Submit, Cancel, vars, result
  <1>8. CASE \/ Drain \/ Admit \/ StartStep \/ FreeMore \/ DropWaiting \/ DropRunning \/ Fill
              \/ AcquireHit \/ AcquireEnd \/ FillEnd
    BY <1>2, <1>6, <1>8 DEF Drain, Admit, StartStep, FreeMore, DropWaiting, DropRunning, Fill,
           AcquireHit, AcquireEnd, FillEnd, result
  <1>9. CASE \/ StartBuild \/ Pick \/ PickEnd \/ GrowAlloc \/ Preempt \/ GrowFail \/ AddRequest
             \/ Forward
    BY <1>2, <1>6, <1>9 DEF StartBuild, Pick, PickEnd, GrowAlloc, Preempt, GrowFail, AddRequest,
           Forward, result
  <1>10. CASE CacheBlock
    <2>1. UNCHANGED result
      BY <1>10 DEF CacheBlock
    <2> QED BY <2>1, <1>2, <1>6 DEF result
  <1>11. CASE ApplyEnd \/ CacheNext \/ CacheEnd \/ StepEnd
    BY <1>2, <1>6, <1>11 DEF ApplyEnd, CacheNext, CacheEnd, StepEnd, result
  <1> QED BY <1>4, <1>5, <1>7, <1>8, <1>9, <1>10, <1>11, Faultless DEF Next, Engine

(* What TerminalIsLast says of one stream. *)
EndsOnce(s) ==
    \A i \in DOMAIN s : Terminal(s[i]) =>
        /\ i = Len(s)
        /\ s[i].kind = "done" =>
              s[i].completion_tokens = Cardinality({j \in 1 .. i - 1 : s[j].token \notin StopIds})

(* A stream of tokens has no end in it. *)
LEMMA StreamOfTokens ==
    ASSUME NEW o \in Seq(Token), NEW e, NEW f
    PROVE  /\ \E E : TokenEvents(o) \in Seq(E) /\ e \in E /\ f \in E
           /\ Len(TokenEvents(o)) = Len(o)
           /\ \A i \in 1 .. Len(o) : /\ TokenEvents(o)[i].token = o[i]
                                     /\ ~Terminal(TokenEvents(o)[i])
  <1>1. PICK s, n : s = TokenEvents(o) /\ n = Len(o)
    OBVIOUS
  <1>2. n \in Nat /\ s = [i \in 1 .. n |-> TokenEvent(o[i])]
    BY <1>1 DEF TokenEvents
  <1>3. PICK E : E = {s[i] : i \in 1 .. n} \cup {e, f}
    OBVIOUS
  <1>4. s \in Seq(E) /\ Len(s) = n
    <2>1. s = [i \in 1 .. n |-> s[i]]
      BY <1>2
    <2>2. \A i \in 1 .. n : s[i] \in E
      BY <1>3
    <2> QED BY <2>1, <2>2, <1>2, MapIsSeq
  <1>5. e \in E /\ f \in E
    BY <1>3
  <1>6. \A i \in 1 .. n : s[i].token = o[i] /\ ~Terminal(s[i])
    BY <1>2 DEF TokenEvent, Terminal
  <1> QED BY <1>1, <1>4, <1>5, <1>6

(* A token or an error after a stream of tokens: nothing ended before. *)
LEMMA StreamGrows ==
    ASSUME NEW o \in Seq(Token), NEW t \in Token
    PROVE  /\ EndsOnce(Append(TokenEvents(o), TokenEvent(t)))
           /\ EndsOnce(Append(TokenEvents(o), ErrorEvent))
           /\ Append(TokenEvents(o), TokenEvent(t)) = TokenEvents(Append(o, t))
  <1>1. PICK s, n, e, f : s = TokenEvents(o) /\ n = Len(o) /\ e = TokenEvent(t) /\ f = ErrorEvent
    OBVIOUS
  <1>2. PICK E : s \in Seq(E) /\ e \in E /\ f \in E
    BY <1>1, StreamOfTokens
  <1>3. n \in Nat /\ Len(s) = n /\ \A i \in 1 .. n : s[i].token = o[i] /\ ~Terminal(s[i])
    BY <1>1, StreamOfTokens
  <1>4. /\ ~Terminal(e) /\ f.kind # "done"
    BY <1>1 DEF TokenEvent, ErrorEvent, Terminal
  <1>5. ASSUME NEW x \in E, x = e \/ x = f PROVE EndsOnce(Append(s, x))
    <2>1. PICK u : u = Append(s, x)
      OBVIOUS
    <2>2. /\ DOMAIN u = 1 .. n + 1 /\ Len(u) = n + 1 /\ u[n + 1] = x
          /\ \A i \in 1 .. n : u[i] = s[i]
      BY <2>1, <1>2, <1>3
    <2>3. \A i \in 1 .. n + 1 : i \in 1 .. n \/ i = n + 1
      BY <1>3
    <2>4. ASSUME NEW i \in DOMAIN u, Terminal(u[i]) PROVE i = Len(u) /\ u[i].kind # "done"
      BY <2>2, <2>3, <2>4, <1>3, <1>4, <1>5
    <2> QED BY <2>1, <2>4 DEF EndsOnce
  <1>6. Append(s, e) = TokenEvents(Append(o, t))
    <2>1. PICK u, w : u = Append(s, e) /\ w = Append(o, t)
      OBVIOUS
    <2>2. /\ u \in Seq(E) /\ Len(u) = n + 1 /\ u[n + 1] = e /\ \A i \in 1 .. n : u[i] = s[i]
      BY <2>1, <1>2, <1>3
    <2>3. w \in Seq(Token) /\ Len(w) = n + 1 /\ w[n + 1] = t /\ \A i \in 1 .. n : w[i] = o[i]
      BY <2>1, <1>1, <1>3
    <2>4. \A i \in 1 .. n : s[i] = TokenEvent(o[i])
      BY <1>1 DEF TokenEvents
    <2>5. \A i \in 1 .. n + 1 : i \in 1 .. n \/ i = n + 1
      BY <1>3
    <2>6. \A i \in 1 .. n + 1 : u[i] = TokenEvent(w[i])
      BY <2>2, <2>3, <2>4, <2>5, <1>1
    <2>7. u = [i \in 1 .. n + 1 |-> u[i]] /\ DOMAIN w = 1 .. n + 1
      BY <2>2, <2>3
    <2>8. u = [i \in DOMAIN w |-> TokenEvent(w[i])]
      BY <2>6, <2>7
    <2> QED BY <2>1, <2>8 DEF TokenEvents
  <1> QED BY <1>1, <1>2, <1>5, <1>6

(* The finish after a stream of tokens that are no stop tokens: it is the  *)
(* last event, and counts the tokens but a stop token.                     *)
LEMMA StreamEnds ==
    ASSUME NEW o \in Seq(Token), NEW t \in Token, \A i \in DOMAIN o : o[i] \notin StopIds
    PROVE  EndsOnce(TokenEvents(o) \o <<TokenEvent(t), DoneEvent(Append(o, t))>>)
  <1>1. PICK s, n, e, w : s = TokenEvents(o) /\ n = Len(o) /\ e = TokenEvent(t) /\ w = Append(o, t)
    OBVIOUS
  <1>2. PICK f : f = DoneEvent(w)
    OBVIOUS
  <1>3. PICK E : s \in Seq(E) /\ e \in E /\ f \in E
    BY <1>1, StreamOfTokens
  <1>4. n \in Nat /\ Len(s) = n /\ \A i \in 1 .. n : s[i].token = o[i] /\ ~Terminal(s[i])
    BY <1>1, StreamOfTokens
  <1>5. ~Terminal(e) /\ e.token = t
    BY <1>1 DEF TokenEvent, Terminal
  <1>6. Len(w) = n + 1 /\ w # <<>> /\ w[n + 1] = t
    BY <1>1
  <1>7. HitStopToken(w) <=> t \in StopIds
    BY <1>6 DEF HitStopToken, Last
  <1>8. f.completion_tokens = IF t \in StopIds THEN n ELSE n + 1
    BY <1>2, <1>4, <1>6, <1>7 DEF DoneEvent
  <1>9. PICK u : u = s \o <<e, f>>
    OBVIOUS
  <1>10. /\ DOMAIN u = 1 .. n + 2 /\ Len(u) = n + 2 /\ u[n + 1] = e /\ u[n + 2] = f
         /\ \A i \in 1 .. n : u[i] = s[i]
    <2>1. PICK d : d = <<e, f>>
      OBVIOUS
    <2>2. d \in Seq(E) /\ Len(d) = 2 /\ d[1] = e /\ d[2] = f
      BY <2>1, <1>3
    <2>3. /\ u \in Seq(E) /\ Len(u) = n + 2
          /\ \A i \in 1 .. n + 2 : u[i] = IF i <= n THEN s[i] ELSE d[i - n]
      BY <2>1, <2>2, <1>3, <1>4, <1>9, ConcatProperties
    <2>4. n + 1 \in 1 .. n + 2 /\ n + 2 \in 1 .. n + 2 /\ (n + 1) - n = 1 /\ (n + 2) - n = 2
          /\ ~(n + 1 <= n) /\ ~(n + 2 <= n)
      BY <1>4
    <2>5. \A i \in 1 .. n : i \in 1 .. n + 2 /\ i <= n
      BY <1>4
    <2> QED BY <2>2, <2>3, <2>4, <2>5
  <1>11. \A i \in 1 .. n + 2 : i \in 1 .. n \/ i = n + 1 \/ i = n + 2
    BY <1>4
  <1>12. \A i \in DOMAIN u : Terminal(u[i]) => i = n + 2
    BY <1>4, <1>5, <1>10, <1>11
  <1>13. f.completion_tokens = Cardinality({j \in 1 .. n + 1 : u[j].token \notin StopIds})
    <2>1. PICK C : C = {j \in 1 .. n + 1 : u[j].token \notin StopIds}
      OBVIOUS
    <2>2. \A j \in 1 .. n : u[j].token \notin StopIds
      BY <1>1, <1>4, <1>10
    <2>3. \A j \in 1 .. n + 1 : j \in 1 .. n \/ j = n + 1
      BY <1>4
    <2>4. CASE t \in StopIds
      <3>1. C = 1 .. n
        <4>1. u[n + 1].token \in StopIds
          BY <2>4, <1>5, <1>10
        <4>2. \A j \in 1 .. n : j \in 1 .. n + 1 /\ j # n + 1
          BY <1>4
        <4> QED BY <4>1, <4>2, <2>1, <2>2, <2>3
      <3>2. Cardinality(1 .. n) = n
        BY <1>4, FS_Interval
      <3> QED BY <3>1, <3>2, <2>1, <2>4, <1>8
    <2>5. CASE t \notin StopIds
      <3>1. C = 1 .. n + 1
        BY <2>1, <2>2, <2>3, <2>5, <1>5, <1>10
      <3>2. Cardinality(1 .. n + 1) = n + 1
        <4>1. n + 1 \in Int /\ ~(1 > n + 1) /\ (n + 1) - 1 + 1 = n + 1
          BY <1>4
        <4> QED BY <4>1, FS_Interval
      <3> QED BY <3>1, <3>2, <2>1, <2>5, <1>8
    <2> QED BY <2>4, <2>5
  <1>14. (n + 2) - 1 = n + 1
    BY <1>4
  <1>15. EndsOnce(u)
    BY <1>10, <1>12, <1>13, <1>14 DEF EndsOnce
  <1> QED BY <1>1, <1>2, <1>9, <1>15

(* A stream that is told nothing stays as it is, and so does its output. *)
LEMMA OtherStreams ==
    ASSUME SchedInv, StreamInv, NEW r \in Req, NEW x \in Req, r # x,
           Fails(x) \/ \E t \in Token : Accept(x, t)
    PROVE  sink'[r] = sink[r] /\ req'[r].output = req[r].output
  <1>0. DOMAIN sink = Req /\ req \in [Req -> RequestType]
    BY DEF StreamInv, SchedInv, SchedTypeOK
  <1>1. CASE Fails(x)
    BY <1>0, <1>1 DEF Fails
  <1>2. CASE \E t \in Token : Accept(x, t)
    <2>1. PICK t \in Token : Accept(x, t)
      BY <1>2
    <2>2. req'[r] = req[r]
      BY <2>1, <1>0 DEF Accept
    <2>3. sink'[r] = sink[r]
      BY <2>1, <1>0 DEF Accept, Emit
    <2> QED BY <2>2, <2>3
  <1> QED BY <1>1, <1>2

(* What Apply's token does to the stream of its request. *)
LEMMA AcceptedStream ==
    ASSUME SchedInv, StreamInv, NEW r \in Req, NEW t \in Token, Live(r), Accept(r, t)
    PROVE  LET o == req[r].output
           IN /\ o \in Seq(Token) /\ req'[r].output = Append(o, t)
              /\ \A i \in DOMAIN o : o[i] \notin StopIds
              /\ IF IsFinished(r, Append(o, t))
                   THEN /\ sink'[r] = TokenEvents(o) \o <<TokenEvent(t), DoneEvent(Append(o, t))>>
                        /\ done' = Append(done, r)
                   ELSE sink'[r] = Append(TokenEvents(o), TokenEvent(t))
  <1>0. DOMAIN sink = Req /\ req \in [Req -> RequestType] /\ Unfinished
    BY DEF StreamInv, SchedInv, SchedTypeOK
  <1>1. PICK o, w : o = req[r].output /\ w = Append(o, t)
    OBVIOUS
  <1>2. o \in Seq(Token)
    BY <1>1, RequestCounts DEF SchedInv
  <1>3. sink[r] = TokenEvents(o) /\ \A i \in DOMAIN o : o[i] \notin StopIds
    BY <1>0, <1>1 DEF Unfinished
  <1>4. req'[r].output = w
    <2>1. req' = [req EXCEPT ![r].output = w]
      BY <1>1 DEF Accept
    <2>2. req[r] \in RequestType
      BY <1>0
    <2> QED BY <2>1, <2>2, <1>0 DEF RequestType
  <1>5. CASE IsFinished(r, w)
    <2>1. sink' = [sink EXCEPT ![r] = sink[r] \o <<TokenEvent(t), DoneEvent(w)>>]
          /\ done' = Append(done, r)
      BY <1>1, <1>5 DEF Accept
    <2> QED BY <2>1, <1>0, <1>1, <1>2, <1>3, <1>4, <1>5
  <1>6. CASE ~IsFinished(r, w)
    <2>1. sink' = [sink EXCEPT ![r] = Append(sink[r], TokenEvent(t))]
      BY <1>1, <1>6 DEF Accept, Emit
    <2> QED BY <2>1, <1>0, <1>1, <1>2, <1>3, <1>4, <1>6
  <1> QED BY <1>5, <1>6

(* A request that is not finished has streamed exactly its output, which   *)
(* has no stop token in it.                                                *)
LEMMA UnfinishedStep ==
    ASSUME SchedInv, StepInv, DataInv, StreamInv, [Next]_vars
    PROVE  Unfinished'
  <1>0. Unfinished /\ SchedTypeOK /\ done \in Seq(Req)
    BY DEF StreamInv, SchedInv, SchedTypeOK
  <1>1. ASSUME NEW r \in Req, Live(r)'
        PROVE  /\ sink'[r] = TokenEvents(req'[r].output)
               /\ \A i \in DOMAIN req'[r].output : req'[r].output[i] \notin StopIds
               /\ req'[r].output # <<>> => ~IsFinished(r, req'[r].output)
    <2>1. Live(r)
      BY <1>1, LiveBefore
    <2>2. /\ sink[r] = TokenEvents(req[r].output)
          /\ \A i \in DOMAIN req[r].output : req[r].output[i] \notin StopIds
          /\ req[r].output # <<>> => ~IsFinished(r, req[r].output)
      BY <2>1, <1>0 DEF Unfinished
    <2>3. CASE sink'[r] = sink[r] /\ req'[r].output = req[r].output
      BY <2>2, <2>3
    <2>4. CASE Quiet
      BY <2>3, <2>4 DEF Quiet
    <2>5. CASE \E x \in Req : Live(x) /\ Fails(x)
      <3>1. PICK x \in Req : Fails(x)
        BY <2>5
      <3>2. x # r
        BY <3>1, <1>1 DEF Fails, Live
      <3> QED BY <3>1, <3>2, <2>3, OtherStreams
    <2>6. CASE \E x \in Req, t \in Token : Live(x) /\ x \in submitted' /\ Accept(x, t)
      <3>1. PICK x \in Req, t \in Token : x \in submitted' /\ Accept(x, t)
        BY <2>6
      <3>2. CASE x # r
        BY <3>1, <3>2, <2>3, OtherStreams
      <3>3. CASE x = r
        <4>1. PICK o, w : o = req[r].output /\ w = Append(o, t)
          OBVIOUS
        <4>2. /\ o \in Seq(Token) /\ req'[r].output = w
              /\ \A i \in DOMAIN o : o[i] \notin StopIds
              /\ IF IsFinished(r, w) THEN done' = Append(done, r)
                 ELSE sink'[r] = Append(TokenEvents(o), TokenEvent(t))
          BY <4>1, <3>1, <3>3, <2>1, AcceptedStream
        <4>3. ~IsFinished(r, w)
          <5>1. ASSUME done' = Append(done, r) PROVE FALSE
            <6>1. r \in ToSet(done')
              BY <5>1, <1>0, AppendQueue
            <6> QED BY <6>1, <3>1, <3>3, <1>1 DEF Live
          <5> QED BY <5>1, <4>2
        <4>4. sink'[r] = TokenEvents(w)
          BY <4>1, <4>2, <4>3, StreamGrows
        <4>5. \A i \in DOMAIN w : w[i] \notin StopIds
          <5>1. PICK n : n = Len(o)
            OBVIOUS
          <5>2. /\ n \in Nat /\ DOMAIN w = 1 .. n + 1 /\ DOMAIN o = 1 .. n /\ Len(w) = n + 1
                /\ w[n + 1] = t /\ w # <<>> /\ \A i \in 1 .. n : w[i] = o[i]
            <6>1. PICK a : a = o
              OBVIOUS
            <6>2. a \in Seq(Token) /\ w = Append(a, t) /\ n = Len(a)
              BY <6>1, <5>1, <4>1, <4>2, Zenon
            <6>3. n \in Nat /\ DOMAIN a = 1 .. n
              BY <6>2
            <6>4. DOMAIN w = 1 .. n + 1 /\ Len(w) = n + 1
              BY <6>2
            <6>5. w[n + 1] = t /\ \A i \in 1 .. n : w[i] = a[i]
              BY <6>2
            <6>6. w # <<>>
              BY <6>3, <6>4
            <6> QED BY <6>1, <6>3, <6>4, <6>5, <6>6, Zenon
          <5>3. t \notin StopIds
            BY <5>2, <4>3 DEF IsFinished, HitStopToken, Last
          <5>4. \A i \in 1 .. n + 1 : i \in 1 .. n \/ i = n + 1
            BY <5>2
          <5> QED BY <5>2, <5>3, <5>4, <4>2
        <4> QED BY <4>2, <4>3, <4>4, <4>5
      <3> QED BY <3>2, <3>3
    <2> QED BY <2>4, <2>5, <2>6, StreamKinds
  <1> QED BY <1>1 DEF Unfinished, IsFinished, HitStopToken

(* A terminal event ends its stream: only requests that are not finished   *)
(* are told anything.                                                      *)
LEMMA TerminalIsLastStep ==
    ASSUME SchedInv, StepInv, DataInv, StreamInv, [Next]_vars
    PROVE  TerminalIsLast' /\ DOMAIN sink' = Req
  <1>0. TerminalIsLast /\ Unfinished /\ DOMAIN sink = Req
    BY DEF StreamInv
  <1>1. ASSUME NEW r \in Req PROVE EndsOnce(sink'[r])
    <2>1. CASE sink'[r] = sink[r]
      BY <2>1, <1>0 DEF TerminalIsLast, EndsOnce
    <2>2. CASE Quiet
      BY <2>1, <2>2 DEF Quiet
    <2>3. CASE \E x \in Req : Live(x) /\ Fails(x)
      <3>1. PICK x \in Req : Live(x) /\ Fails(x)
        BY <2>3
      <3>2. CASE x # r
        BY <3>1, <3>2, <2>1, OtherStreams
      <3>3. CASE x = r
        <4>1. sink'[r] = Append(sink[r], ErrorEvent) /\ sink[r] = TokenEvents(req[r].output)
          BY <3>1, <3>3, <1>0 DEF Fails, Unfinished
        <4>2. req[r].output \in Seq(Token)
          BY RequestCounts DEF SchedInv
        <4>3. Token # {}
          BY RequestAssumption
        <4> QED BY <4>1, <4>2, <4>3, StreamGrows
      <3> QED BY <3>2, <3>3
    <2>4. CASE \E x \in Req, t \in Token : Live(x) /\ x \in submitted' /\ Accept(x, t)
      <3>1. PICK x \in Req, t \in Token : Live(x) /\ Accept(x, t)
        BY <2>4
      <3>2. CASE x # r
        BY <3>1, <3>2, <2>1, OtherStreams
      <3>3. CASE x = r
        <4>1. PICK o : o = req[r].output
          OBVIOUS
        <4>2. /\ o \in Seq(Token) /\ \A i \in DOMAIN o : o[i] \notin StopIds
              /\ \/ sink'[r] = TokenEvents(o) \o <<TokenEvent(t), DoneEvent(Append(o, t))>>
                 \/ sink'[r] = Append(TokenEvents(o), TokenEvent(t))
          BY <4>1, <3>1, <3>3, AcceptedStream
        <4> QED BY <4>2, StreamGrows, StreamEnds
      <3> QED BY <3>2, <3>3
    <2> QED BY <2>2, <2>3, <2>4, StreamKinds
  <1>2. TerminalIsLast'
    BY <1>1 DEF TerminalIsLast, EndsOnce, Terminal
  <1>3. DOMAIN sink' = Req
    <2>1. CASE Quiet
      BY <2>1, <1>0 DEF Quiet
    <2>2. CASE \E x \in Req : Fails(x)
      BY <2>2, <1>0 DEF Fails
    <2>3. CASE \E x \in Req, t \in Token : Accept(x, t)
      BY <2>3, <1>0 DEF Accept, Emit
    <2> QED BY <2>1, <2>2, <2>3, StreamKinds
  <1> QED BY <1>2, <1>3
-----------------------------------------------------------------------------
(* The invariant under preemption for one request *)

(* The engine starts in a state that satisfies it. *)
LEMMA LoneInit == Init => LoneInv
  <1> SUFFICES ASSUME Init PROVE LoneInv
    OBVIOUS
  <1>1. SchedInv
    BY SchedInit
  <1>2. /\ submitted = {} /\ running = <<>> /\ batch = <<>> /\ done = <<>> /\ pc = "drain"
        /\ cached = [h \in {} |-> 0] /\ sink = [r \in Req |-> <<>>]
        /\ \A r \in Req : freed[r] = 0 /\ req[r] = NewRequest
    BY DEF Init, AllocInit, Req
  <1>3. ToSet(running) = {} /\ ToSet(done) = {} /\ Distinct(done)
    BY <1>2 DEF ToSet, Distinct
  <1>4. StepInv
    BY <1>2, <1>3 DEF StepInv, BatchOwned, InStep, BatchFresh, Building, OrderFresh, SamplesLeft,
           DoneRuns, FreesApart, AcquiredIsPrefix
  <1>5. DataInv
    <2>1. DOMAIN cached = {}
      BY <1>2
    <2> QED BY <2>1, <1>3 DEF DataInv, CursorsBehind, TablesSuffice, UnfilledIsPrivate,
           ChainsKept, KvIntegrity, CacheContent
  <1>6. StreamInv
    <2>1. ASSUME NEW r \in Req
          PROVE  /\ req[r].computed = 0 /\ req[r].cached_blocks = 0 /\ req[r].last_hash = NoHash
                 /\ req[r].output = <<>> /\ sink[r] = <<>>
      BY <1>2 DEF NewRequest
    <2>2. TokenEvents(<<>>) = <<>> /\ DOMAIN (<<>>) = {}
      BY DEF TokenEvents
    <2>3. WaitingIsReset
      BY <2>1 DEF WaitingIsReset
    <2>4. Unfinished
      BY <2>1, <2>2 DEF Unfinished
    <2>5. TerminalIsLast
      BY <2>1, <2>2 DEF TerminalIsLast
    <2> QED BY <2>3, <2>4, <2>5, <1>2 DEF StreamInv
  <1> QED BY <1>1, <1>4, <1>5, <1>6 DEF LoneInv

(* Every step keeps it, as long as preemption works for one request only. *)
LEMMA LoneNext ==
    ASSUME ChainsAreHashes, LoneInv, [Next]_vars, Preempt => Lone
    PROVE  LoneInv'
  <1>1. SchedInv /\ StepInv /\ DataInv /\ StreamInv
    BY DEF LoneInv
  <1>2. SchedInv'
    BY <1>1, SchedNext
  <1>3. StepInv' /\ DataInv'
    BY <1>1, <1>2, ControlStep, DataStep
  <1>4. StreamInv'
    BY <1>1, WaitingIsResetStep, UnfinishedStep, TerminalIsLastStep DEF StreamInv
  <1> QED BY <1>2, <1>3, <1>4 DEF LoneInv

(* Stuttering is no preemption. *)
LEMMA LoneStep ==
    LoneInv /\ ChainsAreHashes /\ [Next]_vars /\ [Preempt => Lone]_vars => LoneInv'
  <1> SUFFICES ASSUME LoneInv, ChainsAreHashes, [Next]_vars, [Preempt => Lone]_vars PROVE LoneInv'
    OBVIOUS
  <1>1. CASE UNCHANGED vars
    <2>1. Preempt => Lone
      <3>1. ASSUME Preempt PROVE FALSE
        <4>1. PICK k, v : k = Max(Others) /\ v = running[k]
          OBVIOUS
        <4>2. running' = RemoveAt(running, k) /\ Others # {} /\ running' = running
          BY <4>1, <3>1, <1>1 DEF Preempt, vars, queues
        <4>3. SchedInv /\ running \in Seq(Req)
          BY DEF LoneInv, SchedInv, SchedTypeOK
        <4>4. k \in 1 .. Len(running)
          BY <4>1, <4>2, <4>3, VictimRuns DEF SchedInv, SchedTypeOK, QueueInv, QueueTypes
        <4>5. PICK s, z : s = running /\ z = RemoveAt(s, k)
          OBVIOUS
        <4>6. s \in Seq(Req) /\ k \in 1 .. Len(s)
          BY <4>3, <4>4, <4>5
        <4>7. Len(z) = Len(s) - 1
          BY <4>5, <4>6, RemoveAtProperties
        <4>8. z = s
          BY <4>2, <4>5, Zenon
        <4>9. Len(s) \in Nat
          BY <4>6
        <4> QED BY <4>7, <4>8, <4>9
      <3> QED BY <3>1
    <2> QED BY <2>1, LoneNext
  <1>2. CASE Preempt => Lone
    BY <1>2, LoneNext
  <1> QED BY <1>1, <1>2

(* The invariant holds in every state, when preemption works for one       *)
(* request of a step only.                                                 *)
THEOREM LoneInvariant ==
    ASSUME ChainsAreHashes
    PROVE  Spec /\ PreemptsAlone => []LoneInv
  <1>1. LoneInv /\ [Next]_vars /\ [Preempt => Lone]_vars => LoneInv'
    BY LoneStep
  <1> QED BY <1>1, LoneInit, PTL DEF Spec, PreemptsAlone

-----------------------------------------------------------------------------
(* What follows from the invariant *)

(* No prompt is longer than the context: resolveMaxTokens refuses the      *)
(* others before the engine is called.                                     *)
PromptsFit == \A r \in Req : Len(Prompt[r]) <= MaxCtx

(* A running request that is not finished has at most max_ctx tokens. *)
LEMMA RunningFits ==
    ASSUME LoneInv, PromptsFit, done = <<>>, NEW r \in ToSet(running)
    PROVE  /\ NumTokens(r) <= MaxCtx
           /\ Len(table[r]) <= BlocksFor(MaxCtx)
  <1>1. SchedInv /\ DataInv /\ StreamInv
    BY DEF LoneInv
  <1>2. r \in Req /\ NumTokens(r) \in Nat /\ req[r].output \in Seq(Token) /\ Len(table[r]) \in Nat
    BY <1>1, RunningTypes
  <1>3. ToSet(done) = {}
    BY DEF ToSet
  <1>4. Live(r)
    BY <1>3 DEF Live, Queued
  <1>5. req[r].output # <<>> => ~IsFinished(r, req[r].output)
    BY <1>1, <1>2, <1>4 DEF StreamInv, Unfinished
  <1>6. PICK o, p : o = req[r].output /\ p = Prompt[r]
    OBVIOUS
  <1>7. /\ o \in Seq(Token) /\ p \in Seq(Token) /\ Len(p) <= MaxCtx
        /\ NumTokens(r) = Len(p \o o) /\ (o # <<>> => ~(Len(p) + Len(o) >= MaxCtx))
    BY <1>2, <1>5, <1>6, RequestAssumption DEF PromptsFit, NumTokens, Tokens, IsFinished
  <1>8. Len(p \o o) = Len(p) + Len(o) /\ Len(p) \in Nat /\ Len(o) \in Nat /\ (o = <<>> => Len(o) = 0)
    BY <1>7
  <1>9. NumTokens(r) <= MaxCtx
    BY <1>7, <1>8, Config
  <1>10. /\ BlocksFor(NumTokens(r)) <= BlocksFor(MaxCtx)
         /\ BlocksFor(NumTokens(r)) \in Nat /\ BlocksFor(MaxCtx) \in Nat
    BY <1>2, <1>9, Config, BlocksForBounds
  <1>11. Len(table[r]) <= BlocksFor(NumTokens(r))
    BY <1>1 DEF DataInv, TablesSuffice
  <1> QED BY <1>2, <1>9, <1>10, <1>11

(* Until Apply nothing is finished. *)
LEMMA NothingDone ==
    ASSUME LoneInv, pc \notin {"apply", "cache", "retire"}
    PROVE  done = <<>>
  BY DEF LoneInv, StepInv, DoneRuns

(* The batch is what its rows were emitted for. *)
LEMMA BatchStaysCurrent ==
    ASSUME LoneInv
    PROVE  BatchIsCurrent
  <1>1. SUFFICES ASSUME pc = "forward" PROVE BatchIsCurrent
    BY DEF BatchIsCurrent
  <1>2. SchedInv /\ StepInv /\ DataInv /\ InStep /\ Building
    BY <1>1 DEF LoneInv, InStep, Building
  <1>3. ASSUME NEW i \in DOMAIN batch
        PROVE  /\ batch[i].r \in ToSet(running) /\ batch[i].start = req[batch[i].r].computed
               /\ batch[i].blocks = table[batch[i].r] /\ batch[i].r \in Req
    BY <1>2, RunningReq DEF StepInv, BatchOwned, BatchFresh
  <1>4. ASSUME NEW i \in DOMAIN batch, NEW j \in DOMAIN batch,
               NEW p \in Rows(batch[i]), NEW q \in Rows(batch[j]),
               Slot(batch[i].blocks, p) = Slot(batch[j].blocks, q)
        PROVE  i = j /\ p = q
    <2>1. PICK s : s = batch[i].r
      OBVIOUS
    <2>2. p \in Nat /\ p \div BlockSize + 1 \in DOMAIN table[s]
      BY <2>1, <1>1, <1>2, RowPlace
    <2>3. s \in Req /\ Slot(table[s], p) = Slot(batch[j].blocks, q)
      BY <2>1, <1>3, <1>4
    <2>4. s = batch[j].r /\ p = q
      BY <2>2, <2>3, <1>1, <1>2, RowsApart
    <2>5. i = j
      BY <2>1, <2>4, <1>2 DEF StepInv, BatchOwned
    <2> QED BY <2>4, <2>5
  <1> QED BY <1>3, <1>4 DEF BatchIsCurrent

(* The samples that are left are those of the entries that are left. *)
LEMMA SamplesParallel ==
    ASSUME LoneInv
    PROVE  SampledParallelsRows
  <1>1. SUFFICES ASSUME pc = "apply" PROVE SampledParallelsRows
    BY DEF SampledParallelsRows
  <1>2. SamplesLeft /\ at \in Nat /\ Len(batch) \in Nat
    BY DEF LoneInv, StepInv, SchedInv, SchedTypeOK
  <1>3. at <= Len(batch) => at \in at .. Len(batch)
    BY <1>2
  <1> QED BY <1>1, <1>2, <1>3 DEF SampledParallelsRows, SamplesLeft, Asking

(* Rows, requests, table columns and positions of the forward. *)
LEMMA ContextFits ==
    ASSUME LoneInv, PromptsFit
    PROVE  FitsStepContext
  <1>1. SUFFICES ASSUME pc = "forward" PROVE FitsStepContext
    BY DEF FitsStepContext
  <1>2. SchedInv /\ StepInv /\ DataInv /\ InStep /\ Building /\ done = <<>>
    BY <1>1, NothingDone DEF LoneInv, InStep, Building
  <1>3. Cardinality(BatchRows) <= TokenBudget /\ Len(batch) <= NSlots
    <2>1. /\ IsFiniteSet(BatchRows) /\ budget + Cardinality(BatchRows) <= TokenBudget
          /\ Len(batch) + Len(order) + 0 <= NSlots
      BY <1>1, <1>2 DEF SchedInv, BatchBound
    <2>2. budget \in Nat /\ Len(batch) \in Nat /\ Len(order) \in Nat
      BY <1>2 DEF SchedInv, SchedTypeOK
    <2>3. NSlots \in Nat /\ TokenBudget \in Nat
      BY Config
    <2>4. Cardinality(BatchRows) \in Nat
      BY <2>1, FS_CardinalityType
    <2> QED BY <2>1, <2>2, <2>3, <2>4
  <1>4. ASSUME NEW i \in DOMAIN batch
        PROVE  /\ Len(batch[i].blocks) <= BlocksFor(MaxCtx)
               /\ batch[i].start + batch[i].n <= MaxCtx
    <2>1. PICK r, e : r = batch[i].r /\ e = batch[i].start + batch[i].n
      OBVIOUS
    <2>2. r \in ToSet(running) /\ batch[i].blocks = table[r] /\ e <= NumTokens(r)
      BY <2>1, <1>2 DEF StepInv, BatchOwned, BatchFresh
    <2>3. NumTokens(r) <= MaxCtx /\ Len(table[r]) <= BlocksFor(MaxCtx)
      BY <2>2, <1>2, RunningFits
    <2>4. NumTokens(r) \in Nat /\ e \in Int
      <3>1. i \in 1 .. Len(batch)
        BY <1>2 DEF SchedInv, SchedTypeOK
      <3>2. batch[i].start \in Nat /\ batch[i].n \in Nat
        BY <3>1, <1>2, BatchEntry DEF SchedInv
      <3> QED BY <3>2, <2>1, <2>2, <1>2, RunningTypes
    <2>5. e <= MaxCtx
      BY <2>2, <2>3, <2>4, Config
    <2> QED BY <2>1, <2>2, <2>3, <2>5
  <1> QED BY <1>3, <1>4 DEF FitsStepContext, BatchRows

-----------------------------------------------------------------------------
(* Configurations in which preemption works for one request only *)

(* A pool that holds n_slots sequences of max_ctx tokens. *)
Roomy == NumBlocks >= NSlots * BlocksFor(MaxCtx)

(* One row per step, one slot, or a pool that never runs dry. *)
Unshifting == TokenBudget = 1 \/ NSlots = 1 \/ (Roomy /\ PromptsFit)

(* With a budget of one row the first request that grows takes it. *)
LEMMA OneRowIsLone ==
    ASSUME LoneInv, TokenBudget = 1, pc = "grow"
    PROVE  Lone
  <1>1. SchedInv /\ BatchOwned /\ InStep
    BY DEF LoneInv, StepInv, InStep
  <1>2. cur[2] \in Nat \ {0} /\ cur[2] <= budget /\ budget \in Nat
    BY <1>1, GrowingChunk DEF SchedInv, SchedTypeOK
  <1>3. /\ IsFiniteSet(BatchRows) /\ budget + Cardinality(BatchRows) <= 1
        /\ Cardinality(BatchRows) \in Nat
    BY <1>1, FS_CardinalityType DEF SchedInv, BatchBound, Building
  <1>4. PICK n, c : n = cur[2] /\ c = Cardinality(BatchRows)
    OBVIOUS
  <1>5. c = 0 /\ n = budget
    BY <1>2, <1>3, <1>4
  <1>6. BatchRows = {}
    BY <1>3, <1>4, <1>5, FS_EmptySet
  <1>7. batch \in Seq(EntryType)
    BY <1>1 DEF SchedInv, SchedTypeOK
  <1>8. ASSUME batch # <<>> PROVE FALSE
    <2>1. 1 \in 1 .. Len(batch) /\ 1 \in DOMAIN batch
      BY <1>7, <1>8
    <2>2. batch[1].start \in Nat /\ batch[1].n \in Nat \ {0}
      BY <2>1, <1>1, StepEntry
    <2>3. batch[1].start \in Rows(batch[1])
      BY <2>2 DEF Rows
    <2>4. <<1, batch[1].start>> \in BatchRows
      BY <2>1, <2>3 DEF BatchRows
    <2> QED BY <2>4, <1>6
  <1> QED BY <1>4, <1>5, <1>8 DEF Lone

(* With one slot there is nobody else to preempt. *)
LEMMA OneSlotIsAlone ==
    ASSUME LoneInv, NSlots = 1, pc = "grow"
    PROVE  Others = {}
  <1>1. running \in Seq(Req) /\ Len(running) <= 1 /\ cur[1] \in ToSet(running)
    BY DEF LoneInv, SchedInv, SchedTypeOK, QueueBound, TablesOwned
  <1>2. PICK i \in DOMAIN running : running[i] = cur[1]
    BY <1>1 DEF ToSet
  <1>3. ASSUME NEW k \in DOMAIN running PROVE k = i
    BY <1>1, <1>2
  <1> QED BY <1>2, <1>3 DEF Others

(* While a request grows, a block that is not free is an entry of the      *)
(* table of a running request.                                             *)
LEMMA HeldByRunning ==
    ASSUME LoneInv, Growing, free_lru = <<>>, NEW b \in Block
    PROVE  \E k \in DOMAIN running : \E i \in DOMAIN table[running[k]] :
              table[running[k]][i] = b
  <1>1. SchedInv /\ AllocInv
    BY DEF LoneInv, SchedInv
  <1>2. ref_cnt[b] # 0
    BY <1>1 DEF AllocInv, LruExact
  <1>3. Refs(b) # {}
    BY <1>1, <1>2, FS_EmptySet DEF AllocInv, RefExact
  <1>4. PICK e : e \in Refs(b)
    BY <1>3
  <1>5. PICK h \in Req : \E i \in freed[h] + 1 .. Len(table[h]) : table[h][i] = b
    BY <1>4, RefsInMember DEF Refs, Req
  <1>6. freed[h] = 0 /\ table[h] \in Seq(Block)
    BY <1>1 DEF Growing, NoFreeRunning, AllocInv, AllocTypeOK, Req
  <1>7. PICK i \in DOMAIN table[h] : table[h][i] = b
    BY <1>5, <1>6
  <1>8. h \in ToSet(running)
    BY <1>1, <1>6, <1>7 DEF SchedInv, TablesOwned, Growing
  <1>9. PICK k \in DOMAIN running : running[k] = h
    BY <1>8 DEF ToSet
  <1> QED BY <1>7, <1>9

(* Entry e[2] of the table of the request in slot e[1] is block b. *)
Holding(e, b) == table[running[e[1]]][e[2]] = b

(* A roomy pool never runs dry while a request needs another block: the    *)
(* entries of all tables are fewer than the pool's blocks.                 *)
LEMMA RoomyNeverDry ==
    ASSUME LoneInv, Roomy, PromptsFit, Growing, ~Covered
    PROVE  free_lru # <<>>
  <1> SUFFICES ASSUME free_lru = <<>> PROVE FALSE
    OBVIOUS
  <1>1. SchedInv /\ done = <<>> /\ pc = "grow"
    BY NothingDone DEF LoneInv, Growing
  <1>2. PICK B, x : B = BlocksFor(MaxCtx) /\ x = cur[1]
    OBVIOUS
  <1>3. B \in Nat /\ NSlots \in Nat
    BY <1>2, Config, BlocksForBounds
  <1>4. running \in Seq(Req) /\ Len(running) <= NSlots /\ x \in ToSet(running)
    BY <1>1, <1>2 DEF SchedInv, SchedTypeOK, QueueBound, TablesOwned
  <1>5. PICK k0 \in DOMAIN running : running[k0] = x
    BY <1>4 DEF ToSet
  <1>6. Len(table[x]) < B
    <2>1. Len(table[x]) < BlocksFor(req[x].computed + cur[2]) \/ Len(table[x]) \notin Int
          \/ BlocksFor(req[x].computed + cur[2]) \notin Int
      BY <1>2 DEF Covered
    <2>2. PICK m : m = req[x].computed + cur[2]
      OBVIOUS
    <2>3. cur[2] \in Nat /\ req[x].computed \in Nat /\ m <= NumTokens(x)
      BY <2>2, <1>1, <1>2, <1>4, GrowingChunk, RunningTypes DEF SchedInv
    <2>4. m \in Nat /\ NumTokens(x) <= MaxCtx /\ NumTokens(x) \in Nat /\ Len(table[x]) \in Nat
      BY <2>2, <2>3, <1>1, <1>4, RunningFits, RunningTypes
    <2>5. m <= MaxCtx /\ MaxCtx \in Nat
      BY <2>3, <2>4, Config
    <2>6. BlocksFor(m) <= B /\ BlocksFor(m) \in Nat
      BY <2>4, <2>5, <1>2, BlocksForBounds
    <2> QED BY <2>1, <2>2, <2>4, <2>6, <1>3
  <1>7. ASSUME NEW k \in DOMAIN running, NEW i \in DOMAIN table[running[k]]
        PROVE  k \in 1 .. NSlots /\ i \in 1 .. B /\ <<k, i>> # <<k0, B>>
    <2>1. PICK r : r = running[k]
      OBVIOUS
    <2>2. r \in ToSet(running) /\ k \in 1 .. NSlots
      BY <2>1, <1>3, <1>4 DEF ToSet
    <2>3. DOMAIN table[r] = 1 .. Len(table[r]) /\ Len(table[r]) \in Nat /\ Len(table[r]) <= B
      BY <2>2, <1>1, <1>2, RunningFits, RunningTypes
    <2>4. i \in 1 .. B /\ (r = x => i # B)
      BY <2>1, <2>3, <1>3, <1>6
    <2> QED BY <2>1, <2>2, <2>4, <1>5
  <1>8. PICK T, S : T = (1 .. NSlots) \X (1 .. B) /\ S = T \ {<<k0, B>>}
    OBVIOUS
  <1>9. k0 \in 1 .. NSlots /\ B \in 1 .. B
    <2>1. k0 \in 1 .. NSlots
      BY <1>3, <1>4
    <2>2. Len(table[x]) \in Nat
      BY <1>1, <1>4, RunningTypes
    <2> QED BY <2>1, <2>2, <1>3, <1>6
  <1>10. IsFiniteSet(T) /\ Cardinality(T) = NSlots * B
    <2>1. PICK U, V : U = 1 .. NSlots /\ V = 1 .. B
      OBVIOUS
    <2>2. IsFiniteSet(U) /\ Cardinality(U) = NSlots /\ IsFiniteSet(V) /\ Cardinality(V) = B
      BY <2>1, <1>3, FS_Interval
    <2>3. IsFiniteSet(U \X V) /\ Cardinality(U \X V) = Cardinality(U) * Cardinality(V)
      BY <2>2, FS_Product, Zenon
    <2> QED BY <2>1, <2>2, <2>3, <1>8
  <1>11. IsFiniteSet(S) /\ Cardinality(S) = Cardinality(T) - 1
    <2>1. <<k0, B>> \in T
      BY <1>8, <1>9
    <2> QED BY <2>1, <1>8, <1>10, FS_RemoveElement
  <1>12. ASSUME NEW b \in Block PROVE \E e \in S : Holding(e, b)
    <2>1. PICK k \in DOMAIN running : \E i \in DOMAIN table[running[k]] : table[running[k]][i] = b
      BY HeldByRunning
    <2>2. PICK i \in DOMAIN table[running[k]] : table[running[k]][i] = b
      BY <2>1
    <2>3. PICK e : e = <<k, i>>
      OBVIOUS
    <2>4. e \in S /\ e[1] = k /\ e[2] = i
      BY <2>3, <1>7, <1>8
    <2> QED BY <2>2, <2>4 DEF Holding
  <1> DEFINE Where(b) == CHOOSE e \in S : Holding(e, b)
             f == [b \in Block |-> Where(b)]
  <1>13. ASSUME NEW b \in Block PROVE Where(b) \in S /\ Holding(Where(b), b)
    BY <1>12
  <1> HIDE DEF Where
  <1>14. f \in [Block -> S] /\ \A b \in Block : Holding(f[b], b)
    BY <1>13
  <1> HIDE DEF f
  <1>15. f \in Injection(Block, S)
    BY <1>14 DEF Injection, IsInjective, Holding
  <1>16. Cardinality(Block) <= Cardinality(S)
    BY <1>11, <1>15, FS_Injection
  <1>17. Cardinality(Block) = NumBlocks /\ NumBlocks \in Nat
    <2>1. 0 \in Int /\ NumBlocks - 1 \in Int /\ NumBlocks \in Nat
      BY NumBlocksAssumption
    <2> QED BY <2>1, FS_Interval DEF Block
  <1>18. PICK z : z = NSlots * B
    OBVIOUS
  <1>19. z \in Nat /\ NumBlocks >= z /\ NumBlocks <= z - 1
    BY <1>2, <1>3, <1>10, <1>11, <1>16, <1>17, <1>18 DEF Roomy
  <1> QED BY <1>17, <1>19

(* In each of the three configurations a preemption, if there is one,      *)
(* leaves no index and no row behind that anything still uses.             *)
LEMMA UnshiftingIsLone ==
    ASSUME LoneInv, Unshifting, Preempt
    PROVE  Lone
  <1>1. Growing /\ pc = "grow" /\ ~Covered /\ free_lru = <<>> /\ Others # {}
    BY DEF Preempt, Growing
  <1>2. CASE TokenBudget = 1
    BY <1>1, <1>2, OneRowIsLone
  <1>3. CASE NSlots = 1
    BY <1>1, <1>3, OneSlotIsAlone
  <1>4. CASE Roomy /\ PromptsFit
    BY <1>1, <1>4, RoomyNeverDry
  <1> QED BY <1>2, <1>3, <1>4 DEF Unshifting

-----------------------------------------------------------------------------
(* The theorems *)

(* What the requests, the pool, the batch and the streams must satisfy,    *)
(* and that the engine thread never reads a moved-from request, a sample   *)
(* or a block past the end.                                                *)
StepsAreSound ==
    /\ KvIntegrity /\ CacheContent
    /\ BatchIsCurrent /\ SampledParallelsRows
    /\ TerminalIsLast
    /\ pc # "crash"

(* The invariant implies it. *)
LEMMA LoneIsSound == LoneInv => StepsAreSound
  <1> SUFFICES ASSUME LoneInv PROVE StepsAreSound
    OBVIOUS
  <1>1. BatchIsCurrent /\ SampledParallelsRows
    BY BatchStaysCurrent, SamplesParallel
  <1> QED BY <1>1 DEF LoneInv, DataInv, StreamInv, StepInv, StepsAreSound

(* In every behaviour in which preemption works only for a request that is *)
(* the first of its step and takes the whole budget, however often, the    *)
(* KV, the cache, the batch, the samples and the streams are right.        *)
THEOREM LonePreemptionIsSound ==
    ASSUME ChainsAreHashes
    PROVE  Spec /\ PreemptsAlone => []StepsAreSound
  BY LoneInvariant, LoneIsSound, PTL

(* The invariant holds in every behaviour of such a configuration. *)
THEOREM UnshiftingInvariant ==
    ASSUME ChainsAreHashes, Unshifting
    PROVE  Spec => []LoneInv
  <1>1. LoneInv /\ [Next]_vars => [Preempt => Lone]_vars
    BY UnshiftingIsLone
  <1>2. LoneInv /\ [Next]_vars /\ [Preempt => Lone]_vars => LoneInv'
    BY LoneStep
  <1> QED BY <1>1, <1>2, LoneInit, PTL DEF Spec

(* Every position below a request's cursor is in its own table, and its    *)
(* KV was computed from the request's own tokens: preempted and recomputed *)
(* or not, adopted from the cache or not.                                  *)
THEOREM KvAlwaysIntact ==
    ASSUME ChainsAreHashes, Unshifting
    PROVE  Spec => []KvIntegrity
  <1>1. LoneInv => KvIntegrity
    BY DEF LoneInv, DataInv
  <1> QED BY <1>1, UnshiftingInvariant, PTL

(* A block that a lookup can return holds the KV of the token chain it is  *)
(* indexed under, whoever filled it, freed it or resurrected it since.     *)
THEOREM CacheTellsTruth ==
    ASSUME ChainsAreHashes, Unshifting
    PROVE  Spec => []CacheContent
  <1>1. LoneInv => CacheContent
    BY DEF LoneInv, DataInv
  <1> QED BY <1>1, UnshiftingInvariant, PTL

(* When the forward runs, each entry of the batch is of a request that     *)
(* still runs and still owns the blocks its rows name, and no two rows     *)
(* store into one slot.                                                    *)
THEOREM BatchAlwaysCurrent ==
    ASSUME ChainsAreHashes, Unshifting
    PROVE  Spec => []BatchIsCurrent
  <1>1. LoneInv => BatchIsCurrent
    BY BatchStaysCurrent
  <1> QED BY <1>1, UnshiftingInvariant, PTL

(* Apply hands every request the sample of its own row. *)
THEOREM SamplesNeverMisrouted ==
    ASSUME ChainsAreHashes, Unshifting
    PROVE  Spec => []SampledParallelsRows
  <1>1. LoneInv => SampledParallelsRows
    BY SamplesParallel
  <1> QED BY <1>1, UnshiftingInvariant, PTL

(* A stream ends with its only Done or Error, and Done counts the tokens   *)
(* that were streamed.                                                     *)
THEOREM StreamsEndOnce ==
    ASSUME ChainsAreHashes, Unshifting
    PROVE  Spec => []TerminalIsLast
  <1>1. LoneInv => TerminalIsLast
    BY DEF LoneInv, StreamInv
  <1> QED BY <1>1, UnshiftingInvariant, PTL

(* The merged forward fits StepContext in every respect: rows, requests,   *)
(* table columns and positions.                                            *)
THEOREM ContextAlwaysFits ==
    ASSUME ChainsAreHashes, Unshifting, PromptsFit
    PROVE  Spec => []FitsStepContext
  <1>1. LoneInv => FitsStepContext
    BY ContextFits
  <1> QED BY <1>1, UnshiftingInvariant, PTL

(* A pool for n_slots full sequences never preempts and never fails a      *)
(* request for want of blocks, cached blocks and shared prefixes included. *)
THEOREM RoomyNeverPreempts ==
    ASSUME ChainsAreHashes, Roomy, PromptsFit
    PROVE  Spec => [][~Preempt /\ ~GrowFail]_vars
  <1>1. Unshifting
    BY DEF Unshifting
  <1>2. LoneInv => ~Preempt /\ ~GrowFail
    <2>1. ASSUME LoneInv, Preempt \/ GrowFail PROVE FALSE
      <3>1. Growing /\ ~Covered /\ free_lru = <<>>
        BY <2>1 DEF Preempt, GrowFail
      <3> QED BY <3>1, <2>1, RoomyNeverDry
    <2> QED BY <2>1
  <1>3. LoneInv /\ [Next]_vars => [~Preempt /\ ~GrowFail]_vars
    BY <1>2
  <1> QED BY <1>1, <1>3, UnshiftingInvariant, PTL DEF Spec
=============================================================================
