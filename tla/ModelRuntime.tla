---------------------------- MODULE ModelRuntime ----------------------------
(***************************************************************************)
(* The host side of one merged forward (model_runtime.h, model_runtime.cu) *)
(* as the kernels see it.  A step packs its batch into buffers that were   *)
(* sized once and are only overwritten as far as the batch reaches, so     *)
(* what earlier steps left stays behind it; a step of decodes only runs    *)
(* its layers as a CUDA graph that an earlier step may have captured, with *)
(* the launch sizes of that step.  Arithmetic on the GPU is left out: a    *)
(* kernel is the rows it works on and the table it reads.  Indices count   *)
(* from 1.                                                                 *)
(***************************************************************************)
EXTENDS Integers, SequencesExt, Listing

CONSTANTS
    Slots,        \* slots_
    MaxRows,      \* max_rows_
    BlockSize,    \* ModelSpec::kKvBlock
    MaxBlocks,    \* StepContext::max_blocks
    QTile,        \* kQTile of the prefill kernel
    MaxEntries,   \* GraphCache::kMaxEntries
    Requests      \* what a request may want of a step: n rows from start on,
                  \* its block table, and whether its last row is sampled

(* BuildBatch has grown the table of a request to cover its rows. *)
ASSUME RuntimeAssumption ==
    /\ {Slots, MaxRows, BlockSize, MaxBlocks, QTile, MaxEntries} \subseteq Nat \ {0}
    /\ \A e \in Requests :
          /\ e.start \in Nat /\ e.n \in 1 .. MaxRows /\ e.sample \in BOOLEAN
          /\ e.blocks \in Seq(Int)
          /\ Len(e.blocks) = (e.start + e.n + BlockSize - 1) \div BlockSize
          /\ Len(e.blocks) <= MaxBlocks

VARIABLES
    batch,         \* what the scheduler asked for: per request its rows and table
    rows,          \* ctx_.pos and ctx_.req
    bt,            \* ctx_.bt
    qstart, qlen,
    decode_rids, prefill_rids,
    lrows,
    entries,       \* layers_graph_.entries_
    graphs,        \* the executable graphs, by handle; Destroyed if there is none
    launch,        \* sizes the kernels of the last step were launched with
    sampled,       \* rows the last step sampled from
    recent         \* history: shapes of the decode-only steps, last one first

context == <<rows, bt, qstart, qlen, decode_rids, prefill_rids, lrows>>
vars == <<batch, context, entries, graphs, launch, sampled, recent>>

Handle == 1 .. MaxEntries + 1
Destroyed == [rows |-> 0, decode |-> 0, prefill |-> 0, tiles |-> 0]
Junk == 0

Init ==
    /\ batch = <<>>
    /\ rows = [t \in 1 .. MaxRows |-> [req |-> Junk, pos |-> Junk]]
    /\ bt = [r \in 1 .. Slots |-> [g \in 1 .. MaxBlocks |-> Junk]]
    /\ qstart = [r \in 1 .. Slots |-> Junk] /\ qlen = [r \in 1 .. Slots |-> Junk]
    /\ decode_rids = [r \in 1 .. Slots |-> Junk]
    /\ prefill_rids = [r \in 1 .. Slots |-> Junk]
    /\ lrows = [r \in 1 .. Slots |-> Junk]
    /\ entries = <<>> /\ graphs = [h \in Handle |-> Destroyed]
    /\ launch = Destroyed /\ sampled = <<>> /\ recent = <<>>

-----------------------------------------------------------------------------
(* ForwardInput *)

(* The rows of request e, in the batch at index r (Request::EmitChunk). *)
Chunk(e, r) == [k \in 1 .. e.n |-> [req |-> r, pos |-> e.start + k - 1]]

FlatRows(b) == FlattenSeq([r \in DOMAIN b |-> Chunk(b[r], r)])

(* Rows of the batch up to request r. *)
RowsTo(b, r) == Len(FlatRows(SubSeq(b, 1, r)))

(* logits_rows: SampleLastRow after the chunk of each request that is complete. *)
LogitsRows(b) ==
    LET complete == InOrder({r \in DOMAIN b : b[r].sample}, Len(b))
    IN [i \in DOMAIN complete |-> RowsTo(b, complete[i])]

-----------------------------------------------------------------------------
(* StepContext::PrepareInputs *)

(* Upload, or fill and Flush: the first Len(s) elements change. *)
Over(buffer, s) == [i \in DOMAIN buffer |-> IF i \in DOMAIN s THEN s[i] ELSE buffer[i]]

UploadRows == rows' = Over(rows, FlatRows(batch'))

PackBlockTables ==
    bt' = [r \in 1 .. Slots |->
             IF r \in DOMAIN batch' THEN Over(bt[r], batch'[r].blocks) ELSE bt[r]]

(* Rows of a request, counted over the uploaded rows. *)
RowsOf(r) == {t \in 1 .. Len(FlatRows(batch')) : rows'[t].req = r}

(* Prefix sums of the lengths, one per request. *)
Starts(lens) ==
    LET acc[r \in 1 .. Len(lens) + 1] == IF r = 1 THEN 1 ELSE acc[r - 1] + lens[r - 1]
    IN [r \in 1 .. Len(lens) |-> acc[r]]

(* The requests of the batch with one row, and those with more. *)
DecodeRids == InOrder({r \in DOMAIN batch' : qlen'[r] = 1}, Len(batch'))
PrefillRids == InOrder({r \in DOMAIN batch' : qlen'[r] # 1}, Len(batch'))

SplitDecodePrefill ==
    LET lens == [r \in DOMAIN batch' |-> Cardinality(RowsOf(r))]
    IN /\ qlen' = Over(qlen, lens)
       /\ qstart' = Over(qstart, Starts(lens))
       /\ decode_rids' = Over(decode_rids, DecodeRids)
       /\ prefill_rids' = Over(prefill_rids, PrefillRids)

FillSampling == lrows' = Over(lrows, LogitsRows(batch'))

PrepareInputs == UploadRows /\ PackBlockTables /\ SplitDecodePrefill /\ FillSampling

(* The sizes the body launches its kernels with: n_rows, n_decode,         *)
(* n_prefill, and the query tiles of the longest prefill.                  *)
Sizes ==
    LET longest == Max({1} \cup {qlen'[r] : r \in ToSet(PrefillRids)})
    IN [rows |-> Len(FlatRows(batch')), decode |-> Len(DecodeRids),
        prefill |-> Len(PrefillRids), tiles |-> (longest + QTile - 1) \div QTile]

-----------------------------------------------------------------------------
(* GraphCache::Run and RunLayers *)

Key(s) == <<s.rows, s.decode>>
Hits(k) == {i \in DOMAIN entries : entries[i].key = k}

(* A hit moves to the front and is replayed. *)
Replay(k) ==
    LET i == Min(Hits(k))
    IN /\ entries' = <<entries[i]>> \o RemoveAt(entries, i)
       /\ launch' = graphs[entries[i].exec]
       /\ UNCHANGED graphs

(* Faulty variant: the most recent graph is evicted. *)
KeptOldest == IF Len(entries) >= MaxEntries THEN Tail(entries) ELSE entries

(* What is left after the eviction from the back that makes room for one. *)
Kept == SubSeq(entries, 1, Min({Len(entries), MaxEntries - 1}))

(* Otherwise the body is captured into a new graph and put in front. *)
Capture(k) ==
    LET new == Min({h \in Handle : graphs[h] = Destroyed})
    IN /\ entries' = <<[key |-> k, exec |-> new]>> \o Kept
       /\ graphs' = [h \in Handle |->
                       IF h = new THEN Sizes
                       ELSE IF \E e \in ToSet(entries) \ ToSet(Kept) : e.exec = h THEN Destroyed
                       ELSE graphs[h]]
       /\ launch' = Sizes

(* Faulty variant: a step with prefills is replayed, too. *)
GraphableAlways == TRUE

(* Only a step of decodes is run as a graph. *)
Graphable == Sizes.prefill = 0 /\ Sizes.decode > 0

RunLayers ==
    IF Graphable
      THEN /\ IF Hits(Key(Sizes)) # {} THEN Replay(Key(Sizes)) ELSE Capture(Key(Sizes))
           /\ recent' = <<Key(Sizes)>> \o RemoveFirst(recent, Key(Sizes))
      ELSE launch' = Sizes /\ UNCHANGED <<entries, graphs, recent>>

(* RunHeadAndSample: the rows the sampler is given. *)
RunHeadAndSample == sampled' = [i \in 1 .. Len(LogitsRows(batch')) |-> lrows'[i]]

(* Batches that fit the buffers (FitsStepContext of Scheduler). *)
Batches ==
    {b \in UNION {[1 .. m -> Requests] : m \in 1 .. Slots} : RowsTo(b, Len(b)) <= MaxRows}

Forward(b) ==
    /\ batch' = b
    /\ PrepareInputs
    /\ RunLayers
    /\ RunHeadAndSample

Next == \E b \in Batches : Forward(b)

Spec == Init /\ [][Next]_vars

-----------------------------------------------------------------------------
(* Properties *)

(* The thread blocks of the attention kernels: the request they work for,  *)
(* whose table they read, and the rows they compute.                       *)
DecodeWork ==
    {[block |-> <<i>>, req |-> decode_rids[i], rows |-> {qstart[decode_rids[i]]}] :
        i \in 1 .. launch.decode}
PrefillWork ==
    {[block |-> <<z, x>>, req |-> prefill_rids[z],
      rows |-> {qstart[prefill_rids[z]] + q :
                  q \in {q \in (x - 1) * QTile .. x * QTile - 1 : q < qlen[prefill_rids[z]]}}] :
        z \in 1 .. launch.prefill, x \in 1 .. launch.tiles}

(* Where the kernels find position p of request r. *)
Slot(r, p) == <<bt[r][p \div BlockSize + 1], p % BlockSize>>

(* A step computes the batch it was given and nothing of an earlier one,   *)
(* although buffers keep their tails and graphs their sizes: every row of  *)
(* the batch is stored and attended, by one thread block, under its own    *)
(* request and position; all positions up to it are read from the          *)
(* request's own blocks; and sample i is of the last row of the i-th       *)
(* request that asked for one.                                             *)
StepServesBatch ==
    batch # <<>> =>
        LET flat == FlatRows(batch)
            work == DecodeWork \cup PrefillWork
        IN /\ launch.rows = Len(flat) /\ UNION {w.rows : w \in work} = DOMAIN flat
           /\ \A t \in DOMAIN flat :
                /\ rows[t] = flat[t]
                /\ \E w \in work : w.req = flat[t].req
                                   /\ {v \in work : t \in v.rows} = {w}
                /\ \A p \in 0 .. flat[t].pos :
                     Slot(flat[t].req, p)
                       = <<batch[flat[t].req].blocks[p \div BlockSize + 1], p % BlockSize>>
           /\ sampled = LogitsRows(batch)

(* The graph cache is an LRU cache of live graphs: it holds the shapes     *)
(* that were used last, in that order, each once and as an executable      *)
(* graph of its own that was captured for this shape; every other graph    *)
(* has been destroyed.                                                     *)
GraphsAreRecent ==
    /\ [i \in DOMAIN entries |-> entries[i].key]
         = SubSeq(recent, 1, Min({MaxEntries, Len(recent)}))
    /\ \A i \in DOMAIN entries : Key(graphs[entries[i].exec]) = entries[i].key
    /\ {h \in Handle : graphs[h] # Destroyed} = {entries[i].exec : i \in DOMAIN entries}
=============================================================================
