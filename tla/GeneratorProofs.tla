-------------------------- MODULE GeneratorProofs --------------------------
(***************************************************************************)
(* The length policy, the tool calls and the text of one call, for every   *)
(* context window, every request and every stream of ids.                  *)
(***************************************************************************)
EXTENDS Generator, SequenceFacts, FiniteSetTheorems

-----------------------------------------------------------------------------
(* The inductive invariants of the length policy and of the tool calls *)

(* The length that was resolved fits the room, and the request. *)
Length ==
    /\ phase \in {"build", "stream", "returned"}
    /\ promptLen \in Nat \ {0} /\ requested \in Int /\ max \in Nat
    /\ phase = "stream" =>
        /\ max \in 1 .. Room(promptLen)
        /\ requested > 0 => max <= requested
    /\ err = "prompt_too_long" => promptLen >= MaxCtx

GenTypeOK ==
    /\ ids \in Seq(Ids) /\ toolIDs \in Seq(Ids)
    /\ inTool \in BOOLEAN /\ nTools \in Nat
    /\ api \in {"chat", "raw"}

(* m is the last marker so far. *)
LastMark(m) == m \in Markers(Len(ids)) /\ \A k \in Markers(Len(ids)) : k <= m

(* While the markers are paired, a call is being buffered exactly if the   *)
(* last marker opens one, and the buffer is what came after it.            *)
Buffered ==
    Paired =>
        IF inTool
          THEN \E m \in Nat : /\ LastMark(m) /\ ids[m] = "open"
                              /\ Len(toolIDs) = Len(ids) - m
                              /\ \A k \in 1 .. Len(toolIDs) : toolIDs[k] = ids[m + k]
          ELSE \A m \in Nat : LastMark(m) => ids[m] = "close"

GenInv ==
    /\ GenTypeOK
    /\ calls = [i \in 1 .. nTools |-> i]
    /\ api = "chat" =>
        /\ Buffered
        /\ Paired => nTools = Cardinality(Blocks)

-----------------------------------------------------------------------------
(* The length policy *)

(* The engine's clamp of a length that fits the room is that length. *)
LEMMA ClampIsIdle ==
    ASSUME NEW n \in Nat, NEW want \in 1 .. Room(n)
    PROVE  want = EngineMaxNew(n, want)
  <1>1. MaxCtx \in Nat
    BY GeneratorAssumption
  <1>2. PICK room : room = MaxCtx - n
    OBVIOUS
  <1>3. room \in Nat /\ room >= 1 /\ want \in 1 .. room
    BY <1>1, <1>2 DEF Room
  <1>4. Max({room, 1}) = room
    BY <1>3 DEF Max
  <1>5. Min({want, room}) = want
    BY <1>3 DEF Min
  <1>6. want > 0
    BY <1>3
  <1> QED BY <1>2, <1>4, <1>5, <1>6 DEF EngineMaxNew

(* BackstopIsIdle, for every context window, prompt and request: the       *)
(* length resolveMaxTokens sends leaves the engine's clamp nothing to do.  *)
THEOREM LengthsAgree == Spec => []BackstopIsIdle
  <1> USE GeneratorAssumption
  <1>1. Init => Length
    BY DEF Init, Length
  <1>2. Length /\ [Next]_genVars => Length'
    <2> SUFFICES ASSUME Length, [Next]_genVars PROVE Length'
      OBVIOUS
    <2>1. CASE BuildRequest
      <3>1. UNCHANGED <<promptLen, requested>> /\ phase = "build"
        BY <2>1 DEF BuildRequest
      <3>2. CASE Room(promptLen) < 1
        BY <2>1, <3>1, <3>2 DEF BuildRequest, Length, Room
      <3>3. CASE ~(Room(promptLen) < 1)
        <4>1. /\ max' = ResolveMaxTokens(promptLen, requested)
              /\ phase' = "stream" /\ err' = err
          BY <2>1, <3>3 DEF BuildRequest
        <4>2. Room(promptLen) \in Nat
          BY <3>3 DEF Length, Room
        <4>3. /\ max' \in 1 .. Room(promptLen)
              /\ requested > 0 => max' <= requested
          BY <3>3, <4>1, <4>2 DEF ResolveMaxTokens, Length
        <4>4. Room(promptLen)' = Room(promptLen)
          BY <3>1 DEF Room
        <4>5. max' \in Nat
          BY <4>3, <4>2
        <4> QED BY <3>1, <4>1, <4>3, <4>4, <4>5 DEF Length
      <3> QED BY <3>2, <3>3
    <2>2. CASE \/ \E id \in Ids : Receive(id)
               \/ \E why \in {"stop", "length"} : Return(why)
               \/ UNCHANGED genVars
      <3>1. UNCHANGED <<promptLen, requested, max, err>> /\ phase' \in {phase, "returned"}
        BY <2>2 DEF Receive, Return, reqVars, genVars
      <3>2. Room(promptLen)' = Room(promptLen)
        BY <3>1 DEF Room
      <3> QED BY <3>1, <3>2 DEF Length
    <2>3. CASE \E e \in {"over_capacity", "engine_error"} : ReturnError(e)
      BY <2>3 DEF ReturnError, reqVars, Length
    <2> QED BY <2>1, <2>2, <2>3 DEF Next
  <1>3. Length => BackstopIsIdle
    <2> SUFFICES ASSUME Length PROVE BackstopIsIdle
      OBVIOUS
    <2>1. ASSUME phase = "stream"
          PROVE  /\ max = EngineMaxNew(promptLen, max)
                 /\ promptLen + max <= MaxCtx
                 /\ requested > 0 => max <= requested
      <3>1. promptLen \in Nat /\ max \in 1 .. Room(promptLen)
        BY <2>1 DEF Length
      <3>2. promptLen + max <= MaxCtx
        BY <3>1 DEF Room
      <3> QED BY <2>1, <3>1, <3>2, ClampIsIdle DEF Length
    <2> QED BY <2>1 DEF BackstopIsIdle, Length
  <1> QED BY <1>1, <1>2, <1>3, PTL DEF Spec

-----------------------------------------------------------------------------
(* Markers, pairs and blocks of a list of ids that grows *)

(* What an id that is received adds to the markers. *)
LEMMA MarkersGrow ==
    ASSUME ids \in Seq(Ids), NEW id \in Ids, ids' = Append(ids, id),
           NEW n, n = Len(ids)
    PROVE  /\ n \in Nat /\ Len(ids') = n + 1 /\ ids' \in Seq(Ids)
           /\ \A i \in 1 .. n : ids'[i] = ids[i]
           /\ ids'[n + 1] = id
           /\ \A i \in 0 .. n : Markers(i)' = Markers(i)
           /\ Markers(n + 1)' = Markers(n) \cup (IF id \in {"open", "close"} THEN {n + 1} ELSE {})
  <1>1. /\ n \in Nat /\ Len(ids') = n + 1 /\ ids' \in Seq(Ids)
        /\ \A i \in 1 .. n : ids'[i] = ids[i]
        /\ ids'[n + 1] = id
    OBVIOUS
  <1>2. \A i \in 0 .. n : Markers(i)' = Markers(i)
    BY <1>1 DEF Markers
  <1>3. 1 .. n + 1 = (1 .. n) \cup {n + 1} /\ n + 1 \notin 1 .. n
    BY <1>1
  <1>4. Markers(n + 1)' = Markers(n) \cup (IF id \in {"open", "close"} THEN {n + 1} ELSE {})
    BY <1>1, <1>3 DEF Markers
  <1> QED BY <1>1, <1>2, <1>4

(* Where the last marker is once an id is added. *)
LEMMA LastMarkGrows ==
    ASSUME ids \in Seq(Ids), NEW id \in Ids, ids' = Append(ids, id), NEW m \in Nat
    PROVE  LastMark(m)' <=> IF id \in {"open", "close"} THEN m = Len(ids) + 1 ELSE LastMark(m)
  <1>1. PICK n : n = Len(ids)
    OBVIOUS
  <1>2. /\ n \in Nat /\ Len(ids') = n + 1
        /\ Markers(n + 1)' = Markers(n) \cup (IF id \in {"open", "close"} THEN {n + 1} ELSE {})
    BY <1>1, MarkersGrow
  <1>3. Markers(n) \subseteq 1 .. n
    BY DEF Markers
  <1>4. LastMark(m)' <=> m \in Markers(n + 1)' /\ \A k \in Markers(n + 1)' : k <= m
    BY <1>2 DEF LastMark
  <1>5. LastMark(m) <=> m \in Markers(n) /\ \A k \in Markers(n) : k <= m
    BY <1>1 DEF LastMark
  <1>6. CASE id \in {"open", "close"}
    <2>1. \A k \in Markers(n) : k \in Nat /\ k <= n
      BY <1>2, <1>3
    <2> QED BY <1>1, <1>2, <1>4, <1>6, <2>1
  <1>7. CASE id \notin {"open", "close"}
    <2>1. Markers(n + 1)' = Markers(n)
      BY <1>2, <1>7
    <2> QED BY <1>4, <1>5, <1>7, <2>1
  <1> QED BY <1>6, <1>7

(* The last marker decides what is inside. *)
LEMMA InsideIsOpen ==
    ASSUME ids \in Seq(Ids), Inside(Len(ids))
    PROVE  \E m \in Nat : LastMark(m) /\ ids[m] = "open"
  <1>1. PICK n, M : n = Len(ids) /\ M = Markers(n)
    OBVIOUS
  <1>2. n \in Nat /\ M \in SUBSET (0 .. n) /\ M # {} /\ ids[Max(M)] = "open"
    BY <1>1 DEF Inside, Markers
  <1>3. Max(M) \in M /\ \A k \in M : k <= Max(M)
    BY <1>2, LargestNat
  <1>4. Max(M) \in Nat
    <2>1. \A k \in M : k \in Nat
      BY <1>2
    <2> QED BY <2>1, <1>3
  <1> QED BY <1>1, <1>2, <1>3, <1>4 DEF LastMark

(* A list that is paired was paired before its last id; and a closing      *)
(* marker that is added to it closes a call.                               *)
LEMMA PairedBefore ==
    ASSUME ids \in Seq(Ids), NEW id \in Ids, ids' = Append(ids, id), Paired'
    PROVE  Paired /\ (id = "close" => Inside(Len(ids)))
  <1>1. PICK n : n = Len(ids)
    OBVIOUS
  <1>2. /\ n \in Nat /\ Len(ids') = n + 1 /\ ids' \in Seq(Ids)
        /\ \A i \in 1 .. n : ids'[i] = ids[i]
        /\ ids'[n + 1] = id
        /\ \A i \in 0 .. n : Markers(i)' = Markers(i)
    BY <1>1, MarkersGrow
  <1>3. ASSUME NEW i \in 0 .. n PROVE Inside(i)' => Inside(i)
    <2>1. Markers(i)' = Markers(i) /\ Markers(i) \subseteq 1 .. n
      BY <1>2 DEF Markers
    <2>2. ASSUME Inside(i)' PROVE Inside(i)
      <3>1. PICK M : M = Markers(i)
        OBVIOUS
      <3>2. M # {} /\ ids'[Max(M)] = "open" /\ M \subseteq 1 .. n
        BY <2>1, <2>2, <3>1 DEF Inside
      <3>3. M \in SUBSET (0 .. n)
        BY <3>2
      <3>4. Max(M) \in M
        BY <1>2, <3>2, <3>3, LargestNat
      <3> QED BY <3>1, <3>2, <3>4, <1>2 DEF Inside
    <2> QED BY <2>2
  <1>4. DOMAIN ids = 1 .. n /\ DOMAIN ids' = 1 .. n + 1
    BY <1>1, <1>2
  <1>5. Paired
    <2> SUFFICES ASSUME NEW i \in 1 .. n, ids[i] = "close" PROVE i > 1 /\ Inside(i - 1)
      BY <1>4 DEF Paired
    <2>1. i > 1 /\ Inside(i - 1)'
      BY <1>2, <1>4 DEF Paired
    <2> QED BY <2>1, <1>3, <1>2
  <1>6. ASSUME id = "close" PROVE Inside(n)
    <2>1. n + 1 \in DOMAIN ids' /\ ids'[n + 1] = "close"
      BY <1>2, <1>4, <1>6
    <2>2. Inside((n + 1) - 1)'
      BY <2>1 DEF Paired
    <2>3. (n + 1) - 1 = n /\ n \in 0 .. n
      BY <1>2
    <2> QED BY <2>2, <2>3, <1>3
  <1> QED BY <1>1, <1>5, <1>6

(* What an id that is received adds to the well-formed blocks. *)
LEMMA BlocksGrow ==
    ASSUME ids \in Seq(Ids), NEW id \in Ids, ids' = Append(ids, id), NEW n, n = Len(ids)
    PROVE  /\ Cardinality(Blocks) \in Nat
           /\ Cardinality(Blocks') =
                IF n > 1 /\ id = "close" /\ ids[n] = "json" /\ ids[n - 1] = "open"
                  THEN Cardinality(Blocks) + 1 ELSE Cardinality(Blocks)
  <1>1. /\ n \in Nat /\ Len(ids') = n + 1 /\ ids' \in Seq(Ids)
        /\ \A i \in 1 .. n : ids'[i] = ids[i]
        /\ ids'[n + 1] = id
    BY MarkersGrow
  <1>2. DOMAIN ids = 1 .. n /\ DOMAIN ids' = 1 .. n + 1
    BY <1>1
  <1>3. Blocks \subseteq 1 .. n /\ n + 1 \notin Blocks
    BY <1>1, <1>2 DEF Blocks
  <1>4. IsFiniteSet(Blocks) /\ Cardinality(Blocks) \in Nat
    <2>1. IsFiniteSet(1 .. n)
      BY <1>1, FS_Interval
    <2> QED BY <2>1, <1>3, FS_Subset, FS_CardinalityType
  <1>5. PICK more : more <=> n > 1 /\ id = "close" /\ ids[n] = "json" /\ ids[n - 1] = "open"
    OBVIOUS
  <1>6. Blocks' = Blocks \cup (IF more THEN {n + 1} ELSE {})
    <2>1. ASSUME NEW i \in 1 .. n PROVE i \in Blocks' <=> i \in Blocks
      BY <1>1, <1>2 DEF Blocks
    <2>2. n + 1 \in Blocks' <=> more
      BY <1>1, <1>2, <1>5 DEF Blocks
    <2>3. Blocks' \subseteq 1 .. n + 1 /\ 1 .. n + 1 = (1 .. n) \cup {n + 1}
      BY <1>1, <1>2 DEF Blocks
    <2> QED BY <2>1, <2>2, <2>3, <1>3
  <1>7. Cardinality(Blocks \cup {n + 1}) = Cardinality(Blocks) + 1
    BY <1>3, <1>4, FS_AddElement
  <1> QED BY <1>4, <1>5, <1>6, <1>7

-----------------------------------------------------------------------------
(* Tool calls *)

(* The invariant holds at first. *)
LEMMA GenStarts == Init => GenInv
  <1> SUFFICES ASSUME Init PROVE GenInv
    OBVIOUS
  <1>1. /\ ids = <<>> /\ toolIDs = <<>> /\ inTool = FALSE /\ nTools = 0 /\ calls = <<>>
        /\ api \in {"chat", "raw"}
    BY DEF Init
  <1>2. GenTypeOK
    <2>1. <<>> \in Seq(Ids)
      OBVIOUS
    <2> QED BY <1>1, <2>1 DEF GenTypeOK
  <1>3. calls = [i \in 1 .. nTools |-> i]
    BY <1>1
  <1>4. Buffered
    BY <1>1 DEF Buffered, LastMark, Markers
  <1>5. Blocks = {}
    BY <1>1 DEF Blocks
  <1>6. nTools = Cardinality(Blocks)
    BY <1>1, <1>5, FS_EmptySet
  <1> QED BY <1>2, <1>3, <1>4, <1>6 DEF GenInv

(* What Stream.Push does with the tool calls. *)
LEMMA PushTools ==
    ASSUME GenTypeOK, NEW id \in Ids, PushChat(id)
    PROVE  \/ id = "open" /\ inTool' = TRUE /\ toolIDs' = <<>> /\ UNCHANGED <<nTools, calls>>
           \/ /\ id = "close" /\ inTool' = FALSE /\ UNCHANGED toolIDs
              /\ IF toolIDs = <<"json">>
                   THEN nTools' = nTools + 1 /\ calls' = Append(calls, nTools + 1)
                   ELSE UNCHANGED <<nTools, calls>>
           \/ /\ id \notin {"open", "close"} /\ inTool /\ toolIDs' = Append(toolIDs, id)
              /\ UNCHANGED <<inTool, nTools, calls>>
           \/ id \notin {"open", "close"} /\ ~inTool /\ UNCHANGED <<inTool, toolIDs, nTools, calls>>
  <1>1. CASE id = "open"
    BY <1>1 DEF PushChat, PushOpen, resVars
  <1>2. CASE id = "close"
    <2>1. PushClose
      BY <1>2 DEF PushChat
    <2>2. nTools + 1 # 0
      BY DEF GenTypeOK
    <2> QED BY <1>2, <2>1, <2>2 DEF PushClose, Deliver, Parses
  <1>3. CASE id \notin {"open", "close"} /\ inTool
    BY <1>3 DEF PushChat, PushTool, resVars
  <1>4. CASE id \notin {"open", "close"} /\ ~inTool
    <2>1. UNCHANGED <<pending, toolVars, resVars>> \/ Emit(id)
      BY <1>4 DEF PushChat
    <2> QED BY <1>4, <2>1 DEF Emit, Deliver, toolVars, resVars
  <1> QED BY <1>1, <1>2, <1>3, <1>4

(* Between its markers a call is buffered as it came. *)
LEMMA BufferedStep ==
    ASSUME GenTypeOK, Buffered, NEW id \in Ids, ids' = Append(ids, id), PushChat(id)
    PROVE  Buffered'
  <1> SUFFICES ASSUME Paired' PROVE
        IF inTool'
          THEN \E m \in Nat : /\ LastMark(m)' /\ ids'[m] = "open"
                              /\ Len(toolIDs') = Len(ids') - m
                              /\ \A k \in 1 .. Len(toolIDs') : toolIDs'[k] = ids'[m + k]
          ELSE \A m \in Nat : LastMark(m)' => ids'[m] = "close"
    BY DEF Buffered
  <1>1. PICK n : n = Len(ids)
    OBVIOUS
  <1>2. /\ n \in Nat /\ Len(ids') = n + 1 /\ ids' \in Seq(Ids) /\ ids \in Seq(Ids)
        /\ \A i \in 1 .. n : ids'[i] = ids[i]
        /\ ids'[n + 1] = id
    BY <1>1, MarkersGrow DEF GenTypeOK
  <1>3. Paired
    BY <1>2, PairedBefore
  <1>4. \A m \in Nat : LastMark(m)' <=> IF id \in {"open", "close"} THEN m = n + 1 ELSE LastMark(m)
    BY <1>1, <1>2, LastMarkGrows
  <1>5. \A m \in Nat : LastMark(m) => m \in 1 .. n
    BY <1>1 DEF LastMark, Markers
  <1>6. CASE id = "open" /\ inTool' = TRUE /\ toolIDs' = <<>>
    <2>1. n + 1 \in Nat /\ LastMark(n + 1)' /\ ids'[n + 1] = "open"
      BY <1>2, <1>4, <1>6
    <2>2. Len(toolIDs') = (n + 1) - (n + 1) /\ \A k \in 1 .. Len(toolIDs') : FALSE
      BY <1>2, <1>6
    <2> QED BY <1>2, <1>6, <2>1, <2>2
  <1>7. CASE id = "close" /\ inTool' = FALSE
    BY <1>2, <1>4, <1>7
  <1>8. CASE id \notin {"open", "close"} /\ inTool /\ toolIDs' = Append(toolIDs, id) /\ inTool' = inTool
    <2>1. PICK m \in Nat : /\ LastMark(m) /\ ids[m] = "open"
                           /\ Len(toolIDs) = Len(ids) - m
                           /\ \A k \in 1 .. Len(toolIDs) : toolIDs[k] = ids[m + k]
      BY <1>3, <1>8 DEF Buffered
    <2>2. PICK l : l = Len(toolIDs)
      OBVIOUS
    <2>3. /\ l \in Nat /\ Len(toolIDs') = l + 1 /\ toolIDs'[l + 1] = id
          /\ \A k \in 1 .. l : toolIDs'[k] = toolIDs[k]
      BY <1>8, <2>2 DEF GenTypeOK
    <2>4. m \in 1 .. n /\ l = n - m
      BY <1>1, <1>5, <2>1, <2>2
    <2>5. LastMark(m)' /\ ids'[m] = "open" /\ Len(toolIDs') = (n + 1) - m
      BY <1>2, <1>4, <1>8, <2>1, <2>3, <2>4
    <2>6. ASSUME NEW k \in 1 .. l + 1 PROVE toolIDs'[k] = ids'[m + k]
      <3>1. CASE k \in 1 .. l
        <4>1. m + k \in 1 .. n
          BY <2>3, <2>4, <3>1, <1>2
        <4> QED BY <4>1, <3>1, <2>1, <2>2, <2>3, <1>2
      <3>2. CASE k = l + 1
        <4>1. m + k = n + 1
          BY <2>3, <2>4, <3>2, <1>2
        <4> QED BY <4>1, <3>2, <2>3, <1>2
      <3>3. k \in 1 .. l \/ k = l + 1
        BY <2>3
      <3> QED BY <3>1, <3>2, <3>3
    <2>7. /\ Len(toolIDs') = Len(ids') - m
          /\ \A k \in 1 .. Len(toolIDs') : toolIDs'[k] = ids'[m + k]
      BY <1>2, <2>3, <2>5, <2>6
    <2> QED BY <1>8, <2>5, <2>7
  <1>9. CASE id \notin {"open", "close"} /\ ~inTool /\ inTool' = inTool
    <2>1. \A m \in Nat : LastMark(m) => ids[m] = "close"
      BY <1>3, <1>9 DEF Buffered
    <2> QED BY <2>1, <1>2, <1>4, <1>5, <1>9
  <1> QED BY PushTools, <1>6, <1>7, <1>8, <1>9

(* A closing marker parses what a well-formed block has, and no other id   *)
(* makes a call.                                                           *)
LEMMA BlocksStep ==
    ASSUME GenTypeOK, Buffered, Paired => nTools = Cardinality(Blocks),
           NEW id \in Ids, ids' = Append(ids, id), PushChat(id), Paired'
    PROVE  nTools' = Cardinality(Blocks')
  <1>1. PICK n : n = Len(ids)
    OBVIOUS
  <1>2. n \in Nat /\ ids \in Seq(Ids) /\ toolIDs \in Seq(Ids)
    BY <1>1 DEF GenTypeOK
  <1>3. Paired /\ (id = "close" => Inside(Len(ids)))
    BY <1>2, PairedBefore
  <1>4. Cardinality(Blocks') =
          IF n > 1 /\ id = "close" /\ ids[n] = "json" /\ ids[n - 1] = "open"
            THEN nTools + 1 ELSE nTools
    BY <1>1, <1>2, <1>3, BlocksGrow
  <1>5. CASE id # "close"
    BY <1>4, <1>5, PushTools
  <1>6. CASE id = "close"
    <2>1. nTools' = IF toolIDs = <<"json">> THEN nTools + 1 ELSE nTools
      BY <1>6, PushTools
    <2>2. PICK o \in Nat : LastMark(o) /\ ids[o] = "open"
      BY <1>2, <1>3, <1>6, InsideIsOpen
    <2>3. inTool
      BY <1>3, <2>2 DEF Buffered
    <2>4. PICK m \in Nat : /\ LastMark(m) /\ ids[m] = "open"
                           /\ Len(toolIDs) = n - m
                           /\ \A k \in 1 .. Len(toolIDs) : toolIDs[k] = ids[m + k]
      BY <1>1, <1>3, <2>3 DEF Buffered
    <2>5. m \in 1 .. n /\ \A k \in m + 1 .. n : ids[k] \notin {"open", "close"}
      <3>1. m \in 1 .. n /\ \A k \in Markers(n) : k <= m
        BY <1>1, <2>4 DEF LastMark, Markers
      <3>2. \A k \in m + 1 .. n : k \notin Markers(n) /\ k \in 1 .. n
        BY <3>1, <1>2 DEF Markers
      <3> QED BY <3>1, <3>2 DEF Markers
    <2>6. toolIDs = <<"json">> <=> Len(toolIDs) = 1 /\ toolIDs[1] = "json"
      BY <1>2
    <2>7. ASSUME toolIDs = <<"json">> PROVE n > 1 /\ ids[n] = "json" /\ ids[n - 1] = "open"
      <3>1. Len(toolIDs) = 1 /\ toolIDs[1] = "json"
        BY <2>6, <2>7
      <3>2. m = n - 1
        <4>1. 1 = n - m
          BY <3>1, <2>4
        <4> QED BY <4>1, <1>2
      <3>3. toolIDs[1] = ids[m + 1]
        BY <3>1, <2>4
      <3> QED BY <3>1, <3>2, <3>3, <2>4, <2>5, <1>2
    <2>8. ASSUME n > 1, ids[n] = "json", ids[n - 1] = "open" PROVE toolIDs = <<"json">>
      <3>1. m # n
        BY <2>4, <2>8
      <3>2. ~(n - 1 \in m + 1 .. n)
        BY <2>5, <2>8
      <3>3. m = n - 1
        BY <3>1, <3>2, <2>5, <2>8, <1>2
      <3>4. Len(toolIDs) = 1
        BY <3>3, <2>4, <1>2
      <3>5. toolIDs[1] = ids[m + 1] /\ m + 1 = n
        BY <3>3, <3>4, <2>4, <1>2
      <3> QED BY <3>4, <3>5, <2>6, <2>8
    <2> QED BY <2>1, <2>7, <2>8, <1>4, <1>6
  <1> QED BY <1>5, <1>6

(* The invariant is inductive. *)
LEMMA GenStep == GenInv /\ [Next]_genVars => GenInv'
  <1> SUFFICES ASSUME GenInv, [Next]_genVars PROVE GenInv'
    OBVIOUS
  <1>1. CASE UNCHANGED <<ids, toolVars, calls, api>>
    BY <1>1 DEF toolVars, GenInv, GenTypeOK, Buffered, LastMark, Markers, Paired, Inside, Blocks
  <1>2. ASSUME NEW id \in Ids, Receive(id) PROVE GenInv'
    <2>1. ids' = Append(ids, id) /\ api' = api
      BY <1>2 DEF Receive, reqVars
    <2>2. GenTypeOK /\ calls = [i \in 1 .. nTools |-> i]
      BY DEF GenInv
    <2>3. CASE api = "chat"
      <3>1. PushChat(id)
        BY <1>2, <2>3 DEF Receive
      <3>2. Buffered'
        BY <2>1, <2>2, <2>3, <3>1, BufferedStep DEF GenInv
      <3>3. Paired' => nTools' = Cardinality(Blocks')
        BY <2>1, <2>2, <2>3, <3>1, BlocksStep DEF GenInv
      <3>4. GenTypeOK'
        <4>1. ids' \in Seq(Ids) /\ <<>> \in Seq(Ids) /\ Append(toolIDs, id) \in Seq(Ids)
          BY <2>1, <2>2 DEF GenTypeOK
        <4>2. nTools + 1 \in Nat
          BY <2>2 DEF GenTypeOK
        <4> QED BY <2>1, <2>2, <3>1, <4>1, <4>2, PushTools DEF GenTypeOK
      <3>5. calls' = [i \in 1 .. nTools' |-> i]
        <4>1. CASE nTools' = nTools + 1 /\ calls' = Append(calls, nTools + 1)
          <5>1. nTools \in Nat
            BY <2>2 DEF GenTypeOK
          <5>2. PICK c : c = [i \in 1 .. nTools + 1 |-> i]
            OBVIOUS
          <5>3. c \in Seq(Nat) /\ Len(c) = nTools + 1
            BY <5>1, <5>2
          <5>4. calls \in Seq(Nat) /\ Len(calls) = nTools
            BY <2>2, <5>1
          <5>5. Append(calls, nTools + 1) \in Seq(Nat) /\ Len(Append(calls, nTools + 1)) = nTools + 1
            BY <5>1, <5>4
          <5>6. ASSUME NEW i \in 1 .. nTools + 1 PROVE Append(calls, nTools + 1)[i] = c[i]
            BY <5>1, <5>2, <5>4, <2>2
          <5>7. Append(calls, nTools + 1) = c
            BY <5>3, <5>5, <5>6, SeqEqual
          <5> QED BY <4>1, <5>2, <5>7
        <4>2. CASE UNCHANGED <<nTools, calls>>
          BY <4>2, <2>2
        <4> QED BY <2>2, <3>1, <4>1, <4>2, PushTools
      <3> QED BY <3>2, <3>3, <3>4, <3>5 DEF GenInv
    <2>4. CASE api # "chat"
      <3>1. Emit(id)
        BY <1>2, <2>4 DEF Receive
      <3>2. UNCHANGED <<toolVars, calls>>
        BY <3>1 DEF Emit, Deliver
      <3>3. ids' \in Seq(Ids)
        BY <2>1, <2>2 DEF GenTypeOK
      <3> QED BY <2>1, <2>2, <2>4, <3>2, <3>3 DEF GenInv, GenTypeOK, toolVars
    <2> QED BY <2>3, <2>4
  <1>3. CASE BuildRequest \/ UNCHANGED genVars
    <2>1. UNCHANGED <<ids, toolVars, calls, api>>
      BY <1>3 DEF BuildRequest, genVars, reqVars, resVars
    <2> QED BY <2>1, <1>1
  <1>4. CASE \E why \in {"stop", "length"} : Return(why)
    <2>1. UNCHANGED <<ids, toolVars, calls, api>>
      BY <1>4 DEF Return, reqVars
    <2> QED BY <2>1, <1>1
  <1>5. CASE \E e \in {"over_capacity", "engine_error"} : ReturnError(e)
    <2>1. UNCHANGED <<ids, toolVars, calls, api>>
      BY <1>5 DEF ReturnError, reqVars, resVars
    <2> QED BY <2>1, <1>1
  <1> QED BY <1>2, <1>3, <1>4, <1>5 DEF Next

(* CallsAreBlocks, for every stream of ids: however long it is and         *)
(* whatever comes between the calls, paired markers give one call for      *)
(* every well-formed block, numbered in order.                             *)
THEOREM CallsComplete == Spec => []CallsAreBlocks
  <1>1. GenInv => CallsAreBlocks
    BY DEF GenInv, CallsAreBlocks
  <1> QED BY <1>1, GenStarts, GenStep, PTL DEF Spec

-----------------------------------------------------------------------------
(* Runes *)

(* When takeRunes goes on at byte a of s: the rune is whole, or a byte     *)
(* that cannot continue it has arrived.                                    *)
FullRule(s, a) ==
    \/ Width(s[a]) = 1
    \/ /\ a + 1 <= Len(s)
       /\ \/ Width(s[a]) = 2 \/ s[a + 1] # "c"
          \/ a + 2 <= Len(s) /\ (Width(s[a]) = 3 \/ s[a + 2] # "c" \/ a + 3 <= Len(s))

(* How far it goes. *)
SizeRule(s, a) ==
    IF Width(s[a]) = 2 /\ a + 1 <= Len(s) /\ s[a + 1] = "c" THEN 2
    ELSE IF Width(s[a]) = 3 /\ a + 2 <= Len(s) /\ s[a + 1] = "c" /\ s[a + 2] = "c" THEN 3
    ELSE IF /\ Width(s[a]) = 4 /\ a + 3 <= Len(s)
            /\ s[a + 1] = "c" /\ s[a + 2] = "c" /\ s[a + 3] = "c" THEN 4
    ELSE 1

(* The widths of runes. *)
LEMMA Widths == \A b : Width(b) \in 1 .. 4
  BY DEF Width

(* How many bytes there are. *)
LEMMA UpTo == Cardinality(1 .. 2) = 2 /\ Cardinality(1 .. 3) = 3
  <1>1. \A n \in Nat : Cardinality(1 .. n) = IF 1 > n THEN 0 ELSE n - 1 + 1
    BY FS_Interval
  <1>2. 2 \in Nat /\ 3 \in Nat
    OBVIOUS
  <1>3. Cardinality(1 .. 2) = IF 1 > 2 THEN 0 ELSE 2 - 1 + 1
    BY <1>1, <1>2
  <1>4. Cardinality(1 .. 3) = IF 1 > 3 THEN 0 ELSE 3 - 1 + 1
    BY <1>1, <1>2
  <1>5. Cardinality(1 .. 2) = 2
    BY <1>3
  <1>6. Cardinality(1 .. 3) = 3
    BY <1>4
  <1> QED BY <1>5, <1>6

(* FullRune and RuneSize look at most three bytes ahead, as the two rules  *)
(* say.                                                                    *)
LEMMA RuneRules ==
    ASSUME NEW C, NEW s \in Seq(C), NEW a \in 1 .. Len(s)
    PROVE  /\ FullRune(s, a) <=> FullRule(s, a)
           /\ RuneSize(s, a) = SizeRule(s, a)
           /\ RuneSize(s, a) \in 1 .. 4 /\ a + RuneSize(s, a) \in a + 1 .. Len(s) + 1
  <1>1. PICK w, n, K : w = Width(s[a]) /\ n = Len(s) /\ K = Continued(s, a)
    OBVIOUS
  <1>2. w \in 1 .. 4 /\ n \in Nat /\ a \in 1 .. n
    BY <1>1, Widths
  <1>3. K = {m \in 1 .. w : a + m - 1 <= n /\ \A k \in a + 1 .. a + m - 1 : s[k] = "c"}
    BY <1>1 DEF Continued
  <1>4. /\ \A m \in K : m \in 1 .. w
        /\ 1 \in K
        /\ 2 \in K <=> w >= 2 /\ a + 1 <= n /\ s[a + 1] = "c"
        /\ 3 \in K <=> w >= 3 /\ a + 2 <= n /\ s[a + 1] = "c" /\ s[a + 2] = "c"
        /\ 4 \in K <=> /\ w = 4 /\ a + 3 <= n
                       /\ s[a + 1] = "c" /\ s[a + 2] = "c" /\ s[a + 3] = "c"
    <2>1. 1 \in K
      BY <1>2, <1>3
    <2>2. 2 \in K <=> w >= 2 /\ a + 1 <= n /\ s[a + 1] = "c"
      <3>1. a + 1 .. a + 2 - 1 = {a + 1} /\ a + 2 - 1 = a + 1
        BY <1>2
      <3> QED BY <1>2, <1>3, <3>1
    <2>3. 3 \in K <=> w >= 3 /\ a + 2 <= n /\ s[a + 1] = "c" /\ s[a + 2] = "c"
      <3>1. a + 1 .. a + 3 - 1 = {a + 1, a + 2} /\ a + 3 - 1 = a + 2
        BY <1>2
      <3> QED BY <1>2, <1>3, <3>1
    <2>4. 4 \in K <=> /\ w = 4 /\ a + 3 <= n
                      /\ s[a + 1] = "c" /\ s[a + 2] = "c" /\ s[a + 3] = "c"
      <3>1. a + 1 .. a + 4 - 1 = {a + 1, a + 2, a + 3} /\ a + 4 - 1 = a + 3
        BY <1>2
      <3> QED BY <1>2, <1>3, <3>1
    <2> QED BY <2>1, <2>2, <2>3, <2>4, <1>3
  <1>5. RuneSize(s, a) = SizeRule(s, a)
    BY <1>1, <1>2, <1>4 DEF RuneSize, SizeRule
  <1>6. FullRune(s, a) <=> w \in K \/ a + Cardinality(K) <= n
    BY <1>1 DEF FullRune
  <1>7. FullRune(s, a) <=> FullRule(s, a)
    <2>1. CASE w \in K
      BY <2>1, <1>1, <1>2, <1>4, <1>6 DEF FullRule
    <2>2. CASE w \notin K /\ 2 \in K /\ 3 \notin K
      <3>1. w \in {3, 4} /\ K = {1, 2}
        <4>1. 4 \notin K
          BY <2>2, <1>4
        <4>2. w \in {3, 4}
          BY <2>2, <1>2, <1>4
        <4> QED BY <4>1, <4>2, <2>2, <1>4
      <3>2. Cardinality(K) = 2
        <4>1. K = 1 .. 2
          BY <3>1
        <4> QED BY <4>1, UpTo
      <3> QED BY <2>2, <3>1, <3>2, <1>1, <1>2, <1>4, <1>6 DEF FullRule
    <2>3. CASE w \notin K /\ 2 \notin K
      <3>1. w # 1 /\ K = {1}
        BY <2>3, <1>2, <1>4
      <3>2. Cardinality(K) = 1
        BY <3>1, FS_Singleton
      <3> QED BY <2>3, <3>1, <3>2, <1>1, <1>2, <1>4, <1>6 DEF FullRule
    <2>4. CASE w \notin K /\ 3 \in K
      <3>1. w = 4 /\ K = 1 .. 3
        BY <2>4, <1>2, <1>4
      <3>2. Cardinality(K) = 3
        BY <3>1, UpTo
      <3> QED BY <2>4, <3>1, <3>2, <1>1, <1>2, <1>4, <1>6 DEF FullRule
    <2> QED BY <2>1, <2>2, <2>3, <2>4
  <1>8. SizeRule(s, a) \in 1 .. 4 /\ a + SizeRule(s, a) \in a + 1 .. Len(s) + 1
    BY <1>1, <1>2 DEF SizeRule
  <1> QED BY <1>5, <1>7, <1>8

(* From b on t has the bytes that s has from a on. *)
SameFrom(t, b, s, a) ==
    Len(t) - b = Len(s) - a /\ \A k \in 0 .. Len(s) - a : t[b + k] = s[a + k]

(* The same bytes from there on are the same rune. *)
LEMMA SameRune ==
    ASSUME NEW C, NEW s \in Seq(C), NEW t \in Seq(C), NEW a \in 1 .. Len(s), NEW b \in 1 .. Len(t),
           SameFrom(t, b, s, a)
    PROVE  (FullRune(t, b) <=> FullRune(s, a)) /\ RuneSize(t, b) = RuneSize(s, a)
  <1>1. PICK n, m : n = Len(s) /\ m = Len(t)
    OBVIOUS
  <1>2. /\ n \in Nat /\ m \in Nat /\ a \in 1 .. n /\ b \in 1 .. m /\ m - b = n - a
        /\ \A k \in 0 .. n - a : t[b + k] = s[a + k]
    BY <1>1 DEF SameFrom
  <1>3. /\ t[b] = s[a]
        /\ b + 1 <= m <=> a + 1 <= n
        /\ b + 2 <= m <=> a + 2 <= n
        /\ b + 3 <= m <=> a + 3 <= n
        /\ a + 1 <= n => t[b + 1] = s[a + 1]
        /\ a + 2 <= n => t[b + 2] = s[a + 2]
        /\ a + 3 <= n => t[b + 3] = s[a + 3]
    <2>1. b + 0 = b /\ a + 0 = a /\ 0 \in 0 .. n - a
      BY <1>2
    <2>2. t[b] = s[a]
      BY <1>2, <2>1
    <2>3. a + 1 <= n => 1 \in 0 .. n - a
      BY <1>2
    <2>4. a + 2 <= n => 2 \in 0 .. n - a
      BY <1>2
    <2>5. a + 3 <= n => 3 \in 0 .. n - a
      BY <1>2
    <2> QED BY <1>2, <2>2, <2>3, <2>4, <2>5
  <1>4. (FullRule(t, b) <=> FullRule(s, a)) /\ SizeRule(t, b) = SizeRule(s, a)
    <2>1. Width(t[b]) = Width(s[a]) /\ Width(s[a]) \in 1 .. 4
      BY <1>3, Widths
    <2>2. FullRule(t, b) <=> FullRule(s, a)
      <3>1. CASE a + 1 <= n
        BY <1>1, <1>2, <1>3, <2>1, <3>1 DEF FullRule
      <3>2. CASE ~(a + 1 <= n)
        BY <1>1, <1>2, <1>3, <2>1, <3>2 DEF FullRule
      <3> QED BY <3>1, <3>2
    <2>3. SizeRule(t, b) = SizeRule(s, a)
      <3>1. CASE a + 1 <= n
        BY <1>1, <1>2, <1>3, <2>1, <3>1 DEF SizeRule
      <3>2. CASE ~(a + 1 <= n)
        BY <1>1, <1>2, <1>3, <2>1, <3>2 DEF SizeRule
      <3> QED BY <3>1, <3>2
    <2> QED BY <2>2, <2>3
  <1>5. (FullRune(t, b) <=> FullRule(t, b)) /\ RuneSize(t, b) = SizeRule(t, b)
    BY RuneRules
  <1>6. (FullRune(s, a) <=> FullRule(s, a)) /\ RuneSize(s, a) = SizeRule(s, a)
    BY RuneRules
  <1> QED BY <1>4, <1>5, <1>6

(* What comes later does not change a rune that takeRunes has passed. *)
LEMMA RuneStays ==
    ASSUME NEW C, NEW s \in Seq(C), NEW t \in Seq(C), Len(s) <= Len(t),
           \A k \in 1 .. Len(s) : t[k] = s[k],
           NEW a \in 1 .. Len(s), FullRune(s, a)
    PROVE  FullRune(t, a) /\ RuneSize(t, a) = RuneSize(s, a)
  <1>1. PICK n, m : n = Len(s) /\ m = Len(t)
    OBVIOUS
  <1>2. n \in Nat /\ m \in Nat /\ n <= m /\ a \in 1 .. n /\ a \in 1 .. m
    BY <1>1
  <1>3. /\ t[a] = s[a]
        /\ a + 1 <= n => t[a + 1] = s[a + 1] /\ a + 1 <= m
        /\ a + 2 <= n => t[a + 2] = s[a + 2] /\ a + 2 <= m
        /\ a + 3 <= n => t[a + 3] = s[a + 3] /\ a + 3 <= m
    BY <1>1, <1>2
  <1>4. FullRule(s, a)
    BY RuneRules
  <1>5. FullRule(t, a) /\ SizeRule(t, a) = SizeRule(s, a)
    <2>1. Width(s[a]) \in 1 .. 4 /\ Width(t[a]) = Width(s[a])
      BY <1>3, Widths
    <2> QED BY <1>1, <1>2, <1>3, <1>4, <2>1 DEF FullRule, SizeRule
  <1>6. (FullRune(t, a) <=> FullRule(t, a)) /\ RuneSize(t, a) = SizeRule(t, a)
    BY <1>1, <1>2, RuneRules
  <1>7. RuneSize(s, a) = SizeRule(s, a)
    BY RuneRules
  <1> QED BY <1>5, <1>6, <1>7

(* What is held back is shorter than a rune. *)
LEMMA HeldBackIsShort ==
    ASSUME NEW C, NEW s \in Seq(C), s # <<>>, ~FullRune(s, 1)
    PROVE  Len(s) <= 3
  <1>1. 1 \in 1 .. Len(s) /\ Len(s) \in Nat
    OBVIOUS
  <1>2. ~FullRule(s, 1)
    BY <1>1, RuneRules
  <1> QED BY <1>1, <1>2, Widths DEF FullRule

(* B is a chain of rune starts of s: from its first byte on, each is where *)
(* a whole rune ends.                                                      *)
Chain(B, s) ==
    /\ B \subseteq 1 .. Len(s) + 1
    /\ \A b \in B :
        b = 1 \/ \E a \in B : /\ a \in 1 .. Len(s) /\ FullRune(s, a)
                            /\ b = a + RuneSize(s, a)

(* Bytes that follow do not break a chain. *)
LEMMA ChainStays ==
    ASSUME NEW C, NEW s \in Seq(C), NEW t \in Seq(C), Len(s) <= Len(t),
           \A k \in 1 .. Len(s) : t[k] = s[k],
           NEW B, Chain(B, s)
    PROVE  Chain(B, t)
  <1>1. 1 .. Len(s) + 1 \subseteq 1 .. Len(t) + 1 /\ 1 .. Len(s) \subseteq 1 .. Len(t)
    OBVIOUS
  <1>2. ASSUME NEW b \in B, b # 1
        PROVE  \E a \in B : a \in 1 .. Len(t) /\ FullRune(t, a) /\ b = a + RuneSize(t, a)
    <2>1. PICK a \in B : a \in 1 .. Len(s) /\ FullRune(s, a) /\ b = a + RuneSize(s, a)
      BY <1>2 DEF Chain
    <2>2. FullRune(t, a) /\ RuneSize(t, a) = RuneSize(s, a)
      BY <2>1, RuneStays
    <2> QED BY <1>1, <2>1, <2>2
  <1> QED BY <1>1, <1>2 DEF Chain

(* A chain of what follows continues a chain that ends before it. *)
LEMMA ChainJoins ==
    ASSUME NEW C, NEW s \in Seq(C), NEW t \in Seq(C), NEW l \in Nat, SameFrom(t, l + 1, s, 1),
           NEW B, Chain(B, t), l + 1 \in B, NEW A, Chain(A, s)
    PROVE  Chain(B \cup {l + a : a \in A}, t)
  <1>1. PICK n, D : n = Len(s) /\ D = {l + a : a \in A}
    OBVIOUS
  <1>2. /\ n \in Nat /\ Len(t) = l + n
        /\ \A k \in 1 .. n : t[l + k] = s[k]
    <2>1. /\ n \in Nat /\ Len(t) \in Nat /\ Len(t) - (l + 1) = n - 1
          /\ \A k \in 0 .. n - 1 : t[(l + 1) + k] = s[1 + k]
      BY <1>1 DEF SameFrom
    <2>2. ASSUME NEW k \in 1 .. n PROVE t[l + k] = s[k]
      <3>1. k - 1 \in 0 .. n - 1 /\ (l + 1) + (k - 1) = l + k /\ 1 + (k - 1) = k
        BY <2>1
      <3> QED BY <2>1, <3>1
    <2> QED BY <2>1, <2>2
  <1>3. A \subseteq 1 .. n + 1
    BY <1>1 DEF Chain
  <1>4. D \subseteq 1 .. Len(t) + 1
    BY <1>1, <1>2, <1>3
  <1>5. ASSUME NEW b \in A, b # 1
        PROVE  \E a \in D : a \in 1 .. Len(t) /\ FullRune(t, a) /\ l + b = a + RuneSize(t, a)
    <2>1. PICK a \in A : a \in 1 .. n /\ FullRune(s, a) /\ b = a + RuneSize(s, a)
      BY <1>1, <1>5 DEF Chain
    <2>2. l + a \in 1 .. Len(t) /\ Len(t) - (l + a) = n - a
      BY <1>2, <2>1
    <2>3. ASSUME NEW k \in 0 .. n - a PROVE t[(l + a) + k] = s[a + k]
      <3>1. a + k \in 1 .. n /\ l + (a + k) = (l + a) + k
        BY <1>2, <2>1
      <3> QED BY <1>2, <3>1
    <2>4. (FullRune(t, l + a) <=> FullRune(s, a)) /\ RuneSize(t, l + a) = RuneSize(s, a)
      <3>1. PICK c : c = l + a
        OBVIOUS
      <3>2. a \in 1 .. Len(s) /\ c \in 1 .. Len(t) /\ SameFrom(t, c, s, a)
        BY <1>1, <2>1, <2>2, <2>3, <3>1 DEF SameFrom
      <3>3. (FullRune(t, c) <=> FullRune(s, a)) /\ RuneSize(t, c) = RuneSize(s, a)
        BY <3>2, SameRune
      <3> QED BY <3>1, <3>3
    <2>5. RuneSize(s, a) \in Int
      <3>1. a \in 1 .. Len(s)
        BY <1>1, <2>1
      <3>2. RuneSize(s, a) \in 1 .. 4
        BY <3>1, RuneRules
      <3> QED BY <3>2
    <2>6. l + b = (l + a) + RuneSize(t, l + a)
      BY <1>2, <2>1, <2>4, <2>5
    <2>7. l + a \in D
      BY <1>1
    <2> QED BY <2>1, <2>2, <2>4, <2>6, <2>7
  <1>6. ASSUME NEW d \in B \cup D, d # 1
        PROVE  \E a \in B \cup D : a \in 1 .. Len(t) /\ FullRune(t, a) /\ d = a + RuneSize(t, a)
    <2>1. CASE d \in B
      BY <1>6, <2>1 DEF Chain
    <2>2. CASE d \notin B
      <3>1. PICK b \in A : d = l + b
        BY <1>1, <1>6, <2>2
      <3>2. b # 1
        BY <1>1, <2>2, <3>1
      <3> QED BY <1>5, <3>1, <3>2
    <2> QED BY <2>1, <2>2
  <1>7. B \subseteq 1 .. Len(t) + 1
    BY DEF Chain
  <1>8. PICK E : E = B \cup D
    OBVIOUS
  <1>9. Chain(E, t)
    <2>1. E \subseteq 1 .. Len(t) + 1
      BY <1>4, <1>7, <1>8
    <2>2. \A d \in E : d = 1 \/ \E a \in E : a \in 1 .. Len(t) /\ FullRune(t, a) /\ d = a + RuneSize(t, a)
      BY <1>6, <1>8
    <2> QED BY <2>1, <2>2 DEF Chain
  <1> QED BY <1>1, <1>8, <1>9

(* The recursive definition of RuneStarts, unfolded. *)
LEMMA StartsUnfold ==
    ASSUME NEW C, NEW s \in Seq(C)
    PROVE  \E f : /\ RuneStarts(s) = f[Len(s)] /\ f[0] = {1}
                  /\ \A i \in 1 .. Len(s) :
                        f[i] = IF i \in f[i - 1] THEN f[i - 1] \cup {i + RuneSize(s, i)} ELSE f[i - 1]
  <1>1. PICK n, V : n = Len(s) /\ V = SUBSET Nat
    OBVIOUS
  <1>2. n \in Nat /\ {1} \in V
    BY <1>1
  <1>3. ASSUME NEW i \in 1 .. n, NEW v \in V
        PROVE  (IF i \in v THEN v \cup {i + RuneSize(s, i)} ELSE v) \in V
    <2>1. i + RuneSize(s, i) \in Nat
      BY <1>1, <1>2, RuneRules
    <2> QED BY <1>1, <2>1
  <1>4. PICK h : h = [p \in (1 .. n) \X V |->
                        IF p[1] \in p[2] THEN p[2] \cup {p[1] + RuneSize(s, p[1])} ELSE p[2]]
    OBVIOUS
  <1>5. h \in [(1 .. n) \X V -> V]
    BY <1>3, <1>4
  <1>6. \A i \in 1 .. n, v \in V :
            h[<<i, v>>] = IF i \in v THEN v \cup {i + RuneSize(s, i)} ELSE v
    BY <1>4
  <1>7. PICK f : Grows(f, n, V, {1}, h)
    BY <1>2, <1>5, GrowthExists
  <1>8. /\ f \in [0 .. n -> V] /\ f[0] = {1}
        /\ \A i \in 1 .. n : f[i] = IF i \in f[i - 1] THEN f[i - 1] \cup {i + RuneSize(s, i)} ELSE f[i - 1]
    <2>1. f \in [0 .. n -> V] /\ f[0] = {1} /\ \A i \in 1 .. n : f[i] = h[<<i, f[i - 1]>>]
      BY <1>7 DEF Grows
    <2>2. \A i \in 1 .. n : f[i - 1] \in V
      BY <1>2, <2>1
    <2>3. ASSUME NEW i \in 1 .. n
          PROVE  f[i] = IF i \in f[i - 1] THEN f[i - 1] \cup {i + RuneSize(s, i)} ELSE f[i - 1]
      <3>1. PICK v : v = f[i - 1]
        OBVIOUS
      <3>2. v \in V /\ f[i] = h[<<i, v>>]
        BY <2>1, <2>2, <3>1
      <3>3. h[<<i, v>>] = IF i \in v THEN v \cup {i + RuneSize(s, i)} ELSE v
        BY <1>6, <3>2
      <3> QED BY <3>1, <3>2, <3>3
    <2> QED BY <2>1, <2>3
  <1>9. f = [i \in 0 .. n |-> IF i = 0 THEN {1}
                             ELSE IF i \in f[i - 1] THEN f[i - 1] \cup {i + RuneSize(s, i)}
                             ELSE f[i - 1]]
    <2>1. \A i \in 0 .. n : i # 0 => i \in 1 .. n
      BY <1>2
    <2> QED BY <1>8, <2>1
  <1>10. PICK g : g = CHOOSE e : e = [i \in 0 .. n |-> IF i = 0 THEN {1}
                             ELSE IF i \in e[i - 1] THEN e[i - 1] \cup {i + RuneSize(s, i)}
                             ELSE e[i - 1]]
    OBVIOUS
  <1>11. g = [i \in 0 .. n |-> IF i = 0 THEN {1}
                             ELSE IF i \in g[i - 1] THEN g[i - 1] \cup {i + RuneSize(s, i)}
                             ELSE g[i - 1]]
    BY <1>9, <1>10
  <1>12. RuneStarts(s) = g[n]
    BY <1>1, <1>10 DEF RuneStarts
  <1>13. g[0] = {1}
    BY <1>2, <1>11
  <1>14. \A i \in 1 .. n : g[i] = IF i \in g[i - 1] THEN g[i - 1] \cup {i + RuneSize(s, i)} ELSE g[i - 1]
    <2>1. \A i \in 1 .. n : i \in 0 .. n /\ i # 0
      BY <1>2
    <2> QED BY <1>11, <2>1
  <1> QED BY <1>1, <1>12, <1>13, <1>14

(* What a chain names are rune starts. *)
LEMMA ChainStarts ==
    ASSUME NEW C, NEW s \in Seq(C), NEW B, Chain(B, s)
    PROVE  B \subseteq RuneStarts(s)
  <1>1. PICK n : n = Len(s)
    OBVIOUS
  <1>2. n \in Nat
    BY <1>1
  <1>3. PICK f : /\ RuneStarts(s) = f[n] /\ f[0] = {1}
                 /\ \A i \in 1 .. n :
                      f[i] = IF i \in f[i - 1] THEN f[i - 1] \cup {i + RuneSize(s, i)} ELSE f[i - 1]
    BY <1>1, StartsUnfold
  <1>4. \A k \in 0 .. n : \A i \in 0 .. k : f[i] \subseteq f[k]
    <2>1. PICK S : S = {k \in Nat : k <= n => \A i \in 0 .. k : f[i] \subseteq f[k]}
      OBVIOUS
    <2>2. 0 \in S
      BY <2>1
    <2>3. ASSUME NEW k \in Nat, k \in S PROVE k + 1 \in S
      <3> SUFFICES ASSUME k + 1 <= n, NEW i \in 0 .. k + 1 PROVE f[i] \subseteq f[k + 1]
        BY <2>1
      <3>1. k + 1 \in 1 .. n /\ (k + 1) - 1 = k
        OBVIOUS
      <3>2. f[k] \subseteq f[k + 1]
        BY <1>3, <3>1
      <3>3. CASE i = k + 1
        BY <3>3
      <3>4. CASE i \in 0 .. k
        <4>1. f[i] \subseteq f[k]
          BY <1>2, <2>1, <2>3, <3>4
        <4> QED BY <3>2, <4>1
      <3> QED BY <3>3, <3>4
    <2>4. \A k \in Nat : k \in S
      BY <2>2, <2>3, SetInduction
    <2>5. \A k \in 0 .. n : k \in Nat /\ k <= n
      BY <1>2
    <2> QED BY <2>1, <2>4, <2>5
  <1>5. B \subseteq 1 .. n + 1
    BY <1>1 DEF Chain
  <1>6. \A b \in B : b \in f[b - 1]
    <2>1. PICK S : S = {k \in Nat : \A b \in B : b <= k => b \in f[b - 1]}
      OBVIOUS
    <2>2. 0 \in S
      <3>1. \A b \in B : ~(b <= 0)
        BY <1>2, <1>5
      <3> QED BY <2>1, <3>1
    <2>3. ASSUME NEW k \in Nat, k \in S PROVE k + 1 \in S
      <3> SUFFICES ASSUME NEW b \in B, b <= k + 1 PROVE b \in f[b - 1]
        BY <2>1
      <3>1. b \in 1 .. n + 1
        BY <1>5
      <3>2. CASE b = 1
        <4>1. 1 - 1 = 0
          OBVIOUS
        <4> QED BY <1>3, <3>2, <4>1
      <3>3. CASE b # 1
        <4>1. PICK a \in B : a \in 1 .. Len(s) /\ FullRune(s, a) /\ b = a + RuneSize(s, a)
          BY <3>3 DEF Chain
        <4>2. RuneSize(s, a) \in 1 .. 4
          BY <4>1, RuneRules
        <4>3. /\ a \in 1 .. n /\ a <= k /\ a \in 0 .. b - 1 /\ b - 1 \in 0 .. n
          BY <1>1, <1>2, <3>1, <4>1, <4>2
        <4>4. a \in f[a - 1]
          BY <2>1, <2>3, <4>3
        <4>5. b \in f[a]
          BY <1>3, <4>1, <4>3, <4>4
        <4>6. f[a] \subseteq f[b - 1]
          BY <1>4, <4>3
        <4> QED BY <4>5, <4>6
      <3> QED BY <3>2, <3>3
    <2>4. \A k \in Nat : k \in S
      BY <2>2, <2>3, SetInduction
    <2>5. n + 1 \in S /\ \A b \in B : b <= n + 1
      BY <1>2, <1>5, <2>4
    <2> QED BY <2>1, <2>5
  <1>7. ASSUME NEW b \in B PROVE b \in f[n]
    <2>1. b - 1 \in 0 .. n /\ n \in 0 .. n
      BY <1>2, <1>5
    <2>2. f[b - 1] \subseteq f[n]
      BY <1>4, <2>1
    <2> QED BY <1>6, <2>2
  <1> QED BY <1>3, <1>7

(* The recursive definition of takeRunes, unfolded. *)
LEMMA TakenUnfold ==
    ASSUME NEW C, NEW s \in Seq(C)
    PROVE  \E f : /\ Taken(s) = f[1] /\ f[Len(s) + 1] = Len(s)
                  /\ \A i \in 1 .. Len(s) :
                        f[i] = IF FullRune(s, i) THEN f[i + RuneSize(s, i)] ELSE i - 1
  <1>1. PICK n : n = Len(s)
    OBVIOUS
  <1>2. n \in Nat
    BY <1>1
  <1>3. PICK next : next = [i \in 1 .. n |-> i + RuneSize(s, i)]
    OBVIOUS
  <1>4. \A i \in 1 .. n : next[i] = i + RuneSize(s, i) /\ next[i] \in i + 1 .. n + 1
    BY <1>1, <1>3, RuneRules
  <1>5. PICK h : h = [p \in (1 .. n) \X Nat |-> IF FullRune(s, p[1]) THEN p[2] ELSE p[1] - 1]
    OBVIOUS
  <1>6. h \in [(1 .. n) \X Nat -> Nat]
    <2>1. \A i \in 1 .. n : i - 1 \in Nat
      BY <1>2
    <2> QED BY <1>5, <2>1
  <1>7. \A i \in 1 .. n, v \in Nat : h[<<i, v>>] = IF FullRune(s, i) THEN v ELSE i - 1
    BY <1>5
  <1>8. PICK f : Scans(f, 1, n, Nat, n, h, next)
    BY <1>2, <1>4, <1>6, ScanExists
  <1>9. /\ f \in [1 .. n + 1 -> Nat] /\ f[n + 1] = n
        /\ \A i \in 1 .. n : f[i] = IF FullRune(s, i) THEN f[i + RuneSize(s, i)] ELSE i - 1
    <2>1. /\ f \in [1 .. n + 1 -> Nat] /\ f[n + 1] = n
          /\ \A i \in 1 .. n : f[i] = h[<<i, f[next[i]]>>]
      BY <1>8 DEF Scans
    <2>2. ASSUME NEW i \in 1 .. n
          PROVE  f[i] = IF FullRune(s, i) THEN f[i + RuneSize(s, i)] ELSE i - 1
      <3>1. PICK v : v = f[next[i]]
        OBVIOUS
      <3>2. next[i] \in 1 .. n + 1
        BY <1>2, <1>4
      <3>3. v \in Nat /\ f[i] = h[<<i, v>>]
        BY <2>1, <3>1, <3>2
      <3>4. h[<<i, v>>] = IF FullRune(s, i) THEN v ELSE i - 1
        BY <1>7, <3>3
      <3> QED BY <1>4, <3>1, <3>3, <3>4
    <2> QED BY <2>1, <2>2
  <1>10. f = [i \in 1 .. n + 1 |-> IF i > n \/ ~FullRune(s, i) THEN i - 1
                                   ELSE f[i + RuneSize(s, i)]]
    <2>1. ASSUME NEW i \in 1 .. n + 1
          PROVE  f[i] = IF i > n \/ ~FullRune(s, i) THEN i - 1 ELSE f[i + RuneSize(s, i)]
      <3>1. CASE i = n + 1
        BY <1>2, <1>9, <3>1
      <3>2. CASE i # n + 1
        <4>1. i \in 1 .. n /\ ~(i > n)
          BY <1>2, <3>2
        <4> QED BY <1>9, <4>1
      <3> QED BY <3>1, <3>2
    <2> QED BY <1>9, <2>1
  <1>11. PICK g : g = CHOOSE e : e = [i \in 1 .. n + 1 |-> IF i > n \/ ~FullRune(s, i) THEN i - 1
                                   ELSE e[i + RuneSize(s, i)]]
    OBVIOUS
  <1>12. g = [i \in 1 .. n + 1 |-> IF i > n \/ ~FullRune(s, i) THEN i - 1 ELSE g[i + RuneSize(s, i)]]
    BY <1>10, <1>11
  <1>13. Taken(s) = g[1]
    BY <1>1, <1>11 DEF Taken
  <1>14. g[n + 1] = n
    BY <1>2, <1>12
  <1>15. \A i \in 1 .. n : g[i] = IF FullRune(s, i) THEN g[i + RuneSize(s, i)] ELSE i - 1
    <2>1. \A i \in 1 .. n : i \in 1 .. n + 1 /\ ~(i > n)
      BY <1>2
    <2> QED BY <1>12, <2>1
  <1> QED BY <1>1, <1>13, <1>14, <1>15

(* takeRunes stops behind a chain of whole runes, at the end or where more *)
(* bytes could complete a rune.                                            *)
LEMMA TakenChain ==
    ASSUME NEW C, NEW s \in Seq(C)
    PROVE  /\ Taken(s) \in 0 .. Len(s)
           /\ Taken(s) < Len(s) => ~FullRune(s, Taken(s) + 1)
           /\ \E A : Chain(A, s) /\ Taken(s) + 1 \in A
  <1>1. PICK n : n = Len(s)
    OBVIOUS
  <1>2. n \in Nat
    BY <1>1
  <1>3. PICK f : /\ Taken(s) = f[1] /\ f[n + 1] = n
                 /\ \A i \in 1 .. n : f[i] = IF FullRune(s, i) THEN f[i + RuneSize(s, i)] ELSE i - 1
    BY <1>1, TakenUnfold
  <1>4. PICK W : W = {i \in 1 .. n + 1 : f[i] = f[1] /\ \E A : Chain(A, s) /\ i \in A}
    OBVIOUS
  <1>5. 1 \in W
    <2>1. Chain({1}, s)
      BY <1>1, <1>2 DEF Chain
    <2>2. 1 \in {1} /\ 1 \in 1 .. n + 1
      BY <1>2
    <2> QED BY <1>4, <2>1, <2>2
  <1>6. W \in SUBSET (0 .. n + 1) /\ W # {} /\ n + 1 \in Nat
    <2>1. W \subseteq 1 .. n + 1
      BY <1>4
    <2>2. 1 .. n + 1 \subseteq 0 .. n + 1 /\ n + 1 \in Nat
      BY <1>2
    <2> QED BY <1>5, <2>1, <2>2
  <1>7. PICK i : i \in W /\ \A j \in W : j <= i
    BY <1>6, LargestNat
  <1>8. PICK A : Chain(A, s) /\ i \in A
    BY <1>4, <1>7
  <1>9. i \in 1 .. n + 1 /\ f[i] = f[1]
    BY <1>4, <1>7
  <1>10. ASSUME i \in 1 .. n, FullRune(s, i) PROVE FALSE
    <2>1. PICK j : j = i + RuneSize(s, i)
      OBVIOUS
    <2>2. j \in i + 1 .. n + 1
      BY <1>1, <1>10, <2>1, RuneRules
    <2>3. j \in 1 .. n + 1 /\ ~(j <= i)
      BY <1>2, <1>9, <2>2
    <2>4. f[j] = f[1]
      BY <1>3, <1>9, <1>10, <2>1
    <2>5. Chain(A \cup {j}, s)
      <3>1. A \cup {j} \subseteq 1 .. Len(s) + 1
        BY <1>1, <1>8, <2>3 DEF Chain
      <3>2. ASSUME NEW b \in A \cup {j}, b # 1
            PROVE  \E a \in A \cup {j} : a \in 1 .. Len(s) /\ FullRune(s, a) /\ b = a + RuneSize(s, a)
        <4>1. CASE b \in A
          BY <1>8, <3>2, <4>1 DEF Chain
        <4>2. CASE b = j
          BY <1>1, <1>8, <1>10, <2>1, <4>2
        <4> QED BY <4>1, <4>2
      <3> QED BY <3>1, <3>2 DEF Chain
    <2>6. j \in A \cup {j}
      OBVIOUS
    <2>7. j \in W
      BY <1>4, <2>3, <2>4, <2>5, <2>6
    <2> QED BY <1>7, <2>3, <2>7
  <1>11. f[1] = i - 1 /\ (i \in 1 .. n => ~FullRune(s, i))
    <2>1. CASE i = n + 1
      BY <1>2, <1>3, <1>9, <2>1
    <2>2. CASE i # n + 1
      <3>1. i \in 1 .. n
        BY <1>2, <1>9, <2>2
      <3> QED BY <1>3, <1>9, <1>10, <3>1
    <2> QED BY <2>1, <2>2
  <1>12. Taken(s) = i - 1 /\ Taken(s) \in 0 .. n /\ Taken(s) + 1 = i
    BY <1>2, <1>3, <1>9, <1>11
  <1>13. Taken(s) < n => i \in 1 .. n
    BY <1>2, <1>9, <1>12
  <1> QED BY <1>1, <1>8, <1>11, <1>12, <1>13

-----------------------------------------------------------------------------
(* Text *)

Byte == {"a", "2", "3", "4", "c"}

(* Ids decode to bytes. *)
LEMMA TextIsBytes == \A id \in Ids : Text[id] \in Seq(Byte)
  <1>1. /\ <<"a">> \in Seq(Byte) /\ <<"3">> \in Seq(Byte) /\ <<"4">> \in Seq(Byte) /\ <<"c">> \in Seq(Byte)
        /\ <<"c", "2">> \in Seq(Byte) /\ <<"a", "a">> \in Seq(Byte)
    BY DEF Byte
  <1>2. \A id \in DOMAIN Text : Text[id] \in {<<"a">>, <<"3">>, <<"4">>, <<"c">>, <<"c", "2">>, <<"a", "a">>}
    BY DEF Text
  <1> QED BY <1>1, <1>2, GeneratorAssumption

(* Decoding one id more adds its bytes. *)
LEMMA DecodeGrows ==
    ASSUME NEW v \in Seq(Ids), NEW id \in Ids
    PROVE  /\ Decode(v) \in Seq(Byte)
           /\ Decode(Append(v, id)) = Decode(v) \o Text[id]
  <1>1. PICK n, w, S, x : n = Len(v) /\ w = Append(v, id) /\ S = Seq(Byte) /\ x = Text[id]
    OBVIOUS
  <1>2. /\ n \in Nat /\ DOMAIN v = 1 .. n /\ DOMAIN w = 1 .. n + 1 /\ w[n + 1] = id
        /\ \A i \in 1 .. n : w[i] = v[i] /\ v[i] \in Ids
    BY <1>1
  <1>3. PICK s, t : s = [i \in DOMAIN v |-> Text[v[i]]] /\ t = [i \in DOMAIN w |-> Text[w[i]]]
    OBVIOUS
  <1>4. s = [i \in 1 .. n |-> s[i]] /\ \A i \in 1 .. n : s[i] = Text[v[i]] /\ s[i] \in S
    BY <1>1, <1>2, <1>3, TextIsBytes
  <1>5. s \in Seq(S) /\ Len(s) = n
    BY <1>2, <1>4, MapIsSeq
  <1>6. /\ t = [i \in 1 .. n + 1 |-> t[i]] /\ t[n + 1] = x /\ x \in S
        /\ \A i \in 1 .. n : t[i] = s[i]
    <2>1. n + 1 \in 1 .. n + 1 /\ \A i \in 1 .. n : i \in 1 .. n + 1
      BY <1>2
    <2> QED BY <1>1, <1>2, <1>3, <1>4, <2>1, TextIsBytes
  <1>7. t = Append(s, x)
    <2>1. IsMap(t, n + 1) /\ Agree(s, t, n)
      BY <1>6 DEF IsMap, Agree
    <2> QED BY <1>2, <1>5, <1>6, <2>1, MapGrows
  <1>8. s \in Seq(Seq(Byte)) /\ x \in Seq(Byte)
    BY <1>1, <1>5, <1>6
  <1>9. FlattenSeq(s) \in Seq(Byte) /\ FlattenSeq(Append(s, x)) = FlattenSeq(s) \o x
    BY <1>8, FlattenAppend, FlattenType
  <1>10. Decode(v) = FlattenSeq(s) /\ Decode(w) = FlattenSeq(t)
    BY <1>3 DEF Decode
  <1> QED BY <1>1, <1>7, <1>9, <1>10

(* What is inside a call so far stays inside; a marker decides for what    *)
(* follows it.                                                             *)
LEMMA InsideGrows ==
    ASSUME ids \in Seq(Ids), NEW id \in Ids, ids' = Append(ids, id), NEW n, n = Len(ids)
    PROVE  /\ \A i \in 0 .. n : Inside(i)' <=> Inside(i)
           /\ Inside(n + 1)' <=> IF id \in {"open", "close"} THEN id = "open" ELSE Inside(n)
  <1>1. /\ n \in Nat /\ Len(ids') = n + 1 /\ ids' \in Seq(Ids)
        /\ \A i \in 1 .. n : ids'[i] = ids[i]
        /\ ids'[n + 1] = id
        /\ \A i \in 0 .. n : Markers(i)' = Markers(i)
        /\ Markers(n + 1)' = Markers(n) \cup (IF id \in {"open", "close"} THEN {n + 1} ELSE {})
    BY MarkersGrow
  <1>2. ASSUME NEW i \in 0 .. n, NEW M, M = Markers(i), M # {}
        PROVE  Max(M) \in 1 .. n /\ ids'[Max(M)] = ids[Max(M)]
    <2>1. M \subseteq 1 .. n
      BY <1>1, <1>2 DEF Markers
    <2>2. M \in SUBSET (0 .. n)
      BY <2>1
    <2>3. Max(M) \in M
      BY <1>1, <1>2, <2>2, LargestNat
    <2> QED BY <1>1, <2>1, <2>3
  <1>3. ASSUME NEW i \in 0 .. n PROVE Inside(i)' <=> Inside(i)
    <2>1. PICK M : M = Markers(i)
      OBVIOUS
    <2>2. Markers(i)' = M
      BY <1>1, <2>1
    <2>3. Inside(i) <=> M # {} /\ ids[Max(M)] = "open"
      BY <2>1 DEF Inside
    <2>4. Inside(i)' <=> M # {} /\ ids'[Max(M)] = "open"
      BY <2>2 DEF Inside
    <2> QED BY <1>2, <2>1, <2>3, <2>4
  <1>4. PICK N : N = Markers(n + 1)'
    OBVIOUS
  <1>5. Inside(n + 1)' <=> N # {} /\ ids'[Max(N)] = "open"
    BY <1>4 DEF Inside
  <1>6. CASE id \in {"open", "close"}
    <2>1. N = Markers(n) \cup {n + 1}
      BY <1>1, <1>4, <1>6
    <2>2. Markers(n) \subseteq 1 .. n
      BY DEF Markers
    <2>3. N \in SUBSET (0 .. n + 1) /\ n + 1 \in N /\ n + 1 \in Nat
      BY <1>1, <2>1, <2>2
    <2>4. Max(N) \in N /\ \A y \in N : y <= Max(N)
      BY <2>3, LargestNat
    <2>5. Max(N) = n + 1
      <3>1. PICK m : m = Max(N)
        OBVIOUS
      <3>2. m \in 0 .. n + 1 /\ n + 1 <= m
        BY <2>3, <2>4, <3>1
      <3> QED BY <1>1, <3>1, <3>2
    <2> QED BY <1>1, <1>3, <1>5, <1>6, <2>3, <2>5
  <1>7. CASE id \notin {"open", "close"}
    <2>1. N = Markers(n)
      BY <1>1, <1>4, <1>7
    <2>2. n \in 0 .. n
      BY <1>1
    <2>3. Inside(n) <=> N # {} /\ ids[Max(N)] = "open"
      BY <2>1 DEF Inside
    <2> QED BY <1>2, <1>3, <1>5, <1>7, <2>1, <2>2, <2>3
  <1> QED BY <1>3, <1>6, <1>7

(* An id that is received is visible if it is text outside of calls, or if *)
(* nothing is hidden.                                                      *)
LEMMA VisibleGrows ==
    ASSUME ids \in Seq(Ids), NEW id \in Ids, ids' = Append(ids, id), api' = api,
           NEW n, n = Len(ids)
    PROVE  /\ Visible \in Seq(Ids)
           /\ Visible' = IF api = "raw" \/ (id \notin Special /\ ~Inside(n))
                           THEN Append(Visible, id) ELSE Visible
  <1>1. /\ n \in Nat /\ Len(ids') = n + 1 /\ ids' \in Seq(Ids)
        /\ DOMAIN ids = 1 .. n /\ DOMAIN ids' = 1 .. n + 1
        /\ \A i \in 1 .. n : ids'[i] = ids[i] /\ ids[i] \in Ids
        /\ ids'[n + 1] = id
    BY MarkersGrow
  <1>2. \A i \in 1 .. n : Shown(i)' <=> Shown(i)
    <2>1. \A i \in 1 .. n : i \in 0 .. n
      BY <1>1
    <2>2. \A i \in 1 .. n : Inside(i)' <=> Inside(i)
      BY <2>1, InsideGrows
    <2> QED BY <1>1, <2>2 DEF Shown
  <1>3. PICK shows : shows <=> api = "raw" \/ (id \notin Special /\ ~Inside(n))
    OBVIOUS
  <1>4. Shown(n + 1)' <=> shows
    <2>1. id \notin Special => (Inside(n + 1)' <=> Inside(n))
      BY InsideGrows DEF Special
    <2> QED BY <1>1, <1>3, <2>1 DEF Shown
  <1>5. PICK s, t, S, x : /\ s = [i \in DOMAIN ids |-> IF Shown(i) THEN <<ids[i]>> ELSE <<>>]
                          /\ t = [i \in DOMAIN ids' |-> IF Shown(i)' THEN <<ids'[i]>> ELSE <<>>]
                          /\ S = Seq(Ids) /\ x = IF shows THEN <<id>> ELSE <<>>
    OBVIOUS
  <1>6. \A y \in Ids : <<y>> \in S /\ <<>> \in S
    BY <1>5
  <1>7. s = [i \in 1 .. n |-> s[i]] /\ \A i \in 1 .. n : s[i] = IF Shown(i) THEN <<ids[i]>> ELSE <<>>
    BY <1>1, <1>5
  <1>8. s \in Seq(S) /\ Len(s) = n
    <2>1. \A i \in 1 .. n : s[i] \in S
      BY <1>1, <1>6, <1>7
    <2> QED BY <1>1, <1>7, <2>1, MapIsSeq
  <1>9. /\ t = [i \in 1 .. n + 1 |-> t[i]]
        /\ \A i \in 1 .. n + 1 : t[i] = IF Shown(i)' THEN <<ids'[i]>> ELSE <<>>
    BY <1>1, <1>5
  <1>10. t[n + 1] = x /\ x \in S
    <2>1. n + 1 \in 1 .. n + 1
      BY <1>1
    <2> QED BY <1>1, <1>4, <1>5, <1>6, <1>9, <2>1
  <1>11. \A i \in 1 .. n : t[i] = s[i]
    <2>1. \A i \in 1 .. n : i \in 1 .. n + 1
      BY <1>1
    <2> QED BY <1>1, <1>2, <1>7, <1>9, <2>1
  <1>12. t = Append(s, x)
    <2>1. IsMap(t, n + 1) /\ Agree(s, t, n)
      BY <1>9, <1>11 DEF IsMap, Agree
    <2> QED BY <1>1, <1>8, <1>10, <2>1, MapGrows
  <1>13. s \in Seq(Seq(Ids)) /\ x \in Seq(Ids)
    BY <1>5, <1>8, <1>10
  <1>14. FlattenSeq(s) \in Seq(Ids) /\ FlattenSeq(Append(s, x)) = FlattenSeq(s) \o x
    BY <1>13, FlattenAppend, FlattenType
  <1>15. Visible = FlattenSeq(s) /\ Visible' = FlattenSeq(t)
    BY <1>5 DEF Visible
  <1>16. PICK v : v = Visible
    OBVIOUS
  <1>17. v \in Seq(Ids) /\ v \o <<>> = v /\ v \o <<id>> = Append(v, id)
    BY <1>14, <1>15, <1>16
  <1> QED BY <1>3, <1>5, <1>12, <1>14, <1>15, <1>16, <1>17

(* After text t with p held back, x is split into what is given out and    *)
(* what is held back; B are the rune starts so far.                        *)
Splits(t, p, x, B) ==
    \E n, out, rest, E :
        /\ n = Taken(p \o x)
        /\ out = SubSeq(p \o x, 1, n) /\ out \in Seq(Byte)
        /\ rest = SubSeq(p \o x, n + 1, Len(p \o x)) /\ rest \in Seq(Byte)
        /\ (t \o out) \o rest = (t \o p) \o x
        /\ rest = <<>> \/ ~FullRune(rest, 1)
        /\ B \subseteq E /\ Chain(E, (t \o p) \o x) /\ Len(t \o out) + 1 \in E

(* takeRunes on what was held back and what arrived: nothing is lost, the  *)
(* chain of runes is continued to the end of what is given out, and what   *)
(* is held back is no whole rune.                                          *)
LEMMA EmitRunes ==
    ASSUME NEW t \in Seq(Byte), NEW p \in Seq(Byte), NEW x \in Seq(Byte),
           NEW B, Chain(B, t \o p), Len(t) + 1 \in B
    PROVE  Splits(t, p, x, B)
  <1>1. PICK b, l, m, n : b = p \o x /\ l = Len(t) /\ m = Len(b) /\ n = Taken(b)
    OBVIOUS
  <1>2. PICK d, e : d = t \o p /\ e = d \o x
    OBVIOUS
  <1>3. /\ l \in Nat /\ m \in Nat /\ b \in Seq(Byte) /\ m = Len(p) + Len(x)
        /\ \A k \in 1 .. Len(p) + Len(x) : b[k] = IF k <= Len(p) THEN p[k] ELSE x[k - Len(p)]
    BY <1>1, ConcatProperties
  <1>4. /\ d \in Seq(Byte) /\ Len(d) = l + Len(p)
        /\ \A k \in 1 .. l + Len(p) : d[k] = IF k <= l THEN t[k] ELSE p[k - l]
    BY <1>1, <1>2, ConcatProperties
  <1>5. /\ e \in Seq(Byte) /\ Len(e) = Len(d) + Len(x)
        /\ \A k \in 1 .. Len(d) + Len(x) : e[k] = IF k <= Len(d) THEN d[k] ELSE x[k - Len(d)]
    BY <1>2, <1>4, ConcatProperties
  <1>6. e = t \o b
    <2>1. Regroups(t, p, x)
      BY Regroup
    <2> QED BY <1>1, <1>2, <2>1 DEF Regroups
  <1>7. n \in 0 .. m /\ (n < m => ~FullRune(b, n + 1))
    BY <1>1, <1>3, TakenChain
  <1>8. PICK A : Chain(A, b) /\ n + 1 \in A
    BY <1>1, <1>3, TakenChain
  <1>9. PICK o, r : o = SubSeq(b, 1, n) /\ r = SubSeq(b, n + 1, m)
    OBVIOUS
  <1>10. PICK c \in Seq(Byte) : c = b
    BY <1>3
  <1>11. /\ o \in Seq(Byte) /\ Len(o) = n
         /\ r \in Seq(Byte) /\ Len(r) = m - n
         /\ \A k \in 1 .. m - n : r[k] = b[n + k]
    <2>1. Len(c) = m /\ m \in Nat /\ n \in 0 .. m
      BY <1>1, <1>3, <1>7, <1>10
    <2>2. SubSeq(c, 1, n) \in Seq(Byte) /\ Len(SubSeq(c, 1, n)) = n
      BY <2>1
    <2>3. /\ SubSeq(c, n + 1, m) \in Seq(Byte) /\ Len(SubSeq(c, n + 1, m)) = m - n
          /\ \A k \in 1 .. m - n : SubSeq(c, n + 1, m)[k] = c[n + k]
      BY <2>1
    <2> QED BY <1>9, <1>10, <2>2, <2>3
  <1>12. o \o r = b
    <2>1. Len(c) = m /\ m \in Nat /\ 1 \in 1 .. m + 1 /\ n \in 1 - 1 .. m /\ m \in n .. m
      BY <1>1, <1>3, <1>7, <1>10
    <2>2. SubSeq(c, 1, n) \o SubSeq(c, n + 1, m) = SubSeq(c, 1, m)
      BY <2>1, ConcatAdjacentSubSeq
    <2>3. SubSeq(c, 1, Len(c)) = c
      BY SubSeqFull
    <2> QED BY <1>9, <1>10, <2>1, <2>2, <2>3
  <1>13. (t \o o) \o r = e
    <2>1. (t \o o) \o r = t \o (o \o r)
      <3>1. Regroups(t, o, r)
        BY <1>11, Regroup
      <3> QED BY <3>1 DEF Regroups
    <2> QED BY <1>6, <1>12, <2>1
  <1>14. r = <<>> \/ ~FullRune(r, 1)
    <2>1. CASE n = m
      BY <1>3, <1>11, <2>1
    <2>2. CASE n < m
      <3>1. 1 \in 1 .. Len(r) /\ n + 1 \in 1 .. Len(b) /\ SameFrom(r, 1, b, n + 1)
        <4>1. 1 \in 1 .. m - n /\ n + 1 \in 1 .. m /\ (m - n) - 1 = m - (n + 1)
          BY <1>3, <1>7, <2>2
        <4>2. ASSUME NEW k \in 0 .. m - (n + 1) PROVE r[1 + k] = b[(n + 1) + k]
          <5>1. 1 + k \in 1 .. m - n /\ n + (1 + k) = (n + 1) + k
            BY <1>3, <1>7, <4>1
          <5> QED BY <1>11, <5>1
        <4> QED BY <1>1, <1>11, <4>1, <4>2 DEF SameFrom
      <3>2. FullRune(r, 1) <=> FullRune(b, n + 1)
        <4>1. PICK a : a = n + 1
          OBVIOUS
        <4>2. FullRune(r, 1) <=> FullRune(b, a)
          BY <1>3, <1>11, <3>1, <4>1, SameRune
        <4> QED BY <4>1, <4>2
      <3> QED BY <1>7, <2>2, <3>2
    <2> QED BY <1>3, <1>7, <2>1, <2>2
  <1>15. Chain(B, e)
    <2>1. Len(d) <= Len(e) /\ \A k \in 1 .. Len(d) : e[k] = d[k]
      BY <1>3, <1>4, <1>5
    <2>2. Chain(B, d)
      BY <1>2
    <2> QED BY <1>4, <1>5, <2>1, <2>2, ChainStays
  <1>16. SameFrom(e, l + 1, b, 1)
    <2>1. Len(e) = l + m /\ Len(e) - (l + 1) = m - 1
      BY <1>3, <1>4, <1>5
    <2>2. ASSUME NEW k \in 0 .. m - 1 PROVE e[(l + 1) + k] = b[1 + k]
      <3>1. /\ 1 + k \in 1 .. m /\ l + (1 + k) = (l + 1) + k
            /\ l + (1 + k) \in 1 .. l + m /\ ~(l + (1 + k) <= l) /\ (l + (1 + k)) - l = 1 + k
        BY <1>3
      <3>2. e[l + (1 + k)] = b[1 + k]
        BY <1>1, <1>3, <1>6, <3>1, ConcatProperties
      <3> QED BY <3>1, <3>2
    <2> QED BY <1>1, <2>1, <2>2 DEF SameFrom
  <1>17. PICK E : E = B \cup {l + a : a \in A}
    OBVIOUS
  <1>18. Chain(E, e)
    BY <1>1, <1>3, <1>5, <1>8, <1>15, <1>16, <1>17, ChainJoins
  <1>19. B \subseteq E /\ l + (n + 1) \in E
    BY <1>8, <1>17
  <1>20. Len(t \o o) + 1 = l + (n + 1)
    <2>1. o \in Seq(Byte) /\ Len(o) = n
      BY <1>11
    <2>2. Len(t \o o) = Len(t) + Len(o)
      BY <2>1, ConcatProperties
    <2>3. Len(t \o o) = l + n
      BY <1>1, <2>1, <2>2
    <2> QED BY <1>3, <1>7, <2>3
  <1>21. /\ (t \o o) \o r = (t \o p) \o x /\ Chain(E, (t \o p) \o x)
         /\ n = Taken(p \o x) /\ o = SubSeq(p \o x, 1, n) /\ r = SubSeq(p \o x, n + 1, Len(p \o x))
    BY <1>1, <1>2, <1>9, <1>13, <1>18
  <1>22. Len(t \o o) + 1 \in E
    BY <1>19, <1>20
  <1> QED BY <1>11, <1>14, <1>19, <1>21, <1>22 DEF Splits

Delta == [bytes : Seq(Byte), call : Nat]
Joined == FlattenSeq([i \in DOMAIN deltas |-> deltas[i].bytes])

(* A delta more ends where the emitted text ends; the others end where     *)
(* they did.                                                               *)
LEMMA DeltasGrow ==
    ASSUME deltas \in Seq(Delta), NEW d \in Delta, deltas' = Append(deltas, d), NEW n, n = Len(deltas)
    PROVE  /\ Joined \in Seq(Byte) /\ Joined' = Joined \o d.bytes
           /\ deltas' \in Seq(Delta) /\ DOMAIN deltas = 1 .. n /\ DOMAIN deltas' = 1 .. n + 1
           /\ \A k \in 1 .. n : EndOf(k)' = EndOf(k)
           /\ EndOf(n + 1)' = Len(Joined')
  <1>1. /\ n \in Nat /\ DOMAIN deltas = 1 .. n /\ DOMAIN deltas' = 1 .. n + 1 /\ deltas' \in Seq(Delta)
        /\ \A i \in 1 .. n : deltas'[i] = deltas[i] /\ deltas[i] \in Delta
        /\ deltas'[n + 1] = d
    OBVIOUS
  <1>2. PICK s, t, x, S : /\ s = [i \in 1 .. n |-> deltas[i].bytes]
                          /\ t = [i \in 1 .. n + 1 |-> deltas'[i].bytes]
                          /\ x = d.bytes /\ S = Seq(Byte)
    OBVIOUS
  <1>3. \A e \in Delta : e.bytes \in S
    BY <1>2 DEF Delta
  <1>4. IsMap(s, n) /\ \A i \in 1 .. n : s[i] = deltas[i].bytes /\ s[i] \in S
    BY <1>1, <1>2, <1>3 DEF IsMap
  <1>5. s \in Seq(S) /\ Len(s) = n
    BY <1>1, <1>4, MapIsSeq DEF IsMap
  <1>6. IsMap(t, n + 1) /\ t[n + 1] = x /\ x \in S /\ Agree(s, t, n)
    <2>1. n + 1 \in 1 .. n + 1 /\ \A i \in 1 .. n : i \in 1 .. n + 1
      BY <1>1
    <2>2. t[n + 1] = x /\ x \in S
      BY <1>1, <1>2, <1>3, <2>1
    <2>3. \A i \in 1 .. n : s[i] = t[i]
      BY <1>1, <1>2, <2>1
    <2> QED BY <1>2, <2>2, <2>3 DEF IsMap, Agree
  <1>7. t = Append(s, x)
    BY <1>1, <1>5, <1>6, MapGrows
  <1>8. s \in Seq(Seq(Byte)) /\ x \in Seq(Byte)
    BY <1>2, <1>5, <1>6
  <1>9. FlattenSeq(s) \in Seq(Byte) /\ FlattenSeq(Append(s, x)) = FlattenSeq(s) \o x
    BY <1>8, FlattenAppend, FlattenType
  <1>10. Joined = FlattenSeq(s) /\ Joined' = FlattenSeq(t)
    BY <1>1, <1>2 DEF Joined
  <1>11. ASSUME NEW k \in 1 .. n PROVE EndOf(k)' = EndOf(k)
    <2>1. \A i \in 1 .. k : deltas'[i] = deltas[i]
      BY <1>1
    <2>2. [i \in 1 .. k |-> deltas'[i].bytes] = [i \in 1 .. k |-> deltas[i].bytes]
      BY <2>1
    <2> QED BY <2>2 DEF EndOf
  <1>12. EndOf(n + 1)' = Len(Joined')
    BY <1>2, <1>10 DEF EndOf
  <1> QED BY <1>1, <1>2, <1>7, <1>9, <1>10, <1>11, <1>12

(* What onDelta was given adds up to the text. *)
LEMMA DeliverKeeps ==
    ASSUME deltas \in Seq(Delta), text = Joined, text \in Seq(Byte), NEW bytes \in Seq(Byte), NEW call \in Nat,
           text' = text \o bytes,
           deltas' = IF bytes = <<>> /\ call = 0 THEN deltas
                     ELSE Append(deltas, [bytes |-> bytes, call |-> call])
    PROVE  /\ text' \in Seq(Byte) /\ deltas' \in Seq(Delta) /\ text' = Joined'
           /\ \A k \in DOMAIN deltas' : \/ k \in DOMAIN deltas /\ EndOf(k)' = EndOf(k)
                                       \/ EndOf(k)' = Len(text')
  <1>1. text' \in Seq(Byte)
    BY ConcatProperties
  <1>2. CASE bytes = <<>> /\ call = 0
    <2>1. deltas' = deltas /\ text' = text
      BY <1>2, ConcatEmptySeq
    <2> QED BY <1>1, <2>1 DEF Joined, EndOf
  <1>3. CASE ~(bytes = <<>> /\ call = 0)
    <2>1. PICK d, n : d = [bytes |-> bytes, call |-> call] /\ n = Len(deltas)
      OBVIOUS
    <2>2. d \in Delta /\ d.bytes = bytes
      BY <2>1 DEF Delta
    <2>3. deltas' = Append(deltas, d)
      BY <1>3, <2>1
    <2>4. /\ Joined' = Joined \o d.bytes
          /\ deltas' \in Seq(Delta) /\ DOMAIN deltas = 1 .. n /\ DOMAIN deltas' = 1 .. n + 1
          /\ \A k \in 1 .. n : EndOf(k)' = EndOf(k)
          /\ EndOf(n + 1)' = Len(Joined')
      BY <2>1, <2>2, <2>3, DeltasGrow
    <2>5. text' = Joined'
      BY <2>2, <2>4
    <2>6. \A k \in 1 .. n + 1 : k \in 1 .. n \/ k = n + 1
      BY <2>1
    <2> QED BY <1>1, <2>4, <2>5, <2>6
  <1> QED BY <1>2, <1>3

-----------------------------------------------------------------------------
(* The text invariant *)

(* What onDelta was given and what is held back is what the visible ids    *)
(* decode to.                                                              *)
Told ==
    /\ text \in Seq(Byte) /\ pending \in Seq(Byte) /\ deltas \in Seq(Delta)
    /\ text = Joined
    /\ text \o pending = Decode(Visible)

(* No whole rune is held back, and the text and every delta end where a    *)
(* rune does, counting from the first byte.                                *)
OnRunes ==
    /\ pending = <<>> \/ ~FullRune(pending, 1)
    /\ \E B : /\ Chain(B, text \o pending) /\ Len(text) + 1 \in B
              /\ \A n \in DOMAIN deltas : EndOf(n) + 1 \in B

(* The stream buffers a call exactly while the ids are inside of one.      *)
TextInv ==
    /\ api = "chat" => (inTool <=> Inside(Len(ids)))
    /\ Told
    /\ phase # "returned" => OnRunes
    /\ phase = "returned" /\ err = "none" => pending = <<>>

(* takeRunes gives out whole runes and loses nothing. *)
LEMMA EmitKeeps ==
    ASSUME Told, OnRunes, Visible \in Seq(Ids), NEW id \in Ids, Visible' = Append(Visible, id), Emit(id)
    PROVE  Told' /\ OnRunes'
  <1>1. PICK B : /\ Chain(B, text \o pending) /\ Len(text) + 1 \in B
                 /\ \A n \in DOMAIN deltas : EndOf(n) + 1 \in B
    BY DEF OnRunes
  <1>2. PICK x : x = Text[id]
    OBVIOUS
  <1>3. x \in Seq(Byte) /\ text \in Seq(Byte) /\ pending \in Seq(Byte)
    BY <1>2, TextIsBytes DEF Told
  <1>4. PICK n, out, rest, E :
              /\ n = Taken(pending \o x)
              /\ out = SubSeq(pending \o x, 1, n) /\ out \in Seq(Byte)
              /\ rest = SubSeq(pending \o x, n + 1, Len(pending \o x)) /\ rest \in Seq(Byte)
              /\ (text \o out) \o rest = (text \o pending) \o x
              /\ rest = <<>> \/ ~FullRune(rest, 1)
              /\ B \subseteq E /\ Chain(E, (text \o pending) \o x) /\ Len(text \o out) + 1 \in E
    <2>1. Splits(text, pending, x, B)
      BY <1>1, <1>3, EmitRunes
    <2> QED BY <2>1 DEF Splits
  <1>5. Deliver(out, 0) /\ pending' = rest
    BY <1>2, <1>4 DEF Emit
  <1>6. /\ text' = text \o out
        /\ deltas' = IF out = <<>> /\ 0 = 0 THEN deltas ELSE Append(deltas, [bytes |-> out, call |-> 0])
    BY <1>5 DEF Deliver
  <1>7. /\ text' \in Seq(Byte) /\ deltas' \in Seq(Delta) /\ text' = Joined'
        /\ \A k \in DOMAIN deltas' : \/ k \in DOMAIN deltas /\ EndOf(k)' = EndOf(k)
                                    \/ EndOf(k)' = Len(text')
    <2>1. 0 \in Nat
      OBVIOUS
    <2>2. deltas \in Seq(Delta) /\ text = Joined
      BY DEF Told
    <2> QED BY <1>3, <1>4, <1>6, <2>1, <2>2, DeliverKeeps
  <1>8. text' \o pending' = (text \o pending) \o x
    BY <1>4, <1>5, <1>6
  <1>9. Told'
    <2>1. Decode(Visible') = Decode(Visible) \o x
      BY <1>2, DecodeGrows
    <2>2. text' \o pending' = Decode(Visible')
      BY <1>8, <2>1 DEF Told
    <2>3. Decode(Visible)' = Decode(Visible')
      BY DEF Decode
    <2> QED BY <1>4, <1>5, <1>7, <2>2, <2>3 DEF Told
  <1>10. pending' = <<>> \/ ~FullRune(pending', 1)
    BY <1>4, <1>5
  <1>11. Chain(E, text' \o pending') /\ Len(text') + 1 \in E
    BY <1>4, <1>6, <1>8
  <1>12. \A k \in DOMAIN deltas' : EndOf(k)' + 1 \in E
    BY <1>1, <1>4, <1>7, <1>11
  <1>13. OnRunes'
    <2>1. FullRune(pending, 1)' <=> FullRune(pending', 1)
      BY DEF FullRune, Continued
    <2>2. Chain(E, text \o pending)' <=> Chain(E, text' \o pending')
      BY DEF Chain, FullRune, RuneSize, Continued
    <2> QED BY <1>10, <1>11, <1>12, <2>1, <2>2 DEF OnRunes
  <1> QED BY <1>9, <1>13

(* A call that is told between two runes leaves them whole. *)
LEMMA CallKeeps ==
    ASSUME Told, OnRunes, Visible' = Visible, pending' = pending, NEW call \in Nat, Deliver(<<>>, call)
    PROVE  Told' /\ OnRunes'
  <1>1. PICK B : /\ Chain(B, text \o pending) /\ Len(text) + 1 \in B
                 /\ \A n \in DOMAIN deltas : EndOf(n) + 1 \in B
    BY DEF OnRunes
  <1>2. PICK out \in Seq(Byte) : out = <<>>
    <2>1. <<>> \in Seq(Byte)
      OBVIOUS
    <2> QED BY <2>1
  <1>3. /\ text' = text \o out
        /\ deltas' = IF out = <<>> /\ call = 0 THEN deltas ELSE Append(deltas, [bytes |-> out, call |-> call])
    BY <1>2 DEF Deliver
  <1>4. text \in Seq(Byte) /\ pending \in Seq(Byte) /\ deltas \in Seq(Delta) /\ text = Joined
    BY DEF Told
  <1>5. /\ text' \in Seq(Byte) /\ deltas' \in Seq(Delta) /\ text' = Joined'
        /\ \A k \in DOMAIN deltas' : \/ k \in DOMAIN deltas /\ EndOf(k)' = EndOf(k)
                                    \/ EndOf(k)' = Len(text')
    BY <1>2, <1>3, <1>4, DeliverKeeps
  <1>6. text' = text
    BY <1>2, <1>3, <1>4, ConcatEmptySeq
  <1>7. Told'
    <2>1. Decode(Visible)' = Decode(Visible)
      BY DEF Decode
    <2> QED BY <1>4, <1>5, <1>6, <2>1 DEF Told
  <1>8. \A k \in DOMAIN deltas' : EndOf(k)' + 1 \in B
    BY <1>1, <1>5, <1>6
  <1>9. OnRunes'
    <2>1. FullRune(pending, 1)' <=> FullRune(pending, 1)
      BY DEF FullRune, Continued
    <2>2. Chain(B, text \o pending)' <=> Chain(B, text \o pending)
      BY <1>6 DEF Chain, FullRune, RuneSize, Continued
    <2> QED BY <1>1, <1>6, <1>8, <2>1, <2>2 DEF OnRunes
  <1> QED BY <1>7, <1>9

(* An id that shows nothing and tells nothing. *)
LEMMA HideKeeps ==
    ASSUME Told, Visible' = Visible, UNCHANGED <<pending, text, deltas>>
    PROVE  Told' /\ (OnRunes => OnRunes')
  <1>1. Decode(Visible)' = Decode(Visible)
    BY DEF Decode
  <1>2. Told'
    BY <1>1 DEF Told, Joined
  <1>3. ASSUME OnRunes PROVE OnRunes'
    <2>1. PICK B : /\ Chain(B, text \o pending) /\ Len(text) + 1 \in B
                   /\ \A n \in DOMAIN deltas : EndOf(n) + 1 \in B
      BY <1>3 DEF OnRunes
    <2>2. FullRune(pending, 1)' <=> FullRune(pending, 1)
      BY DEF FullRune, Continued
    <2>3. Chain(B, text \o pending)' <=> Chain(B, text \o pending)
      BY DEF Chain, FullRune, RuneSize, Continued
    <2>4. \A n \in DOMAIN deltas : EndOf(n)' = EndOf(n)
      BY DEF EndOf
    <2> QED BY <1>3, <2>1, <2>2, <2>3, <2>4 DEF OnRunes
  <1> QED BY <1>2, <1>3

(* The invariant holds at first. *)
LEMMA TextStarts == Init => TextInv
  <1> SUFFICES ASSUME Init PROVE TextInv
    OBVIOUS
  <1>1. /\ ids = <<>> /\ text = <<>> /\ pending = <<>> /\ deltas = <<>>
        /\ inTool = FALSE /\ phase = "build"
    BY DEF Init
  <1>2. ~Inside(Len(ids))
    BY <1>1 DEF Inside, Markers
  <1>3. PICK e \in Seq(Byte) : e = <<>>
    <2>1. <<>> \in Seq(Byte)
      OBVIOUS
    <2> QED BY <2>1
  <1>4. Joined = <<>> /\ Visible = <<>> /\ Decode(<<>>) = <<>>
    <2>1. DOMAIN ids = {} /\ DOMAIN deltas = {} /\ DOMAIN <<>> = {}
      BY <1>1
    <2>2. \A f : DOMAIN f = {} => [i \in {} |-> f[i]] = <<>>
      OBVIOUS
    <2>3. [i \in DOMAIN deltas |-> deltas[i].bytes] = <<>>
      BY <2>1
    <2>4. [i \in DOMAIN ids |-> IF Shown(i) THEN <<ids[i]>> ELSE <<>>] = <<>>
      BY <2>1
    <2>5. [i \in DOMAIN <<>> |-> Text[<<>>[i]]] = <<>>
      BY <2>1
    <2> QED BY <2>3, <2>4, <2>5, FlattenEmpty DEF Joined, Visible, Decode
  <1>5. e \o e = e /\ Len(e) = 0
    BY <1>3
  <1>6. Told
    <2>1. <<>> \in Seq(Delta)
      OBVIOUS
    <2> QED BY <1>1, <1>3, <1>4, <1>5, <2>1 DEF Told
  <1>7. Chain({1}, e)
    BY <1>5 DEF Chain
  <1>8. OnRunes
    <2>1. Chain({1}, text \o pending) /\ Len(text) + 1 \in {1}
      BY <1>1, <1>3, <1>5, <1>7
    <2>2. DOMAIN deltas = {}
      BY <1>1
    <2> QED BY <1>1, <2>1, <2>2 DEF OnRunes
  <1> QED BY <1>1, <1>2, <1>6, <1>8 DEF TextInv

(* What an id does to the text, in a chat and in a raw completion. *)
LEMMA TextReceive ==
    ASSUME TextInv, GenTypeOK, NEW id \in Ids, Receive(id)
    PROVE  TextInv'
  <1>1. PICK n : n = Len(ids)
    OBVIOUS
  <1>2. /\ ids \in Seq(Ids) /\ ids' = Append(ids, id) /\ api' = api
        /\ phase = "stream" /\ phase' = "stream"
    BY DEF Receive, reqVars, GenTypeOK
  <1>3. Told /\ OnRunes
    BY <1>2 DEF TextInv
  <1>4. /\ Visible \in Seq(Ids)
        /\ Visible' = IF api = "raw" \/ (id \notin Special /\ ~Inside(n))
                        THEN Append(Visible, id) ELSE Visible
    BY <1>1, <1>2, VisibleGrows
  <1>5. Inside(n + 1)' <=> IF id \in {"open", "close"} THEN id = "open" ELSE Inside(n)
    BY <1>1, <1>2, InsideGrows
  <1>6. Len(ids') = n + 1
    BY <1>1, <1>2, MarkersGrow
  <1>7. CASE api = "raw"
    <2>1. Emit(id)
      BY <1>7 DEF Receive
    <2> QED BY <1>2, <1>3, <1>4, <1>7, <2>1, EmitKeeps DEF TextInv
  <1>8. CASE api = "chat"
    <2>1. PushChat(id) /\ (inTool <=> Inside(n)) /\ api # "raw"
      BY <1>1, <1>8 DEF Receive, TextInv
    <2>2. inTool' <=> IF id \in {"open", "close"} THEN id = "open" ELSE inTool
      <3>1. inTool \in BOOLEAN
        BY DEF GenTypeOK
      <3> QED BY <2>1, <3>1, PushTools
    <2>3. inTool' <=> Inside(n + 1)'
      BY <1>5, <2>1, <2>2
    <2>4. inTool' <=> Inside(Len(ids))'
      BY <1>6, <2>3 DEF Inside, Markers
    <2>5. Told' /\ OnRunes'
      <3>1. CASE id = "close"
        <4>1. PushClose
          BY <2>1, <3>1 DEF PushChat
        <4>2. Visible' = Visible
          BY <1>4, <2>1, <3>1 DEF Special
        <4>3. PICK call : call = IF Parses(toolIDs) THEN nTools + 1 ELSE 0
          OBVIOUS
        <4>4. call \in Nat
          BY <4>3 DEF GenTypeOK
        <4>5. Deliver(<<>>, call) /\ pending' = pending
          BY <4>1, <4>3 DEF PushClose
        <4> QED BY <1>3, <4>2, <4>4, <4>5, CallKeeps
      <3>2. CASE id = "open"
        <4>1. UNCHANGED <<pending, text, deltas>>
          BY <2>1, <3>2 DEF PushChat, PushOpen, resVars
        <4>2. Visible' = Visible
          BY <1>4, <2>1, <3>2 DEF Special
        <4> QED BY <1>3, <4>1, <4>2, HideKeeps
      <3>3. CASE id \notin {"open", "close"} /\ inTool
        <4>1. UNCHANGED <<pending, text, deltas>>
          BY <2>1, <3>3 DEF PushChat, PushTool, resVars
        <4>2. Visible' = Visible
          BY <1>4, <2>1, <3>3
        <4> QED BY <1>3, <4>1, <4>2, HideKeeps
      <3>4. CASE id \notin {"open", "close"} /\ ~inTool /\ id \in Special
        <4>1. UNCHANGED <<pending, text, deltas>>
          BY <2>1, <3>4 DEF PushChat, resVars
        <4>2. Visible' = Visible
          BY <1>4, <2>1, <3>4
        <4> QED BY <1>3, <4>1, <4>2, HideKeeps
      <3>5. CASE id \notin Special /\ ~inTool
        <4>1. Emit(id)
          BY <2>1, <3>5 DEF PushChat, Special
        <4>2. Visible' = Append(Visible, id)
          BY <1>4, <2>1, <3>5
        <4> QED BY <1>3, <1>4, <4>1, <4>2, EmitKeeps
      <3> QED BY <3>1, <3>2, <3>3, <3>4, <3>5 DEF Special
    <2> QED BY <1>2, <2>4, <2>5 DEF TextInv
  <1> QED BY <1>7, <1>8 DEF GenTypeOK

(* The invariant is inductive. *)
LEMMA TextStep == TextInv /\ GenTypeOK /\ [Next]_genVars => TextInv'
  <1> SUFFICES ASSUME TextInv, GenTypeOK, [Next]_genVars PROVE TextInv'
    OBVIOUS
  <1>1. ASSUME UNCHANGED <<ids, api>>
        PROVE  Visible' = Visible /\ (Inside(Len(ids))' <=> Inside(Len(ids)))
    BY <1>1 DEF Visible, Shown, Inside, Markers
  <1>2. CASE \E id \in Ids : Receive(id)
    BY <1>2, TextReceive
  <1>3. CASE BuildRequest
    <2>1. UNCHANGED <<ids, api, inTool, pending, text, deltas>> /\ phase = "build"
      BY <1>3 DEF BuildRequest, toolVars, resVars
    <2>2. phase' = "returned" => err' # "none"
      BY <1>3 DEF BuildRequest
    <2>3. Told' /\ OnRunes'
      BY <1>1, <2>1, HideKeeps DEF TextInv
    <2> QED BY <1>1, <2>1, <2>2, <2>3 DEF TextInv
  <1>4. CASE \E e \in {"over_capacity", "engine_error"} : ReturnError(e)
    <2>1. /\ UNCHANGED <<ids, api, inTool, pending, text, deltas>>
          /\ phase' = "returned" /\ err' # "none"
      BY <1>4 DEF ReturnError, reqVars, toolVars, resVars
    <2>2. Told'
      BY <1>1, <2>1, HideKeeps DEF TextInv
    <2> QED BY <1>1, <2>1, <2>2 DEF TextInv
  <1>5. CASE \E why \in {"stop", "length"} : Return(why)
    <2>1. PICK out : out = pending
      OBVIOUS
    <2>2. /\ UNCHANGED <<ids, api, inTool>> /\ phase' = "returned" /\ pending' = <<>>
          /\ text' = text \o out
          /\ deltas' = IF out = <<>> /\ 0 = 0 THEN deltas ELSE Append(deltas, [bytes |-> out, call |-> 0])
      BY <1>5, <2>1 DEF Return, reqVars, toolVars
    <2>3. /\ text \in Seq(Byte) /\ out \in Seq(Byte) /\ deltas \in Seq(Delta) /\ text = Joined
          /\ text \o out = Decode(Visible) /\ 0 \in Nat
      BY <2>1 DEF TextInv, Told
    <2>4. text' \in Seq(Byte) /\ deltas' \in Seq(Delta) /\ text' = Joined'
      BY <2>2, <2>3, DeliverKeeps
    <2>5. text' \o <<>> = text' /\ <<>> \in Seq(Byte)
      BY <2>4, ConcatEmptySeq
    <2>6. Decode(Visible)' = Decode(Visible)
      BY <1>1, <2>2 DEF Decode
    <2>7. Told'
      BY <2>2, <2>3, <2>4, <2>5, <2>6 DEF Told
    <2> QED BY <1>1, <2>2, <2>7 DEF TextInv
  <1>6. CASE UNCHANGED genVars
    <2>1. UNCHANGED <<ids, api, inTool, pending, text, deltas, phase, err>>
      BY <1>6 DEF genVars, reqVars, toolVars, resVars
    <2>2. Told' /\ (OnRunes => OnRunes')
      BY <1>1, <2>1, HideKeeps DEF TextInv
    <2> QED BY <1>1, <2>1, <2>2 DEF TextInv
  <1> QED BY <1>2, <1>3, <1>4, <1>5, <1>6 DEF Next

(* TextIsDecoding, for every stream of ids: however runes and tool calls   *)
(* straddle tokens, the deltas add up to the decoding of the visible ids,  *)
(* none of them splits a rune, at most three bytes are held back, and      *)
(* nothing is by a finished call.                                          *)
THEOREM TextIsWhole == Spec => []TextIsDecoding
  <1>1. TextInv => TextIsDecoding
    <2> SUFFICES ASSUME TextInv PROVE TextIsDecoding
      OBVIOUS
    <2>1. Told /\ (phase = "returned" /\ err = "none" => pending = <<>>)
      BY DEF TextInv
    <2>2. ASSUME phase = "stream"
          PROVE  /\ \A n \in DOMAIN deltas : EndOf(n) + 1 \in RuneStarts(Decode(Visible))
                 /\ Len(pending) <= 3
      <3>1. OnRunes
        BY <2>2 DEF TextInv
      <3>2. PICK s : s = text \o pending
        OBVIOUS
      <3>3. PICK B : Chain(B, s) /\ \A n \in DOMAIN deltas : EndOf(n) + 1 \in B
        BY <3>1, <3>2 DEF OnRunes
      <3>4. s \in Seq(Byte) /\ s = Decode(Visible)
        BY <2>1, <3>2, ConcatProperties DEF Told
      <3>5. B \subseteq RuneStarts(s)
        BY <3>3, <3>4, ChainStarts
      <3>6. Len(pending) <= 3
        <4>1. CASE pending = <<>>
          BY <4>1
        <4>2. CASE pending # <<>>
          BY <2>1, <3>1, <4>2, HeldBackIsShort DEF OnRunes, Told
        <4> QED BY <4>1, <4>2
      <3> QED BY <3>3, <3>4, <3>5, <3>6
    <2> QED BY <2>1, <2>2 DEF TextIsDecoding, Told, Joined
  <1>2. GenInv => GenTypeOK
    BY DEF GenInv
  <1> QED BY <1>1, <1>2, GenStarts, GenStep, TextStarts, TextStep, PTL DEF Spec
============================================================================
