----------------------------- MODULE Tokenizer -----------------------------
(***************************************************************************)
(* The byte-level BPE tokenizer (internal/tokenizer/tokenizer.go): Encode  *)
(* splits a text at special literals, the hand-written pre-tokenizer cuts  *)
(* each chunk in between into words, and applyBPE merges the bytes of a    *)
(* word into tokens.  Texts are sequences of code points, tokens in symbol *)
(* space and special literals too; positions count from 1, ends are        *)
(* exclusive.  One call of Encode runs at a time.                          *)
(***************************************************************************)
EXTENDS Integers, SequencesExt

CONSTANTS
    Alphabet, MaxLen,   \* the texts: code points they use, bound on their length
    MergeFiles,         \* contents merges.txt may have: sequences of lines
    Vocab,              \* vocab.json: symbol -> id
    AddedTokens,        \* added_tokens of tokenizer.json: records of str and id
    OtherLetters        \* \p{L} outside of ASCII, as far as in Alphabet

-----------------------------------------------------------------------------
(* Byte tables *)

(* A Go string holds the UTF-8 encoding of a text; ranging over it yields  *)
(* the code points again.                                                  *)
Utf8(c) ==
    IF c < 128 THEN <<c>>
    ELSE IF c < 2048 THEN <<192 + (c \div 64), 128 + (c % 64)>>
    ELSE <<224 + (c \div 4096), 128 + ((c \div 64) % 64), 128 + (c % 64)>>
Bytes(s) == FlattenSeq([k \in DOMAIN s |-> Utf8(s[k])])

(* The tables are kept for the bytes that occur in texts. *)
Byte == UNION {ToSet(Utf8(c)) : c \in Alphabet}
Printable == (33 .. 126) \cup (161 .. 172) \cup (174 .. 255)

(* buildByteMaps: a printable byte is its own symbol, the n-th other one   *)
(* is code point 256 + n.                                                  *)
BuildByteMaps ==
    [b \in Byte |-> IF b \in Printable THEN b ELSE 256 + Cardinality((0 .. b - 1) \ Printable)]

SymToBytes(byteToSym, sym) ==
    LET known == SelectSeq(sym, LAMBDA c : c \in Range(byteToSym))
    IN [k \in DOMAIN known |-> CHOOSE b \in Byte : byteToSym[b] = known[k]]

-----------------------------------------------------------------------------
(* Load *)

MaxID == Max({0} \cup Range(Vocab) \cup {sp.id : sp \in AddedTokens})

(* Special tokens overwrite what vocab.json says. *)
IdToTok(byteToSym) ==
    [id \in 0 .. MaxID |->
        IF \E sp \in AddedTokens : sp.id = id
          THEN Bytes((CHOOSE sp \in AddedTokens : sp.id = id).str)
        ELSE IF id \in Range(Vocab)
          THEN SymToBytes(byteToSym, CHOOSE s \in DOMAIN Vocab : Vocab[s] = id)
        ELSE <<>>]

TokToID ==
    [s \in DOMAIN Vocab \cup {sp.str : sp \in AddedTokens} |->
        IF \E sp \in AddedTokens : sp.str = s
          THEN (CHOOSE sp \in AddedTokens : sp.str = s).id
        ELSE Vocab[s]]

(* A line of merges.txt is a pair of symbols, or of another kind: blank,   *)
(* the version header, without a space.                                    *)
PairLines(lines) == {k \in DOMAIN lines : lines[k].kind = "pair"}
PairAt(lines, k) == <<lines[k].a, lines[k].b>>

(* Faulty variant: every line that starts with '#' is skipped. *)
LoadMergesSkipHash(lines) ==
    LET kept == {k \in PairLines(lines) : lines[k].a[1] # 35}
    IN [p \in {PairAt(lines, k) : k \in kept} |->
           Cardinality({k \in kept : k < Max({j \in kept : PairAt(lines, j) = p})})]

(* loadMerges: pairs are ranked by their order, other lines do not count.  *)
LoadMerges(lines) ==
    LET kept == PairLines(lines)
    IN [p \in {PairAt(lines, k) : k \in kept} |->
           Cardinality({k \in kept : k < Max({j \in kept : PairAt(lines, j) = p})})]

Load(lines) ==
    [byteToSym |-> BuildByteMaps, idToTok |-> IdToTok(BuildByteMaps), tokToID |-> TokToID,
     mergeRank |-> LoadMerges(lines)]

(* The files belong together, as the ones of a trained model do: a merge   *)
(* joins bytes or products of earlier merges, and every byte of a text and *)
(* every product has an id of its own.                                     *)
ByteSyms == {<<c>> : c \in Range(BuildByteMaps)}
Products(lines) == {lines[k].a \o lines[k].b : k \in PairLines(lines)}
ASSUME ModelFilesAssumption ==
    /\ IsInjective(Vocab)
    /\ \A sp \in AddedTokens : sp.str # <<>> /\ sp.id \notin Range(Vocab)
    /\ \A lines \in MergeFiles :
        /\ ByteSyms \cup Products(lines) \subseteq DOMAIN Vocab
        /\ \A k \in PairLines(lines) : \A s \in {lines[k].a, lines[k].b} :
            Len(s) = 1 \/ s \in Products(SubSeq(lines, 1, k - 1))

VARIABLES
    file, tok,        \* merges.txt, and what Load made of the model directory
    text,             \* the text to encode
    pc,               \* "idle", "split", "scan", "bpe", "returned"
    i,                \* what comes before i is encoded
    chunkEnd,         \* end of the chunk of ordinary text
    special,          \* the special token after the chunk, as a set of at most one
    to,               \* end of the word that begins at i
    syms,             \* applyBPE: the symbols of the word
    out               \* ids so far

vars == <<file, tok, text, pc, i, chunkEnd, special, to, syms, out>>

Init ==
    /\ file \in MergeFiles /\ tok = Load(file)
    /\ text = <<>> /\ pc = "idle" /\ i = 1 /\ chunkEnd = 1 /\ special = {}
    /\ to = 1 /\ syms = <<>> /\ out = <<>>

-----------------------------------------------------------------------------
(* Encode *)

Encode ==
    /\ pc = "idle" /\ pc' = "split"
    /\ \E n \in 0 .. MaxLen : text' \in [1 .. n -> Alphabet]
    /\ UNCHANGED <<file, tok, i, chunkEnd, special, to, syms, out>>

(* Occurrences of special literals from i on. *)
Occurrences ==
    {o \in [at : i .. Len(text), sp : AddedTokens] :
        LET end == o.at + Len(o.sp.str) - 1
        IN end <= Len(text) /\ SubSeq(text, o.at, end) = o.sp.str}

(* Faulty variant: the longest literal wins, wherever it is. *)
BestLongest ==
    {o \in Occurrences : \A p \in Occurrences :
        \/ Len(o.sp.str) > Len(p.sp.str)
        \/ Len(o.sp.str) = Len(p.sp.str) /\ o.at <= p.at}

(* The first one, and the longest of those that start there. *)
Best ==
    {o \in Occurrences : \A p \in Occurrences :
        \/ o.at < p.at
        \/ o.at = p.at /\ Len(o.sp.str) >= Len(p.sp.str)}

Split ==
    /\ pc = "split" /\ i <= Len(text)
    /\ special' = Best
    /\ chunkEnd' = IF Best = {} THEN Len(text) + 1 ELSE (CHOOSE o \in Best : TRUE).at
    /\ pc' = "scan"
    /\ UNCHANGED <<file, tok, text, i, to, syms, out>>

(* The chunk is done: emit the special token behind it, if there is one.   *)
EmitSpecial ==
    /\ pc = "scan" /\ i >= chunkEnd /\ special # {}
    /\ LET o == CHOOSE o \in special : TRUE
       IN out' = Append(out, o.sp.id) /\ i' = o.at + Len(o.sp.str)
    /\ special' = {} /\ pc' = "split"
    /\ UNCHANGED <<file, tok, text, chunkEnd, to, syms>>

EncodeReturn ==
    /\ \/ pc = "split" /\ i > Len(text)
       \/ pc = "scan" /\ i >= chunkEnd /\ special = {}
    /\ pc' = "returned"
    /\ UNCHANGED <<file, tok, text, i, chunkEnd, special, to, syms, out>>

(* The caller has the ids; the tokenizer keeps nothing of a call. *)
Forget ==
    /\ pc = "returned" /\ pc' = "idle"
    /\ text' = <<>> /\ i' = 1 /\ chunkEnd' = 1 /\ to' = 1 /\ out' = <<>>
    /\ UNCHANGED <<file, tok, special, syms>>

-----------------------------------------------------------------------------
(* pretokenizeAndBPE *)

IsNumber(c) == c \in 48 .. 57
IsSpace(c) ==
    c \in {32, 9, 10, 13, 11, 12, 133, 160, 5760, 8232, 8233, 8239, 8287, 12288, 65279}
          \cup (8192 .. 8202)
IsNewline(c) == c \in {10, 13}
IsLetter(c) == c \in (97 .. 122) \cup (65 .. 90) \/ (c >= 128 /\ ~IsSpace(c))
IsPunct(c) == ~IsSpace(c) /\ ~IsLetter(c) /\ ~IsNumber(c)
Lower(c) == IF c \in 65 .. 90 THEN c + 32 ELSE c

(* Where the run of code points with P that contains or follows k ends. *)
RunEnd(k, P(_)) == Min({j \in k .. chunkEnd : j = chunkEnd \/ ~P(text[j])})

Scanning == pc = "scan" /\ i < chunkEnd

(* applyBPE starts with the symbols of the bytes i .. j - 1. *)
Take(j) ==
    /\ to' = j
    /\ syms' = LET b == Bytes(SubSeq(text, i, j - 1)) IN [k \in DOMAIN b |-> <<tok.byteToSym[b[k]]>>]
    /\ pc' = "bpe"
    /\ UNCHANGED <<file, tok, text, i, chunkEnd, special, out>>

(* 1) 's 't 're 've 'm 'll 'd; 0 if there is none at i. *)
ContractionLen ==
    LET a == Lower(text[i + 1])
        b == IF i + 2 < chunkEnd THEN Lower(text[i + 2]) ELSE 0
    IN CASE text[i] # 39 \/ i + 1 >= chunkEnd -> 0
         [] a \in {115, 116, 109, 100} -> 2
         [] <<a, b>> \in {<<114, 101>>, <<118, 101>>, <<108, 108>>} -> 3
         [] OTHER -> 0

Contraction == Scanning /\ ContractionLen > 0 /\ Take(i + ContractionLen)

(* 2) letters, with one code point before them that is no newline, letter  *)
(* or number.                                                              *)
Letters ==
    /\ Scanning /\ IsLetter(text[i])
    /\ Take(RunEnd(i + 1, IsLetter))

HasPrefix ==
    /\ ~IsLetter(text[i]) /\ ~IsNewline(text[i]) /\ ~IsNumber(text[i])
    /\ i + 1 < chunkEnd /\ IsLetter(text[i + 1])

PrefixedLetters ==
    /\ Scanning /\ ContractionLen = 0 /\ HasPrefix
    /\ Take(RunEnd(i + 2, IsLetter))

(* 3) one digit *)
Digit == Scanning /\ IsNumber(text[i]) /\ Take(i + 1)

(* 4) punctuation, with a space before it and newlines behind *)
PunctFrom ==
    IF text[i] = 32 /\ i + 1 < chunkEnd /\ IsPunct(text[i + 1]) THEN i + 1 ELSE i

Punctuation ==
    /\ Scanning /\ ContractionLen = 0 /\ ~HasPrefix /\ IsPunct(text[PunctFrom])
    /\ Take(RunEnd(RunEnd(PunctFrom, IsPunct), IsNewline))

(* 5) a run of whitespace: up to its last newline, otherwise all but the   *)
(* space that the next word begins with.                                   *)
Whitespace == Scanning /\ ~HasPrefix /\ IsSpace(text[i]) /\ ~IsPunct(text[PunctFrom])
SpaceEnd == RunEnd(i, IsSpace)
NewlinesIn == {k \in i .. SpaceEnd - 1 : IsNewline(text[k])}

Newlines == Whitespace /\ NewlinesIn # {} /\ Take(Max(NewlinesIn) + 1)

(* Faulty variant: no space is left for the next word. *)
SpacesAll == Whitespace /\ NewlinesIn = {} /\ Take(SpaceEnd)

Spaces ==
    /\ Whitespace /\ NewlinesIn = {}
    /\ Take(IF SpaceEnd < chunkEnd /\ SpaceEnd - i >= 2 THEN SpaceEnd - 1 ELSE SpaceEnd)

(* There is no rule 6: a code point is a letter, a number, a space or      *)
(* punctuation, so one of the rules above applies (TLC would report a      *)
(* deadlock otherwise).                                                    *)

-----------------------------------------------------------------------------
(* applyBPE *)

RankAt(k) == tok.mergeRank[<<syms[k], syms[k + 1]>>]
Mergeable == {k \in 1 .. Len(syms) - 1 : <<syms[k], syms[k + 1]>> \in DOMAIN tok.mergeRank}
BestPair ==
    CHOOSE k \in Mergeable : \A j \in Mergeable :
        RankAt(k) < RankAt(j) \/ (RankAt(k) = RankAt(j) /\ k <= j)

(* Faulty variant: a last symbol that is in no pair is forgotten. *)
MergedDropsLast(s, a, b) ==
    LET from[k \in 1 .. Len(s) + 1] ==
            IF k >= Len(s) THEN <<>>
            ELSE IF s[k] = a /\ s[k + 1] = b THEN <<a \o b>> \o from[k + 2]
            ELSE <<s[k]>> \o from[k + 1]
    IN from[1]

(* Every occurrence of the best pair is merged, from the left. *)
Merged(s, a, b) ==
    LET from[k \in 1 .. Len(s) + 1] ==
            IF k > Len(s) THEN <<>>
            ELSE IF k < Len(s) /\ s[k] = a /\ s[k + 1] = b THEN <<a \o b>> \o from[k + 2]
            ELSE <<s[k]>> \o from[k + 1]
    IN from[1]

Merge ==
    /\ pc = "bpe" /\ Mergeable # {}
    /\ syms' = Merged(syms, syms[BestPair], syms[BestPair + 1])
    /\ UNCHANGED <<file, tok, text, pc, i, chunkEnd, special, to, out>>

(* The ids of the symbols that have one. *)
EmitWord ==
    /\ pc = "bpe" /\ Mergeable = {}
    /\ LET known == SelectSeq(syms, LAMBDA s : s \in DOMAIN tok.tokToID)
       IN out' = out \o [k \in DOMAIN known |-> tok.tokToID[known[k]]]
    /\ i' = to /\ syms' = <<>> /\ pc' = "scan"
    /\ UNCHANGED <<file, tok, text, chunkEnd, special, to>>

Decode(ids) ==
    FlattenSeq([k \in DOMAIN ids |->
                    IF ids[k] \in DOMAIN tok.idToTok THEN tok.idToTok[ids[k]] ELSE <<>>])

-----------------------------------------------------------------------------

Pretokenize ==
    \/ Contraction \/ Letters \/ PrefixedLetters \/ Digit \/ Punctuation
    \/ Newlines \/ Spaces

Next ==
    \/ Encode \/ Split \/ EmitSpecial \/ EncodeReturn \/ Forget
    \/ Pretokenize
    \/ Merge \/ EmitWord

Spec == Init /\ [][Next]_vars

-----------------------------------------------------------------------------
(* Properties *)

(* The pre-tokenizer regex of the model, with \p{L}, \p{N} and \s as       *)
(* Unicode has them:                                                       *)
(*   (?i:'s|'t|'re|'ve|'m|'ll|'d) | [^\r\n\p{L}\p{N}]?\p{L}+ | \p{N}       *)
(*   | ?[^\s\p{L}\p{N}]+[\r\n]* | \s*[\r\n]+ | \s+(?!\S) | \s+             *)
(* A match at p ends in the longest way the first alternative allows that  *)
(* matches at all.                                                         *)
Letter(c) == c \in (97 .. 122) \cup (65 .. 90) \cup OtherLetters
Number(c) == c \in 48 .. 57
White(c) ==
    c \in (9 .. 13) \cup (8192 .. 8202)
          \cup {32, 133, 160, 5760, 8232, 8233, 8239, 8287, 12288}
Newline(c) == c \in {10, 13}
Other(c) == ~Letter(c) /\ ~Number(c) /\ ~White(c)
AllIn(lo, hi, P(_)) == \A k \in lo .. hi - 1 : P(text[k])
Contracted == {<<115>>, <<116>>, <<114, 101>>, <<118, 101>>, <<109>>, <<108, 108>>, <<100>>}

Alternatives(p) ==
    LET ends == p + 1 .. chunkEnd
    IN <<{e \in ends : text[p] = 39
             /\ [k \in 1 .. e - p - 1 |-> Lower(text[p + k])] \in Contracted},
         {e \in ends : \E q \in {p, p + 1} :
             /\ q < e /\ AllIn(q, e, Letter)
             /\ q > p => ~Newline(text[p]) /\ ~Letter(text[p]) /\ ~Number(text[p])},
         {e \in ends : e = p + 1 /\ Number(text[p])},
         {e \in ends : \E q \in {p, p + 1} : \E m \in q + 1 .. e :
             AllIn(q, m, Other) /\ AllIn(m, e, Newline) /\ (q > p => text[p] = 32)},
         {e \in ends : \E m \in p .. e - 1 : AllIn(p, m, White) /\ AllIn(m, e, Newline)},
         {e \in ends : AllIn(p, e, White) /\ (e < chunkEnd => White(text[e]))},
         {e \in ends : AllIn(p, e, White)}>>

RegexEnd(p) ==
    LET alt == Alternatives(p)
    IN Max(alt[Min({k \in DOMAIN alt : alt[k] # {}})])

(* The hand-written scan, which has no lookahead and no backtracking, cuts *)
(* a text where the regex of the model does: every word that is handed to  *)
(* applyBPE is the match at its place.  Texts have no non-ASCII code point *)
(* that is neither a letter nor a space: isLetter takes those for letters. *)
PretokenIsRegex == pc = "bpe" => to = RegexEnd(i)

(* BPE as it is defined: merge the one leftmost occurrence of the pair     *)
(* that comes first in merges.txt, until no pair is left.                  *)
MergeOne(s) ==
    LET at(k) == {j \in 1 .. Len(s) - 1 : <<s[j], s[j + 1]>> = PairAt(file, k)}
        lines == {k \in PairLines(file) : at(k) # {}}
        j == Min(at(Min(lines)))
    IN IF lines = {} THEN s
       ELSE SubSeq(s, 1, j - 1) \o <<s[j] \o s[j + 1]>> \o SubSeq(s, j + 2, Len(s))
ReferenceBPE(s) ==
    LET after[n \in 0 .. Len(s)] == IF n = 0 THEN s ELSE MergeOne(after[n - 1])
    IN after[Len(s)]

(* Merging all occurrences of a pair at once gives what merging one at a   *)
(* time gives, overlapping occurrences included: at every step the symbols *)
(* are on the way to the ones the reference assigns to the word, and the   *)
(* ones that are emitted are those.                                        *)
BpeIsReference ==
    pc = "bpe" =>
        LET b == Bytes(SubSeq(text, i, to - 1))
            reference == ReferenceBPE([k \in DOMAIN b |-> <<tok.byteToSym[b[k]]>>])
        IN IF Mergeable = {} THEN syms = reference ELSE ReferenceBPE(syms) = reference

(* Decode is the inverse of Encode: at every step the ids so far decode to *)
(* the bytes of the text so far.  Nothing of the text is skipped, encoded  *)
(* twice or dropped for want of an id, across literals, words and merges.  *)
Lossless == Decode(out) = Bytes(SubSeq(text, 1, i - 1))

(* A special literal never ends up in ordinary text, where BPE would take  *)
(* it apart: no chunk holds a whole one, and the one that ends a chunk is  *)
(* not the beginning of a longer one.                                      *)
SpecialsAreWhole ==
    pc \in {"scan", "bpe"} =>
        /\ \A o \in Occurrences : o.at + Len(o.sp.str) > chunkEnd
        /\ \A o \in special : o \in Occurrences
                /\ \A p \in Occurrences : p.at = o.at => IsPrefix(p.sp.str, o.sp.str)
=============================================================================
