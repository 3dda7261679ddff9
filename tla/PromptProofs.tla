---------------------------- MODULE PromptProofs ----------------------------
(***************************************************************************)
(* The stop ids of every request, the prompt of every chat turn, and what  *)
(* a reader finds in the prompt of any conversation, for every             *)
(* generation_config, any texts, any number of messages and turns.         *)
(***************************************************************************)
EXTENDS Prompt, SequenceFacts, FiniteSetTheorems

-----------------------------------------------------------------------------
(* Stop ids *)

(* What is in one list and another. *)
LEMMA ConcatSet ==
    ASSUME NEW S, NEW s \in Seq(S), NEW t \in Seq(S)
    PROVE  ToSet(s \o t) = ToSet(s) \cup ToSet(t) /\ (s \o t = <<>> <=> s = <<>> /\ t = <<>>)
  <1>1. PICK u, m, n : u = s \o t /\ m = Len(s) /\ n = Len(t)
    OBVIOUS
  <1>2. /\ u \in Seq(S) /\ Len(u) = m + n /\ m \in Nat /\ n \in Nat
        /\ \A j \in 1 .. m : u[j] = s[j]
        /\ \A k \in 1 .. n : u[m + k] = t[k]
    BY <1>1, ConcatAt
  <1>3. DOMAIN u = 1 .. m + n /\ DOMAIN s = 1 .. m /\ DOMAIN t = 1 .. n
    BY <1>1, <1>2
  <1>4. ToSet(u) \subseteq ToSet(s) \cup ToSet(t)
    <2> SUFFICES ASSUME NEW i \in 1 .. m + n PROVE u[i] \in ToSet(s) \cup ToSet(t)
      BY <1>3 DEF ToSet
    <2>1. CASE i <= m
      <3>1. i \in 1 .. m /\ u[i] = s[i]
        BY <2>1, <1>2
      <3> QED BY <3>1, <1>3 DEF ToSet
    <2>2. CASE i > m
      <3>1. i - m \in 1 .. n /\ u[i] = t[i - m]
        <4>1. i - m \in 1 .. n /\ m + (i - m) = i
          BY <2>2, <1>2
        <4> QED BY <4>1, <1>2
      <3> QED BY <3>1, <1>3 DEF ToSet
    <2> QED BY <2>1, <2>2, <1>2
  <1>5. ToSet(s) \subseteq ToSet(u) /\ ToSet(t) \subseteq ToSet(u)
    <2>1. \A j \in 1 .. m : j \in 1 .. m + n
      BY <1>2
    <2>2. \A k \in 1 .. n : m + k \in 1 .. m + n
      BY <1>2
    <2> QED BY <2>1, <2>2, <1>2, <1>3 DEF ToSet
  <1>6. u = <<>> <=> s = <<>> /\ t = <<>>
    BY <1>1, <1>2
  <1> QED BY <1>1, <1>4, <1>5, <1>6

(* The ids the format was loaded with are named, and there are some if any *)
(* are named; a request has them unless it asked to ignore them.           *)
StopInv ==
    /\ eosIDs = <<>> <=> EosNamed = {}
    /\ ToSet(eosIDs) \subseteq EosNamed
    /\ pc = "generate" => sent.stop = IF request.ignoreEOS THEN <<>> ELSE eosIDs

(* StopsAtEos, whatever generation_config.json says, whichever literals    *)
(* the tokenizer has and whatever is asked for.                            *)
THEOREM AlwaysStops == Spec => []StopsAtEos
  <1>0. /\ ToSet(<<>>) = {} /\ ToSet(<<"im_end">>) = {"im_end"}
        /\ ToSet(<<"endoftext">>) = {"endoftext"}
        /\ ToSet(<<"im_end", "endoftext">>) = {"im_end", "endoftext"}
    BY DEF ToSet
  <1>1. Init => StopInv
    <2> SUFFICES ASSUME Init PROVE StopInv
      OBVIOUS
    <2>1. PICK ids : ids = EosFromGenerationConfig(config)
      OBVIOUS
    <2>2. ids \in {<<>>, <<"im_end">>, <<"im_end", "endoftext">>}
      BY <2>1 DEF EosFromGenerationConfig
    <2>3. known \in SUBSET {"im_end", "endoftext"}
      BY DEF Init
    <2>4. /\ eosIDs = IF ids = <<>> THEN EndId("im_end", known) \o EndId("endoftext", known) ELSE ids
          /\ EosNamed = ToSet(ids) \cup known
      BY <2>1 DEF Init, LoadEos, EosNamed
    <2>5. CASE ids = <<>>
      <3>1. PICK e : e = EndId("im_end", known) \o EndId("endoftext", known)
        OBVIOUS
      <3>2. PICK x, y : x = EndId("im_end", known) /\ y = EndId("endoftext", known)
        OBVIOUS
      <3>3. /\ x \in Seq({"im_end", "endoftext"}) /\ (x = <<>> <=> "im_end" \notin known)
            /\ y \in Seq({"im_end", "endoftext"}) /\ (y = <<>> <=> "endoftext" \notin known)
            /\ ToSet(x) = known \cap {"im_end"} /\ ToSet(y) = known \cap {"endoftext"}
        <4>1. /\ <<>> \in Seq({"im_end", "endoftext"}) /\ <<"im_end">> \in Seq({"im_end", "endoftext"})
              /\ <<"endoftext">> \in Seq({"im_end", "endoftext"})
              /\ <<"im_end">> # <<>> /\ <<"endoftext">> # <<>>
          <5> DEFINE Lit == {"im_end", "endoftext"}
          <5>1. "im_end" \in Lit /\ "endoftext" \in Lit
            OBVIOUS
          <5> HIDE DEF Lit
          <5>2. \A a : a \in Lit => <<a>> \in Seq(Lit) /\ Len(<<a>>) = 1
            OBVIOUS
          <5>3. <<>> \in Seq(Lit) /\ Len(<<>>) = 0
            OBVIOUS
          <5> QED BY <5>1, <5>2, <5>3 DEF Lit
        <4>2. /\ x = IF "im_end" \in known THEN <<"im_end">> ELSE <<>>
              /\ y = IF "endoftext" \in known THEN <<"endoftext">> ELSE <<>>
          BY <3>2 DEF EndId
        <4>3. CASE "im_end" \in known /\ "endoftext" \in known
          BY <4>1, <4>2, <4>3, <1>0
        <4>4. CASE "im_end" \in known /\ "endoftext" \notin known
          BY <4>1, <4>2, <4>4, <1>0
        <4>5. CASE "im_end" \notin known /\ "endoftext" \in known
          BY <4>1, <4>2, <4>5, <1>0
        <4>6. CASE "im_end" \notin known /\ "endoftext" \notin known
          BY <4>1, <4>2, <4>6, <1>0
        <4> QED BY <4>3, <4>4, <4>5, <4>6
      <3>4. ToSet(e) = known /\ (e = <<>> <=> known = {})
        <4>1. ToSet(e) = ToSet(x) \cup ToSet(y) /\ (e = <<>> <=> x = <<>> /\ y = <<>>)
          BY <3>1, <3>2, <3>3, ConcatSet
        <4> QED BY <4>1, <3>3, <2>3
      <3>5. eosIDs = e /\ EosNamed = known
        BY <3>1, <2>4, <2>5, <1>0
      <3> QED BY <3>4, <3>5 DEF StopInv, Init
    <2>6. CASE ids # <<>>
      <3>1. eosIDs = ids /\ "im_end" \in ToSet(ids) /\ ToSet(ids) \subseteq EosNamed
        BY <2>2, <2>4, <2>6, <1>0
      <3> QED BY <3>1, <2>6 DEF StopInv, Init
    <2> QED BY <2>5, <2>6
  <1>2. StopInv /\ [Next]_vars => StopInv'
    <2> SUFFICES ASSUME StopInv, [Next]_vars PROVE StopInv'
      OBVIOUS
    <2>1. eosIDs' = eosIDs /\ config' = config /\ known' = known
      BY DEF Next, vars, ServeChat, ServeCompletion, ServeDone, Exit, Reset, SetThinking, Ask,
             Answered, Failed
    <2>2. \/ pc' # "generate"
          \/ UNCHANGED <<pc, request, sent>>
          \/ \E r : Generate(r)
      BY DEF Next, vars, ServeChat, ServeCompletion, ServeDone, Exit, Reset, SetThinking, Ask,
             Answered, Failed
    <2>3. ASSUME NEW r, Generate(r) PROVE sent'.stop = IF request'.ignoreEOS THEN <<>> ELSE eosIDs
      BY <2>3 DEF Generate, BuildRequest
    <2>4. EosNamed' = EosNamed
      BY <2>1 DEF EosNamed
    <2> QED BY <2>1, <2>2, <2>3, <2>4 DEF StopInv
  <1>3. StopInv => StopsAtEos
    BY <1>0 DEF StopInv, StopsAtEos
  <1> QED BY <1>1, <1>2, <1>3, PTL DEF Spec

-----------------------------------------------------------------------------
(* The prompt of a chat turn *)

(* What prompts of a chat are made of. *)
Piece ==
    {"<|im_start|>", "<|im_end|>", "<think>", "</think>", "user", "assistant"}
    \cup Lines \cup UNION {ToSet(a) : a \in Answers}
Msg == [role : {"user", "assistant"}, content : Seq(Piece), calls : {<<>>}]
SaidBy(m) == Open(m.role) \o m.content \o Close
Turns(h) == [k \in DOMAIN h |-> SaidBy(h[k])]
Exchange(d) == Open("user") \o <<d[1]>> \o Close \o Open("assistant") \o d[2] \o Close
Exchanges(d) == [n \in DOMAIN d |-> Exchange(d[n])]

(* The messages in front of the open question, if there is one, are the    *)
(* dialogue, and a prompt that is out shows all of them.                   *)
ChatTypes ==
    /\ history \in Seq(Msg)
    /\ dialogue \in Seq(Piece \X Seq(Piece))
ChatRead == pc = "read" => FlattenSeq(Turns(history)) = FlattenSeq(Exchanges(dialogue))
ChatOpen ==
    pc = "generate" =>
        /\ history # <<>>
        /\ Last(history).role = "user" /\ Last(history).content = <<Asked>> /\ Asked \in Piece
        /\ FlattenSeq(Turns(Front(history))) = FlattenSeq(Exchanges(dialogue))
        /\ sent.prompt = FlattenSeq(Turns(history)) \o Header(thinking)
ChatInv == mode = "chat" => ChatTypes /\ ChatRead /\ ChatOpen

(* ConcatAssociative, in the form the provers instantiate. *)
LEMMA Associative == \A D : \A s, t, u \in Seq(D) : (s \o t) \o u = s \o (t \o u)
  BY ConcatAssociative

(* The end of a prompt, and a question with its answer, either way.       *)
SamePrompt(f, u, l, c, h) == (f \o ((u \o l) \o c)) \o h = (((f \o u) \o l) \o c) \o h
SameTurn(f, u, l, c, a, t) ==
    (f \o ((u \o l) \o c)) \o ((a \o t) \o c) = f \o (((((u \o l) \o c) \o a) \o t) \o c)

(* Concatenation, regrouped as one question and as one exchange. *)
LEMMA RegroupChat ==
    ASSUME NEW D
    PROVE  \A f, u, l, c \in Seq(D) :
              /\ \A h \in Seq(D) : SamePrompt(f, u, l, c, h)
              /\ \A a, t \in Seq(D) : SameTurn(f, u, l, c, a, t)
  <1> DEFINE Cat(s, t) == s \o t
  <1>1. \A s, t \in Seq(D) : Cat(s, t) \in Seq(D)
    BY ConcatProperties
  <1>2. \A s, t, v \in Seq(D) : Cat(Cat(s, t), v) = Cat(s, Cat(t, v))
    <2>1. \A s, t, v \in Seq(D) : (s \o t) \o v = s \o (t \o v)
      BY Associative
    <2> QED BY <2>1, Zenon
  <1> HIDE DEF Cat
  <1> SUFFICES ASSUME NEW f \in Seq(D), NEW u \in Seq(D), NEW l \in Seq(D), NEW c \in Seq(D)
               PROVE  /\ \A h \in Seq(D) : SamePrompt(f, u, l, c, h)
                      /\ \A a, t \in Seq(D) : SameTurn(f, u, l, c, a, t)
    BY Zenon
  <1>3. \A h \in Seq(D) : Cat(Cat(f, Cat(Cat(u, l), c)), h) = Cat(Cat(Cat(Cat(f, u), l), c), h)
    BY <1>1, <1>2
  <1>4. \A a, t \in Seq(D) :
           Cat(Cat(f, Cat(Cat(u, l), c)), Cat(Cat(a, t), c))
         = Cat(f, Cat(Cat(Cat(Cat(Cat(u, l), c), a), t), c))
    <2> TAKE a, t \in Seq(D)
    <2>1. PICK q \in Seq(D) : q = Cat(Cat(u, l), c)
      BY <1>1
    <2>2. PICK p \in Seq(D) : p = Cat(a, t)
      BY <1>1
    <2>3. Cat(Cat(f, q), Cat(p, c)) = Cat(f, Cat(q, Cat(p, c)))
      BY <1>1, <1>2
    <2>4. Cat(q, Cat(p, c)) = Cat(Cat(q, p), c)
      BY <1>2
    <2>5. Cat(q, p) = Cat(Cat(q, a), t)
      BY <1>2, <2>2
    <2> QED BY <2>1, <2>2, <2>3, <2>4, <2>5
  <1> QED BY <1>3, <1>4, Zenon DEF Cat, SamePrompt, SameTurn

(* The fixed parts of a prompt are pieces. *)
LEMMA FixedParts ==
    /\ \A role \in Piece : Open(role) \in Seq(Piece)
    /\ Close \in Seq(Piece)
    /\ \A think : Header(think) \in Seq(Piece)
  <1>1. \A role \in Piece : Open(role) \in Seq(Piece)
    BY DEF Open, Piece
  <1>2. Close \in Seq(Piece) /\ Think \in Seq(Piece)
    BY DEF Close, Think, Piece
  <1>3. "assistant" \in Piece
    BY DEF Piece
  <1>4. PICK o : o = Open("assistant")
    OBVIOUS
  <1>5. o \in Seq(Piece) /\ o \o <<>> \in Seq(Piece) /\ o \o Think \in Seq(Piece)
    BY <1>1, <1>2, <1>3, <1>4, ConcatProperties, ConcatEmptySeq
  <1>6. ASSUME NEW think PROVE Header(think) \in Seq(Piece)
    BY <1>4, <1>5 DEF Header
  <1> QED BY <1>1, <1>2, <1>6

(* What is said is a sequence of pieces. *)
LEMMA SaidIsText ==
    ASSUME NEW m \in Msg
    PROVE  SaidBy(m) \in Seq(Piece)
  <1>1. m.role \in Piece /\ m.content \in Seq(Piece)
    BY DEF Msg, Piece
  <1>2. PICK o, t, c : o = Open(m.role) /\ t = m.content /\ c = Close
    OBVIOUS
  <1>3. o \in Seq(Piece) /\ t \in Seq(Piece) /\ c \in Seq(Piece)
    BY <1>1, <1>2, FixedParts
  <1>4. (o \o t) \o c \in Seq(Piece)
    BY <1>3, ConcatProperties
  <1> QED BY <1>2, <1>4 DEF SaidBy

(* A message more is a turn more. *)
LEMMA TurnsAppend ==
    ASSUME NEW h \in Seq(Msg), NEW m \in Msg
    PROVE  /\ Turns(h) \in Seq(Seq(Piece))
           /\ Turns(Append(h, m)) = Append(Turns(h), SaidBy(m))
           /\ FlattenSeq(Turns(Append(h, m))) = FlattenSeq(Turns(h)) \o SaidBy(m)
           /\ FlattenSeq(Turns(h)) \in Seq(Piece)
           /\ Front(Append(h, m)) = h /\ Last(Append(h, m)) = m
           /\ Append(h, m) \in Seq(Msg) /\ Append(h, m) # <<>>
  <1>1. PICK E : E = Msg
    OBVIOUS
  <1>2. PICK n, g : n = Len(h) /\ g = Append(h, m)
    OBVIOUS
  <1>3. /\ n \in Nat /\ DOMAIN h = 1 .. n /\ g \in Seq(E) /\ Len(g) = n + 1 /\ DOMAIN g = 1 .. n + 1
        /\ \A i \in 1 .. n : g[i] = h[i] /\ h[i] \in E
        /\ g[n + 1] = m
    BY <1>1, <1>2
  <1>4. \A i \in 1 .. n : SaidBy(h[i]) \in Seq(Piece)
    BY <1>1, <1>3, SaidIsText
  <1>5. PICK t, u : t = Turns(h) /\ u = Turns(g)
    OBVIOUS
  <1>6. /\ t \in Seq(Seq(Piece)) /\ Len(t) = n
        /\ \A i \in 1 .. n : t[i] = SaidBy(h[i])
    <2>1. t = [i \in 1 .. n |-> SaidBy(h[i])]
      BY <1>3, <1>5 DEF Turns
    <2>2. \A i \in 1 .. n : t[i] = SaidBy(h[i])
      BY <2>1
    <2>3. t = [i \in 1 .. n |-> t[i]]
      BY <2>1
    <2>4. PICK S : S = Seq(Piece)
      OBVIOUS
    <2>5. t \in Seq(S) /\ Len(t) = n
      <3>1. n \in Nat /\ \A i \in 1 .. n : t[i] \in S
        BY <1>3, <1>4, <2>2, <2>4
      <3> QED BY <2>3, <3>1, MapIsSeq
    <2> QED BY <2>2, <2>4, <2>5
  <1>7. PICK x : x = SaidBy(m)
    OBVIOUS
  <1>8. x \in Seq(Piece)
    BY <1>7, SaidIsText
  <1>9. u = Append(t, x)
    <2>1. u = [i \in 1 .. n + 1 |-> SaidBy(g[i])]
      BY <1>3, <1>5 DEF Turns
    <2>2. \A i \in 1 .. n + 1 : SaidBy(g[i]) = IF i = n + 1 THEN x ELSE t[i]
      BY <1>3, <1>6, <1>7
    <2>3. PICK v, S : v = Append(t, x) /\ S = Seq(Piece)
      OBVIOUS
    <2>4. v \in Seq(S) /\ Len(v) = n + 1 /\ \A i \in 1 .. n + 1 : v[i] = IF i = n + 1 THEN x ELSE t[i]
      BY <2>3, <1>6, <1>3, <1>8, AppendProperties
    <2>5. v = [i \in 1 .. n + 1 |-> v[i]]
      BY <2>4
    <2> QED BY <2>1, <2>2, <2>3, <2>4, <2>5
  <1>10. FlattenSeq(u) = FlattenSeq(t) \o x /\ FlattenSeq(t) \in Seq(Piece)
    BY <1>6, <1>8, <1>9, FlattenAppend, FlattenType
  <1>11. Front(g) = h /\ Last(g) = m /\ g # <<>>
    <2>1. Last(g) = m /\ g # <<>>
      BY <1>3 DEF Last
    <2>2. SubSeq(g, 1, Len(g) - 1) = h
      BY <1>3, <1>1
    <2> QED BY <2>1, <2>2 DEF Front
  <1> QED BY <1>1, <1>2, <1>3, <1>5, <1>6, <1>7, <1>9, <1>10, <1>11

(* A turn more of the dialogue is an exchange more. *)
LEMMA ExchangesAppend ==
    ASSUME NEW d \in Seq(Piece \X Seq(Piece)), NEW line \in Piece, NEW answer \in Seq(Piece)
    PROVE  /\ Append(d, <<line, answer>>) \in Seq(Piece \X Seq(Piece))
           /\ FlattenSeq(Exchanges(Append(d, <<line, answer>>))) =
                 FlattenSeq(Exchanges(d)) \o Exchange(<<line, answer>>)
  <1>1. PICK E, x : E = Piece \X Seq(Piece) /\ x = <<line, answer>>
    OBVIOUS
  <1>2. x \in E
    BY <1>1
  <1>3. ASSUME NEW e \in E PROVE Exchange(e) \in Seq(Piece)
    <2>1. e[1] \in Piece /\ e[2] \in Seq(Piece) /\ "user" \in Piece /\ "assistant" \in Piece
      BY <1>1 DEF Piece
    <2>2. PICK q, l, t, u, a, c : /\ q = e[1] /\ l = <<q>> /\ t = e[2] /\ c = Close
                                  /\ u = Open("user") /\ a = Open("assistant")
      OBVIOUS
    <2>3. /\ q \in Piece /\ t \in Seq(Piece) /\ u \in Seq(Piece)
          /\ a \in Seq(Piece) /\ c \in Seq(Piece)
      BY <2>1, <2>2, FixedParts
    <2>4. l \in Seq(Piece)
      BY <2>2, <2>3
    <2>5. ((((u \o l) \o c) \o a) \o t) \o c \in Seq(Piece)
      BY <2>3, <2>4, ConcatProperties
    <2> QED BY <2>2, <2>5 DEF Exchange
  <1>4. PICK n, g : n = Len(d) /\ g = Append(d, x)
    OBVIOUS
  <1>5. d \in Seq(E)
    BY <1>1
  <1>6. /\ n \in Nat /\ DOMAIN d = 1 .. n /\ g \in Seq(E) /\ DOMAIN g = 1 .. n + 1
        /\ \A i \in 1 .. n : g[i] = d[i] /\ d[i] \in E
        /\ g[n + 1] = x
    BY <1>2, <1>4, <1>5
  <1>7. \A i \in 1 .. n : Exchange(d[i]) \in Seq(Piece)
    BY <1>3, <1>6
  <1>8. PICK t, u, y : t = Exchanges(d) /\ u = Exchanges(g) /\ y = Exchange(x)
    OBVIOUS
  <1>9. /\ t \in Seq(Seq(Piece)) /\ Len(t) = n /\ y \in Seq(Piece)
        /\ \A i \in 1 .. n : t[i] = Exchange(d[i])
    <2>1. y \in Seq(Piece)
      BY <1>2, <1>3, <1>8
    <2>2. t = [i \in 1 .. n |-> Exchange(d[i])]
      BY <1>6, <1>8 DEF Exchanges
    <2>3. t \in Seq(Seq(Piece))
      <3>1. t = [i \in 1 .. n |-> t[i]] /\ \A i \in 1 .. n : t[i] = Exchange(d[i])
        BY <2>2
      <3>2. PICK S : S = Seq(Piece)
        OBVIOUS
      <3>3. t \in Seq(S) /\ Len(t) = n
        <4>1. n \in Nat /\ \A i \in 1 .. n : t[i] \in S
          BY <1>6, <1>7, <3>1, <3>2
        <4> QED BY <3>1, <4>1, MapIsSeq
      <3> QED BY <3>2, <3>3
    <2>4. Len(t) = n /\ \A i \in 1 .. n : t[i] = Exchange(d[i])
      BY <1>6, <2>2
    <2> QED BY <2>1, <2>3, <2>4
  <1>10. u = Append(t, y)
    <2>1. u = [i \in 1 .. n + 1 |-> Exchange(g[i])]
      BY <1>6, <1>8 DEF Exchanges
    <2>2. \A i \in 1 .. n + 1 : Exchange(g[i]) = IF i = n + 1 THEN y ELSE t[i]
      BY <1>6, <1>8, <1>9
    <2>3. PICK v, S : v = Append(t, y) /\ S = Seq(Piece)
      OBVIOUS
    <2>4. v \in Seq(S) /\ Len(v) = n + 1 /\ \A i \in 1 .. n + 1 : v[i] = IF i = n + 1 THEN y ELSE t[i]
      BY <2>3, <1>6, <1>9, AppendProperties
    <2>5. v = [i \in 1 .. n + 1 |-> v[i]]
      BY <2>4
    <2> QED BY <2>1, <2>2, <2>3, <2>4, <2>5
  <1>11. FlattenSeq(u) = FlattenSeq(t) \o y
    BY <1>9, <1>10, FlattenAppend
  <1> QED BY <1>1, <1>4, <1>6, <1>8, <1>11

(* Render of a conversation of users and assistants, without tools. *)
LEMMA RenderPlain ==
    ASSUME NEW h \in Seq(Msg), NEW think
    PROVE  Render(h, <<>>, think) = FlattenSeq(Turns(h)) \o Header(think)
  <1>1. \A k \in DOMAIN h : h[k] \in Msg
    OBVIOUS
  <1>2. \A m \in Msg : /\ m.role # "system" /\ m.role # "tool"
                       /\ m.role = "user" \/ m.role = "assistant"
                       /\ m.calls = <<>> /\ m.content \in Seq(Piece)
    BY DEF Msg
  <1>3. ~HasSystem(h) /\ Start(h) = 1
    <2>1. h # <<>> => 1 \in DOMAIN h
      OBVIOUS
    <2> QED BY <1>1, <1>2, <2>1 DEF HasSystem, Start
  <1>4. RenderSystem(h, <<>>) = <<>>
    BY <1>3 DEF RenderSystem
  <1>5. ASSUME NEW k \in DOMAIN h PROVE RenderMessage(h, k) = SaidBy(h[k])
    <2>1. PICK m : m = h[k]
      OBVIOUS
    <2>2. m \in Msg
      BY <1>1, <2>1
    <2>3. CASE m.role = "user"
      BY <2>1, <2>3 DEF RenderMessage, SaidBy
    <2>4. CASE m.role = "assistant"
      <3>1. [c \in DOMAIN m.calls |-> RenderCall(m.calls[c])] = <<>>
        <4>1. m.calls = <<>>
          BY <1>2, <2>2
        <4>2. DOMAIN m.calls = {}
          BY <4>1
        <4> QED BY <4>2
      <3>2. FlattenSeq([c \in DOMAIN m.calls |-> RenderCall(m.calls[c])]) = <<>>
        BY <3>1, FlattenEmpty
      <3>3. PICK ot : ot = Open("assistant") \o m.content
        OBVIOUS
      <3>4. ot \in Seq(Piece)
        <4>1. "assistant" \in Piece
          BY DEF Piece
        <4>2. PICK o, t : o = Open("assistant") /\ t = m.content
          OBVIOUS
        <4>3. o \in Seq(Piece) /\ t \in Seq(Piece)
          BY <1>2, <2>2, <4>1, <4>2, FixedParts
        <4>4. o \o t \in Seq(Piece)
          BY <4>3, ConcatProperties
        <4> QED BY <3>3, <4>2, <4>4
      <3>5. ot \o <<>> = ot
        BY <3>4, ConcatEmptySeq
      <3>6. RenderMessage(h, k) = (ot \o <<>>) \o Close
        BY <2>1, <2>4, <3>2, <3>3 DEF RenderMessage, RenderCalls
      <3> QED BY <2>1, <2>4, <3>3, <3>5, <3>6 DEF SaidBy
    <2> QED BY <1>2, <2>2, <2>3, <2>4
  <1>6. [k \in DOMAIN h |-> IF k < Start(h) THEN <<>> ELSE RenderMessage(h, k)] = Turns(h)
    <2>1. \A k \in DOMAIN h : ~(k < Start(h))
      BY <1>3
    <2> QED BY <1>5, <2>1 DEF Turns
  <1>7. PICK f : f = FlattenSeq(Turns(h))
    OBVIOUS
  <1>8. f \in Seq(Piece)
    <2>1. \A k \in 1 .. Len(h) : SaidBy(h[k]) \in Seq(Piece)
      BY <1>1, SaidIsText
    <2>2. PICK t : t = Turns(h)
      OBVIOUS
    <2>3. t \in Seq(Seq(Piece))
      BY <2>1, <2>2, IsASeq DEF Turns
    <2> QED BY <1>7, <2>2, <2>3, FlattenType
  <1>9. <<>> \o f = f
    BY <1>8, ConcatEmptySeq
  <1> QED BY <1>4, <1>6, <1>7, <1>9 DEF Render

(* The prompt of an open question. *)
LEMMA OpenQuestion ==
    ASSUME mode = "chat", ChatTypes, ChatOpen, pc = "generate"
    PROVE  /\ ChatIsDialogue
           /\ Front(history) \in Seq(Msg)
           /\ FlattenSeq(Turns(history)) =
                 FlattenSeq(Exchanges(dialogue)) \o (Open("user") \o <<Asked>> \o Close)
           /\ FlattenSeq(Exchanges(dialogue)) \in Seq(Piece)
  <1>1. PICK E, hs, n : E = Msg /\ hs = history /\ n = Len(hs)
    OBVIOUS
  <1>2. hs \in Seq(E) /\ hs # <<>>
    BY <1>1 DEF ChatTypes, ChatOpen
  <1>3. PICK h, m : h = Front(hs) /\ m = Last(hs)
    OBVIOUS
  <1>4. h \in Seq(E) /\ m \in E /\ hs = Append(h, m)
    <2>1. n \in Nat \ {0} /\ h = SubSeq(hs, 1, n - 1) /\ m = hs[n]
      BY <1>1, <1>2, <1>3 DEF Front, Last
    <2>2. h \in Seq(E) /\ Len(h) = n - 1 /\ \A i \in 1 .. n - 1 : h[i] = hs[i]
      BY <1>1, <1>2, <2>1
    <2>3. m \in E
      BY <1>1, <1>2, <2>1
    <2> QED BY <1>1, <1>2, <2>1, <2>2, <2>3
  <1>5. FlattenSeq(Turns(hs)) = FlattenSeq(Turns(h)) \o SaidBy(m) /\ FlattenSeq(Turns(h)) \in Seq(Piece)
    BY <1>1, <1>4, TurnsAppend
  <1>6. SaidBy(m) = Open("user") \o <<Asked>> \o Close
    BY <1>1, <1>3 DEF ChatOpen, SaidBy
  <1>7. PICK f, u, q, l, c, hd :
           /\ f = FlattenSeq(Exchanges(dialogue)) /\ u = Open("user") /\ q = Asked
           /\ l = <<q>> /\ c = Close /\ hd = Header(thinking)
    OBVIOUS
  <1>8. f = FlattenSeq(Turns(h))
    BY <1>1, <1>3, <1>7 DEF ChatOpen
  <1>9. /\ f \in Seq(Piece) /\ u \in Seq(Piece) /\ l \in Seq(Piece) /\ c \in Seq(Piece)
        /\ hd \in Seq(Piece)
    <2>1. "user" \in Piece /\ q \in Piece
      BY <1>7 DEF Piece, ChatOpen
    <2>2. l \in Seq(Piece)
      BY <1>7, <2>1
    <2> QED BY <1>5, <1>7, <1>8, <2>1, <2>2, FixedParts
  <1>10. sent.prompt = (f \o ((u \o l) \o c)) \o hd
    BY <1>1, <1>5, <1>6, <1>7, <1>8 DEF ChatOpen
  <1>11. sent.prompt = (((f \o u) \o l) \o c) \o hd
    <2>1. SamePrompt(f, u, l, c, hd)
      BY <1>9, RegroupChat
    <2> QED BY <1>10, <2>1 DEF SamePrompt
  <1>12. ChatIsDialogue
    BY <1>7, <1>11 DEF ChatIsDialogue, Exchanges, Exchange
  <1> QED BY <1>1, <1>3, <1>4, <1>5, <1>6, <1>7, <1>8, <1>9, <1>12

(* A line makes an open question. *)
LEMMA AskKeeps ==
    ASSUME mode = "chat", ChatTypes, ChatRead, NEW line \in Lines, Ask(line)
    PROVE  ChatTypes' /\ ChatRead' /\ ChatOpen'
  <1>1. PICK m : m = [role |-> "user", content |-> <<line>>, calls |-> <<>>]
    OBVIOUS
  <1>2. line \in Piece /\ m \in Msg /\ m.role = "user" /\ m.content = <<line>>
    <2>1. line \in Piece
      BY DEF Piece
    <2>2. PICK l : l = <<line>>
      OBVIOUS
    <2>3. l \in Seq(Piece)
      BY <2>1, <2>2
    <2> QED BY <1>1, <2>1, <2>2, <2>3 DEF Msg
  <1>3. /\ pc = "read" /\ pc' = "generate" /\ dialogue' = dialogue /\ thinking' = thinking
        /\ history' = Append(history, m)
        /\ sent' = BuildRequest(ChatRequest(history', <<>>, thinking, FALSE))
    BY <1>1 DEF Ask, Reading, Generate
  <1>4. /\ history' \in Seq(Msg) /\ history' # <<>>
        /\ Front(history') = history /\ Last(history') = m
    BY <1>2, <1>3, TurnsAppend DEF ChatTypes
  <1>5. sent'.prompt = Render(history', <<>>, thinking)
    BY <1>3 DEF BuildRequest, ChatRequest, NoRequest
  <1>6. sent'.prompt = FlattenSeq(Turns(history')) \o Header(thinking)
    <2>1. PICK g : g = history'
      OBVIOUS
    <2>2. Render(g, <<>>, thinking) = FlattenSeq(Turns(g)) \o Header(thinking)
      BY <1>4, <2>1, RenderPlain
    <2> QED BY <1>5, <2>1, <2>2
  <1>7. Asked' = line
    BY <1>2, <1>4 DEF Asked
  <1>8. FlattenSeq(Turns(Front(history'))) = FlattenSeq(Exchanges(dialogue))
    BY <1>3, <1>4 DEF ChatRead
  <1>9. ChatTypes' /\ ChatRead'
    BY <1>3, <1>4 DEF ChatTypes, ChatRead
  <1>10. ChatOpen'
    BY <1>2, <1>3, <1>4, <1>6, <1>7, <1>8 DEF ChatOpen
  <1> QED BY <1>9, <1>10

(* An answer closes the question: both become a turn of the dialogue. *)
LEMMA AnswerKeeps ==
    ASSUME mode = "chat", ChatTypes, ChatOpen, NEW answer \in Answers, Answered(answer)
    PROVE  ChatTypes' /\ ChatRead' /\ ChatOpen'
  <1>1. answer \in Seq(Piece)
    <2>1. answer \in Seq(ToSet(answer)) /\ ToSet(answer) \subseteq Piece
      BY AnswerAssumption DEF Piece
    <2> QED BY <2>1, SeqMonotonic
  <1>2. PICK m : m = [role |-> "assistant", content |-> answer, calls |-> <<>>]
    OBVIOUS
  <1>3. m \in Msg /\ m.role = "assistant" /\ m.content = answer
    BY <1>1, <1>2 DEF Msg
  <1>4. /\ pc = "generate" /\ pc' = "read" /\ history' = Append(history, m)
        /\ dialogue' = Append(dialogue, <<Asked, answer>>)
    BY <1>2 DEF Answered
  <1>5. Asked \in Piece
    BY <1>4 DEF ChatOpen
  <1>6. /\ history' \in Seq(Msg)
        /\ FlattenSeq(Turns(history')) = FlattenSeq(Turns(history)) \o SaidBy(m)
    BY <1>3, <1>4, TurnsAppend DEF ChatTypes
  <1>7. PICK q : q = Asked
    OBVIOUS
  <1>8. /\ dialogue' \in Seq(Piece \X Seq(Piece))
        /\ FlattenSeq(Exchanges(dialogue')) = FlattenSeq(Exchanges(dialogue)) \o Exchange(<<q, answer>>)
    <2>1. PICK d : d = dialogue
      OBVIOUS
    <2>2. d \in Seq(Piece \X Seq(Piece)) /\ q \in Piece
      BY <1>5, <1>7, <2>1 DEF ChatTypes
    <2>3. /\ Append(d, <<q, answer>>) \in Seq(Piece \X Seq(Piece))
          /\ FlattenSeq(Exchanges(Append(d, <<q, answer>>))) =
                 FlattenSeq(Exchanges(d)) \o Exchange(<<q, answer>>)
      BY <1>1, <2>2, ExchangesAppend
    <2> QED BY <1>4, <1>7, <2>1, <2>3
  <1>9. FlattenSeq(Turns(history')) = FlattenSeq(Exchanges(dialogue'))
    <2>1. PICK f, u, l, c, a : /\ f = FlattenSeq(Exchanges(dialogue)) /\ u = Open("user")
                               /\ l = <<q>> /\ c = Close /\ a = Open("assistant")
      OBVIOUS
    <2>2. /\ f \in Seq(Piece) /\ u \in Seq(Piece) /\ l \in Seq(Piece) /\ c \in Seq(Piece)
          /\ a \in Seq(Piece)
      <3>1. "user" \in Piece /\ "assistant" \in Piece
        BY DEF Piece
      <3>2. l \in Seq(Piece)
        BY <1>5, <1>7, <2>1
      <3>3. f \in Seq(Piece)
        BY <1>4, <2>1, OpenQuestion
      <3> QED BY <2>1, <3>1, <3>2, <3>3, FixedParts
    <2>3. FlattenSeq(Turns(history)) = f \o ((u \o l) \o c)
      BY <1>4, <1>7, <2>1, OpenQuestion
    <2>4. SaidBy(m) = (a \o answer) \o c
      BY <1>3, <2>1 DEF SaidBy
    <2>5. Exchange(<<q, answer>>) = ((((u \o l) \o c) \o a) \o answer) \o c
      BY <2>1 DEF Exchange
    <2>6. (f \o ((u \o l) \o c)) \o ((a \o answer) \o c)
           = f \o (((((u \o l) \o c) \o a) \o answer) \o c)
      <3>1. SameTurn(f, u, l, c, a, answer)
        BY <1>1, <2>2, RegroupChat
      <3> QED BY <3>1 DEF SameTurn
    <2> QED BY <1>6, <1>8, <2>1, <2>3, <2>4, <2>5, <2>6
  <1>10. ChatTypes'
    BY <1>6, <1>8 DEF ChatTypes
  <1>11. ChatRead' /\ ChatOpen'
    BY <1>4, <1>9 DEF ChatRead, ChatOpen
  <1> QED BY <1>10, <1>11

(* ChatIsDialogue for any lines, any answers and any number of turns: the  *)
(* history runChat keeps, with failed questions taken back and /reset      *)
(* anywhere, renders as the dialogue and nothing else.                     *)
THEOREM ChatKeepsDialogue == Spec => []ChatIsDialogue
  <1>1. Init => ChatInv
    <2> SUFFICES ASSUME Init PROVE ChatInv
      OBVIOUS
    <2>1. history = <<>> /\ dialogue = <<>> /\ pc = "read"
      BY DEF Init
    <2>2. Turns(<<>>) = <<>> /\ Exchanges(<<>>) = <<>>
      <3>1. DOMAIN <<>> = {}
        OBVIOUS
      <3> QED BY <3>1 DEF Turns, Exchanges
    <2>3. ChatTypes
      BY <2>1, EmptySeq DEF ChatTypes
    <2> QED BY <2>1, <2>2, <2>3 DEF ChatInv, ChatRead, ChatOpen
  <1>2. ChatInv /\ [Next]_vars => ChatInv'
    <2> SUFFICES ASSUME ChatInv, [Next]_vars PROVE ChatInv'
      OBVIOUS
    <2>1. mode' = mode
      BY DEF Next, vars, ServeChat, ServeCompletion, ServeDone, Exit, Reset, SetThinking, Ask,
             Answered, Failed
    <2> SUFFICES ASSUME mode = "chat" PROVE ChatTypes' /\ ChatRead' /\ ChatOpen'
      BY <2>1 DEF ChatInv
    <2>2. ChatTypes /\ ChatRead /\ ChatOpen
      BY DEF ChatInv
    <2>3. ASSUME NEW line \in Lines, Ask(line) PROVE ChatTypes' /\ ChatRead' /\ ChatOpen'
      BY <2>2, <2>3, AskKeeps
    <2>4. ASSUME NEW answer \in Answers, Answered(answer) PROVE ChatTypes' /\ ChatRead' /\ ChatOpen'
      BY <2>2, <2>4, AnswerKeeps
    <2>5. CASE Failed
      <3>1. /\ pc = "generate" /\ pc' = "read" /\ dialogue' = dialogue /\ history' = Front(history)
        BY <2>5 DEF Failed
      <3>2. Front(history) \in Seq(Msg)
        BY <2>2, <3>1, OpenQuestion
      <3> QED BY <2>2, <3>1, <3>2 DEF ChatTypes, ChatRead, ChatOpen
    <2>6. CASE Reset
      <3>1. history' = <<>> /\ dialogue' = <<>> /\ pc' = "read"
        BY <2>6 DEF Reset, Reading
      <3>2. Turns(<<>>) = <<>> /\ Exchanges(<<>>) = <<>>
        <4>1. DOMAIN <<>> = {}
          OBVIOUS
        <4> QED BY <4>1 DEF Turns, Exchanges
      <3>3. ChatTypes'
        BY <3>1, EmptySeq DEF ChatTypes
      <3> QED BY <3>1, <3>2, <3>3 DEF ChatRead, ChatOpen
    <2>7. ASSUME UNCHANGED <<history, dialogue>>, pc' # "generate", pc' = "read" => pc = "read"
          PROVE  ChatTypes' /\ ChatRead' /\ ChatOpen'
      BY <2>2, <2>7 DEF ChatTypes, ChatRead, ChatOpen
    <2>8. CASE Exit
      BY <2>7, <2>8 DEF Exit
    <2>9. ASSUME NEW on, SetThinking(on) PROVE ChatTypes' /\ ChatRead' /\ ChatOpen'
      BY <2>7, <2>9 DEF SetThinking, Reading
    <2>10. CASE UNCHANGED vars
      BY <2>2, <2>10 DEF vars, ChatTypes, ChatRead, ChatOpen, Asked
    <2> QED BY <2>3, <2>4, <2>5, <2>6, <2>8, <2>9, <2>10
            DEF Next, ServeChat, ServeCompletion, ServeDone
  <1>3. ChatInv => ChatIsDialogue
    BY OpenQuestion DEF ChatInv, ChatIsDialogue
  <1> QED BY <1>1, <1>2, <1>3, PTL DEF Spec

-----------------------------------------------------------------------------
(* Reading a prompt back *)

Markers == {"<|im_start|>", "<|im_end|>"}
TurnOf(V) == [role : V, body : Seq(V)]
Written(t) == Open(t.role) \o t.body \o Close

IsEqual(x, y) == x = y

(* The marks of a concatenation. *)
LEMMA ConcatMarks ==
    ASSUME NEW S, NEW x \in Seq(S), NEW y \in Seq(S), NEW mark
    PROVE  Marks(x \o y, mark) = Marks(x, mark) \cup {Len(x) + k : k \in Marks(y, mark)}
  <1>1. PICK z, m, n : z = x \o y /\ m = Len(x) /\ n = Len(y)
    OBVIOUS
  <1>2. m \in Nat /\ n \in Nat /\ DOMAIN x = 1 .. m /\ DOMAIN y = 1 .. n /\ DOMAIN z = 1 .. m + n
    BY <1>1
  <1>3. /\ \A j \in 1 .. m : z[j] = x[j]
        /\ \A k \in 1 .. n : z[m + k] = y[k]
    BY <1>1, ConcatAt
  <1>4. \A i : i \in 1 .. m + n <=> i \in 1 .. m \/ \E k \in 1 .. n : i = m + k
    <2>1. ASSUME NEW i \in 1 .. m + n, i \notin 1 .. m PROVE i - m \in 1 .. n /\ i = m + (i - m)
      BY <1>2, <2>1
    <2>2. \A k \in 1 .. n : m + k \in 1 .. m + n
      BY <1>2
    <2>3. \A i \in 1 .. m : i \in 1 .. m + n
      BY <1>2
    <2> QED BY <2>1, <2>2, <2>3
  <1>5. Marks(x, mark) = {k \in 1 .. m : x[k] = mark} /\ Marks(y, mark) = {k \in 1 .. n : y[k] = mark}
        /\ Marks(z, mark) = {k \in 1 .. m + n : z[k] = mark}
    BY <1>2 DEF Marks
  <1>6. \A i : i \in Marks(z, mark) <=>
                  i \in Marks(x, mark) \/ \E k \in Marks(y, mark) : i = m + k
    BY <1>3, <1>4, <1>5
  <1> QED BY <1>1, <1>6

(* A text has none. *)
LEMMA TextMarks ==
    ASSUME NEW V, V \cap Markers = {}, NEW b \in Seq(V), NEW mark \in Markers
    PROVE  Marks(b, mark) = {}
  <1>1. \A k \in DOMAIN b : b[k] \in V
    OBVIOUS
  <1> QED BY <1>1 DEF Marks

(* A role and a text after an opening marker. *)
LEMMA OpenedIs ==
    ASSUME NEW V, V \cap Markers = {}, NEW role \in V, NEW b \in Seq(V),
           NEW w, IsEqual(w, Open(role) \o b)
    PROVE  /\ w \in Seq(V \cup Markers) /\ Len(w) = Len(b) + 2
           /\ w[2] = role /\ \A j \in 1 .. Len(b) : w[2 + j] = b[j]
           /\ Marks(w, "<|im_start|>") = {1} /\ Marks(w, "<|im_end|>") = {}
  <1>1. PICK M, o : M = V \cup Markers /\ o = Open(role)
    OBVIOUS
  <1>2. o \in Seq(M) /\ Len(o) = 2 /\ o[1] = "<|im_start|>" /\ o[2] = role
    BY <1>1 DEF Open, Markers
  <1>3. b \in Seq(M)
    BY <1>1, SeqMonotonic
  <1>4. /\ w \in Seq(M) /\ Len(w) = Len(b) + 2 /\ w[2] = role
        /\ \A j \in 1 .. Len(b) : w[2 + j] = b[j]
    <2>0. o \in Seq(M)
      BY <1>2
    <2>1. /\ o \o b \in Seq(M) /\ Len(o \o b) = Len(o) + Len(b)
          /\ \A j \in 1 .. Len(o) : (o \o b)[j] = o[j]
          /\ \A k \in 1 .. Len(b) : (o \o b)[Len(o) + k] = b[k]
      BY ONLY <2>0, <1>3, ConcatAt
    <2>2. w = o \o b /\ Len(b) \in Nat
      BY <1>1, <1>3 DEF IsEqual
    <2> QED BY <1>2, <2>1, <2>2
  <1>5. ASSUME NEW mark \in Markers PROVE Marks(w, mark) = Marks(o, mark)
    <2>0. o \in Seq(M)
      BY <1>2
    <2>1. Marks(o \o b, mark) = Marks(o, mark) \cup {Len(o) + k : k \in Marks(b, mark)}
      BY ONLY <2>0, <1>3, ConcatMarks
    <2>2. Marks(b, mark) = {}
      BY TextMarks
    <2> QED BY <2>1, <2>2, <1>1 DEF IsEqual
  <1>6. Marks(o, "<|im_start|>") = {1} /\ Marks(o, "<|im_end|>") = {}
    <2>1. DOMAIN o = {1, 2}
      BY <1>2
    <2>2. role # "<|im_start|>" /\ role # "<|im_end|>" /\ "<|im_start|>" # "<|im_end|>"
      BY DEF Markers
    <2> QED BY <1>2, <2>1, <2>2 DEF Marks
  <1> QED BY <1>1, <1>4, <1>5, <1>6 DEF Markers

(* A turn as it is written. *)
LEMMA WrittenIs ==
    ASSUME NEW V, V \cap Markers = {}, NEW t \in TurnOf(V), NEW w, IsEqual(w, Written(t))
    PROVE  /\ w \in Seq(V \cup Markers) /\ Len(w) = Len(t.body) + 3
           /\ w[2] = t.role /\ \A j \in 1 .. Len(t.body) : w[2 + j] = t.body[j]
           /\ Marks(w, "<|im_start|>") = {1} /\ Marks(w, "<|im_end|>") = {Len(w)}
  <1>1. t.role \in V /\ t.body \in Seq(V)
    BY DEF TurnOf
  <1>2. PICK M, r, b, o, c, n :
           M = V \cup Markers /\ r = t.role /\ b = t.body /\ o = Open(r) \o b /\ c = Close /\ n = Len(b)
    OBVIOUS
  <1>3. /\ o \in Seq(M) /\ Len(o) = n + 2 /\ n \in Nat
        /\ o[2] = r /\ \A j \in 1 .. n : o[2 + j] = b[j]
        /\ Marks(o, "<|im_start|>") = {1} /\ Marks(o, "<|im_end|>") = {}
    <2>1. r \in V /\ b \in Seq(V) /\ n \in Nat /\ IsEqual(o, Open(r) \o b)
      BY <1>1, <1>2 DEF IsEqual
    <2>2. /\ o \in Seq(V \cup Markers) /\ Len(o) = Len(b) + 2
          /\ o[2] = r /\ \A j \in 1 .. Len(b) : o[2 + j] = b[j]
          /\ Marks(o, "<|im_start|>") = {1} /\ Marks(o, "<|im_end|>") = {}
      BY <2>1, OpenedIs
    <2> QED BY <2>1, <2>2, <1>2
  <1>4. c \in Seq(M) /\ Len(c) = 1 /\ Marks(c, "<|im_start|>") = {} /\ Marks(c, "<|im_end|>") = {1}
    <2>1. c \in Seq(M) /\ Len(c) = 1 /\ DOMAIN c = {1} /\ c[1] = "<|im_end|>"
      BY <1>2 DEF Close, Markers
    <2>2. "<|im_start|>" # "<|im_end|>"
      OBVIOUS
    <2> QED BY <2>1, <2>2 DEF Marks
  <1>5. w = o \o c
    BY <1>2 DEF Written, IsEqual
  <1>6. /\ w \in Seq(M) /\ Len(w) = n + 3 /\ w[2] = r
        /\ \A j \in 1 .. n : w[2 + j] = b[j]
    <2>0. o \in Seq(M) /\ c \in Seq(M)
      BY <1>3, <1>4
    <2>1. /\ o \o c \in Seq(M) /\ Len(o \o c) = Len(o) + Len(c)
          /\ \A j \in 1 .. Len(o) : (o \o c)[j] = o[j]
      BY ONLY <2>0, ConcatAt
    <2>2. 2 \in 1 .. Len(o) /\ \A j \in 1 .. n : 2 + j \in 1 .. Len(o)
      BY <1>3
    <2> QED BY <1>3, <1>4, <1>5, <2>1, <2>2
  <1>7. Marks(w, "<|im_start|>") = {1} /\ Marks(w, "<|im_end|>") = {n + 3}
    <2>0. o \in Seq(M) /\ c \in Seq(M)
      BY <1>3, <1>4
    <2>1. \A mark : Marks(o \o c, mark) = Marks(o, mark) \cup {Len(o) + k : k \in Marks(c, mark)}
      BY ONLY <2>0, ConcatMarks
    <2>2. {Len(o) + k : k \in {1}} = {n + 3}
      BY <1>3
    <2>3. Marks(w, "<|im_start|>") = {1}
      BY <2>1, <1>3, <1>4, <1>5
    <2>4. Marks(w, "<|im_end|>") = {n + 3}
      BY <2>1, <2>2, <1>3, <1>4, <1>5
    <2> QED BY <2>3, <2>4
  <1> QED BY <1>2, <1>6, <1>7

(* The turn t is in p from s to e. *)
Holds(p, s, e, t) ==
    /\ 1 <= s /\ e = s + 2 + Len(t.body) /\ e <= Len(p)
    /\ p[s + 1] = t.role
    /\ \A j \in 1 .. Len(t.body) : p[s + 1 + j] = t.body[j]

(* p is the turns T, which start at the places at and end at the places en. *)
Reads(p, T, at, en, V) ==
    /\ p \in Seq(V \cup Markers) /\ T \in Seq(TurnOf(V)) /\ at \in Seq(Nat) /\ en \in Seq(Nat)
    /\ Len(at) = Len(T) /\ Len(en) = Len(T)
    /\ Rising(at)
    /\ \A i \in 1 .. Len(T) : Holds(p, at[i], en[i], T[i])
    /\ \A i \in 1 .. Len(T) - 1 : at[i + 1] = en[i] + 1
    /\ Marks(p, "<|im_start|>") = ToSet(at) /\ Marks(p, "<|im_end|>") = ToSet(en)
    /\ IsFiniteSet(ToSet(en)) /\ Cardinality(ToSet(en)) = Len(T)
    /\ Len(T) = 0 => p = <<>>
    /\ Len(T) # 0 => at[1] = 1 /\ en[Len(T)] = Len(p)

(* No turns. *)
LEMMA ReadsNothing ==
    ASSUME NEW V
    PROVE  Reads(<<>>, <<>>, <<>>, <<>>, V)
  <1>1. Len(<<>>) = 0 /\ DOMAIN <<>> = {} /\ 1 .. 0 = {} /\ 1 .. 0 - 1 = {}
    OBVIOUS
  <1>2. ToSet(<<>>) = {} /\ \A mark : Marks(<<>>, mark) = {}
    BY <1>1 DEF ToSet, Marks
  <1>3. IsFiniteSet({}) /\ Cardinality({}) = 0
    BY FS_EmptySet
  <1>4. Rising(<<>>)
    BY <1>1 DEF Rising
  <1>5. \A S : <<>> \in Seq(S)
    OBVIOUS
  <1> QED BY <1>1, <1>2, <1>3, <1>4, <1>5 DEF Reads

(* What is in p stays where it is when something follows. *)
LEMMA HoldsStill ==
    ASSUME NEW M, NEW p \in Seq(M), NEW w \in Seq(M), NEW s \in Nat, NEW e \in Nat,
           NEW W, NEW t \in TurnOf(W), Holds(p, s, e, t)
    PROVE  Holds(p \o w, s, e, t)
  <1>1. PICK q, m, n : q = p \o w /\ m = Len(p) /\ n = Len(t.body)
    OBVIOUS
  <1>2. m \in Nat /\ n \in Nat /\ Len(q) \in Nat /\ Len(q) >= m /\ \A j \in 1 .. m : q[j] = p[j]
    <2>1. t.body \in Seq(W)
      BY DEF TurnOf
    <2>2. Len(w) \in Nat /\ Len(p) \in Nat /\ Len(t.body) \in Nat
      BY <2>1
    <2>3. Len(q) = m + Len(w) /\ \A j \in 1 .. m : q[j] = p[j]
      BY <1>1, ConcatAt
    <2> QED BY <1>1, <2>2, <2>3
  <1>3. /\ 1 <= s /\ e = s + 2 + n /\ e <= m /\ p[s + 1] = t.role
        /\ \A j \in 1 .. n : p[s + 1 + j] = t.body[j]
    BY <1>1 DEF Holds
  <1>4. s + 1 \in 1 .. m /\ \A j \in 1 .. n : s + 1 + j \in 1 .. m
    BY <1>2, <1>3
  <1>5. q[s + 1] = t.role /\ \A j \in 1 .. n : q[s + 1 + j] = t.body[j]
    BY <1>2, <1>3, <1>4
  <1>6. e <= Len(q)
    BY <1>2, <1>3
  <1> QED BY <1>1, <1>3, <1>5, <1>6 DEF Holds

(* A turn that is added is found at the end. *)
LEMMA HoldsAdded ==
    ASSUME NEW V, V \cap Markers = {}, NEW p \in Seq(V \cup Markers), NEW t \in TurnOf(V),
           NEW q, IsEqual(q, p \o Written(t))
    PROVE  /\ Holds(q, Len(p) + 1, Len(q), t)
           /\ q \in Seq(V \cup Markers) /\ Len(q) = Len(p) + Len(t.body) + 3
           /\ Marks(q, "<|im_start|>") = Marks(p, "<|im_start|>") \cup {Len(p) + 1}
           /\ Marks(q, "<|im_end|>") = Marks(p, "<|im_end|>") \cup {Len(q)}
  <1>1. PICK w, M, m, n, r, b : /\ w = Written(t) /\ M = V \cup Markers /\ m = Len(p)
                                /\ n = Len(t.body) /\ r = t.role /\ b = t.body
    OBVIOUS
  <1>2. /\ w \in Seq(M) /\ Len(w) = n + 3
        /\ w[2] = r /\ \A j \in 1 .. n : w[2 + j] = b[j]
        /\ Marks(w, "<|im_start|>") = {1} /\ Marks(w, "<|im_end|>") = {n + 3}
    <2>1. IsEqual(w, Written(t))
      BY <1>1 DEF IsEqual
    <2>2. /\ w \in Seq(V \cup Markers) /\ Len(w) = Len(t.body) + 3
          /\ w[2] = t.role /\ \A j \in 1 .. Len(t.body) : w[2 + j] = t.body[j]
          /\ Marks(w, "<|im_start|>") = {1} /\ Marks(w, "<|im_end|>") = {Len(w)}
      BY <2>1, WrittenIs
    <2> QED BY <1>1, <2>2
  <1>3. m \in Nat /\ n \in Nat /\ p \in Seq(M) /\ w \in Seq(M) /\ q = p \o w
    <2>1. t.body \in Seq(V)
      BY DEF TurnOf
    <2>2. Len(p) \in Nat /\ Len(t.body) \in Nat
      BY <2>1
    <2> QED BY <1>1, <1>2, <2>2 DEF IsEqual
  <1>4. /\ q \in Seq(M) /\ Len(q) = m + (n + 3)
        /\ \A k \in 1 .. n + 3 : q[m + k] = w[k]
    <2>1. p \in Seq(M) /\ w \in Seq(M)
      BY <1>3
    <2>2. /\ p \o w \in Seq(M) /\ Len(p \o w) = Len(p) + Len(w)
          /\ \A k \in 1 .. Len(w) : (p \o w)[Len(p) + k] = w[k]
      BY ONLY <2>1, ConcatAt
    <2> QED BY <2>2, <1>1, <1>2, <1>3
  <1>5. /\ Marks(q, "<|im_start|>") = Marks(p, "<|im_start|>") \cup {m + 1}
        /\ Marks(q, "<|im_end|>") = Marks(p, "<|im_end|>") \cup {m + (n + 3)}
    <2>1. p \in Seq(M) /\ w \in Seq(M)
      BY <1>3
    <2>2. \A mark : Marks(p \o w, mark) = Marks(p, mark) \cup {Len(p) + k : k \in Marks(w, mark)}
      BY ONLY <2>1, ConcatMarks
    <2>3. \A x : {Len(p) + k : k \in {x}} = {Len(p) + x}
      OBVIOUS
    <2>4. \A mark, x : Marks(w, mark) = {x} => Marks(q, mark) = Marks(p, mark) \cup {m + x}
      BY <2>2, <2>3, <1>1, <1>3, Zenon
    <2> QED BY <2>4, <1>2
  <1>6. q[m + 2] = r /\ \A j \in 1 .. n : q[m + (2 + j)] = b[j]
    <2>1. 2 \in 1 .. n + 3 /\ \A j \in 1 .. n : 2 + j \in 1 .. n + 3
      BY <1>3
    <2> QED BY <2>1, <1>2, <1>4
  <1>7. Holds(q, m + 1, m + (n + 3), t)
    <2>1. /\ 1 <= m + 1 /\ m + (n + 3) = (m + 1) + 2 + n /\ (m + 1) + 1 = m + 2
          /\ \A j \in 1 .. n : (m + 1) + 1 + j = m + (2 + j)
      BY <1>3
    <2>2. m + (n + 3) <= Len(q)
      BY <1>3, <1>4
    <2>3. \A j \in 1 .. n : q[(m + 1) + 1 + j] = b[j]
      BY <2>1, <1>6
    <2> QED BY <2>1, <2>2, <2>3, <1>1, <1>6 DEF Holds
  <1>8. m + (n + 3) = m + n + 3
    BY <1>3
  <1> QED BY <1>1, <1>4, <1>5, <1>7, <1>8

(* Where the next turn starts. *)
Follows(a, p, T, at, en) ==
    /\ a \in Seq(Nat) /\ Len(a) = Len(T) + 1 /\ a[Len(T) + 1] = Len(p) + 1
    /\ \A i \in 1 .. Len(T) : a[i] = at[i] /\ a[i + 1] = en[i] + 1
    /\ a[1] = 1 /\ Rising(a) /\ ToSet(a) = ToSet(at) \cup {Len(p) + 1}
    /\ \A i \in 1 .. Len(T) : at[i] < en[i] /\ en[i] <= Len(p)

(* It does after all others. *)
LEMMA NextStart ==
    ASSUME NEW V, NEW p, NEW T, NEW at, NEW en, Reads(p, T, at, en, V)
    PROVE  Follows(Append(at, Len(p) + 1), p, T, at, en)
  <1>1. /\ p \in Seq(V \cup Markers) /\ T \in Seq(TurnOf(V)) /\ at \in Seq(Nat) /\ en \in Seq(Nat)
        /\ Len(at) = Len(T) /\ Len(en) = Len(T)
        /\ Rising(at)
        /\ \A i \in 1 .. Len(T) : Holds(p, at[i], en[i], T[i])
        /\ \A i \in 1 .. Len(T) - 1 : at[i + 1] = en[i] + 1
        /\ Len(T) = 0 => p = <<>>
        /\ Len(T) # 0 => at[1] = 1 /\ en[Len(T)] = Len(p)
    BY DEF Reads
  <1>2. PICK a, m, n, B : a = Append(at, m + 1) /\ m = Len(p) /\ n = Len(T) /\ B = TurnOf(V)
    OBVIOUS
  <1>3. m \in Nat /\ n \in Nat
    BY <1>1, <1>2
  <1>4. /\ a \in Seq(Nat) /\ Len(a) = n + 1 /\ a[n + 1] = m + 1 /\ \A i \in 1 .. n : a[i] = at[i]
    <2>1. at \in Seq(Nat) /\ m + 1 \in Nat /\ Len(at) = n /\ a = Append(at, m + 1)
      BY <1>1, <1>2, <1>3
    <2> QED BY ONLY <2>1, <1>3
  <1>5. /\ DOMAIN at = 1 .. n /\ DOMAIN a = 1 .. n + 1
        /\ \A i : i \in 1 .. n + 1 <=> i \in 1 .. n \/ i = n + 1
    BY <1>1, <1>2, <1>3, <1>4
  <1>6. ToSet(a) = ToSet(at) \cup {m + 1}
    BY <1>4, <1>5 DEF ToSet
  <1>7. \A i \in 1 .. n : Holds(p, at[i], en[i], T[i]) /\ at[i] \in Nat /\ en[i] \in Nat /\ T[i] \in B
    BY <1>1, <1>2
  <1>8. ASSUME NEW i \in 1 .. n PROVE at[i] < en[i] /\ en[i] <= m
    <2>1. PICK x, y, k : x = at[i] /\ y = en[i] /\ k = Len(T[i].body)
      OBVIOUS
    <2>2. x \in Nat /\ y \in Nat /\ y = x + 2 + k /\ y <= m
      BY <2>1, <1>2, <1>7 DEF Holds
    <2>3. T[i].body \in Seq(V)
      BY <1>2, <1>7 DEF TurnOf
    <2>4. k \in Nat
      BY <2>1, <2>3
    <2> QED BY <2>1, <2>2, <2>4, <1>3
  <1>9. Rising(a)
    <2> SUFFICES ASSUME NEW i \in 1 .. n + 1, NEW j \in 1 .. n + 1, i < j PROVE a[i] < a[j]
      BY <1>5 DEF Rising
    <2>1. i \in 1 .. n
      BY <1>3
    <2>2. CASE j = n + 1
      <3>1. /\ a[i] = at[i] /\ at[i] < en[i] /\ en[i] <= m /\ at[i] \in Nat /\ en[i] \in Nat
            /\ a[j] = m + 1
        BY <2>1, <2>2, <1>4, <1>7, <1>8
      <3> QED BY <3>1, <1>3
    <2>3. CASE j # n + 1
      <3>1. j \in 1 .. n
        BY <2>3, <1>5
      <3> QED BY <2>1, <3>1, <1>1, <1>4, <1>5 DEF Rising
    <2> QED BY <2>2, <2>3
  <1>10. ASSUME NEW i \in 1 .. n PROVE a[i + 1] = en[i] + 1
    <2>1. CASE i = n
      <3>1. n # 0 /\ en[n] = m
        BY <2>1, <1>1, <1>2, <1>3
      <3> QED BY <2>1, <3>1, <1>4
    <2>2. CASE i # n
      <3>1. i \in 1 .. n - 1 /\ i + 1 \in 1 .. n
        BY <2>2, <1>3
      <3> QED BY <3>1, <1>1, <1>2, <1>4
    <2> QED BY <2>1, <2>2
  <1>11. a[1] = 1
    <2>1. CASE n = 0
      <3>1. m = 0
        BY <2>1, <1>1, <1>2
      <3> QED BY <2>1, <3>1, <1>4
    <2>2. CASE n # 0
      <3>1. 1 \in 1 .. n
        BY <2>2, <1>3
      <3> QED BY <3>1, <2>2, <1>1, <1>2, <1>4
    <2> QED BY <2>1, <2>2
  <1> QED BY <1>2, <1>4, <1>6, <1>8, <1>9, <1>10, <1>11 DEF Follows

(* Written turns, and one more. *)
LEMMA ReadsMore ==
    ASSUME NEW V, V \cap Markers = {}, NEW p, NEW T, NEW at, NEW en, Reads(p, T, at, en, V),
           NEW t \in TurnOf(V)
    PROVE  \E a, e : Reads(p \o Written(t), Append(T, t), a, e, V)
  <1>1. /\ p \in Seq(V \cup Markers) /\ T \in Seq(TurnOf(V)) /\ at \in Seq(Nat) /\ en \in Seq(Nat)
        /\ Len(at) = Len(T) /\ Len(en) = Len(T)
        /\ \A i \in 1 .. Len(T) : Holds(p, at[i], en[i], T[i])
        /\ Marks(p, "<|im_start|>") = ToSet(at) /\ Marks(p, "<|im_end|>") = ToSet(en)
        /\ IsFiniteSet(ToSet(en)) /\ Cardinality(ToSet(en)) = Len(T)
    BY DEF Reads
  <1>2. PICK q, X, a, e, m, n, l, M, B :
           /\ q = p \o Written(t) /\ X = Append(T, t) /\ m = Len(p) /\ n = Len(T) /\ l = Len(q)
           /\ a = Append(at, m + 1) /\ e = Append(en, l) /\ M = V \cup Markers /\ B = TurnOf(V)
    OBVIOUS
  <1>3. IsEqual(q, p \o Written(t))
    BY <1>2 DEF IsEqual
  <1>4. /\ Holds(q, m + 1, l, t) /\ q \in Seq(M) /\ l = m + Len(t.body) + 3
        /\ Marks(q, "<|im_start|>") = ToSet(at) \cup {m + 1}
        /\ Marks(q, "<|im_end|>") = ToSet(en) \cup {l}
    <2>1. /\ Holds(q, Len(p) + 1, Len(q), t)
          /\ q \in Seq(V \cup Markers) /\ Len(q) = Len(p) + Len(t.body) + 3
          /\ Marks(q, "<|im_start|>") = Marks(p, "<|im_start|>") \cup {Len(p) + 1}
          /\ Marks(q, "<|im_end|>") = Marks(p, "<|im_end|>") \cup {Len(q)}
      <3>1. p \in Seq(V \cup Markers)
        BY <1>1
      <3> QED BY <3>1, <1>3, HoldsAdded
    <2> QED BY <2>1, <1>1, <1>2
  <1>5. m \in Nat /\ n \in Nat /\ l \in Nat /\ l > m
    <2>1. t.body \in Seq(V)
      BY DEF TurnOf
    <2>2. Len(t.body) \in Nat /\ Len(p) \in Nat /\ Len(T) \in Nat
      BY <2>1, <1>1
    <2> QED BY <2>2, <1>2, <1>4
  <1>6. /\ a \in Seq(Nat) /\ Len(a) = n + 1 /\ a[n + 1] = m + 1
        /\ \A i \in 1 .. n : a[i] = at[i] /\ a[i + 1] = en[i] + 1
        /\ a[1] = 1 /\ Rising(a) /\ ToSet(a) = ToSet(at) \cup {m + 1}
        /\ \A i \in 1 .. n : at[i] < en[i] /\ en[i] <= m
    <2>1. Follows(a, p, T, at, en)
      BY <1>2, NextStart
    <2> QED BY <2>1, <1>2 DEF Follows
  <1>7. /\ e \in Seq(Nat) /\ Len(e) = n + 1 /\ e[n + 1] = l /\ \A i \in 1 .. n : e[i] = en[i]
    <2>1. en \in Seq(Nat) /\ Len(en) = n /\ e = Append(en, l)
      BY <1>1, <1>2
    <2> QED BY ONLY <2>1, <1>5
  <1>8. /\ X \in Seq(B) /\ Len(X) = n + 1 /\ X[n + 1] = t /\ \A i \in 1 .. n : X[i] = T[i]
    <2>1. T \in Seq(B) /\ t \in B
      BY <1>1, <1>2
    <2> QED BY <2>1, <1>2, <1>5
  <1>9. /\ DOMAIN en = 1 .. n /\ DOMAIN e = 1 .. n + 1
        /\ \A i : i \in 1 .. n + 1 <=> i \in 1 .. n \/ i = n + 1
    BY <1>1, <1>2, <1>5, <1>7
  <1>10. ToSet(e) = ToSet(en) \cup {l}
    BY <1>7, <1>9 DEF ToSet
  <1>11. \A i \in 1 .. n : Holds(p, at[i], en[i], T[i]) /\ at[i] \in Nat /\ en[i] \in Nat /\ T[i] \in B
    BY <1>1, <1>2
  <1>12. \A i \in 1 .. n + 1 : Holds(q, a[i], e[i], X[i])
    <2>1. ASSUME NEW i \in 1 .. n PROVE Holds(q, a[i], e[i], X[i])
      <3>1. PICK x, y, u, w : x = at[i] /\ y = en[i] /\ u = T[i] /\ w = Written(t)
        OBVIOUS
      <3>2. x \in Nat /\ y \in Nat /\ u \in TurnOf(V) /\ Holds(p, x, y, u)
        BY <3>1, <1>2, <1>11
      <3>3. w \in Seq(M) /\ p \in Seq(M)
        <4>1. IsEqual(w, Written(t))
          BY <3>1 DEF IsEqual
        <4>2. w \in Seq(V \cup Markers)
          BY <4>1, WrittenIs
        <4> QED BY <4>2, <1>1, <1>2
      <3>4. Holds(p \o w, x, y, u)
        BY ONLY <3>2, <3>3, HoldsStill
      <3> QED BY <3>1, <3>4, <1>2, <1>6, <1>7, <1>8
    <2>2. Holds(q, a[n + 1], e[n + 1], X[n + 1])
      BY <1>4, <1>6, <1>7, <1>8
    <2> QED BY <2>1, <2>2, <1>9
  <1>13. IsFiniteSet(ToSet(e)) /\ Cardinality(ToSet(e)) = n + 1
    <2>1. l \notin ToSet(en)
      <3>1. \A i \in 1 .. n : en[i] \in Nat /\ en[i] # l
        BY <1>5, <1>6, <1>11
      <3> QED BY <3>1, <1>9 DEF ToSet
    <2>2. IsFiniteSet(ToSet(en)) /\ Cardinality(ToSet(en)) = n
      BY <1>1, <1>2
    <2>3. IsFiniteSet(ToSet(en) \cup {l}) /\ Cardinality(ToSet(en) \cup {l}) = n + 1
      BY <2>1, <2>2, FS_AddElement
    <2> QED BY <2>3, <1>10
  <1>14. (n + 1) - 1 = n /\ n + 1 # 0
    BY <1>5
  <1>15. Reads(q, X, a, e, V)
    <2>1. /\ q \in Seq(V \cup Markers) /\ X \in Seq(TurnOf(V)) /\ a \in Seq(Nat) /\ e \in Seq(Nat)
          /\ Len(a) = Len(X) /\ Len(e) = Len(X) /\ Len(X) = n + 1
      BY <1>2, <1>4, <1>6, <1>7, <1>8
    <2>2. Marks(q, "<|im_start|>") = ToSet(a) /\ Marks(q, "<|im_end|>") = ToSet(e)
      BY <1>4, <1>6, <1>10
    <2>3. \A i \in 1 .. n : a[i + 1] = e[i] + 1
      BY <1>6, <1>7
    <2> QED BY <2>1, <2>2, <2>3, <1>2, <1>6, <1>7, <1>12, <1>13, <1>14 DEF Reads
  <1> QED BY <1>2, <1>15

(* A reader of written turns and an open one finds them. *)
LEMMA ReadsBack ==
    ASSUME NEW V, V \cap Markers = {}, NEW p, NEW T, NEW at, NEW en, Reads(p, T, at, en, V),
           NEW role \in V, NEW b \in Seq(V), NEW q, IsEqual(q, p \o (Open(role) \o b))
    PROVE  /\ TurnsOf(q) = Append(T, [role |-> role, body |-> b])
           /\ Cardinality(Marks(q, "<|im_end|>")) = Len(T)
           /\ q[1] = "<|im_start|>"
           /\ \A k \in Marks(q, "<|im_end|>") : q[k + 1] = "<|im_start|>"
  <1>1. /\ p \in Seq(V \cup Markers) /\ T \in Seq(TurnOf(V)) /\ at \in Seq(Nat) /\ en \in Seq(Nat)
        /\ Len(at) = Len(T) /\ Len(en) = Len(T)
        /\ \A i \in 1 .. Len(T) : Holds(p, at[i], en[i], T[i])
        /\ Marks(p, "<|im_start|>") = ToSet(at) /\ Marks(p, "<|im_end|>") = ToSet(en)
        /\ Cardinality(ToSet(en)) = Len(T)
    BY DEF Reads
  <1>2. PICK w, a, m, n, l, c, M, B, E :
           /\ w = Open(role) \o b /\ m = Len(p) /\ n = Len(T) /\ l = Len(q) /\ c = Len(b)
           /\ a = Append(at, m + 1) /\ M = V \cup Markers /\ B = TurnOf(V)
           /\ E = Marks(q, "<|im_end|>")
    OBVIOUS
  <1>3. m \in Nat /\ n \in Nat /\ c \in Nat
    BY <1>1, <1>2
  <1>4. /\ a \in Seq(Nat) /\ Len(a) = n + 1 /\ a[n + 1] = m + 1
        /\ \A i \in 1 .. n : a[i] = at[i] /\ a[i + 1] = en[i] + 1
        /\ a[1] = 1 /\ Rising(a) /\ ToSet(a) = ToSet(at) \cup {m + 1}
        /\ \A i \in 1 .. n : at[i] < en[i] /\ en[i] <= m
    <2>1. Follows(a, p, T, at, en)
      BY <1>2, NextStart
    <2> QED BY <2>1, <1>2 DEF Follows
  <1>5. /\ w \in Seq(M) /\ Len(w) = c + 2 /\ w[2] = role /\ \A j \in 1 .. c : w[2 + j] = b[j]
        /\ Marks(w, "<|im_start|>") = {1} /\ Marks(w, "<|im_end|>") = {}
    <2>1. IsEqual(w, Open(role) \o b)
      BY <1>2 DEF IsEqual
    <2>2. /\ w \in Seq(V \cup Markers) /\ Len(w) = Len(b) + 2
          /\ w[2] = role /\ \A j \in 1 .. Len(b) : w[2 + j] = b[j]
          /\ Marks(w, "<|im_start|>") = {1} /\ Marks(w, "<|im_end|>") = {}
      BY <2>1, OpenedIs
    <2> QED BY <2>2, <1>2
  <1>6. p \in Seq(M) /\ w \in Seq(M) /\ q = p \o w
    BY <1>1, <1>2, <1>5 DEF IsEqual
  <1>7. q \in Seq(M) /\ l = m + (c + 2) /\ l \in Nat /\ \A k \in 1 .. c + 2 : q[m + k] = w[k]
    <2>1. p \in Seq(M) /\ w \in Seq(M)
      BY <1>6
    <2>2. /\ p \o w \in Seq(M) /\ Len(p \o w) = Len(p) + Len(w)
          /\ \A k \in 1 .. Len(w) : (p \o w)[Len(p) + k] = w[k]
      BY ONLY <2>1, ConcatAt
    <2> QED BY <2>2, <1>2, <1>3, <1>5, <1>6
  <1>8. Marks(q, "<|im_start|>") = ToSet(a) /\ E = ToSet(en)
    <2>1. p \in Seq(M) /\ w \in Seq(M)
      BY <1>6
    <2>2. \A mark : Marks(p \o w, mark) = Marks(p, mark) \cup {Len(p) + k : k \in Marks(w, mark)}
      BY ONLY <2>1, ConcatMarks
    <2>3. Marks(q, "<|im_start|>") = Marks(p, "<|im_start|>") \cup {m + 1}
      <3>1. \A x : {Len(p) + k : k \in {x}} = {Len(p) + x}
        OBVIOUS
      <3> QED BY <2>2, <3>1, <1>2, <1>5, <1>6, Zenon
    <2>4. E = Marks(p, "<|im_end|>")
      <3>1. {Len(p) + k : k \in {}} = {}
        OBVIOUS
      <3>2. Marks(q, "<|im_end|>") = Marks(p, "<|im_end|>") \cup {}
        BY <2>2, <3>1, <1>5, <1>6, Zenon
      <3> QED BY <3>2, <1>2
    <2> QED BY <2>3, <2>4, <1>1, <1>4
  <1>9. InOrder(Marks(q, "<|im_start|>"), l) = a
    <2>1. PICK S, o : S = Marks(q, "<|im_start|>") /\ o = InOrder(S, l)
      OBVIOUS
    <2>2. S \in SUBSET (1 .. l)
      <3>1. q \in Seq(M) /\ Len(q) = l
        BY <1>2, <1>7
      <3>2. DOMAIN q = 1 .. l
        BY ONLY <3>1
      <3> QED BY <2>1, <3>2 DEF Marks
    <2>3. Lists(o, S, l)
      BY <2>1, <2>2, <1>7, InOrderLists
    <2>4. o \in Seq(1 .. l) /\ Rising(o) /\ ToSet(o) = ToSet(a)
      BY <2>1, <2>3, <1>8 DEF Lists
    <2>5. o \in Seq(Nat)
      <3>1. 1 .. l \subseteq Nat
        BY <1>7
      <3> QED BY <2>4, <3>1, SeqMonotonic
    <2>6. o = a
      BY <2>4, <2>5, <1>4, RisingUnique
    <2> QED BY <2>1, <2>6
  <1>10. \A i \in 1 .. n : Holds(p, at[i], en[i], T[i]) /\ at[i] \in Nat /\ en[i] \in Nat /\ T[i] \in B
    BY <1>1, <1>2
  <1>11. DOMAIN en = 1 .. n /\ DOMAIN a = 1 .. n + 1
    BY <1>1, <1>2, <1>3, <1>4
  <1>12. ASSUME NEW i \in 1 .. n PROVE Turn(q, a[i]) = T[i]
    <2>1. PICK x, y, t, k : x = at[i] /\ y = en[i] /\ t = T[i] /\ k = Len(t.body)
      OBVIOUS
    <2>2. /\ x \in Nat /\ y \in Nat /\ t \in TurnOf(V) /\ Holds(p, x, y, t) /\ a[i] = x
          /\ x < y /\ y <= m
      BY <2>1, <1>2, <1>4, <1>10
    <2>3. Holds(q, x, y, t)
      <3>1. Holds(p \o w, x, y, t)
        BY ONLY <2>2, <1>6, HoldsStill
      <3> QED BY <3>1, <1>6
    <2>4. t.body \in Seq(V) /\ k \in Nat /\ t = [role |-> t.role, body |-> t.body]
      <3>1. t.body \in Seq(V) /\ t = [role |-> t.role, body |-> t.body]
        BY <2>2 DEF TurnOf
      <3> QED BY <3>1, <2>1
    <2>5. /\ y = x + 2 + k /\ y <= l /\ q[x + 1] = t.role
          /\ \A j \in 1 .. k : q[x + 1 + j] = t.body[j]
      BY <2>1, <2>3, <1>2 DEF Holds
    <2>6. Min({j \in E : j > x} \cup {l + 1}) = y
      <3>1. PICK S : S = {j \in E : j > x} \cup {l + 1}
        OBVIOUS
      <3>2. y \in E
        BY <2>1, <1>8, <1>11 DEF ToSet
      <3>3. \A j \in E : j \in Nat
        <4>1. \A j \in 1 .. n : en[j] \in Nat
          BY <1>10
        <4> QED BY <4>1, <1>8, <1>11 DEF ToSet
      <3>4. S \in SUBSET Nat /\ y \in S
        <4>1. \A z \in S : z \in Nat
          BY <3>1, <3>3, <1>7
        <4> QED BY <4>1, <3>1, <3>2, <2>2
      <3>5. ASSUME NEW j \in 1 .. n, en[j] > x PROVE y <= en[j]
        <4>1. CASE j < i
          <5>1. j + 1 \in 1 .. n + 1 /\ i \in 1 .. n + 1 /\ j + 1 <= i
            BY <4>1, <1>3
          <5>2. a[j + 1] <= a[i]
            <6>1. CASE j + 1 = i
              <7>1. a[i] \in Nat
                BY <2>2
              <7> QED BY <6>1, <7>1
            <6>2. CASE j + 1 < i
              <7>1. a[j + 1] < a[i]
                BY <6>2, <5>1, <1>4, <1>11 DEF Rising
              <7>2. a[j + 1] \in Nat /\ a[i] \in Nat
                BY <5>1, <1>4, <1>11
              <7> QED BY <7>1, <7>2
            <6> QED BY <6>1, <6>2, <5>1, <1>3
          <5>3. PICK z : z = en[j]
            OBVIOUS
          <5>4. z \in Nat /\ z + 1 <= x /\ z > x
            BY <5>2, <5>3, <3>5, <2>2, <1>4, <1>10
          <5> QED BY <5>4, <2>2
        <4>2. CASE j = i
          BY <4>2, <2>1, <2>2
        <4>3. CASE i < j
          <5>1. i + 1 \in 1 .. n + 1 /\ j \in 1 .. n + 1 /\ i + 1 <= j
            BY <4>3, <1>3
          <5>2. a[i + 1] <= a[j] /\ a[i + 1] \in Nat /\ a[j] \in Nat
            <6>1. a[j] \in Nat /\ a[i + 1] \in Nat
              BY <5>1, <1>4, <1>11
            <6>2. i + 1 < j => a[i + 1] < a[j]
              BY <5>1, <1>4, <1>11 DEF Rising
            <6> QED BY <6>1, <6>2, <5>1, <1>3
          <5>3. PICK z, u : z = en[j] /\ u = at[j]
            OBVIOUS
          <5>4. z \in Nat /\ u \in Nat /\ u < z /\ a[j] = u /\ a[i + 1] = y + 1
            BY <5>3, <2>1, <1>4, <1>10
          <5> QED BY <5>2, <5>3, <5>4, <2>2
        <4> QED BY <4>1, <4>2, <4>3
      <3>6. \A z \in S : y <= z
        <4>1. \A z \in E : \E j \in 1 .. n : z = en[j]
          BY <1>8, <1>11 DEF ToSet
        <4>2. y <= l + 1
          BY <2>2, <2>5, <1>7
        <4> QED BY <4>1, <4>2, <3>1, <3>5
      <3> QED BY <3>1, <3>4, <3>6, MinIs
    <2>7. SubSeq(q, x + 2, y - 1) = t.body
      <3>0. x \in Nat /\ y \in Nat /\ k \in Nat /\ l \in Nat /\ y = x + 2 + k /\ y <= l
        BY <2>2, <2>4, <2>5, <1>7
      <3>1. (x + 1) + 1 = x + 2 /\ (x + 1) + k = y - 1 /\ (x + 1) + k <= l /\ x + 1 \in Nat
        BY ONLY <3>0
      <3>2. SubSeq(q, (x + 1) + 1, (x + 1) + k) = t.body
        BY <3>1, <2>1, <2>4, <2>5, <1>2, <1>7, PartIs
      <3> QED BY <3>1, <3>2
    <2>8. Turn(q, x) = [role |-> q[x + 1], body |-> SubSeq(q, x + 2, y - 1)]
      BY <2>6, <1>2 DEF Turn
    <2> QED BY <2>1, <2>2, <2>4, <2>5, <2>7, <2>8
  <1>13. Turn(q, m + 1) = [role |-> role, body |-> b]
    <2>1. Min({j \in E : j > m + 1} \cup {l + 1}) = l + 1
      <3>1. \A j \in E : ~(j > m + 1)
        <4>1. \A j \in 1 .. n : en[j] \in Nat /\ en[j] <= m
          BY <1>4, <1>10
        <4>2. \A z \in E : \E j \in 1 .. n : z = en[j]
          BY <1>8, <1>11 DEF ToSet
        <4> QED BY <4>1, <4>2, <1>3
      <3>2. {j \in E : j > m + 1} \cup {l + 1} = {l + 1}
        BY <3>1
      <3>3. Min({l + 1}) = l + 1
        <4>1. {l + 1} \in SUBSET Nat /\ l + 1 \in {l + 1} /\ \A y \in {l + 1} : l + 1 <= y
          BY <1>7
        <4> QED BY <4>1, MinIs
      <3> QED BY <3>2, <3>3
    <2>2. q[(m + 1) + 1] = role /\ \A j \in 1 .. c : q[(m + 2) + j] = b[j]
      <3>1. 2 \in 1 .. c + 2 /\ \A j \in 1 .. c : 2 + j \in 1 .. c + 2
        BY <1>3
      <3>2. q[m + 2] = role /\ \A j \in 1 .. c : q[m + (2 + j)] = b[j]
        BY <3>1, <1>5, <1>7
      <3>3. (m + 1) + 1 = m + 2 /\ \A j \in 1 .. c : m + (2 + j) = (m + 2) + j
        BY <1>3
      <3> QED BY <3>2, <3>3
    <2>3. SubSeq(q, (m + 1) + 2, (l + 1) - 1) = b
      <3>0. m \in Nat /\ c \in Nat /\ l = m + (c + 2)
        BY <1>3, <1>7
      <3>1. (m + 2) + 1 = (m + 1) + 2 /\ (m + 2) + c = (l + 1) - 1 /\ (m + 2) + c <= l /\ m + 2 \in Nat
        BY ONLY <3>0
      <3>2. SubSeq(q, (m + 2) + 1, (m + 2) + c) = b
        BY <3>1, <2>2, <1>2, <1>7, PartIs
      <3> QED BY <3>1, <3>2
    <2>4. Turn(q, m + 1) = [role |-> q[(m + 1) + 1], body |-> SubSeq(q, (m + 1) + 2, (l + 1) - 1)]
      BY <2>1, <1>2 DEF Turn
    <2> QED BY <2>2, <2>3, <2>4
  <1>14. TurnsOf(q) = Append(T, [role |-> role, body |-> b])
    <2>1. PICK u, g : u = [role |-> role, body |-> b] /\ g = TurnsOf(q)
      OBVIOUS
    <2>2. g = [i \in 1 .. n + 1 |-> Turn(q, a[i])]
      BY <2>1, <1>2, <1>9, <1>11 DEF TurnsOf
    <2>3. IsMap(g, n + 1) /\ g[n + 1] = u /\ Agree(T, g, n)
      <3>1. n + 1 \in 1 .. n + 1 /\ \A i \in 1 .. n : i \in 1 .. n + 1
        BY <1>3
      <3>2. \A i \in 1 .. n : g[i] = T[i]
        BY <3>1, <2>2, <1>12
      <3>3. g[n + 1] = u
        BY <3>1, <2>1, <2>2, <1>4, <1>13
      <3> QED BY <3>2, <3>3, <2>2 DEF IsMap, Agree
    <2>4. u \in B /\ T \in Seq(B) /\ Len(T) = n
      BY <2>1, <1>1, <1>2 DEF TurnOf
    <2>5. g = Append(T, u)
      BY <2>3, <2>4, <1>3, MapGrows
    <2> QED BY <2>1, <2>5
  <1>15. q[1] = "<|im_start|>" /\ \A k \in E : q[k + 1] = "<|im_start|>"
    <2>1. \A z \in ToSet(a) : q[z] = "<|im_start|>"
      BY <1>8 DEF Marks
    <2>2. \A i \in 1 .. n + 1 : a[i] \in ToSet(a)
      BY <1>11 DEF ToSet
    <2>3. 1 \in 1 .. n + 1 /\ \A i \in 1 .. n : i + 1 \in 1 .. n + 1
      BY <1>3
    <2>4. \A z \in E : \E i \in 1 .. n : z = en[i]
      BY <1>8, <1>11 DEF ToSet
    <2>5. \A i \in 1 .. n : q[en[i] + 1] = "<|im_start|>"
      BY <2>1, <2>2, <2>3, <1>4
    <2> QED BY <2>1, <2>2, <2>3, <2>4, <2>5, <1>4
  <1> QED BY <1>1, <1>2, <1>8, <1>14, <1>15

-----------------------------------------------------------------------------
(* What Render writes *)

Template ==
    {"system", "user", "assistant", "<think>", "</think>", "<tools>", "</tools>", "{}",
     "<tool_call>", "</tool_call>", "<tool_response>", "</tool_response>"}
Role == {w.role : w \in WireMessages} \cup {"user", "assistant"}
CallOf(W) == [name : W, args : W]
ToolOf(W) == [name : W, params : W]
Message(W) == [role : Role, content : Seq(W), calls : Seq(CallOf(W))]

(* W is a vocabulary for texts: it has the words of the template and no    *)
(* marker.                                                                 *)
Wording(W) == Template \subseteq W /\ W \cap Markers = {}

(* Each of those words. *)
LEMMA TemplateWords ==
    ASSUME NEW W, Wording(W)
    PROVE  /\ "system" \in W /\ "user" \in W /\ "assistant" \in W /\ "<think>" \in W /\ "</think>" \in W
           /\ "<tools>" \in W /\ "</tools>" \in W /\ "{}" \in W /\ "<tool_call>" \in W
           /\ "</tool_call>" \in W /\ "<tool_response>" \in W /\ "</tool_response>" \in W
  BY Zenon DEF Wording, Template

(* Calls and tools are written as texts. *)
LEMMA CallsAreText ==
    ASSUME NEW W, Wording(W), NEW calls \in Seq(CallOf(W))
    PROVE  RenderCalls(calls) \in Seq(W)
  <1>1. ASSUME NEW c \in CallOf(W) PROVE RenderCall(c) \in Seq(W)
    <2>1. PICK x, y : x = c.name /\ y = OrEmptyObject(c.args)
      OBVIOUS
    <2>2. x \in W /\ y \in W /\ "<tool_call>" \in W /\ "</tool_call>" \in W
      BY <2>1, TemplateWords DEF CallOf, OrEmptyObject
    <2>3. <<"<tool_call>", x, y, "</tool_call>">> \in Seq(W)
      BY <2>2
    <2> QED BY <2>1, <2>3 DEF RenderCall
  <1>2. PICK n, t, C : n = Len(calls) /\ t = [c \in DOMAIN calls |-> RenderCall(calls[c])] /\ C = CallOf(W)
    OBVIOUS
  <1>3. n \in Nat /\ DOMAIN calls = 1 .. n /\ \A i \in 1 .. n : calls[i] \in C
    BY <1>2
  <1>4. IsMap(t, n) /\ \A i \in 1 .. n : t[i] \in Seq(W)
    BY <1>1, <1>2, <1>3 DEF IsMap
  <1>5. FlattenSeq(t) \in Seq(W)
    BY <1>3, <1>4, FlatText
  <1> QED BY <1>2, <1>5 DEF RenderCalls

ToolTexts(tools) == [k \in DOMAIN tools |-> ToolJSON(tools[k])]

(* Tools are. *)
LEMMA ToolsAreText ==
    ASSUME NEW W, Wording(W), NEW tools \in Seq(ToolOf(W))
    PROVE  FlattenSeq(ToolTexts(tools)) \in Seq(W)
  <1>1. ASSUME NEW c \in ToolOf(W) PROVE ToolJSON(c) \in Seq(W)
    <2>1. PICK x, y : x = c.name /\ y = OrEmptyObject(c.params)
      OBVIOUS
    <2>2. x \in W /\ y \in W
      BY <2>1, TemplateWords DEF ToolOf, OrEmptyObject
    <2>3. <<x, y>> \in Seq(W)
      BY <2>2
    <2> QED BY <2>1, <2>3 DEF ToolJSON
  <1>2. PICK n, t, C : n = Len(tools) /\ t = ToolTexts(tools) /\ C = ToolOf(W)
    OBVIOUS
  <1>3. n \in Nat /\ DOMAIN tools = 1 .. n /\ \A i \in 1 .. n : tools[i] \in C
    BY <1>2
  <1>4. IsMap(t, n) /\ \A i \in 1 .. n : t[i] \in Seq(W)
    BY <1>1, <1>2, <1>3 DEF IsMap, ToolTexts
  <1>5. FlattenSeq(t) \in Seq(W)
    BY <1>3, <1>4, FlatText
  <1> QED BY <1>2, <1>5

(* A tool's result is one. *)
LEMMA ResultIsText ==
    ASSUME NEW W, Wording(W), NEW m \in Message(W)
    PROVE  Result(m) \in Seq(W)
  <1>1. PICK c, o, e : c = m.content /\ o = <<"<tool_response>">> /\ e = <<"</tool_response>">>
    OBVIOUS
  <1>2. c \in Seq(W)
    BY <1>1 DEF Message
  <1>3. o \in Seq(W) /\ e \in Seq(W)
    <2>1. "<tool_response>" \in W /\ "</tool_response>" \in W
      BY TemplateWords
    <2> QED BY ONLY <2>1, <1>1
  <1>4. (o \o c) \o e \in Seq(W)
    BY <1>2, <1>3, ConcatProperties
  <1> QED BY <1>1, <1>4 DEF Result

(* The turn with the system prompt and the tools. *)
SystemTurn(h, tools) ==
    LET content == IF HasSystem(h) THEN h[1].content ELSE <<>>
    IN [role |-> "system",
        body |-> IF tools # <<>>
                   THEN content \o <<"<tools>">> \o FlattenSeq(ToolTexts(tools)) \o <<"</tools>">>
                 ELSE content]

(* It is what RenderSystem writes, and starts with the system prompt. *)
LEMMA SystemIs ==
    ASSUME NEW W, Wording(W), NEW h \in Seq(Message(W)), NEW tools \in Seq(ToolOf(W))
    PROVE  /\ SystemTurn(h, tools) \in TurnOf(W)
           /\ RenderSystem(h, tools) = IF HasSystem(h) \/ tools # <<>> THEN Written(SystemTurn(h, tools))
                                       ELSE <<>>
           /\ HasSystem(h) => IsPrefix(h[1].content, SystemTurn(h, tools).body)
  <1>1. PICK c, f, t1, t2, o, e :
           /\ c = IF HasSystem(h) THEN h[1].content ELSE <<>>
           /\ f = FlattenSeq(ToolTexts(tools)) /\ t1 = <<"<tools>">> /\ t2 = <<"</tools>">>
           /\ o = Open("system") /\ e = Close
    OBVIOUS
  <1>2. c \in Seq(W)
    <2>1. CASE HasSystem(h)
      <3>1. PICK S : S = Message(W)
        OBVIOUS
      <3>2. h \in Seq(S) /\ h # <<>>
        BY <2>1, <3>1 DEF HasSystem
      <3>3. h[1] \in S
        BY <3>2
      <3>4. h[1].content \in Seq(W)
        BY <3>1, <3>3 DEF Message
      <3> QED BY <2>1, <3>4, <1>1
    <2>2. CASE ~HasSystem(h)
      BY <2>2, <1>1
    <2> QED BY <2>1, <2>2
  <1>3. "<tools>" \in W /\ "</tools>" \in W /\ "system" \in W
    BY TemplateWords
  <1>4. f \in Seq(W) /\ t1 \in Seq(W) /\ t2 \in Seq(W)
    <2>1. t1 \in Seq(W) /\ t2 \in Seq(W)
      BY ONLY <1>1, <1>3
    <2> QED BY <2>1, <1>1, ToolsAreText
  <1>5. PICK ct, ctf, b : ct = c \o t1 /\ ctf = ct \o f /\ b = ctf \o t2
    OBVIOUS
  <1>6. ct \in Seq(W) /\ ctf \in Seq(W) /\ b \in Seq(W)
    <2>1. \A x, y \in Seq(W) : x \o y \in Seq(W)
      BY ConcatProperties
    <2> QED BY <2>1, <1>2, <1>4, <1>5
  <1>7. SystemTurn(h, tools) = [role |-> "system", body |-> IF tools # <<>> THEN b ELSE c]
    BY <1>1, <1>5 DEF SystemTurn
  <1>8. SystemTurn(h, tools) \in TurnOf(W)
    BY <1>2, <1>3, <1>6, <1>7 DEF TurnOf
  <1>9. RenderSystem(h, tools) = IF tools # <<>> THEN ((((o \o c) \o t1) \o f) \o t2) \o e
                                 ELSE IF HasSystem(h) THEN (o \o c) \o e ELSE <<>>
    BY <1>1 DEF RenderSystem, ToolTexts
  <1>10. (((o \o c) \o t1) \o f) \o t2 = o \o b
    <2>1. PICK M : M = W \cup {"<|im_start|>"}
      OBVIOUS
    <2>2. /\ o \in Seq(M) /\ c \in Seq(M) /\ t1 \in Seq(M) /\ f \in Seq(M) /\ t2 \in Seq(M)
          /\ ct \in Seq(M) /\ ctf \in Seq(M)
      <3>1. \A x \in Seq(W) : x \in Seq(M)
        BY <2>1, SeqMonotonic
      <3>2. "system" \in M /\ "<|im_start|>" \in M
        BY <2>1, <1>3
      <3>3. <<"<|im_start|>", "system">> \in Seq(M)
        BY ONLY <3>2
      <3>4. o \in Seq(M)
        BY <3>3, <1>1 DEF Open
      <3> QED BY <3>1, <3>4, <1>2, <1>4, <1>6
    <2>3. Regroups(o, c, t1) /\ Regroups(o, ct, f) /\ Regroups(o, ctf, t2)
      BY <2>2, Regroup
    <2>4. (o \o c) \o t1 = o \o ct
      BY <2>3, <1>5 DEF Regroups
    <2>5. (o \o ct) \o f = o \o ctf
      BY <2>3, <1>5 DEF Regroups
    <2>6. (o \o ctf) \o t2 = o \o b
      BY <2>3, <1>5 DEF Regroups
    <2> QED BY <2>4, <2>5, <2>6
  <1>11. RenderSystem(h, tools) = IF HasSystem(h) \/ tools # <<>> THEN Written(SystemTurn(h, tools)) ELSE <<>>
    <2>1. PICK t : t = SystemTurn(h, tools)
      OBVIOUS
    <2>2. Written(t) = (o \o (IF tools # <<>> THEN b ELSE c)) \o e
      BY <2>1, <1>1, <1>7 DEF Written
    <2> QED BY <2>1, <2>2, <1>9, <1>10
  <1>12. ASSUME HasSystem(h) PROVE IsPrefix(h[1].content, SystemTurn(h, tools).body)
    <2>1. IsPrefix(c, c)
      BY <1>2 DEF IsPrefix
    <2>2. IsPrefix(c, b)
      <3>1. PICK n : n = Len(c)
        OBVIOUS
      <3>2. /\ Len(ct) = n + Len(t1) /\ \A j \in 1 .. n : ct[j] = c[j]
        BY <3>1, <1>2, <1>4, <1>5, ConcatAt
      <3>3. n \in Nat /\ Len(t1) \in Nat /\ Len(f) \in Nat /\ Len(t2) \in Nat /\ Len(b) \in Nat
        BY <3>1, <1>2, <1>4, <1>6
      <3>4. Len(ctf) = Len(ct) + Len(f) /\ \A j \in 1 .. Len(ct) : ctf[j] = ct[j]
        BY <1>4, <1>5, <1>6, ConcatAt
      <3>5. Len(b) = Len(ctf) + Len(t2) /\ \A j \in 1 .. Len(ctf) : b[j] = ctf[j]
        BY <1>4, <1>5, <1>6, ConcatAt
      <3>6. n <= Len(b) /\ \A j \in 1 .. n : b[j] = c[j]
        <4>1. Len(ct) \in Nat /\ Len(ctf) \in Nat /\ Len(ct) >= n /\ Len(ctf) >= n /\ Len(b) >= n
          BY <3>2, <3>3, <3>4, <3>5
        <4>2. \A j \in 1 .. n : j \in 1 .. Len(ct) /\ j \in 1 .. Len(ctf)
          BY <3>3, <4>1
        <4> QED BY <4>1, <4>2, <3>2, <3>4, <3>5
      <3>7. SubSeq(b, 1, n) = c
        <4>1. 0 + n = n /\ 0 + 1 = 1 /\ \A j \in 1 .. n : 0 + j = j
          BY <3>3
        <4>2. SubSeq(b, 0 + 1, 0 + n) = c
          BY <4>1, <3>1, <3>6, <1>2, <1>6, PartIs
        <4> QED BY <4>1, <4>2
      <3>8. SubSeq(c, 1, n) = c
        BY <3>1, <1>2
      <3> QED BY <3>1, <3>6, <3>7, <3>8 DEF IsPrefix
    <2>3. PICK t : t = SystemTurn(h, tools)
      OBVIOUS
    <2>4. t.body = IF tools # <<>> THEN b ELSE c
      BY <2>3, <1>7
    <2>5. h[1].content = c
      BY <1>1, <1>12
    <2> QED BY <2>1, <2>2, <2>3, <2>4, <2>5
  <1> QED BY <1>8, <1>11, <1>12

Item(h, k) == IF k < Start(h) THEN <<>> ELSE RenderMessage(h, k)
Opening(h, k) == IF ToolAt(h, k - 1) THEN <<>> ELSE Open("user")
Closing(h, k) == IF ToolAt(h, k + 1) THEN <<>> ELSE Close

(* What a message adds to the prompt: its turn, nothing, or a tool's       *)
(* result in the turn of its run.                                          *)
LEMMA ItemIs ==
    ASSUME NEW W, Wording(W), NEW h \in Seq(Message(W)), NEW k \in 1 .. Len(h)
    PROVE  /\ k \in Speaks(h) /\ ~ToolAt(h, k) =>
                 Said(h, k) \in TurnOf(W) /\ Item(h, k) = Written(Said(h, k))
           /\ k \notin Speaks(h) /\ ~ToolAt(h, k) => Item(h, k) = <<>>
           /\ ToolAt(h, k) => /\ Item(h, k) = (Opening(h, k) \o Result(h[k])) \o Closing(h, k)
                              /\ Result(h[k]) \in Seq(W)
                              /\ k \in Speaks(h) <=> ~ToolAt(h, k - 1)
  <1>1. PICK m, S, n : m = h[k] /\ S = Message(W) /\ n = Len(h)
    OBVIOUS
  <1>2. h \in Seq(S) /\ n \in Nat /\ k \in 1 .. n /\ DOMAIN h = 1 .. n /\ m \in S
    BY <1>1
  <1>3. m.content \in Seq(W) /\ m.calls \in Seq(CallOf(W))
    BY <1>1, <1>2 DEF Message
  <1>4. k \in Speaks(h) <=> m.role \in {"user", "assistant"} \/ (ToolAt(h, k) /\ ~ToolAt(h, k - 1))
    BY <1>1, <1>2 DEF Speaks
  <1>5. ToolAt(h, k) <=> m.role = "tool"
    BY <1>1, <1>2 DEF ToolAt
  <1>6. k < Start(h) => m.role = "system"
    <2>1. ASSUME k < Start(h) PROVE m.role = "system"
      <3>1. HasSystem(h) /\ k = 1
        BY <2>1, <1>2 DEF Start
      <3> QED BY <3>1, <1>1 DEF HasSystem
    <2> QED BY <2>1
  <1>7. Start(h) \in Nat /\ Start(h) >= 1
    BY DEF Start
  <1>8. CASE m.role = "user"
    <2>1. k \in Speaks(h) /\ ~ToolAt(h, k) /\ ~(k < Start(h))
      BY <1>4, <1>5, <1>6, <1>8
    <2>2. PICK t : t = Said(h, k)
      OBVIOUS
    <2>3. t = [role |-> "user", body |-> m.content]
      BY <2>1, <2>2, <1>1, <1>8 DEF Said
    <2>4. t \in TurnOf(W)
      BY <2>3, <1>3, TemplateWords DEF TurnOf
    <2>5. Item(h, k) = (Open("user") \o m.content) \o Close
      BY <2>1, <1>1, <1>8 DEF Item, RenderMessage
    <2>6. Written(t) = (Open("user") \o m.content) \o Close
      BY <2>3 DEF Written
    <2> QED BY <2>1, <2>2, <2>4, <2>5, <2>6
  <1>9. CASE m.role = "assistant"
    <2>1. k \in Speaks(h) /\ ~ToolAt(h, k) /\ ~(k < Start(h))
      BY <1>4, <1>5, <1>6, <1>9
    <2>2. PICK t, o, c, f, b : /\ t = Said(h, k) /\ o = Open("assistant") /\ c = m.content
                               /\ f = RenderCalls(m.calls) /\ b = c \o f
      OBVIOUS
    <2>3. t = [role |-> "assistant", body |-> b]
      BY <2>1, <2>2, <1>1, <1>9 DEF Said
    <2>4. c \in Seq(W) /\ f \in Seq(W)
      BY <2>2, <1>3, CallsAreText
    <2>5. b \in Seq(W)
      BY <2>2, <2>4, ConcatProperties
    <2>6. t \in TurnOf(W)
      BY <2>3, <2>5, TemplateWords DEF TurnOf
    <2>7. Item(h, k) = ((o \o c) \o f) \o Close
      BY <2>1, <2>2, <1>1, <1>9 DEF Item, RenderMessage
    <2>8. Written(t) = (o \o b) \o Close
      <3>1. t.role = "assistant" /\ t.body = b
        BY <2>3
      <3> QED BY <3>1, <2>2 DEF Written
    <2>9. (o \o c) \o f = o \o b
      <3>1. PICK M : M = W \cup {"<|im_start|>"}
        OBVIOUS
      <3>2. "assistant" \in M /\ "<|im_start|>" \in M
        BY <3>1, TemplateWords
      <3>3. <<"<|im_start|>", "assistant">> \in Seq(M)
        BY ONLY <3>2
      <3>4. o \in Seq(M)
        BY <3>3, <2>2 DEF Open
      <3>5. c \in Seq(M) /\ f \in Seq(M)
        BY <3>1, <2>4, SeqMonotonic
      <3>6. Regroups(o, c, f)
        BY <3>4, <3>5, Regroup
      <3> QED BY <3>6, <2>2 DEF Regroups
    <2> QED BY <2>1, <2>2, <2>6, <2>7, <2>8, <2>9
  <1>10. CASE m.role = "tool"
    <2>1. ToolAt(h, k) /\ ~(k < Start(h))
      BY <1>5, <1>6, <1>10
    <2>2. k = Start(h) => ~ToolAt(h, k - 1)
      <3>1. ASSUME k = Start(h), ToolAt(h, k - 1) PROVE FALSE
        <4>1. k - 1 \in 1 .. n /\ h[k - 1].role = "tool"
          BY <3>1, <1>2 DEF ToolAt
        <4>2. HasSystem(h) /\ k = 2
          BY <3>1, <4>1, <1>2 DEF Start
        <4>3. k - 1 = 1
          BY <4>2
        <4>4. h[1].role = "system"
          BY <4>2 DEF HasSystem
        <4> QED BY <4>1, <4>3, <4>4
      <3> QED BY <3>1
    <2>3. Item(h, k) = (Opening(h, k) \o Result(h[k])) \o Closing(h, k)
      <3>1. RenderMessage(h, k) = RenderTool(h, k)
        BY <1>1, <1>10 DEF RenderMessage
      <3>2. RenderTool(h, k) = (Opening(h, k) \o Result(h[k])) \o Closing(h, k)
        BY <2>2 DEF RenderTool, Opening, Closing
      <3> QED BY <3>1, <3>2, <2>1 DEF Item
    <2>4. Result(h[k]) \in Seq(W)
      BY <1>1, <1>2, ResultIsText
    <2>5. k \in Speaks(h) <=> ~ToolAt(h, k - 1)
      BY <2>1, <1>4, <1>10
    <2> QED BY <2>1, <2>3, <2>4, <2>5
  <1>11. CASE m.role \notin {"user", "assistant", "tool"}
    <2>1. k \notin Speaks(h) /\ ~ToolAt(h, k)
      BY <1>4, <1>5, <1>11
    <2>2. Item(h, k) = <<>>
      BY <1>1, <1>11 DEF Item, RenderMessage
    <2> QED BY <2>1, <2>2
  <1> QED BY <1>8, <1>9, <1>10, <1>11

(* The turns T are those of the system prompt and of the messages o. *)
Tells(T, sys, h, o) ==
    /\ Len(T) = Len(sys) + Len(o)
    /\ \A i \in 1 .. Len(sys) : T[i] = sys[i]
    /\ \A i \in 1 .. Len(o) : T[Len(sys) + i] = Said(h, o[i])
Shown(p, sys, h, o, W) == \E T, at, en : Reads(p, T, at, en, W) /\ Tells(T, sys, h, o)

(* A prompt shows one message more once its turn is written. *)
LEMMA ShownMore ==
    ASSUME NEW W, Wording(W), NEW p, NEW sys \in Seq(TurnOf(W)), NEW h, NEW o \in Seq(Nat),
           NEW k \in Nat, Shown(p, sys, h, o, W), Said(h, k) \in TurnOf(W)
    PROVE  Shown(p \o Written(Said(h, k)), sys, h, Append(o, k), W)
  <1>1. PICK T, at, en : Reads(p, T, at, en, W) /\ Tells(T, sys, h, o)
    BY DEF Shown
  <1>2. PICK t, B, q, X, l, z : /\ t = Said(h, k) /\ B = TurnOf(W) /\ q = Append(o, k)
                                /\ X = Append(T, t) /\ l = Len(o) /\ z = Len(sys)
    OBVIOUS
  <1>3. \E a, e : Reads(p \o Written(t), X, a, e, W)
    <2>1. W \cap Markers = {} /\ t \in TurnOf(W)
      BY <1>2 DEF Wording
    <2> QED BY <2>1, <1>1, <1>2, ReadsMore
  <1>4. T \in Seq(B) /\ t \in B /\ l \in Nat /\ z \in Nat
    BY <1>1, <1>2 DEF Reads
  <1>5. /\ Len(T) = z + l
        /\ \A i \in 1 .. z : T[i] = sys[i]
        /\ \A i \in 1 .. l : T[z + i] = Said(h, o[i])
    BY <1>1, <1>2 DEF Tells
  <1>6. Len(X) = (z + l) + 1 /\ X[(z + l) + 1] = t /\ \A i \in 1 .. z + l : X[i] = T[i]
    <2>1. PICK n : n = Len(T)
      OBVIOUS
    <2>2. X = Append(T, t) /\ T \in Seq(B) /\ t \in B /\ n = Len(T)
      BY <1>2, <1>4, <2>1
    <2>3. Len(X) = n + 1 /\ X[n + 1] = t /\ \A i \in 1 .. n : X[i] = T[i]
      BY <2>2
    <2> QED BY <2>1, <2>3, <1>5
  <1>7. Len(q) = l + 1 /\ q[l + 1] = k /\ \A i \in 1 .. l : q[i] = o[i]
    BY <1>2, <1>4
  <1>8. Tells(X, sys, h, q)
    <2>1. Len(X) = z + (l + 1)
      BY <1>4, <1>6
    <2>2. \A i \in 1 .. z : X[i] = sys[i]
      <3>1. \A i \in 1 .. z : i \in 1 .. z + l
        BY <1>4
      <3> QED BY <3>1, <1>5, <1>6
    <2>3. ASSUME NEW i \in 1 .. l + 1 PROVE X[z + i] = Said(h, q[i])
      <3>1. CASE i = l + 1
        <4>1. z + i = (z + l) + 1
          BY <3>1, <1>4
        <4> QED BY <3>1, <4>1, <1>2, <1>6, <1>7
      <3>2. CASE i # l + 1
        <4>1. i \in 1 .. l /\ z + i \in 1 .. z + l
          BY <3>2, <1>4
        <4> QED BY <4>1, <1>5, <1>6, <1>7
      <3> QED BY <3>1, <3>2
    <2> QED BY <2>1, <2>2, <2>3, <1>2, <1>7 DEF Tells
  <1> QED BY <1>2, <1>3, <1>8 DEF Shown

(* The results of tools from message a to message k. *)
Responses(h, a, k) == FlattenSeq([j \in 1 .. k - a + 1 |-> Result(h[a + j - 1])])

(* One result more. *)
LEMMA ResponsesGrow ==
    ASSUME NEW W, Wording(W), NEW h \in Seq(Message(W)), NEW a \in 1 .. Len(h), NEW k \in Nat,
           a <= k + 1, k + 1 <= Len(h)
    PROVE  /\ Responses(h, a, k) \in Seq(W)
           /\ Responses(h, a, k + 1) = Responses(h, a, k) \o Result(h[k + 1])
  <1>1. PICK S, n, l : S = Message(W) /\ n = Len(h) /\ l = k - a + 1
    OBVIOUS
  <1>2. n \in Nat /\ a \in 1 .. n /\ l \in Nat /\ (k + 1) - a + 1 = l + 1 /\ h \in Seq(S)
    BY <1>1
  <1>3. \A i \in 1 .. n : Result(h[i]) \in Seq(W)
    <2>1. \A i \in 1 .. n : h[i] \in S
      BY <1>1, <1>2
    <2> QED BY <2>1, <1>1, ResultIsText
  <1>4. \A j \in 1 .. l + 1 : a + j - 1 \in 1 .. n
    BY <1>1, <1>2
  <1>5. PICK s, t : /\ s = [j \in 1 .. l |-> Result(h[a + j - 1])]
                    /\ t = [j \in 1 .. l + 1 |-> Result(h[a + j - 1])]
    OBVIOUS
  <1>6. \A j \in 1 .. l + 1 : t[j] \in Seq(W) /\ t[j] = Result(h[a + j - 1])
    BY <1>3, <1>4, <1>5
  <1>7. \A j \in 1 .. l : j \in 1 .. l + 1 /\ s[j] = t[j]
    BY <1>2, <1>5
  <1>8. s \in Seq(Seq(W)) /\ Len(s) = l /\ FlattenSeq(s) \in Seq(W)
    <2>1. IsMap(s, l) /\ \A j \in 1 .. l : s[j] \in Seq(W)
      BY <1>5, <1>6, <1>7 DEF IsMap
    <2> QED BY <2>1, <1>2, FlatText
  <1>9. l + 1 \in 1 .. l + 1 /\ a + (l + 1) - 1 = k + 1
    BY <1>1, <1>2
  <1>10. PICK x : x = Result(h[k + 1])
    OBVIOUS
  <1>11. x \in Seq(W) /\ t[l + 1] = x
    BY <1>6, <1>9, <1>10
  <1>12. t = Append(s, x)
    <2>1. PICK Q : Q = Seq(W)
      OBVIOUS
    <2>2. IsMap(t, l + 1) /\ Agree(s, t, l)
      BY <1>5, <1>7 DEF IsMap, Agree
    <2> QED BY <2>1, <2>2, <1>2, <1>8, <1>11, MapGrows
  <1>13. FlattenSeq(t) = FlattenSeq(s) \o x
    BY <1>8, <1>11, <1>12, FlattenAppend
  <1> QED BY <1>1, <1>2, <1>5, <1>8, <1>10, <1>13 DEF Responses

(* The first of them. *)
LEMMA FirstResponse ==
    ASSUME NEW W, Wording(W), NEW h \in Seq(Message(W)), NEW a \in 1 .. Len(h)
    PROVE  Responses(h, a, a) = Result(h[a])
  <1>1. PICK k : k = a - 1
    OBVIOUS
  <1>2. k \in Nat /\ k + 1 = a /\ k - a + 1 = 0 /\ a <= k + 1 /\ k + 1 <= Len(h)
    BY <1>1
  <1>3. Responses(h, a, k + 1) = Responses(h, a, k) \o Result(h[k + 1])
    BY <1>2, ResponsesGrow
  <1>4. Responses(h, a, k) = <<>>
    <2>1. [j \in 1 .. 0 |-> Result(h[a + j - 1])] = <<>>
      OBVIOUS
    <2> QED BY <2>1, <1>2, FlattenEmpty DEF Responses
  <1>5. Result(h[a]) \in Seq(W)
    <2>1. PICK S : S = Message(W)
      OBVIOUS
    <2>2. h \in Seq(S) /\ a \in 1 .. Len(h)
      BY <2>1
    <2>3. h[a] \in S
      BY <2>2
    <2> QED BY <2>1, <2>3, ResultIsText
  <1>6. <<>> \o Result(h[a]) = Result(h[a])
    BY <1>5, ConcatEmptySeq
  <1> QED BY <1>2, <1>3, <1>4, <1>6

(* y ends in the open turn of a run of tools that reaches to k. *)
InRun(y, k, sys, h, W) ==
    \E a \in 1 .. k, p \in Seq(W \cup Markers) :
        /\ Shown(p, sys, h, InOrder(Speaks(h), a - 1), W)
        /\ InOrder(Speaks(h), k) = Append(InOrder(Speaks(h), a - 1), a)
        /\ \A j \in a .. k : ToolAt(h, j)
        /\ y = p \o (Open("user") \o Responses(h, a, k))

(* The parts of such a turn. *)
LEMMA UserParts ==
    ASSUME NEW W, Wording(W)
    PROVE  /\ Open("user") \in Seq(W \cup Markers) /\ Close \in Seq(W \cup Markers)
           /\ \A x \in Seq(W) : x \in Seq(W \cup Markers)
           /\ \A p, x \in Seq(W \cup Markers) : p \o x \in Seq(W \cup Markers)
  <1>1. PICK M : M = W \cup Markers
    OBVIOUS
  <1>2. "user" \in M /\ "<|im_start|>" \in M /\ "<|im_end|>" \in M
    BY <1>1, TemplateWords DEF Markers
  <1>3. <<"<|im_start|>", "user">> \in Seq(M) /\ <<"<|im_end|>">> \in Seq(M)
    BY ONLY <1>2
  <1>4. \A x \in Seq(W) : x \in Seq(M)
    BY <1>1, SeqMonotonic
  <1>5. \A p, x \in Seq(M) : p \o x \in Seq(M)
    BY ConcatProperties
  <1> QED BY <1>1, <1>3, <1>4, <1>5 DEF Open, Close

(* A tool's result after something else starts a run. *)
LEMMA RunStarts ==
    ASSUME NEW W, Wording(W), NEW h \in Seq(Message(W)), NEW k \in 1 .. Len(h), NEW sys,
           NEW p \in Seq(W \cup Markers), Shown(p, sys, h, InOrder(Speaks(h), k - 1), W),
           ToolAt(h, k), ~ToolAt(h, k - 1)
    PROVE  InRun(p \o (Opening(h, k) \o Result(h[k])), k, sys, h, W)
  <1>1. k \in Speaks(h)
    BY ItemIs
  <1>2. InOrder(Speaks(h), k) = Append(InOrder(Speaks(h), k - 1), k)
    <2>1. PICK n : n = k - 1
      OBVIOUS
    <2>2. n \in Nat /\ n + 1 = k
      BY <2>1
    <2>3. PICK S : S = Speaks(h)
      OBVIOUS
    <2>4. InOrder(S, n + 1) = IF n + 1 \in S THEN Append(InOrder(S, n), n + 1) ELSE InOrder(S, n)
      BY <2>2, InOrderStep
    <2> QED BY <2>1, <2>2, <2>3, <2>4, <1>1
  <1>3. Responses(h, k, k) = Result(h[k])
    BY FirstResponse
  <1>4. Opening(h, k) = Open("user")
    BY DEF Opening
  <1>5. k \in 1 .. k /\ \A j \in k .. k : ToolAt(h, j)
    <2>1. k \in Nat /\ k >= 1 /\ \A j \in k .. k : j = k
      OBVIOUS
    <2> QED BY <2>1
  <1> QED BY <1>2, <1>3, <1>4, <1>5 DEF InRun

(* After another one it continues it. *)
LEMMA RunGoesOn ==
    ASSUME NEW W, Wording(W), NEW h \in Seq(Message(W)), NEW k \in Nat, k + 1 \in 1 .. Len(h),
           NEW sys, NEW y, InRun(y, k, sys, h, W), ToolAt(h, k), ToolAt(h, k + 1)
    PROVE  InRun(y \o (Opening(h, k + 1) \o Result(h[k + 1])), k + 1, sys, h, W)
  <1>1. PICK a \in 1 .. k, p \in Seq(W \cup Markers) :
           /\ Shown(p, sys, h, InOrder(Speaks(h), a - 1), W)
           /\ InOrder(Speaks(h), k) = Append(InOrder(Speaks(h), a - 1), a)
           /\ \A j \in a .. k : ToolAt(h, j)
           /\ y = p \o (Open("user") \o Responses(h, a, k))
    BY DEF InRun
  <1>2. (k + 1) - 1 = k
    OBVIOUS
  <1>3. k + 1 \notin Speaks(h) /\ Result(h[k + 1]) \in Seq(W)
    BY <1>2, ItemIs
  <1>4. InOrder(Speaks(h), k + 1) = InOrder(Speaks(h), k)
    BY <1>3, InOrderStep
  <1>5. PICK M, o, r, x : M = W \cup Markers /\ o = Open("user") /\ r = Responses(h, a, k) /\ x = Result(h[k + 1])
    OBVIOUS
  <1>6. a \in 1 .. Len(h) /\ a <= k + 1 /\ k + 1 <= Len(h) /\ a \in 1 .. k + 1
    OBVIOUS
  <1>7. r \in Seq(W) /\ Responses(h, a, k + 1) = r \o x
    BY <1>5, <1>6, ResponsesGrow
  <1>8. p \in Seq(M) /\ o \in Seq(M) /\ r \in Seq(M) /\ x \in Seq(M) /\ x \in Seq(W) /\ o \o r \in Seq(M)
    <2>1. r \in Seq(W) /\ x \in Seq(W)
      BY <1>3, <1>5, <1>7
    <2>2. o \in Seq(M) /\ r \in Seq(M) /\ x \in Seq(M)
      BY <2>1, <1>5, UserParts
    <2>3. o \o r \in Seq(M)
      BY <2>2, <1>5, UserParts
    <2> QED BY <2>1, <2>2, <2>3, <1>5
  <1>9. Opening(h, k + 1) \o Result(h[k + 1]) = x
    <2>1. Opening(h, k + 1) = <<>>
      BY <1>2 DEF Opening
    <2>2. <<>> \o x = x
      BY <1>8, ConcatEmptySeq
    <2> QED BY <2>1, <2>2, <1>5
  <1>10. y \o x = p \o (o \o (r \o x))
    <2>1. PICK s : s = o \o r
      OBVIOUS
    <2>2. s \in Seq(M)
      BY <2>1, <1>8
    <2>3. Regroups(p, s, x) /\ Regroups(o, r, x)
      BY <2>2, <1>8, Regroup
    <2>4. (p \o s) \o x = p \o (s \o x)
      BY <2>3 DEF Regroups
    <2>5. s \o x = o \o (r \o x)
      BY <2>1, <2>3 DEF Regroups
    <2>6. y = p \o s
      BY <2>1, <1>1, <1>5
    <2> QED BY <2>4, <2>5, <2>6
  <1>11. \A j \in a .. k + 1 : ToolAt(h, j)
    <2>1. \A j \in a .. k + 1 : j \in a .. k \/ j = k + 1
      OBVIOUS
    <2> QED BY <2>1, <1>1
  <1>12. /\ InOrder(Speaks(h), k + 1) = Append(InOrder(Speaks(h), a - 1), a)
         /\ y \o (Opening(h, k + 1) \o Result(h[k + 1])) = p \o (Open("user") \o Responses(h, a, k + 1))
    BY <1>1, <1>4, <1>5, <1>7, <1>9, <1>10
  <1> QED BY <1>1, <1>6, <1>11, <1>12 DEF InRun

(* What follows it ends it. *)
LEMMA RunEnds ==
    ASSUME NEW W, Wording(W), NEW h \in Seq(Message(W)), NEW k \in 1 .. Len(h),
           NEW sys \in Seq(TurnOf(W)), NEW y, InRun(y, k, sys, h, W), ~ToolAt(h, k + 1)
    PROVE  Shown(y \o Close, sys, h, InOrder(Speaks(h), k), W)
  <1>1. PICK a \in 1 .. k, p \in Seq(W \cup Markers) :
           /\ Shown(p, sys, h, InOrder(Speaks(h), a - 1), W)
           /\ InOrder(Speaks(h), k) = Append(InOrder(Speaks(h), a - 1), a)
           /\ \A j \in a .. k : ToolAt(h, j)
           /\ y = p \o (Open("user") \o Responses(h, a, k))
    BY DEF InRun
  <1>2. PICK n : n = Len(h)
    OBVIOUS
  <1>3. n \in Nat /\ k \in 1 .. n /\ a \in 1 .. n /\ a \in Nat
    BY <1>2
  <1>4. Responses(h, a, k) \in Seq(W)
    <2>1. PICK l : l = k - 1
      OBVIOUS
    <2>2. l \in Nat /\ l + 1 = k /\ a <= l + 1 /\ l + 1 <= Len(h) /\ a \in 1 .. Len(h)
      BY <2>1, <1>2, <1>3
    <2>3. Responses(h, a, l) \in Seq(W) /\ Responses(h, a, l + 1) = Responses(h, a, l) \o Result(h[l + 1])
      BY <2>2, ResponsesGrow
    <2>4. Result(h[k]) \in Seq(W)
      <3>1. ToolAt(h, k)
        <4>1. k \in a .. k
          BY <1>3
        <4> QED BY <4>1, <1>1
      <3> QED BY <3>1, ItemIs
    <2> QED BY <2>2, <2>3, <2>4, ConcatProperties
  <1>5. Min({j \in a .. n + 1 : ~ToolAt(h, j)}) = k + 1
    <2>1. PICK S : S = {j \in a .. n + 1 : ~ToolAt(h, j)}
      OBVIOUS
    <2>2. S \in SUBSET Nat /\ k + 1 \in S
      <3>1. k + 1 \in a .. n + 1 /\ \A j \in a .. n + 1 : j \in Nat
        BY <1>3
      <3> QED BY <3>1, <2>1
    <2>3. \A j \in S : k + 1 <= j
      <3>1. \A j \in a .. n + 1 : ~(k + 1 <= j) => j \in a .. k
        BY <1>3
      <3> QED BY <3>1, <2>1, <1>1
    <2> QED BY <2>1, <2>2, <2>3, MinIs
  <1>6. Said(h, a) = [role |-> "user", body |-> Responses(h, a, k)]
    <2>1. ToolAt(h, a)
      <3>1. a \in a .. k
        BY <1>3
      <3> QED BY <3>1, <1>1
    <2>2. (k + 1) - a = k - a + 1
      BY <1>3
    <2>3. Results(h, a) = Responses(h, a, k)
      BY <2>2, <1>2, <1>5 DEF Results, Responses
    <2> QED BY <2>1, <2>3 DEF Said
  <1>7. Said(h, a) \in TurnOf(W)
    <2>1. PICK r : r = Responses(h, a, k)
      OBVIOUS
    <2>2. r \in Seq(W) /\ "user" \in W
      BY <2>1, <1>4, TemplateWords
    <2>3. [role |-> "user", body |-> r] \in TurnOf(W)
      BY <2>2 DEF TurnOf
    <2> QED BY <2>1, <2>3, <1>6
  <1>8. InOrder(Speaks(h), a - 1) \in Seq(Nat)
    <2>1. a - 1 \in Nat
      BY <1>3
    <2> QED BY <2>1, InOrderType
  <1>9. Shown(p \o Written(Said(h, a)), sys, h, Append(InOrder(Speaks(h), a - 1), a), W)
    BY <1>1, <1>3, <1>7, <1>8, ShownMore
  <1>10. y \o Close = p \o Written(Said(h, a))
    <2>1. PICK M, o, r, c, s : /\ M = W \cup Markers /\ o = Open("user") /\ r = Responses(h, a, k)
                               /\ c = Close /\ s = o \o r
      OBVIOUS
    <2>2. p \in Seq(M) /\ o \in Seq(M) /\ r \in Seq(M) /\ c \in Seq(M)
      BY <2>1, <1>4, UserParts
    <2>3. s \in Seq(M)
      BY <2>1, <2>2, UserParts
    <2>4. Regroups(p, s, c)
      BY <2>2, <2>3, Regroup
    <2>5. (p \o s) \o c = p \o (s \o c)
      BY <2>4 DEF Regroups
    <2>6. PICK t : t = Said(h, a)
      OBVIOUS
    <2>7. t.role = "user" /\ t.body = r
      BY <2>1, <2>6, <1>6
    <2>8. Written(t) = s \o c
      BY <2>1, <2>7 DEF Written
    <2>9. y = p \o s
      BY <2>1, <1>1
    <2> QED BY <2>1, <2>5, <2>6, <2>8, <2>9
  <1> QED BY <1>1, <1>9, <1>10

(* The prompt up to message k, after the system turn s. *)
PromptTo(h, s, k) == s \o FlattenSeq([j \in 1 .. k |-> Item(h, j)])

(* What a message adds is made of pieces. *)
LEMMA ItemType ==
    ASSUME NEW W, Wording(W), NEW h \in Seq(Message(W)), NEW k \in 1 .. Len(h)
    PROVE  Item(h, k) \in Seq(W \cup Markers)
  <1>1. CASE k \in Speaks(h) /\ ~ToolAt(h, k)
    <2>1. PICK t, w : t = Said(h, k) /\ w = Written(t)
      OBVIOUS
    <2>2. t \in TurnOf(W) /\ Item(h, k) = w
      BY <2>1, <1>1, ItemIs
    <2>3. IsEqual(w, Written(t)) /\ W \cap Markers = {}
      BY <2>1 DEF IsEqual, Wording
    <2>4. w \in Seq(W \cup Markers)
      BY <2>2, <2>3, WrittenIs
    <2> QED BY <2>2, <2>4
  <1>2. CASE k \notin Speaks(h) /\ ~ToolAt(h, k)
    <2>1. Item(h, k) = <<>>
      BY <1>2, ItemIs
    <2> QED BY <2>1
  <1>3. CASE ToolAt(h, k)
    <2>1. PICK M, o, r, c : M = W \cup Markers /\ o = Opening(h, k) /\ r = Result(h[k]) /\ c = Closing(h, k)
      OBVIOUS
    <2>2. Item(h, k) = (o \o r) \o c /\ r \in Seq(W)
      BY <2>1, <1>3, ItemIs
    <2>3. o \in Seq(M) /\ r \in Seq(M) /\ c \in Seq(M)
      <3>1. <<>> \in Seq(M)
        OBVIOUS
      <3> QED BY <3>1, <2>1, <2>2, UserParts DEF Opening, Closing
    <2>4. (o \o r) \o c \in Seq(M)
      BY <2>3, ConcatProperties
    <2> QED BY <2>1, <2>2, <2>4
  <1> QED BY <1>1, <1>2, <1>3

(* One message more. *)
LEMMA PromptGrows ==
    ASSUME NEW W, Wording(W), NEW h \in Seq(Message(W)), NEW s \in Seq(W \cup Markers),
           NEW k \in Nat, k + 1 <= Len(h)
    PROVE  /\ PromptTo(h, s, 0) = s
           /\ PromptTo(h, s, k) \in Seq(W \cup Markers)
           /\ PromptTo(h, s, k + 1) = PromptTo(h, s, k) \o Item(h, k + 1)
           /\ PromptTo(h, s, k + 1) \in Seq(W \cup Markers)
  <1>1. PICK M, n : M = W \cup Markers /\ n = Len(h)
    OBVIOUS
  <1>2. n \in Nat /\ s \in Seq(M) /\ k + 1 \in 1 .. n /\ \A j \in 1 .. k + 1 : j \in 1 .. n
    BY <1>1
  <1>3. \A j \in 1 .. n : Item(h, j) \in Seq(M)
    BY <1>1, ItemType
  <1>4. PICK f, g, x : /\ f = [j \in 1 .. k |-> Item(h, j)] /\ g = [j \in 1 .. k + 1 |-> Item(h, j)]
                       /\ x = Item(h, k + 1)
    OBVIOUS
  <1>5. /\ \A j \in 1 .. k + 1 : g[j] = Item(h, j) /\ g[j] \in Seq(M)
        /\ \A j \in 1 .. k : j \in 1 .. k + 1 /\ f[j] = Item(h, j)
    BY <1>2, <1>3, <1>4
  <1>6. f \in Seq(Seq(M)) /\ Len(f) = k /\ FlattenSeq(f) \in Seq(M)
    <2>1. IsMap(f, k) /\ \A j \in 1 .. k : f[j] \in Seq(M)
      BY <1>4, <1>5 DEF IsMap
    <2> QED BY <2>1, FlatText
  <1>7. x \in Seq(M) /\ g[k + 1] = x
    BY <1>2, <1>3, <1>4, <1>5
  <1>8. g = Append(f, x)
    <2>1. PICK Q : Q = Seq(M)
      OBVIOUS
    <2>2. IsMap(g, k + 1) /\ Agree(f, g, k)
      BY <1>4, <1>5 DEF IsMap, Agree
    <2> QED BY <2>1, <2>2, <1>6, <1>7, MapGrows
  <1>9. FlattenSeq(g) = FlattenSeq(f) \o x
    BY <1>6, <1>7, <1>8, FlattenAppend
  <1>10. PICK F : F = FlattenSeq(f)
    OBVIOUS
  <1>11. F \in Seq(M) /\ s \o F \in Seq(M) /\ (s \o F) \o x = s \o (F \o x)
    <2>1. F \in Seq(M)
      BY <1>6, <1>10
    <2>2. Regroups(s, F, x)
      BY <2>1, <1>2, <1>7, Regroup
    <2>3. s \o F \in Seq(M)
      BY <2>1, <1>2, ConcatProperties
    <2> QED BY <2>1, <2>2, <2>3 DEF Regroups
  <1>12. (s \o F) \o x \in Seq(M)
    BY <1>7, <1>11, ConcatProperties
  <1>13. PromptTo(h, s, 0) = s
    <2>1. [j \in 1 .. 0 |-> Item(h, j)] = <<>>
      OBVIOUS
    <2>2. s \o <<>> = s
      BY <1>2, ConcatEmptySeq
    <2> QED BY <2>1, <2>2, FlattenEmpty DEF PromptTo
  <1>14. PromptTo(h, s, k) = s \o F /\ PromptTo(h, s, k + 1) = s \o (F \o x)
    BY <1>4, <1>9, <1>10 DEF PromptTo
  <1> QED BY <1>1, <1>4, <1>11, <1>12, <1>13, <1>14

(* What is written up to message k: all turns, or an open one of tools. *)
Shows(h, s, sys, k, W) ==
    IF ToolAt(h, k) /\ ToolAt(h, k + 1) THEN InRun(PromptTo(h, s, k), k, sys, h, W)
    ELSE Shown(PromptTo(h, s, k), sys, h, InOrder(Speaks(h), k), W)

(* One message more keeps it so. *)
LEMMA MessageShown ==
    ASSUME NEW W, Wording(W), NEW h \in Seq(Message(W)), NEW s \in Seq(W \cup Markers),
           NEW sys \in Seq(TurnOf(W)), NEW k \in Nat, k + 1 <= Len(h), Shows(h, s, sys, k, W)
    PROVE  Shows(h, s, sys, k + 1, W)
  <1>1. PICK M, S, x, y, z, i :
           /\ M = W \cup Markers /\ S = Speaks(h) /\ x = k + 1 /\ y = PromptTo(h, s, k)
           /\ i = Item(h, x) /\ z = PromptTo(h, s, x)
    OBVIOUS
  <1>2. x \in 1 .. Len(h) /\ x - 1 = k /\ x \in Nat
    BY <1>1
  <1>3. y \in Seq(M) /\ z = y \o i
    <2>1. /\ PromptTo(h, s, k) \in Seq(W \cup Markers)
          /\ PromptTo(h, s, k + 1) = PromptTo(h, s, k) \o Item(h, k + 1)
      BY PromptGrows
    <2> QED BY <2>1, <1>1
  <1>4. InOrder(S, x) = IF x \in S THEN Append(InOrder(S, k), x) ELSE InOrder(S, k)
    BY <1>1, InOrderStep
  <1>5. CASE ~ToolAt(h, x)
    <2>1. Shown(y, sys, h, InOrder(S, k), W)
      BY <1>1, <1>5 DEF Shows
    <2>2. Shown(z, sys, h, InOrder(S, x), W)
      <3>1. CASE x \in S
        <4>1. Said(h, x) \in TurnOf(W) /\ i = Written(Said(h, x))
          BY <3>1, <1>1, <1>2, <1>5, ItemIs
        <4>2. InOrder(S, k) \in Seq(Nat)
          BY InOrderType
        <4>3. Shown(y \o Written(Said(h, x)), sys, h, Append(InOrder(S, k), x), W)
          BY <4>1, <4>2, <2>1, <1>2, ShownMore
        <4> QED BY <4>1, <4>3, <3>1, <1>3, <1>4
      <3>2. CASE x \notin S
        <4>1. i = <<>>
          BY <3>2, <1>1, <1>2, <1>5, ItemIs
        <4>2. y \o <<>> = y
          BY <1>3, ConcatEmptySeq
        <4> QED BY <4>1, <4>2, <3>2, <2>1, <1>3, <1>4
      <3> QED BY <3>1, <3>2
    <2> QED BY <2>2, <1>1, <1>5 DEF Shows
  <1>6. CASE ToolAt(h, x)
    <2>1. PICK o, r, c, u : /\ o = Opening(h, x) /\ r = Result(h[x]) /\ c = Closing(h, x)
                            /\ u = y \o (o \o r)
      OBVIOUS
    <2>2. i = (o \o r) \o c /\ r \in Seq(W)
      BY <2>1, <1>1, <1>2, <1>6, ItemIs
    <2>3. InRun(u, x, sys, h, W)
      <3>1. CASE ToolAt(h, k)
        <4>1. InRun(y, k, sys, h, W)
          BY <3>1, <1>1, <1>6 DEF Shows
        <4>2. InRun(y \o (Opening(h, k + 1) \o Result(h[k + 1])), k + 1, sys, h, W)
          BY <4>1, <3>1, <1>1, <1>2, <1>6, RunGoesOn
        <4> QED BY <4>2, <2>1, <1>1
      <3>2. CASE ~ToolAt(h, k)
        <4>1. Shown(y, sys, h, InOrder(S, k), W)
          BY <3>2, <1>1 DEF Shows
        <4>2. /\ Shown(y, sys, h, InOrder(Speaks(h), x - 1), W) /\ ~ToolAt(h, x - 1)
              /\ y \in Seq(W \cup Markers)
          BY <4>1, <3>2, <1>1, <1>2, <1>3
        <4>3. InRun(y \o (Opening(h, x) \o Result(h[x])), x, sys, h, W)
          BY <4>2, <1>2, <1>6, RunStarts
        <4> QED BY <4>3, <2>1
      <3> QED BY <3>1, <3>2
    <2>4. z = u \o c
      <3>1. o \in Seq(M) /\ r \in Seq(M) /\ c \in Seq(M)
        <4>1. <<>> \in Seq(M)
          OBVIOUS
        <4> QED BY <4>1, <2>1, <2>2, <1>1, UserParts DEF Opening, Closing
      <3>2. PICK v : v = o \o r
        OBVIOUS
      <3>3. v \in Seq(M)
        BY <3>1, <3>2, ConcatProperties
      <3>4. Regroups(y, v, c)
        BY <3>1, <3>3, <1>3, Regroup
      <3>5. (y \o v) \o c = y \o (v \o c)
        BY <3>4 DEF Regroups
      <3> QED BY <3>2, <3>5, <2>1, <2>2, <1>3
    <2>5. CASE ToolAt(h, x + 1)
      <3>1. c = <<>>
        BY <2>1, <2>5 DEF Closing
      <3>2. u \o <<>> = u
        <4>1. u \in Seq(M)
          <5>1. o \in Seq(M) /\ r \in Seq(M)
            <6>1. <<>> \in Seq(M)
              OBVIOUS
            <6> QED BY <6>1, <2>1, <2>2, <1>1, UserParts DEF Opening
          <5>2. o \o r \in Seq(M)
            BY <5>1, ConcatProperties
          <5>3. y \o (o \o r) \in Seq(M)
            BY <5>2, <1>3, ConcatProperties
          <5> QED BY <5>3, <2>1
        <4> QED BY <4>1, ConcatEmptySeq
      <3>3. InRun(z, x, sys, h, W)
        BY <3>1, <3>2, <2>3, <2>4
      <3> QED BY <3>3, <2>5, <1>1, <1>6 DEF Shows
    <2>6. CASE ~ToolAt(h, x + 1)
      <3>1. c = Close
        BY <2>1, <2>6 DEF Closing
      <3>2. Shown(u \o Close, sys, h, InOrder(Speaks(h), x), W)
        BY <2>3, <2>6, <1>2, RunEnds
      <3>3. Shown(z, sys, h, InOrder(Speaks(h), x), W)
        BY <3>1, <3>2, <2>4
      <3> QED BY <3>3, <2>6, <1>1 DEF Shows
    <2> QED BY <2>5, <2>6
  <1> QED BY <1>5, <1>6

(* Before the first message there is the system turn. *)
LEMMA SystemShown ==
    ASSUME NEW W, Wording(W), NEW h \in Seq(Message(W)), NEW tools \in Seq(ToolOf(W))
    PROVE  \E sys \in Seq(TurnOf(W)) :
              /\ sys = IF HasSystem(h) \/ tools # <<>> THEN <<SystemTurn(h, tools)>> ELSE <<>>
              /\ Shown(RenderSystem(h, tools), sys, h, <<>>, W)
              /\ RenderSystem(h, tools) \in Seq(W \cup Markers)
  <1>1. PICK t, B, s : t = SystemTurn(h, tools) /\ B = TurnOf(W) /\ s = RenderSystem(h, tools)
    OBVIOUS
  <1>2. t \in B /\ s = IF HasSystem(h) \/ tools # <<>> THEN Written(t) ELSE <<>>
    BY <1>1, SystemIs
  <1>3. Reads(<<>>, <<>>, <<>>, <<>>, W)
    BY ReadsNothing
  <1>4. Len(<<>>) = 0 /\ 1 .. 0 = {} /\ \A S : <<>> \in Seq(S)
    OBVIOUS
  <1>5. CASE HasSystem(h) \/ tools # <<>>
    <2>1. W \cap Markers = {} /\ t \in TurnOf(W)
      BY <1>1, <1>2 DEF Wording
    <2>2. PICK a, e : Reads(<<>> \o Written(t), Append(<<>>, t), a, e, W)
      BY <2>1, <1>3, ReadsMore
    <2>3. PICK w, sys : w = Written(t) /\ sys = <<t>>
      OBVIOUS
    <2>4. w \in Seq(W \cup Markers)
      <3>1. IsEqual(w, Written(t))
        BY <2>3 DEF IsEqual
      <3> QED BY <3>1, <2>1, WrittenIs
    <2>5. <<>> \o w = w
      BY <2>4, ConcatEmptySeq
    <2>6. sys \in Seq(B) /\ Append(<<>>, t) = sys /\ Len(sys) = 1
      BY <2>3, <1>2
    <2>7. Reads(w, sys, a, e, W)
      BY <2>2, <2>3, <2>5, <2>6
    <2>8. Tells(sys, sys, h, <<>>)
      <3>1. Len(sys) = Len(sys) + Len(<<>>)
        BY <2>6, <1>4
      <3> QED BY <3>1, <1>4 DEF Tells
    <2>9. Shown(s, sys, h, <<>>, W) /\ s \in Seq(W \cup Markers)
      BY <2>3, <2>4, <2>7, <2>8, <1>2, <1>5 DEF Shown
    <2> QED BY <2>3, <2>6, <2>9, <1>1, <1>5
  <1>6. CASE ~(HasSystem(h) \/ tools # <<>>)
    <2>1. Tells(<<>>, <<>>, h, <<>>)
      <3>1. Len(<<>>) = Len(<<>>) + Len(<<>>)
        OBVIOUS
      <3> QED BY <3>1, <1>4 DEF Tells
    <2>2. Shown(<<>>, <<>>, h, <<>>, W)
      BY <2>1, <1>3 DEF Shown
    <2> QED BY <2>2, <1>1, <1>2, <1>4, <1>6
  <1> QED BY <1>5, <1>6

(* All messages. *)
LEMMA AllShown ==
    ASSUME NEW W, Wording(W), NEW h \in Seq(Message(W)), NEW s \in Seq(W \cup Markers),
           NEW sys \in Seq(TurnOf(W)), Shown(s, sys, h, <<>>, W)
    PROVE  Shown(PromptTo(h, s, Len(h)), sys, h, InOrder(Speaks(h), Len(h)), W)
  <1>1. PICK n : n = Len(h)
    OBVIOUS
  <1>2. n \in Nat /\ DOMAIN h = 1 .. n
    BY <1>1
  <1>3. PICK T : T = {k \in Nat : k <= n => Shows(h, s, sys, k, W)}
    OBVIOUS
  <1>4. 0 \in T
    <2>1. ~ToolAt(h, 0)
      <3>1. 0 \notin 1 .. n
        BY <1>2
      <3> QED BY <3>1, <1>2 DEF ToolAt
    <2>2. InOrder(Speaks(h), 0) = <<>>
      BY InOrderStep
    <2>3. PromptTo(h, s, 0) = s
      <3>1. [j \in 1 .. 0 |-> Item(h, j)] = <<>>
        OBVIOUS
      <3>2. s \o <<>> = s
        BY ConcatEmptySeq
      <3> QED BY <3>1, <3>2, FlattenEmpty DEF PromptTo
    <2>4. Shows(h, s, sys, 0, W)
      BY <2>1, <2>2, <2>3 DEF Shows
    <2> QED BY <2>4, <1>3
  <1>5. ASSUME NEW k \in Nat, k \in T PROVE k + 1 \in T
    <2> SUFFICES ASSUME k + 1 <= n PROVE Shows(h, s, sys, k + 1, W)
      BY <1>3
    <2>1. k <= n
      BY <1>2
    <2>2. Shows(h, s, sys, k, W)
      BY <2>1, <1>3, <1>5
    <2>3. k + 1 <= Len(h)
      BY <1>1
    <2> QED BY <2>2, <2>3, MessageShown
  <1>6. \A k \in Nat : k \in T
    BY <1>4, <1>5, SetInduction
  <1>7. Shows(h, s, sys, n, W)
    <2>1. n \in T /\ n <= n
      BY <1>2, <1>6
    <2> QED BY <2>1, <1>3
  <1>8. ~ToolAt(h, n + 1)
    <2>1. n + 1 \notin 1 .. n
      BY <1>2
    <2> QED BY <2>1, <1>2 DEF ToolAt
  <1> QED BY <1>1, <1>7, <1>8 DEF Shows

(* What a reader of the prompt p of these messages finds. *)
FoundIn(p, h, tools) ==
    LET turns == TurnsOf(p)
        system == IF HasSystem(h) \/ tools # <<>> THEN 1 ELSE 0
    IN /\ SubSeq(turns, system + 1, Len(turns) - 1) = Spoken(h)
       /\ system = 1 => /\ turns[1].role = "system"
                        /\ HasSystem(h) => IsPrefix(h[1].content, turns[1].body)
       /\ Last(turns).role = "assistant"
       /\ Cardinality(Marks(p, "<|im_end|>")) = Len(turns) - 1
       /\ p[1] = "<|im_start|>"
       /\ \A k \in Marks(p, "<|im_end|>") : p[k + 1] = "<|im_start|>"

(* It is there in what Render writes. *)
LEMMA RenderReadsBack ==
    ASSUME NEW W, Wording(W), NEW h \in Seq(Message(W)), NEW tools \in Seq(ToolOf(W)), NEW think
    PROVE  FoundIn(Render(h, tools, think), h, tools)
  <1>1. PICK sys \in Seq(TurnOf(W)) :
           /\ sys = IF HasSystem(h) \/ tools # <<>> THEN <<SystemTurn(h, tools)>> ELSE <<>>
           /\ Shown(RenderSystem(h, tools), sys, h, <<>>, W)
           /\ RenderSystem(h, tools) \in Seq(W \cup Markers)
    BY SystemShown
  <1>2. PICK s, n, o, x, q, B :
           /\ s = RenderSystem(h, tools) /\ n = Len(h) /\ o = InOrder(Speaks(h), n)
           /\ x = PromptTo(h, s, n) /\ q = Render(h, tools, think) /\ B = TurnOf(W)
    OBVIOUS
  <1>3. n \in Nat /\ DOMAIN h = 1 .. n
    BY <1>2
  <1>4. Shown(x, sys, h, o, W)
    BY <1>1, <1>2, AllShown
  <1>5. PICK T, at, en : Reads(x, T, at, en, W) /\ Tells(T, sys, h, o)
    BY <1>4 DEF Shown
  <1>6. PICK b : b = IF think THEN <<>> ELSE Think
    OBVIOUS
  <1>7. b \in Seq(W)
    <2>1. "<think>" \in W /\ "</think>" \in W
      BY TemplateWords
    <2>2. <<"<think>", "</think>">> \in Seq(W) /\ <<>> \in Seq(W)
      BY ONLY <2>1
    <2> QED BY <2>2, <1>6 DEF Think
  <1>8. IsEqual(q, x \o (Open("assistant") \o b))
    <2>1. [k \in DOMAIN h |-> IF k < Start(h) THEN <<>> ELSE RenderMessage(h, k)] = [j \in 1 .. n |-> Item(h, j)]
      BY <1>3 DEF Item
    <2>2. q = x \o Header(think)
      BY <2>1, <1>2 DEF Render, PromptTo
    <2> QED BY <2>2, <1>6 DEF IsEqual, Header
  <1>9. PICK u, g : u = [role |-> "assistant", body |-> b] /\ g = TurnsOf(q)
    OBVIOUS
  <1>10. /\ g = Append(T, u) /\ Cardinality(Marks(q, "<|im_end|>")) = Len(T)
         /\ q[1] = "<|im_start|>"
         /\ \A k \in Marks(q, "<|im_end|>") : q[k + 1] = "<|im_start|>"
    <2>1. W \cap Markers = {} /\ "assistant" \in W
      BY TemplateWords DEF Wording
    <2>2. /\ TurnsOf(q) = Append(T, [role |-> "assistant", body |-> b])
          /\ Cardinality(Marks(q, "<|im_end|>")) = Len(T)
          /\ q[1] = "<|im_start|>"
          /\ \A k \in Marks(q, "<|im_end|>") : q[k + 1] = "<|im_start|>"
      BY <2>1, <1>5, <1>7, <1>8, ReadsBack
    <2> QED BY <2>2, <1>9
  <1>11. PICK z, l : z = Len(sys) /\ l = Len(o)
    OBVIOUS
  <1>12. z = (IF HasSystem(h) \/ tools # <<>> THEN 1 ELSE 0) /\ z \in Nat
    <2>1. Len(<<>>) = 0 /\ Len(<<SystemTurn(h, tools)>>) = 1
      OBVIOUS
    <2> QED BY <2>1, <1>1, <1>11
  <1>13. o \in Seq(Nat) /\ l \in Nat /\ DOMAIN o = 1 .. l
    <2>1. o \in Seq(Nat)
      BY <1>2, <1>3, InOrderType
    <2> QED BY ONLY <2>1, <1>11
  <1>14. /\ T \in Seq(B) /\ Len(T) = z + l
         /\ \A i \in 1 .. z : T[i] = sys[i]
         /\ \A i \in 1 .. l : T[z + i] = Said(h, o[i])
    <2>1. T \in Seq(B)
      BY <1>2, <1>5 DEF Reads
    <2> QED BY <2>1, <1>5, <1>11 DEF Tells
  <1>15. u \in B
    BY <1>2, <1>7, <1>9, TemplateWords DEF TurnOf
  <1>16. /\ g \in Seq(B) /\ Len(g) = (z + l) + 1 /\ g[(z + l) + 1] = u
         /\ \A i \in 1 .. z + l : g[i] = T[i]
    BY <1>10, <1>12, <1>13, <1>14, <1>15
  <1>17. Len(g) - 1 = z + l
    BY <1>12, <1>13, <1>16
  <1>18. SubSeq(g, z + 1, Len(g) - 1) = Spoken(h)
    <2>1. PICK v : v = Spoken(h)
      OBVIOUS
    <2>2. v = [i \in 1 .. l |-> Said(h, o[i])]
      BY <2>1, <1>2, <1>13 DEF Spoken
    <2>3. \A i \in 1 .. l : z + i \in 1 .. z + l /\ v[i] = T[z + i] /\ T[z + i] \in B
      <3>1. \A i \in 1 .. l : z + i \in 1 .. z + l
        BY <1>12, <1>13
      <3>2. \A j \in 1 .. z + l : T[j] \in B
        BY <1>14
      <3> QED BY <3>1, <3>2, <2>2, <1>14
    <2>4. v \in Seq(B) /\ Len(v) = l
      <3>1. v = [i \in 1 .. l |-> v[i]] /\ \A i \in 1 .. l : v[i] \in B
        BY <2>2, <2>3
      <3> QED BY <3>1, <1>13, MapIsSeq
    <2>5. \A i \in 1 .. Len(v) : g[z + i] = v[i]
      BY <2>3, <2>4, <1>16
    <2>6. z + Len(v) <= Len(g)
      BY <2>4, <1>12, <1>13, <1>16
    <2>7. SubSeq(g, z + 1, z + Len(v)) = v
      BY <2>4, <2>5, <2>6, <1>12, <1>16, PartIs
    <2> QED BY <2>1, <2>4, <2>7, <1>17
  <1>19. ASSUME z = 1
         PROVE  g[1].role = "system" /\ (HasSystem(h) => IsPrefix(h[1].content, g[1].body))
    <2>1. PICK t : t = SystemTurn(h, tools)
      OBVIOUS
    <2>2. sys = <<t>>
      BY <2>1, <1>1, <1>12, <1>19
    <2>3. g[1] = t
      <3>1. 1 \in 1 .. z /\ 1 \in 1 .. z + l
        BY <1>13, <1>19
      <3> QED BY <3>1, <2>2, <1>14, <1>16
    <2>4. t.role = "system" /\ (HasSystem(h) => IsPrefix(h[1].content, t.body))
      BY <2>1, SystemIs DEF SystemTurn
    <2> QED BY <2>3, <2>4
  <1>20. Last(g).role = "assistant"
    BY <1>9, <1>16 DEF Last
  <1>21. Cardinality(Marks(q, "<|im_end|>")) = Len(g) - 1
    BY <1>10, <1>14, <1>17
  <1> QED BY <1>2, <1>9, <1>10, <1>12, <1>18, <1>19, <1>20, <1>21 DEF FoundIn

-----------------------------------------------------------------------------

(* W is a vocabulary in which all texts are written: no line, answer,      *)
(* content, tool or call has a marker in it, which the code does not       *)
(* see to.                                                                 *)
Unmarked(W) ==
    /\ Wording(W)
    /\ \A w \in WireMessages : Text(w.content) \in Seq(W) /\ w.calls \in Seq(CallOf(W))
    /\ ToolLists \subseteq Seq(ToolOf(W))
    /\ Lines \subseteq W /\ Answers \subseteq Seq(W)

(* A request with messages was sent as Render writes it. *)
PromptInv(W) ==
    /\ history \in Seq(Message(W))
    /\ pc = "generate" /\ request.ids = <<>> /\ request.raw = <<>> =>
          /\ request.messages \in Seq(Message(W)) /\ request.tools \in Seq(ToolOf(W))
          /\ \E think : sent.prompt = Render(request.messages, request.tools, think)

(* What is decoded is a conversation. *)
LEMMA DecodedMessages ==
    ASSUME NEW W, Unmarked(W), NEW n \in Nat, NEW wire \in [1 .. n -> WireMessages]
    PROVE  DecodeMessages(wire) \in Seq(Message(W))
  <1>1. PICK g, S : g = DecodeMessages(wire) /\ S = Message(W)
    OBVIOUS
  <1>2. g = [k \in 1 .. n |-> [role |-> wire[k].role, content |-> Text(wire[k].content),
                               calls |-> wire[k].calls]]
    BY <1>1 DEF DecodeMessages
  <1>3. ASSUME NEW k \in 1 .. n PROVE g[k] \in S
    <2>1. PICK w, c : w = wire[k] /\ c = Text(w.content)
      OBVIOUS
    <2>2. w \in WireMessages /\ c \in Seq(W) /\ w.calls \in Seq(CallOf(W)) /\ w.role \in Role
      BY <2>1 DEF Unmarked, Role
    <2>3. g[k] = [role |-> w.role, content |-> c, calls |-> w.calls]
      BY <2>1, <1>2
    <2> QED BY <2>2, <2>3, <1>1 DEF Message
  <1>4. g = [k \in 1 .. n |-> g[k]]
    BY <1>2
  <1>5. g \in Seq(S)
    BY <1>3, <1>4, MapIsSeq
  <1> QED BY <1>1, <1>5

(* A request made of messages. *)
LEMMA GeneratesPrompt ==
    ASSUME NEW W, NEW msgs \in Seq(Message(W)), NEW tools \in Seq(ToolOf(W)), NEW think, NEW ignore,
           Generate(ChatRequest(msgs, tools, think, ignore))
    PROVE  /\ request'.messages \in Seq(Message(W)) /\ request'.tools \in Seq(ToolOf(W))
           /\ \E v : sent'.prompt = Render(request'.messages, request'.tools, v)
  <1>1. PICK r : r = ChatRequest(msgs, tools, think, ignore)
    OBVIOUS
  <1>2. /\ r.ids = <<>> /\ r.raw = <<>> /\ r.messages = msgs /\ r.tools = tools /\ r.think = think
    BY <1>1 DEF ChatRequest, NoRequest
  <1>3. request' = r /\ sent' = BuildRequest(r)
    BY <1>1 DEF Generate
  <1>4. sent'.prompt = Render(msgs, tools, think)
    BY <1>2, <1>3 DEF BuildRequest
  <1> QED BY <1>2, <1>3, <1>4

(* PromptReadsBack for any messages, tools, lines and answers without      *)
(* markers in them, any number of messages and turns: a reader of the      *)
(* prompt finds the conversation that Render was given.                    *)
THEOREM PromptsReadBack ==
    ASSUME NEW W, Unmarked(W)
    PROVE  Spec => []PromptReadsBack
  <1>1. Init => PromptInv(W)
    <2> SUFFICES ASSUME Init PROVE PromptInv(W)
      OBVIOUS
    <2>1. history = <<>> /\ pc = "read"
      BY DEF Init
    <2>2. \A S : <<>> \in Seq(S)
      OBVIOUS
    <2> QED BY <2>1, <2>2 DEF PromptInv
  <1>2. PromptInv(W) /\ [Next]_vars => PromptInv(W)'
    <2> SUFFICES ASSUME PromptInv(W), [Next]_vars PROVE PromptInv(W)'
      OBVIOUS
    <2>1. history \in Seq(Message(W))
      BY DEF PromptInv
    <2>2. ASSUME NEW msgs \in Seq(Message(W)), NEW tools \in Seq(ToolOf(W)), NEW think, NEW ignore,
                 Generate(ChatRequest(msgs, tools, think, ignore)), history' \in Seq(Message(W))
          PROVE  PromptInv(W)'
      <3>1. /\ request'.messages \in Seq(Message(W)) /\ request'.tools \in Seq(ToolOf(W))
            /\ \E v : sent'.prompt = Render(request'.messages, request'.tools, v)
        BY <2>2, GeneratesPrompt
      <3> QED BY <3>1, <2>2 DEF PromptInv
    <2>3. CASE ServeChat
      <3>1. PICK n \in 1 .. MaxMessages :
                \E wire \in [1 .. n -> WireMessages], tools \in ToolLists, ignore \in BOOLEAN :
                   Generate(ChatRequest(DecodeMessages(wire), tools, thinking, ignore))
        BY <2>3 DEF ServeChat
      <3>2. PICK wire \in [1 .. n -> WireMessages], tools \in ToolLists, ignore \in BOOLEAN :
                Generate(ChatRequest(DecodeMessages(wire), tools, thinking, ignore))
        BY <3>1
      <3>3. n \in Nat /\ tools \in Seq(ToolOf(W)) /\ history' = history
        BY <2>3 DEF Unmarked, ServeChat
      <3>4. DecodeMessages(wire) \in Seq(Message(W))
        BY <3>3, DecodedMessages
      <3> QED BY <3>2, <3>3, <3>4, <2>1, <2>2
    <2>4. CASE ServeCompletion
      <3>1. PICK p \in RawPrompts, ignore \in BOOLEAN : Generate(DecodeCompletion(p, ignore))
        BY <2>4 DEF ServeCompletion
      <3>2. PICK r : r = DecodeCompletion(p, ignore)
        OBVIOUS
      <3>3. r.messages = <<>> /\ r.tools = <<>>
        BY <3>2 DEF DecodeCompletion, NoRequest
      <3>4. request' = r /\ sent' = BuildRequest(r) /\ history' = history
        BY <3>1, <3>2, <2>4 DEF Generate, ServeCompletion
      <3>5. r.ids = <<>> /\ r.raw = <<>> => sent'.prompt = Render(r.messages, r.tools, r.think)
        BY <3>4 DEF BuildRequest
      <3>6. \A S : <<>> \in Seq(S)
        OBVIOUS
      <3> QED BY <3>3, <3>4, <3>5, <3>6, <2>1 DEF PromptInv
    <2>5. ASSUME NEW line \in Lines, Ask(line) PROVE PromptInv(W)'
      <3>1. PICK m, H, S : /\ m = [role |-> "user", content |-> <<line>>, calls |-> <<>>]
                           /\ S = Message(W) /\ H = Append(history, m)
        OBVIOUS
      <3>2. m \in S
        <4>1. line \in W
          BY DEF Unmarked
        <4>2. PICK c : c = <<line>>
          OBVIOUS
        <4>3. c \in Seq(W)
          BY <4>1, <4>2
        <4>4. <<>> \in Seq(CallOf(W))
          OBVIOUS
        <4> QED BY <4>2, <4>3, <4>4, <3>1 DEF Message, Role
      <3>3. H \in Seq(S)
        <4>1. history \in Seq(S)
          BY <2>1, <3>1
        <4> QED BY <4>1, <3>1, <3>2, AppendProperties
      <3>4. history' = H /\ Generate(ChatRequest(H, <<>>, thinking, FALSE))
        BY <2>5, <3>1 DEF Ask
      <3>5. <<>> \in Seq(ToolOf(W))
        OBVIOUS
      <3> QED BY <3>1, <3>3, <3>4, <3>5, <2>2
    <2>6. ASSUME NEW answer \in Answers, Answered(answer) PROVE PromptInv(W)'
      <3>1. PICK m, S : m = [role |-> "assistant", content |-> answer, calls |-> <<>>] /\ S = Message(W)
        OBVIOUS
      <3>2. m \in S
        <4>1. answer \in Seq(W)
          BY DEF Unmarked
        <4>2. <<>> \in Seq(CallOf(W))
          OBVIOUS
        <4> QED BY <4>1, <4>2, <3>1 DEF Message, Role
      <3>3. history' = Append(history, m) /\ pc' = "read"
        BY <2>6, <3>1 DEF Answered
      <3>4. Append(history, m) \in Seq(S)
        <4>1. history \in Seq(S)
          BY <2>1, <3>1
        <4> QED BY <4>1, <3>2, AppendProperties
      <3> QED BY <3>1, <3>3, <3>4 DEF PromptInv
    <2>7. CASE Failed
      <3>1. history' = Front(history) /\ pc' = "read"
        BY <2>7 DEF Failed
      <3>2. PICK S, H : S = Message(W) /\ H = history
        OBVIOUS
      <3>3. H \in Seq(S)
        BY <2>1, <3>2
      <3>4. SubSeq(H, 1, Len(H) - 1) \in Seq(S)
        BY <3>3
      <3> QED BY <3>1, <3>2, <3>4 DEF PromptInv, Front
    <2>8. CASE Reset
      <3>1. history' = <<>> /\ pc' = "read"
        BY <2>8 DEF Reset, Reading
      <3>2. \A S : <<>> \in Seq(S)
        OBVIOUS
      <3> QED BY <3>1, <3>2 DEF PromptInv
    <2>9. CASE Exit \/ ServeDone
      <3>1. history' = history /\ pc' # "generate"
        BY <2>9 DEF Exit, ServeDone
      <3> QED BY <3>1, <2>1 DEF PromptInv
    <2>10. ASSUME UNCHANGED <<history, pc, request, sent>> PROVE PromptInv(W)'
      BY <2>10 DEF PromptInv
    <2>11. ASSUME NEW on \in BOOLEAN, SetThinking(on) PROVE PromptInv(W)'
      BY <2>10, <2>11 DEF SetThinking
    <2>12. CASE UNCHANGED vars
      BY <2>10, <2>12 DEF vars
    <2> QED BY <2>3, <2>4, <2>5, <2>6, <2>7, <2>8, <2>9, <2>11, <2>12 DEF Next
  <1>3. PromptInv(W) => PromptReadsBack
    <2> SUFFICES ASSUME PromptInv(W), pc = "generate", request.ids = <<>>, request.raw = <<>>
                 PROVE  FoundIn(sent.prompt, request.messages, request.tools)
      BY DEF PromptReadsBack, FoundIn
    <2>1. PICK h, tools, think : /\ h = request.messages /\ tools = request.tools
                                 /\ sent.prompt = Render(h, tools, think)
      BY DEF PromptInv
    <2>2. h \in Seq(Message(W)) /\ tools \in Seq(ToolOf(W)) /\ Wording(W)
      BY <2>1 DEF PromptInv, Unmarked
    <2>3. FoundIn(Render(h, tools, think), h, tools)
      BY <2>2, RenderReadsBack
    <2> QED BY <2>1, <2>3
  <1> QED BY <1>1, <1>2, <1>3, PTL DEF Spec
=============================================================================
