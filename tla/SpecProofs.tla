----------------------------- MODULE SpecProofs -----------------------------
(***************************************************************************)
(* The turn loop and its speculation, for every model, prompt, context,    *)
(* chunk, n-gram and number of drafts: nothing is written past the end of  *)
(* the cache, the cache is the conversation, the mirror is the cache, and  *)
(* what is printed is what the plain greedy loop prints.                   *)
(*                                                                         *)
(* The program is taken to be started in one of the ways in which the last *)
(* three hold (StartsSafely); two runs show what happens in the others.    *)
(***************************************************************************)
EXTENDS SpecDecode, KvCacheProofs

(* Speculation answers one turn at a time, and the mirror serves one       *)
(* prompt at a time and no speculation.                                    *)
StartsSafely ==
    \A c \in Configs : /\ c.k = 0 \/ c.repeat
                       /\ c.mirror = "off" \/ (c.k = 0 /\ c.repeat)

-----------------------------------------------------------------------------
(* The invariant.                                                          *)

(* The token in place i of a text and what is committed after it, and the  *)
(* first n of these.                                                       *)
Nth(t, c, i) == IF i <= Len(t) THEN t[i] ELSE c[i - Len(t)]
Line(t, c, n) == [i \in 1..n |-> Nth(t, c, i)]

KindsInv ==
    /\ CacheKinds
    /\ logits \in Token
    /\ mirror \in [Places -> Token \cup {NoToken}]
    /\ packed \in Nat
    /\ mirrorIs \in {"none", "open", "refused"}
    /\ cfg \in Configs
    /\ phase \in {"idle", "prompt", "say", "feed", "over"}
    /\ turn \in Nat
    /\ prompt \in Seq(Token)
    /\ fed \in 0..Len(prompt)
    /\ text \in Seq(Token)
    /\ produced \in 0..NGen
    /\ pend \in Seq(Token)
    /\ hist \in Seq(Token)

(* Where s->pos is, and what the rows below it hold.                       *)
HeldInv ==
    /\ cfg.k = 0 => pend = <<>>
    /\ phase = "idle" => pos = Len(text)
    /\ phase = "prompt" => pos = Len(text) - Len(prompt) + fed
    /\ phase = "say" => pos = Len(text) + (IF pend = <<>> THEN 0 ELSE Len(pend) - 1)
    /\ phase = "feed" => pos = Len(text) + Len(pend) - 1
    /\ phase = "over" /\ cfg.k = 0 => pos = Len(text)
    /\ phase # "over" \/ cfg.k = 0 => \A i \in 1..pos : rows[i - 1] = Nth(text, pend, i)

(* A prompt ends the text, and fits what is left of the context.           *)
PromptInv ==
    phase = "prompt" =>
        /\ prompt # <<>>
        /\ Len(prompt) <= Len(text)
        /\ \A i \in 1..Len(prompt) : text[Len(text) - Len(prompt) + i] = prompt[i]
        /\ pos + (Len(prompt) - fed) < NCtx

(* What is decided is what the model says after all that is before it.     *)
GreedyInv ==
    /\ phase = "prompt" /\ fed > 0 => logits = Argmax(model, Line(text, pend, pos))
    /\ phase \in {"prompt", "say"} => produced < NGen
    /\ phase = "say" /\ pend = <<>> => logits = Argmax(model, text)
    /\ phase \in {"say", "feed"} =>
           \A j \in 1..Len(pend) :
               pend[j] = Argmax(model, Line(text, pend, Len(text) + j - 1))
    /\ phase = "over" => produced = NGen \/ Argmax(model, text) = Eog

(* The mirror has the beginning of the prompt, which with --repeat is the  *)
(* text's, and the chunks of a prompt leave no hole in it.                 *)
MirrorInv ==
    /\ cfg.mirror = "off" => mirrorIs = "none"
    /\ mirrorIs # "open" => packed = 0
    /\ packed <= Len(prompt)
    /\ \A p \in 0..(packed - 1) : mirror[p] = prompt[p + 1]
    /\ turn = 0 => prompt = <<>>
    /\ cfg.mirror # "off" =>
         /\ phase = "idle" => text = <<>>
         /\ phase = "prompt" => Len(text) = Len(prompt)
         /\ phase # "idle" => /\ Len(prompt) <= Len(text)
                              /\ \A i \in 1..Len(prompt) : text[i] = prompt[i]
         /\ ChunkDue /\ fed > 0 => mirrorIs # "none" \/ ~Wanted(cfg.mirror, Len(prompt))
         /\ ChunkDue /\ mirrorIs = "open" => fed <= packed

SpecInv == KindsInv /\ RowsFit /\ HeldInv /\ PromptInv /\ GreedyInv /\ MirrorInv

-----------------------------------------------------------------------------
(* Texts and what is committed after them.                                 *)

\* As much of the line as the text is long is the text.
LEMMA LineIsText ==
  ASSUME NEW t \in Seq(Token), NEW c
  PROVE  Line(t, c, Len(t)) = t
<1>1. Len(t) \in Nat /\ t \in [1..Len(t) -> Token]
  BY LenProperties
<1>2. Line(t, c, Len(t)) = [i \in 1..Len(t) |-> t[i]]
  BY <1>1 DEF Line, Nth
<1> QED
  BY <1>1, <1>2

\* What a row attends to is the line, where the rows hold it.
LEMMA AttendedIsLine ==
  ASSUME NEW store, NEW t, NEW c, NEW n \in Nat, n > 0,
         \A i \in 1..n : store[i - 1] = Nth(t, c, i)
  PROVE  Attended(store, n - 1) = Line(t, c, n)
<1>1. (n - 1) + 1 = n
  OBVIOUS
<1>2. Attended(store, n - 1) = [i \in 1..n |-> store[i - 1]]
  BY <1>1 DEF Attended
<1> QED
  BY <1>2 DEF Line

\* A printed token moves from what is committed to the text.
LEMMA PrintMoves ==
  ASSUME NEW t \in Seq(Token), NEW c \in Seq(Token), c # <<>>
  PROVE  /\ Append(t, Head(c)) \in Seq(Token) /\ Tail(c) \in Seq(Token)
         /\ Len(Append(t, Head(c))) = Len(t) + 1 /\ Len(Tail(c)) = Len(c) - 1
         /\ Len(c) >= 1
         /\ \A i \in 1..(Len(t) + Len(c)) :
                Nth(Append(t, Head(c)), Tail(c), i) = Nth(t, c, i)
<1>1. Head(c) = c[1] /\ Head(c) \in Token /\ Len(c) \in Nat /\ Len(c) >= 1
  BY HeadTailProperties, EmptySeq, LenProperties
<1>2. /\ Tail(c) \in Seq(Token) /\ Len(Tail(c)) = Len(c) - 1
      /\ \A i \in 1..(Len(c) - 1) : Tail(c)[i] = c[i + 1]
  BY HeadTailProperties
<1>3. /\ Append(t, Head(c)) \in Seq(Token) /\ Len(Append(t, Head(c))) = Len(t) + 1
      /\ \A i \in 1..Len(t) : Append(t, Head(c))[i] = t[i]
      /\ Append(t, Head(c))[Len(t) + 1] = Head(c)
  BY <1>1, AppendProperties
<1>4. Len(t) \in Nat
  BY LenProperties
<1>5. ASSUME NEW i \in 1..(Len(t) + Len(c))
      PROVE  Nth(Append(t, Head(c)), Tail(c), i) = Nth(t, c, i)
  <2>1. CASE i <= Len(t)
    BY <1>1, <1>3, <1>4, <2>1 DEF Nth
  <2>2. CASE i = Len(t) + 1
    BY <1>1, <1>3, <1>4, <2>2 DEF Nth
  <2>3. CASE i > Len(t) + 1
    <3>1. i - (Len(t) + 1) \in 1..(Len(c) - 1) /\ (i - (Len(t) + 1)) + 1 = i - Len(t)
      BY <1>1, <1>4, <2>3
    <3>2. Tail(c)[i - (Len(t) + 1)] = c[i - Len(t)]
      BY <1>2, <3>1
    <3> QED
      BY <1>1, <1>3, <1>4, <2>3, <3>2 DEF Nth
  <2> QED
    BY <1>1, <1>4, <2>1, <2>2, <2>3
<1> QED
  BY <1>1, <1>2, <1>3, <1>5

-----------------------------------------------------------------------------
(* The chunks of a prompt.                                                 *)

\* What prefill_width returns: a number, no more than what is left, and a width
\* that can be batched where both the tokens left and the cap allow one.
LEMMA PrefillWidthFacts ==
  ASSUME NEW rem \in Nat, NEW cap \in Nat
  PROVE  /\ PrefillWidth(rem, cap) \in Nat /\ PrefillWidth(rem, cap) <= rem
         /\ PrefillWidth(rem, cap) >= 2 <=> (rem >= 2 /\ cap >= 2)
<1> DEFINE most == Least(rem, cap)
           w == Even(most)
<1>1. /\ most \in Nat /\ most <= rem
      /\ most >= 2 <=> (rem >= 2 /\ cap >= 2)
  BY DEF Least
<1>2. PrefillWidth(rem, cap) = IF w \in {8, 10} /\ ~cfg.rail THEN w - 4 ELSE w
  BY DEF PrefillWidth
<1>3. w = (most \div 2) * 2
  BY DEF Even
<1> HIDE DEF most, w
<1>4. \A m \in Nat : /\ (m \div 2) * 2 \in Nat /\ (m \div 2) * 2 <= m
                     /\ (m \div 2) * 2 >= 2 <=> m >= 2
  OBVIOUS
<1>5. w \in Nat /\ w <= most /\ (w >= 2 <=> most >= 2)
  BY <1>1, <1>3, <1>4
<1>6. CASE w \in {8, 10} /\ ~cfg.rail
  BY <1>1, <1>2, <1>5, <1>6
<1>7. CASE ~(w \in {8, 10} /\ ~cfg.rail)
  BY <1>1, <1>2, <1>5, <1>7
<1> QED
  BY <1>6, <1>7

\* However the chunk is asked for, capped or widened, it can be batched.
LEMMA LimitFacts ==
  ASSUME NEW n \in Nat
  PROVE  Limit(n) \in Nat /\ Limit(n) >= 2
<1>1. ChunkOf(n) \in Nat
  BY SpecAssumption DEF ChunkOf, Least
<1> DEFINE chunk == IF ChunkOf(n) < 2 THEN 2 ELSE ChunkOf(n)
<1>2. chunk \in Nat /\ chunk >= 2
  BY <1>1
<1>3. Limit(n) = PrefillWidth(chunk, chunk)
  BY DEF Limit
<1> HIDE DEF chunk
<1> QED
  BY <1>2, <1>3, PrefillWidthFacts

\* A chunk is no more than what is left, and one is due while two tokens are.
LEMMA WidthFacts ==
  ASSUME KindsInv, NEW rem \in Nat
  PROVE  /\ Width(rem) \in Nat /\ Width(rem) <= rem
         /\ Width(rem) >= 2 <=> rem >= 2
<1>1. Len(prompt) \in Nat
  BY LenProperties DEF KindsInv
<1>2. Limit(Len(prompt)) \in Nat /\ Limit(Len(prompt)) >= 2
  BY <1>1, LimitFacts
<1> QED
  BY <1>2, PrefillWidthFacts DEF Width

\* The same prompt under the same options has the same widths.
LEMMA WidthKept ==
  ASSUME UNCHANGED <<cfg, prompt>>
  PROVE  (Width(Len(prompt) - fed))' = Width(Len(prompt) - fed')
BY DEF Width, Limit, ChunkOf, PrefillWidth, Even, Least

\* The next chunk is the prompt's, from where it has been fed.
LEMMA ChunkFacts ==
  ASSUME KindsInv, ChunkDue
  PROVE  /\ NextChunk \in Seq(Token) /\ Len(NextChunk) \in Nat /\ Len(NextChunk) >= 2
         /\ fed + Len(NextChunk) <= Len(prompt)
         /\ \A i \in 1..Len(NextChunk) : NextChunk[i] = prompt[fed + i]
<1> DEFINE w == Width(Len(prompt) - fed)
<1>1. prompt \in Seq(Token) /\ Len(prompt) \in Nat /\ fed \in Nat /\ fed <= Len(prompt)
  BY LenProperties DEF KindsInv
<1>2. w \in Nat /\ w <= Len(prompt) - fed /\ w >= 2
  BY <1>1, WidthFacts DEF ChunkDue
<1>3. NextChunk = SubSeq(prompt, fed + 1, fed + w)
  BY DEF NextChunk
<1> HIDE DEF w
<1>4. \A i \in (fed + 1)..(fed + w) : prompt[i] \in Token
  BY <1>1, <1>2, ElementOfSeq
<1>5. fed + 1 \in Int /\ fed + w \in Int /\ (fed + w) - (fed + 1) + 1 = w /\ fed + 1 <= fed + w
  BY <1>1, <1>2
<1>6. /\ NextChunk \in Seq(Token) /\ Len(NextChunk) = w
      /\ \A i \in 1..w : NextChunk[i] = prompt[(fed + 1) + i - 1]
  BY <1>3, <1>4, <1>5, SubSeqProperties
<1>7. \A i \in 1..w : (fed + 1) + i - 1 = fed + i
  BY <1>1, <1>2
<1> QED
  BY <1>1, <1>2, <1>6, <1>7

-----------------------------------------------------------------------------
(* A pass of llama_spec_step.                                              *)

\* The number of drafts is one, and a mirror is off, auto or on.
LEMMA ConfigFacts ==
  ASSUME NEW c \in Configs
  PROVE  c.k \in Nat /\ c.repeat \in BOOLEAN /\ c.junk \in BOOLEAN
<1>1. c \in ConfigType
  BY SpecAssumption
<1> QED
  BY <1>1 DEF ConfigType

\* The token to be fed is the text's last.
LEMMA TokFacts ==
  ASSUME KindsInv, HeldInv, PassDue
  PROVE  /\ Len(text) \in Nat /\ Len(text) >= 1 /\ pos = Len(text) - 1
         /\ Tok = text[Len(text)] /\ Tok \in Token
<1>1. Len(text) \in Nat /\ pos \in Nat /\ Len(pend) = 0 /\ pos = Len(text) + Len(pend) - 1
  BY LenProperties, EmptySeq DEF KindsInv, CacheKinds, HeldInv, PassDue
<1>2. Len(text) >= 1 /\ pos = Len(text) - 1
  BY <1>1
<1>3. Tok = text[Len(text)] /\ text \in Seq(Token)
  BY DEF Tok, KindsInv
<1> QED
  BY <1>1, <1>2, <1>3, ElementOfSeq

\* The history stays one of tokens.
LEMMA PushedFacts ==
  ASSUME NEW h \in Seq(Token), NEW toks \in Seq(Token)
  PROVE  Pushed(h, toks) \in Seq(Token)
<1>1. h \o toks \in Seq(Token) /\ Len(h \o toks) = Len(h) + Len(toks)
  BY ConcatProperties
<1>2. Len(h) \in Nat /\ Len(toks) \in Nat
  BY LenProperties
<1> DEFINE most == Least(Len(h) + Len(toks), NCtx)
<1>3. most \in Nat /\ most <= Len(h) + Len(toks)
  BY <1>2, KvAssumption DEF Least
<1>4. Pushed(h, toks) = SubSeq(h \o toks, 1, most)
  BY DEF Pushed
<1> HIDE DEF most
<1>5. \A i \in 1..most : (h \o toks)[i] \in Token
  BY <1>1, <1>2, <1>3, ElementOfSeq
<1> QED
  BY <1>3, <1>4, <1>5, SubSeqProperties

\* What the drafter finds in a history is a piece of it.
LEMMA LookupFacts ==
  ASSUME NEW h \in Seq(Token), NEW k \in Nat
  PROVE  Lookup(h, k) \in Seq(Token)
<1> DEFINE seen == {ng \in 1..NGram : Occurrences(h, ng) # {}}
           from == Max(seen) + Max(Occurrences(h, Max(seen)))
<1>1. Len(h) \in Nat
  BY LenProperties
<1>2. CASE seen = {}
  BY <1>2, EmptySeq DEF Lookup
<1>3. CASE seen # {}
  <2>1. Max(seen) \in seen
    <3>1. NGram \in Nat /\ seen \in SUBSET (0..NGram)
      BY SpecAssumption
    <3> HIDE DEF seen
    <3> QED
      BY <1>3, <3>1, MaxOfBounded
  <2> DEFINE g == Max(seen)
             at == Occurrences(h, g)
  <2>2. g \in Nat /\ g >= 1 /\ at # {}
    <3>1. g \in seen
      BY <2>1
    <3>2. g \in 1..NGram /\ Occurrences(h, g) # {}
      BY <3>1
    <3> HIDE DEF g
    <3> QED
      BY <3>2, SpecAssumption
  <2>3. from = g + Max(at) /\ Lookup(h, k) = SubSeq(h, from + 1, Least(from + k, Len(h)))
    BY <1>3 DEF Lookup
  <2> HIDE DEF g
  <2>4. \A i \in at : i \in 0..(Len(h) - g - 1)
    BY DEF Occurrences
  <2>5. Len(h) - g - 1 \in Nat
    <3>1. PICK i \in at : TRUE
      BY <2>2
    <3> HIDE DEF at
    <3> QED
      BY <1>1, <2>2, <2>4, <3>1
  <2> HIDE DEF at
  <2>6. at \in SUBSET (0..(Len(h) - g - 1))
    BY <2>4
  <2>7. Max(at) \in Nat
    <3>1. Max(at) \in at
      BY <2>2, <2>5, <2>6, MaxOfBounded
    <3>2. Max(at) \in 0..(Len(h) - g - 1)
      BY <2>6, <3>1
    <3> QED
      BY <2>5, <3>2
  <2> HIDE DEF from, seen
  <2>8. from \in Nat
    BY <2>2, <2>3, <2>7
  <2> DEFINE to == Least(from + k, Len(h))
  <2>9. to \in Nat /\ to <= Len(h)
    BY <1>1, <2>8 DEF Least
  <2>10. Lookup(h, k) = SubSeq(h, from + 1, to)
    BY <2>3
  <2> HIDE DEF to
  <2>11. \A i \in (from + 1)..to : h[i] \in Token
    BY <1>1, <2>8, <2>9, ElementOfSeq
  <2> QED
    BY <2>8, <2>9, <2>10, <2>11, SubSeqProperties
<1> QED
  BY <1>2, <1>3

\* A draft is of tokens, and its pass fits the context with the padding row.
LEMMA DraftFacts ==
  ASSUME KindsInv, HeldInv, PassDue, NEW d \in Drafts, d # <<>>
  PROVE  /\ d \in Seq(Token) /\ Len(d) \in Nat /\ Len(d) >= 1
         /\ pos + Len(d) + 2 <= NCtx
<1> DEFINE h == Pushed(hist, <<Tok>>)
<1>1. h \in Seq(Token)
  <2>1. <<Tok>> \in Seq(Token)
    BY TokFacts
  <2> QED
    BY <2>1, PushedFacts DEF KindsInv
<1>2. PICK x \in Drafted(h) : d = Fitting(x)
  BY DEF Drafts
<1>3. cfg.k \in Nat
  BY ConfigFacts DEF KindsInv
<1>4. x \in Seq(Token)
  <2> HIDE DEF h
  <2>1. CASE off
    BY <1>2, <2>1, EmptySeq DEF Drafted
  <2>2. CASE ~off /\ cfg.junk
    <3>1. x \in [1..cfg.k -> Token]
      BY <1>2, <2>2 DEF Drafted
    <3> QED
      BY <1>3, <3>1, SeqDef
  <2>3. CASE ~off /\ ~cfg.junk
    BY <1>1, <1>2, <1>3, <2>3, LookupFacts DEF Drafted
  <2> QED
    BY <2>1, <2>2, <2>3
<1>5. d = x /\ ~(pos + 1 + Len(d) + 1 > NCtx)
  BY <1>2 DEF Fitting
<1>6. Len(d) \in Nat /\ Len(d) # 0 /\ pos \in Nat /\ NCtx \in Nat
  BY <1>4, <1>5, LenProperties, EmptySeq, KvAssumption DEF KindsInv, CacheKinds
<1> QED
  BY <1>4, <1>5, <1>6

\* The rows of a pass: the token, the drafts, and at most one more.
LEMMA PassRowsFacts ==
  ASSUME NEW d \in Seq(Token), Len(d) >= 1, Tok \in Token
  PROVE  /\ PassRows(d) \in Seq(Token)
         /\ Len(PassRows(d)) \in {Len(d) + 1, Len(d) + 2}
         /\ PassRows(d)[1] = Tok
         /\ \A j \in 1..Len(d) : PassRows(d)[1 + j] = d[j]
<1> DEFINE pad == IF Len(d) % 2 = 0 THEN <<d[Len(d)]>> ELSE <<>>
           unpadded == <<Tok>> \o d
<1>1. Len(d) \in Nat
  BY LenProperties
<1>2. d[Len(d)] \in Token
  BY <1>1, ElementOfSeq
<1>3. pad \in Seq(Token) /\ Len(pad) \in {0, 1}
  BY <1>2
<1>4. <<Tok>> \in Seq(Token) /\ Len(<<Tok>>) = 1 /\ <<Tok>>[1] = Tok
  OBVIOUS
<1>5. /\ unpadded \in Seq(Token) /\ Len(unpadded) = 1 + Len(d)
      /\ \A i \in 1..(1 + Len(d)) : unpadded[i] = IF i <= 1 THEN <<Tok>>[i] ELSE d[i - 1]
  BY <1>4, ConcatProperties
<1>6. PassRows(d) = unpadded \o pad
  BY DEF PassRows
<1> HIDE DEF unpadded, pad
<1>7. /\ PassRows(d) \in Seq(Token) /\ Len(PassRows(d)) = Len(unpadded) + Len(pad)
      /\ \A i \in 1..(Len(unpadded) + Len(pad)) :
             PassRows(d)[i] = IF i <= Len(unpadded) THEN unpadded[i] ELSE pad[i - Len(unpadded)]
  <2>1. /\ unpadded \o pad \in Seq(Token) /\ Len(unpadded \o pad) = Len(unpadded) + Len(pad)
        /\ \A i \in 1..(Len(unpadded) + Len(pad)) :
               (unpadded \o pad)[i] = IF i <= Len(unpadded) THEN unpadded[i] ELSE pad[i - Len(unpadded)]
    <3>1. unpadded \in Seq(Token) /\ pad \in Seq(Token)
      BY <1>3, <1>5
    <3> QED
      BY <3>1, ConcatProperties
  <2> QED
    BY <1>6, <2>1
<1>8. \A i \in 1..(1 + Len(d)) : PassRows(d)[i] = unpadded[i]
  BY <1>1, <1>3, <1>5, <1>7
<1>9. Len(PassRows(d)) \in {Len(d) + 1, Len(d) + 2}
  <2>1. Len(PassRows(d)) = (1 + Len(d)) + Len(pad)
    BY <1>5, <1>7
  <2>2. CASE Len(pad) = 0
    BY <1>1, <2>1, <2>2
  <2>3. CASE Len(pad) = 1
    BY <1>1, <2>1, <2>3
  <2> QED
    BY <1>3, <2>2, <2>3
<1>10. PassRows(d)[1] = Tok
  BY <1>1, <1>4, <1>5, <1>8
<1>11. ASSUME NEW j \in 1..Len(d)
       PROVE  PassRows(d)[1 + j] = d[j]
  <2>1. 1 + j \in 1..(1 + Len(d)) /\ ~(1 + j <= 1) /\ (1 + j) - 1 = j
    BY <1>1
  <2> QED
    BY <1>5, <1>8, <2>1
<1> QED
  BY <1>7, <1>9, <1>10, <1>11

\* What is accepted of a draft agrees with the model.
LEMMA AcceptedFacts ==
  ASSUME NEW store, NEW d \in Seq(Token)
  PROVE  /\ Accepted(store, d) \in 0..Len(d)
         /\ \A j \in 1..Accepted(store, d) : d[j] = After(store, pos + j - 1)
<1>1. Len(d) \in Nat
  BY LenProperties
<1>2. Matching(store, d) \in SUBSET (0..Len(d))
  BY DEF Matching
<1>3. 0 \in Matching(store, d)
  BY <1>1 DEF Matching
<1>4. Accepted(store, d) \in Matching(store, d)
  BY <1>1, <1>2, <1>3, MaxOfBounded DEF Accepted
<1> QED
  BY <1>4 DEF Matching

\* What a pass commits: the accepted drafts, and the model's own next token.
LEMMA CommitFacts ==
  ASSUME ModelsAnswer, KindsInv, HeldInv, PassDue, NEW d \in Drafts, d # <<>>,
         NEW store \in [Places -> Token \cup {NoToken}], Commit(store, d)
  PROVE  /\ Accepted(store, d) \in 0..Len(d) /\ Len(d) \in Nat
         /\ pos' = pos + 1 + Accepted(store, d) /\ pos' \in 0..NCtx
         /\ pend' \in Seq(Token) /\ Len(pend') = Accepted(store, d) + 1
         /\ \A j \in 1..Accepted(store, d) :
                pend'[j] = d[j] /\ pend'[j] = After(store, pos + j - 1)
         /\ pend'[Accepted(store, d) + 1] = After(store, pos + Accepted(store, d))
         /\ hist' \in Seq(Token)
<1> DEFINE a == Accepted(store, d)
           good == SubSeq(d, 1, a)
           next == After(store, pos + a)
<1>1. /\ d \in Seq(Token) /\ Len(d) \in Nat /\ Len(d) >= 1
      /\ pos + Len(d) + 2 <= NCtx /\ pos \in Nat /\ NCtx \in Nat
  BY DraftFacts, KvAssumption DEF KindsInv, CacheKinds
<1>2. a \in 0..Len(d) /\ \A j \in 1..a : d[j] = After(store, pos + j - 1)
  BY <1>1, AcceptedFacts
<1>3. /\ pos' = pos + 1 + a /\ pend' = Append(good, next)
      /\ hist' = Pushed(hist, <<Tok>> \o good)
  BY DEF Commit
<1>4. next \in Token
  <2>1. pos + a \in Nat /\ pos + a < NCtx
    BY <1>1, <1>2
  <2> QED
    BY <2>1, AfterAnswers DEF KindsInv, CacheKinds
<1> HIDE DEF a
<1>5. \A i \in 1..a : d[i] \in Token
  BY <1>1, <1>2, ElementOfSeq
<1>6. /\ good \in Seq(Token) /\ Len(good) = a
      /\ \A i \in 1..a : good[i] = d[i]
  <2>1. a \in Int /\ a - 1 + 1 = a
    BY <1>1, <1>2
  <2>2. /\ good \in Seq(Token) /\ Len(good) = (IF 1 <= a THEN a - 1 + 1 ELSE 0)
        /\ \A i \in 1..(a - 1 + 1) : good[i] = d[1 + i - 1]
    BY <1>5, <2>1, SubSeqProperties
  <2> QED
    BY <1>1, <1>2, <2>1, <2>2
<1> HIDE DEF good, next
<1>7. /\ pend' \in Seq(Token) /\ Len(pend') = a + 1
      /\ \A i \in 1..a : pend'[i] = good[i]
      /\ pend'[a + 1] = next
  BY <1>3, <1>4, <1>6, AppendProperties
<1>8. hist' \in Seq(Token)
  <2>1. <<Tok>> \in Seq(Token)
    BY TokFacts
  <2>2. <<Tok>> \o good \in Seq(Token)
    BY <1>6, <2>1, ConcatProperties
  <2> QED
    BY <1>3, <2>2, PushedFacts DEF KindsInv
<1>9. pos' \in 0..NCtx
  BY <1>1, <1>2, <1>3
<1> QED
  BY <1>1, <1>2, <1>3, <1>6, <1>7, <1>8, <1>9 DEF a, next

-----------------------------------------------------------------------------
(* Every step keeps the kinds, and writes inside the context.              *)

\* One token fed keeps the kinds of the cache, and its end clear.
LEMMA ForwardKinds ==
  ASSUME ModelsAnswer, KindsInv, RowsFit, NEW tok \in Token, Forward(tok)
  PROVE  /\ CacheKinds' /\ logits' \in Token /\ RowsFit'
         /\ UNCHANGED <<mirror, packed, mirrorIs>>
<1>1. /\ rows' \in [Places -> Token \cup {NoToken}]
      /\ pos < NCtx /\ pos' \in 0..NCtx
      /\ \A p \in Places : p # pos => rows'[p] = rows[p]
      /\ logits' \in Token /\ model' = model
  BY ForwardFacts DEF KindsInv
<1>2. UNCHANGED <<mirror, packed, mirrorIs>>
  BY DEF Forward
<1>3. CacheKinds'
  BY <1>1 DEF KindsInv, CacheKinds
<1>4. \A p \in Places : p >= NCtx => p # pos
  BY <1>1, KvAssumption DEF Places, KindsInv, CacheKinds
<1>5. RowsFit'
  BY <1>1, <1>2, <1>4 DEF RowsFit
<1> QED
  BY <1>1, <1>2, <1>3, <1>5

\* A batch that ends in the context keeps them too, and writes only its own rows.
LEMMA BatchKinds ==
  ASSUME KindsInv, RowsFit, NEW toks \in Seq(Token), pos + Len(toks) <= NCtx,
         NEW mode, NEW total, BatchLayers(toks, mode, total)
  PROVE  /\ model' = model
         /\ rows' \in [Places -> Token \cup {NoToken}]
         /\ mirror' \in [Places -> Token \cup {NoToken}]
         /\ packed' \in Nat /\ mirrorIs' \in {"none", "open", "refused"}
         /\ RowsFit'
         /\ \A q \in Places : q < pos \/ q >= pos + Len(toks) => rows'[q] = rows[q]
         /\ \A i \in 1..Len(toks) : rows'[pos + i - 1] = toks[i]
<1>1. /\ model' = model
      /\ rows' = Written(rows, toks, pos)
      /\ mirror' \in [Places -> Token \cup {NoToken}]
      /\ packed' \in Nat /\ mirrorIs' \in {"none", "open", "refused"}
      /\ mirror' = mirror \/ mirror' = Written(mirror, toks, pos)
  BY BatchFacts DEF KindsInv
<1>2. pos \in Nat /\ Len(toks) \in Nat /\ NCtx \in Nat
  BY LenProperties, KvAssumption DEF KindsInv, CacheKinds
<1>3. /\ rows' \in [Places -> Token \cup {NoToken}]
      /\ \A q \in Places : q < pos \/ q >= pos + Len(toks) => rows'[q] = rows[q]
      /\ \A i \in 1..Len(toks) : rows'[pos + i - 1] = toks[i]
  <2> DEFINE w == Written(rows, toks, pos)
  <2>1. rows \in [Places -> Token \cup {NoToken}]
    BY DEF KindsInv, CacheKinds
  <2>2. /\ w \in [Places -> Token \cup {NoToken}]
        /\ \A q \in Places : q < pos \/ q >= pos + Len(toks) => w[q] = rows[q]
        /\ \A i \in 1..Len(toks) : w[pos + i - 1] = toks[i]
    BY <1>2, <2>1, WrittenFacts
  <2>3. rows' = w
    BY <1>1
  <2> HIDE DEF w
  <2> QED
    BY <2>2, <2>3
<1>4. \A q \in Places : q >= pos + Len(toks) => mirror'[q] = mirror[q]
  <2> DEFINE w == Written(mirror, toks, pos)
  <2>1. mirror \in [Places -> Token \cup {NoToken}]
    BY DEF KindsInv
  <2>2. \A q \in Places : q < pos \/ q >= pos + Len(toks) => w[q] = mirror[q]
    BY <1>2, <2>1, WrittenFacts
  <2>3. mirror' = mirror \/ mirror' = w
    BY <1>1
  <2> HIDE DEF w
  <2> QED
    BY <2>2, <2>3
<1>5. \A q \in Places : q >= NCtx => q >= pos + Len(toks)
  BY <1>2 DEF Places
<1>6. RowsFit'
  BY <1>3, <1>4, <1>5 DEF RowsFit
<1> QED
  BY <1>1, <1>3, <1>6

\* Whatever a batch attends over is a store of tokens.
LEMMA ReadKinds ==
  ASSUME rows' \in [Places -> Token \cup {NoToken}],
         mirror' \in [Places -> Token \cup {NoToken}],
         NEW to, NEW store \in Read(to)
  PROVE  store \in [Places -> Token \cup {NoToken}]
BY DEF Read

\* A chunk ends inside the context.
LEMMA ChunkRoom ==
  ASSUME KindsInv, PromptInv, ChunkDue
  PROVE  /\ pos + Len(NextChunk) < NCtx /\ pos + Len(NextChunk) \in 0..NCtx
         /\ pos + Len(NextChunk) >= 2
<1>1. /\ Len(NextChunk) \in Nat /\ Len(NextChunk) >= 2 /\ fed + Len(NextChunk) <= Len(prompt)
  BY ChunkFacts
<1>2. pos + (Len(prompt) - fed) < NCtx
  BY DEF PromptInv, ChunkDue
<1>3. pos \in Nat /\ fed \in Nat /\ Len(prompt) \in Nat /\ NCtx \in Nat
  BY LenProperties, KvAssumption DEF KindsInv, CacheKinds
<1> QED
  BY <1>1, <1>2, <1>3

\* The rows of a pass fit the context.
LEMMA PassRoom ==
  ASSUME KindsInv, HeldInv, PassDue, NEW d \in Drafts, d # <<>>
  PROVE  /\ PassRows(d) \in Seq(Token) /\ pos + Len(PassRows(d)) <= NCtx
         /\ Len(PassRows(d)) \in Nat /\ Len(PassRows(d)) >= Len(d) + 1
         /\ PassRows(d)[1] = Tok
         /\ \A j \in 1..Len(d) : PassRows(d)[1 + j] = d[j]
<1>1. /\ d \in Seq(Token) /\ Len(d) \in Nat /\ Len(d) >= 1
      /\ pos + Len(d) + 2 <= NCtx /\ pos \in Nat /\ NCtx \in Nat
  BY DraftFacts, KvAssumption DEF KindsInv, CacheKinds
<1>2. /\ PassRows(d) \in Seq(Token)
      /\ Len(PassRows(d)) \in {Len(d) + 1, Len(d) + 2}
      /\ PassRows(d)[1] = Tok
      /\ \A j \in 1..Len(d) : PassRows(d)[1 + j] = d[j]
  BY <1>1, TokFacts, PassRowsFacts
<1> QED
  BY <1>1, <1>2

\* What a turn of the loop prints is a token.
LEMMA DecidedFacts ==
  ASSUME KindsInv
  PROVE  Decided \in Token
BY HeadTailProperties DEF Decided, KindsInv

\* Beginning a turn keeps the kinds, for the prompt is of tokens.
LEMMA BeginTurnKinds ==
  ASSUME KindsInv, RowsFit, NEW ids \in Prompts, BeginTurn(ids)
  PROVE  KindsInv' /\ RowsFit'
<1>1. UNCHANGED <<model, rows, pos, logits, mirror, packed, mirrorIs, cfg, pend, hist>>
  BY DEF BeginTurn, cacheVars
<1>2. /\ phase' = "prompt" /\ turn' = turn + 1 /\ prompt' = ids /\ fed' = 0
      /\ text' = text \o ids /\ produced' = 0
  BY DEF BeginTurn
<1>3. ids \in Seq(Token)
  BY SpecAssumption
<1>4. text' \in Seq(Token)
  BY <1>2, <1>3, ConcatProperties DEF KindsInv
<1>5. fed' \in 0..Len(prompt')
  BY <1>2, <1>3, LenProperties
<1>6. turn' \in Nat /\ produced' \in 0..NGen
  BY <1>2, SpecAssumption DEF KindsInv
<1> QED
  BY <1>1, <1>2, <1>3, <1>4, <1>5, <1>6 DEF KindsInv, CacheKinds, RowsFit

\* So does a chunk of the prompt, for it ends in the context.
LEMMA PrefillChunkKinds ==
  ASSUME ModelsAnswer, KindsInv, RowsFit, PromptInv, PrefillChunk
  PROVE  KindsInv' /\ RowsFit'
<1>1. /\ ChunkDue /\ BatchLayers(NextChunk, cfg.mirror, Len(prompt))
      /\ pos' = pos + Len(NextChunk) /\ fed' = fed + Len(NextChunk)
      /\ UNCHANGED <<cfg, phase, turn, prompt, text, produced, pend, hist>>
  BY DEF PrefillChunk, PrefillBatch
<1>2. PICK store \in Read(pos') : logits' = After(store, pos' - 1)
  BY DEF PrefillChunk, PrefillBatch
<1>3. /\ NextChunk \in Seq(Token) /\ Len(NextChunk) \in Nat
      /\ fed + Len(NextChunk) <= Len(prompt)
      /\ pos + Len(NextChunk) < NCtx /\ pos' \in 0..NCtx /\ pos' >= 2
  BY <1>1, ChunkFacts, ChunkRoom
<1>4. pos + Len(NextChunk) <= NCtx /\ pos' - 1 \in Nat /\ pos' - 1 < NCtx
  BY <1>1, <1>3, KvAssumption
<1>5. /\ model' = model
      /\ rows' \in [Places -> Token \cup {NoToken}]
      /\ mirror' \in [Places -> Token \cup {NoToken}]
      /\ packed' \in Nat /\ mirrorIs' \in {"none", "open", "refused"}
      /\ RowsFit'
  BY <1>1, <1>3, <1>4, BatchKinds
<1>6. logits' \in Token
  BY <1>2, <1>4, <1>5, ReadKinds, AfterAnswers DEF KindsInv, CacheKinds
<1>7. fed' \in 0..Len(prompt')
  BY <1>1, <1>3, LenProperties DEF KindsInv
<1> QED
  BY <1>1, <1>3, <1>5, <1>6, <1>7 DEF KindsInv, CacheKinds

\* So does one that is refused, whether or not it has written rows.
LEMMA ChunkRefusedKinds ==
  ASSUME KindsInv, RowsFit, PromptInv, ChunkRefused
  PROVE  KindsInv' /\ RowsFit'
<1>1. /\ ChunkDue /\ BatchRefused(NextChunk, cfg.mirror, Len(prompt))
      /\ UNCHANGED <<cfg, phase, turn, prompt, fed, text, produced, pend, hist>>
  BY DEF ChunkRefused
<1>2. CASE UNCHANGED cacheVars
  BY <1>1, <1>2 DEF cacheVars, KindsInv, CacheKinds, RowsFit
<1>3. CASE BatchLayers(NextChunk, cfg.mirror, Len(prompt)) /\ UNCHANGED <<pos, logits>>
  <2>1. NextChunk \in Seq(Token) /\ pos + Len(NextChunk) <= NCtx
    BY <1>1, ChunkFacts, ChunkRoom, KvAssumption
  <2>2. /\ model' = model
        /\ rows' \in [Places -> Token \cup {NoToken}]
        /\ mirror' \in [Places -> Token \cup {NoToken}]
        /\ packed' \in Nat /\ mirrorIs' \in {"none", "open", "refused"}
        /\ RowsFit'
    BY <1>3, <2>1, BatchKinds
  <2> QED
    BY <1>1, <1>3, <2>2 DEF KindsInv, CacheKinds
<1> QED
  BY <1>1, <1>2, <1>3 DEF BatchRefused

\* So does a token of the prompt.
LEMMA PromptTokenKinds ==
  ASSUME ModelsAnswer, KindsInv, RowsFit, PromptToken
  PROVE  KindsInv' /\ RowsFit' /\ prompt[fed + 1] \in Token
<1>1. /\ fed < Len(prompt) /\ Forward(prompt[fed + 1]) /\ fed' = fed + 1
      /\ UNCHANGED <<cfg, phase, turn, prompt, text, produced, pend, hist>>
  BY DEF PromptToken
<1>2. fed \in Nat /\ Len(prompt) \in Nat /\ prompt \in Seq(Token)
  BY LenProperties DEF KindsInv
<1>3. prompt[fed + 1] \in Token
  BY <1>1, <1>2, ElementOfSeq
<1>4. /\ CacheKinds' /\ logits' \in Token /\ RowsFit'
      /\ UNCHANGED <<mirror, packed, mirrorIs>>
  BY <1>1, <1>3, ForwardKinds
<1>5. fed' \in 0..Len(prompt')
  BY <1>1, <1>2
<1> QED
  BY <1>1, <1>3, <1>4, <1>5 DEF KindsInv

\* The steps of a reply that leave the cache alone.
LEMMA QuietKinds ==
  ASSUME KindsInv, RowsFit, GreedyInv, PromptDone \/ SayEog \/ Say \/ StillPending
  PROVE  KindsInv' /\ RowsFit'
<1>1. UNCHANGED <<model, rows, pos, logits, mirror, packed, mirrorIs, cfg, turn, prompt, fed>>
  BY DEF PromptDone, SayEog, Say, StillPending, cacheVars
<1>2. phase' \in {"say", "over", "feed"}
  BY DEF PromptDone, SayEog, Say, StillPending, Around
<1>3. hist' \in Seq(Token)
  BY EmptySeq DEF PromptDone, SayEog, Say, StillPending, KindsInv
<1>4. pend' \in Seq(Token)
  BY EmptySeq, HeadTailProperties DEF PromptDone, SayEog, Say, StillPending, KindsInv
<1>5. text' \in Seq(Token)
  <2>1. text' = text \/ text' = Append(text, Decided)
    BY DEF PromptDone, SayEog, Say, StillPending
  <2>2. text \in Seq(Token)
    BY DEF KindsInv
  <2> QED
    BY <2>1, <2>2, DecidedFacts, AppendProperties
<1>6. produced' \in 0..NGen
  BY SpecAssumption DEF PromptDone, SayEog, Say, StillPending, KindsInv, GreedyInv
<1> QED
  BY <1>1, <1>2, <1>3, <1>4, <1>5, <1>6 DEF KindsInv, CacheKinds, RowsFit

\* A plain forward, with speculation or without.
LEMMA PlainKinds ==
  ASSUME ModelsAnswer, KindsInv, RowsFit, HeldInv, PlainForward \/ PlainPass
  PROVE  KindsInv' /\ RowsFit'
<1>1. /\ PassDue /\ Forward(Tok) /\ phase' \in {"say", "over"}
      /\ UNCHANGED <<cfg, turn, prompt, fed, text, produced>>
  BY DEF PlainForward, PlainPass, Around
<1>2. Tok \in Token
  BY <1>1, TokFacts
<1>3. /\ CacheKinds' /\ logits' \in Token /\ RowsFit'
      /\ UNCHANGED <<mirror, packed, mirrorIs>>
  BY <1>1, <1>2, ForwardKinds
<1>4. pend' \in Seq(Token)
  <2>1. pend' = pend \/ pend' = <<logits'>>
    BY DEF PlainForward, PlainPass
  <2>2. <<logits'>> \in Seq(Token)
    BY <1>3
  <2> QED
    BY <2>1, <2>2 DEF KindsInv
<1>5. hist' \in Seq(Token)
  <2>1. <<Tok>> \in Seq(Token)
    BY <1>2
  <2>2. Pushed(hist, <<Tok>>) \in Seq(Token)
    BY <2>1, PushedFacts DEF KindsInv
  <2> QED
    BY <2>2 DEF PlainForward, PlainPass, KindsInv
<1> QED
  BY <1>1, <1>3, <1>4, <1>5 DEF KindsInv

\* So does a pass of drafts: it ends in the context with its padding row.
LEMMA SpecPassKinds ==
  ASSUME ModelsAnswer, KindsInv, RowsFit, HeldInv, SpecPass
  PROVE  KindsInv' /\ RowsFit'
<1>1. /\ PassDue /\ phase' \in {"say", "over"}
      /\ UNCHANGED <<logits, cfg, turn, prompt, fed, text, produced>>
  BY DEF SpecPass, Around
<1>2. PICK d \in Drafts \ {<<>>} :
         /\ BatchLayers(PassRows(d), cfg.mirror, 0)
         /\ \E store \in Read(pos + Len(PassRows(d))) : Commit(store, d)
  BY DEF SpecPass
<1>3. PICK store \in Read(pos + Len(PassRows(d))) : Commit(store, d)
  BY <1>2
<1>4. d \in Drafts /\ d # <<>>
  OBVIOUS
<1>5. PassRows(d) \in Seq(Token) /\ pos + Len(PassRows(d)) <= NCtx
  BY <1>1, <1>4, PassRoom
<1>6. /\ model' = model
      /\ rows' \in [Places -> Token \cup {NoToken}]
      /\ mirror' \in [Places -> Token \cup {NoToken}]
      /\ packed' \in Nat /\ mirrorIs' \in {"none", "open", "refused"}
      /\ RowsFit'
  BY <1>2, <1>5, BatchKinds
<1>7. store \in [Places -> Token \cup {NoToken}]
  BY <1>6, ReadKinds
<1>8. pos' \in 0..NCtx /\ pend' \in Seq(Token) /\ hist' \in Seq(Token)
  BY <1>1, <1>3, <1>4, <1>7, CommitFacts
<1> QED
  BY <1>1, <1>6, <1>8 DEF KindsInv, CacheKinds

\* So does a pass that is refused.
LEMMA SpecRefusedKinds ==
  ASSUME KindsInv, RowsFit, HeldInv, SpecRefused
  PROVE  KindsInv' /\ RowsFit'
<1>1. /\ PassDue /\ hist' = Pushed(hist, <<Tok>>)
      /\ UNCHANGED <<cfg, phase, turn, prompt, fed, text, produced, pend>>
  BY DEF SpecRefused
<1>2. PICK d \in Drafts \ {<<>>} : BatchRefused(PassRows(d), cfg.mirror, 0)
  BY DEF SpecRefused
<1>3. hist' \in Seq(Token)
  <2>1. <<Tok>> \in Seq(Token)
    BY <1>1, TokFacts
  <2> QED
    BY <1>1, <2>1, PushedFacts DEF KindsInv
<1>4. CASE UNCHANGED cacheVars
  BY <1>1, <1>3, <1>4 DEF cacheVars, KindsInv, CacheKinds, RowsFit
<1>5. CASE BatchLayers(PassRows(d), cfg.mirror, 0) /\ UNCHANGED <<pos, logits>>
  <2>1. PassRows(d) \in Seq(Token) /\ pos + Len(PassRows(d)) <= NCtx
    BY <1>1, PassRoom
  <2>2. /\ model' = model
        /\ rows' \in [Places -> Token \cup {NoToken}]
        /\ mirror' \in [Places -> Token \cup {NoToken}]
        /\ packed' \in Nat /\ mirrorIs' \in {"none", "open", "refused"}
        /\ RowsFit'
    BY <1>5, <2>1, BatchKinds
  <2> QED
    BY <1>1, <1>3, <1>5, <2>2 DEF KindsInv, CacheKinds
<1> QED
  BY <1>2, <1>4, <1>5 DEF BatchRefused

\* So does the end of a turn.
LEMMA EndTurnKinds ==
  ASSUME KindsInv, RowsFit, EndTurn
  PROVE  KindsInv' /\ RowsFit'
<1>1. /\ phase' = "idle"
      /\ UNCHANGED <<model, rows, logits, mirror, packed, mirrorIs, cfg, turn, prompt, fed,
                     produced, pend, hist>>
  BY DEF EndTurn
<1>2. pos' \in 0..NCtx /\ text' \in Seq(Token)
  <2>1. pos' \in {pos, 0} /\ text' \in {text, <<>>}
    BY DEF EndTurn
  <2>2. <<>> \in Seq(Token)
    BY EmptySeq
  <2>3. 0 \in 0..NCtx
    BY KvAssumption
  <2> QED
    BY <2>1, <2>2, <2>3 DEF KindsInv, CacheKinds
<1> QED
  BY <1>1, <1>2 DEF KindsInv, CacheKinds, RowsFit

\* Every step keeps the kinds, and writes nothing past the end.
LEMMA KindsStep ==
  ASSUME ModelsAnswer, SpecInv, [Next]_vars
  PROVE  KindsInv' /\ RowsFit'
<1> USE DEF SpecInv
<1>1. CASE UNCHANGED vars
  BY <1>1 DEF vars, cacheVars, loopVars, KindsInv, CacheKinds, RowsFit
<1>2. CASE \E ids \in Prompts : BeginTurn(ids)
  BY <1>2, BeginTurnKinds
<1>3. CASE PrefillChunk \/ ChunkRefused \/ PromptToken
  BY <1>3, PrefillChunkKinds, ChunkRefusedKinds, PromptTokenKinds
<1>4. CASE PromptDone \/ SayEog \/ Say \/ StillPending
  BY <1>4, QuietKinds
<1>5. CASE PlainForward \/ PlainPass \/ SpecPass \/ SpecRefused
  BY <1>5, PlainKinds, SpecPassKinds, SpecRefusedKinds
<1>6. CASE EndTurn
  BY <1>6, EndTurnKinds
<1> QED
  BY <1>1, <1>2, <1>3, <1>4, <1>5, <1>6 DEF Next, Turning

-----------------------------------------------------------------------------
(* What the writes of a step leave in the rows.                            *)

\* The numbers that places are computed from.
LEMMA Numbers ==
  ASSUME KindsInv
  PROVE  /\ pos \in Nat /\ fed \in Nat /\ NCtx \in Nat /\ fed <= Len(prompt)
         /\ Len(text) \in Nat /\ Len(prompt) \in Nat /\ Len(pend) \in Nat
         /\ cfg.k \in Nat /\ cfg.repeat \in BOOLEAN
         /\ \A i \in 1..pos : i - 1 \in Places
<1>1. /\ pos \in Nat /\ pos <= NCtx /\ fed \in Nat /\ NCtx \in Nat /\ fed <= Len(prompt)
      /\ Len(text) \in Nat /\ Len(prompt) \in Nat /\ Len(pend) \in Nat
  BY LenProperties, KvAssumption DEF KindsInv, CacheKinds
<1>2. \A i \in 1..pos : i - 1 \in Places
  BY <1>1, KvAssumption DEF Places
<1>3. cfg.k \in Nat /\ cfg.repeat \in BOOLEAN
  BY ConfigFacts DEF KindsInv
<1> QED
  BY <1>1, <1>2, <1>3

\* Where the tokens of a prompt are in a text that ends in it.
LEMMA PromptPlaces ==
  ASSUME NEW t \in Nat, NEW l \in Nat, NEW f \in Nat, NEW n \in Nat, NEW p \in Nat,
         NEW j \in 1..n, p = t - l + f, f + n <= l
  PROVE  /\ f + j \in 1..l /\ p + j <= t /\ t - l + (f + j) = p + j
         /\ p + j - 1 = (p + j) - 1
  OBVIOUS

\* What is fed of a prompt moves with the cursor.
LEMMA PromptMoves ==
  ASSUME NEW t \in Nat, NEW l \in Nat, NEW f \in Int, NEW p \in Int, NEW f1 \in Int,
         NEW p1 \in Int, NEW room \in Nat, f1 - f = p1 - p, p = t - l + f,
         p + (l - f) < room
  PROVE  p1 = t - l + f1 /\ p1 + (l - f1) < room
  OBVIOUS

\* A chunk is written where it is in the text.
LEMMA ChunkHeld ==
  ASSUME KindsInv, RowsFit, HeldInv, PromptInv, ChunkDue,
         NEW mode, NEW total, BatchLayers(NextChunk, mode, total)
  PROVE  \A i \in 1..(pos + Len(NextChunk)) : rows'[i - 1] = Nth(text, pend, i)
<1> DEFINE n == Len(NextChunk)
<1>1. /\ NextChunk \in Seq(Token) /\ n \in Nat
      /\ fed + n <= Len(prompt)
      /\ \A i \in 1..n : NextChunk[i] = prompt[fed + i]
  BY ChunkFacts
<1>2. pos + n <= NCtx
  BY ChunkRoom, KvAssumption
<1>3. /\ \A q \in Places : q < pos \/ q >= pos + n => rows'[q] = rows[q]
      /\ \A i \in 1..n : rows'[pos + i - 1] = NextChunk[i]
  BY <1>1, <1>2, BatchKinds
<1> HIDE DEF n
<1>4. /\ pos = Len(text) - Len(prompt) + fed
      /\ \A i \in 1..pos : rows[i - 1] = Nth(text, pend, i)
      /\ \A i \in 1..Len(prompt) : text[Len(text) - Len(prompt) + i] = prompt[i]
  BY DEF HeldInv, PromptInv, ChunkDue
<1>5. ASSUME NEW i \in 1..(pos + n)
      PROVE  rows'[i - 1] = Nth(text, pend, i)
  <2>1. CASE i <= pos
    <3>1. i \in 1..pos /\ i - 1 < pos /\ i - 1 \in Places
      BY <1>1, <2>1, Numbers
    <3> QED
      BY <1>3, <1>4, <3>1
  <2>2. CASE i > pos
    <3>0. PICK j \in 1..n : i = pos + j
      <4>1. i - pos \in 1..n /\ i = pos + (i - pos)
        BY <1>1, <2>2, Numbers
      <4> QED
        BY <4>1
    <3>1. /\ pos + j - 1 = i - 1 /\ fed + j \in 1..Len(prompt)
          /\ i <= Len(text) /\ Len(text) - Len(prompt) + (fed + j) = i
      <4>1. /\ Len(text) \in Nat /\ Len(prompt) \in Nat /\ fed \in Nat /\ pos \in Nat
        BY Numbers
      <4> QED
        BY <1>1, <1>4, <3>0, <4>1, PromptPlaces
    <3>2. rows'[i - 1] = prompt[fed + j]
      BY <1>1, <1>3, <3>1
    <3>3. prompt[fed + j] = text[i]
      BY <1>4, <3>1
    <3> QED
      BY <3>1, <3>2, <3>3 DEF Nth
  <2> QED
    BY <1>1, <2>1, <2>2, Numbers
<1> QED
  BY <1>5 DEF n

\* So is a token of the prompt.
LEMMA TokenHeld ==
  ASSUME ModelsAnswer, KindsInv, RowsFit, HeldInv, PromptInv, PromptToken
  PROVE  \A i \in 1..(pos + 1) : rows'[i - 1] = Nth(text, pend, i)
<1>1. phase = "prompt" /\ fed < Len(prompt) /\ Forward(prompt[fed + 1])
  BY DEF PromptToken
<1>2. prompt[fed + 1] \in Token
  BY PromptTokenKinds
<1>3. rows'[pos] = prompt[fed + 1] /\ \A p \in Places : p # pos => rows'[p] = rows[p]
  BY <1>1, <1>2, ForwardFacts DEF KindsInv
<1>4. /\ pos = Len(text) - Len(prompt) + fed
      /\ \A i \in 1..pos : rows[i - 1] = Nth(text, pend, i)
      /\ \A i \in 1..Len(prompt) : text[Len(text) - Len(prompt) + i] = prompt[i]
  BY <1>1 DEF HeldInv, PromptInv
<1>5. ASSUME NEW i \in 1..(pos + 1)
      PROVE  rows'[i - 1] = Nth(text, pend, i)
  <2>1. CASE i <= pos
    <3>1. i \in 1..pos /\ i - 1 # pos /\ i - 1 \in Places
      BY <2>1, Numbers
    <3> QED
      BY <1>3, <1>4, <3>1
  <2>2. CASE i = pos + 1
    <3>1. /\ fed + 1 \in 1..Len(prompt) /\ i - 1 = pos /\ i <= Len(text)
          /\ Len(text) - Len(prompt) + (fed + 1) = i
      BY <1>1, <1>4, <2>2, Numbers
    <3>2. prompt[fed + 1] = text[i]
      BY <1>4, <3>1
    <3> QED
      BY <1>3, <3>1, <3>2 DEF Nth
  <2> QED
    BY <2>1, <2>2, Numbers
<1> QED
  BY <1>5

\* Between two passes the rows hold the text up to the token to be fed.
LEMMA DueHeld ==
  ASSUME KindsInv, HeldInv, PassDue
  PROVE  /\ pos = Len(text) - 1 /\ Len(text) >= 1
         /\ \A i \in 1..pos : rows[i - 1] = text[i]
<1>1. pos = Len(text) - 1 /\ Len(text) >= 1
  BY TokFacts
<1>2. \A i \in 1..pos : rows[i - 1] = Nth(text, pend, i) /\ i <= Len(text)
  BY <1>1, Numbers DEF HeldInv, PassDue
<1> QED
  BY <1>1, <1>2 DEF Nth

\* A plain forward writes that token.
LEMMA PlainHeld ==
  ASSUME ModelsAnswer, KindsInv, HeldInv, PassDue, Forward(Tok)
  PROVE  /\ pos' = Len(text)
         /\ \A i \in 1..Len(text) : rows'[i - 1] = text[i]
<1>1. /\ Tok = text[Len(text)] /\ Tok \in Token
      /\ pos = Len(text) - 1 /\ Len(text) >= 1
      /\ \A i \in 1..pos : rows[i - 1] = text[i]
  BY TokFacts, DueHeld
<1>2. /\ rows'[pos] = Tok /\ pos' = pos + 1
      /\ \A p \in Places : p # pos => rows'[p] = rows[p]
  BY <1>1, ForwardFacts DEF KindsInv
<1>3. ASSUME NEW i \in 1..Len(text)
      PROVE  rows'[i - 1] = text[i]
  <2>1. CASE i = Len(text)
    BY <1>1, <1>2, <2>1
  <2>2. CASE i # Len(text)
    <3>1. i \in 1..pos /\ i - 1 # pos /\ i - 1 \in Places
      BY <1>1, <2>2, Numbers
    <3> QED
      BY <1>1, <1>2, <3>1
  <2> QED
    BY <2>1, <2>2
<1> QED
  BY <1>1, <1>2, <1>3, Numbers

\* A pass writes it too, and the drafts behind it.
LEMMA PassHeld ==
  ASSUME KindsInv, RowsFit, HeldInv, PassDue, NEW d \in Drafts, d # <<>>,
         NEW mode, NEW total, BatchLayers(PassRows(d), mode, total)
  PROVE  /\ \A i \in 1..Len(text) : rows'[i - 1] = text[i]
         /\ \A j \in 1..Len(d) : rows'[Len(text) + j - 1] = d[j]
<1>1. /\ Tok = text[Len(text)] /\ Tok \in Token
      /\ pos = Len(text) - 1 /\ Len(text) >= 1
      /\ \A i \in 1..pos : rows[i - 1] = text[i]
  BY TokFacts, DueHeld
<1>2. /\ PassRows(d) \in Seq(Token) /\ pos + Len(PassRows(d)) <= NCtx
      /\ Len(PassRows(d)) \in Nat /\ Len(PassRows(d)) >= Len(d) + 1
      /\ PassRows(d)[1] = Tok
      /\ \A j \in 1..Len(d) : PassRows(d)[1 + j] = d[j]
  BY PassRoom
<1>3. Len(d) \in Nat
  BY DraftFacts
<1>4. /\ \A q \in Places : q < pos => rows'[q] = rows[q]
      /\ \A i \in 1..Len(PassRows(d)) : rows'[pos + i - 1] = PassRows(d)[i]
  BY <1>2, BatchKinds
<1>5. ASSUME NEW i \in 1..Len(text)
      PROVE  rows'[i - 1] = text[i]
  <2>1. CASE i = Len(text)
    <3>1. 1 \in 1..Len(PassRows(d)) /\ pos + 1 - 1 = i - 1
      BY <1>1, <1>2, <1>3, <2>1, Numbers
    <3> QED
      BY <1>1, <1>2, <1>4, <2>1, <3>1
  <2>2. CASE i # Len(text)
    <3>1. i \in 1..pos /\ i - 1 < pos /\ i - 1 \in Places
      BY <1>1, <2>2, Numbers
    <3> QED
      BY <1>1, <1>4, <3>1
  <2> QED
    BY <2>1, <2>2
<1>6. ASSUME NEW j \in 1..Len(d)
      PROVE  rows'[Len(text) + j - 1] = d[j]
  <2>1. 1 + j \in 1..Len(PassRows(d)) /\ pos + (1 + j) - 1 = Len(text) + j - 1
    BY <1>1, <1>2, <1>3, Numbers
  <2> QED
    BY <1>2, <1>4, <2>1
<1> QED
  BY <1>5, <1>6

-----------------------------------------------------------------------------
(* The cache is the conversation.                                          *)

\* A prompt that joins the text leaves the rows of the text where they are.
LEMMA BeginTurnHeld ==
  ASSUME KindsInv, HeldInv, NEW ids \in Prompts, BeginTurn(ids)
  PROVE  HeldInv' /\ PromptInv'
<1>1. /\ phase = "idle" /\ phase' = "prompt" /\ prompt' = ids /\ fed' = 0
      /\ text' = text \o ids /\ pos + Len(ids) + NGen < NCtx
      /\ UNCHANGED <<rows, pos, cfg, pend>>
  BY DEF BeginTurn, cacheVars
<1>2. ids \in Seq(Token) /\ ids # <<>> /\ Len(ids) \in Nat /\ NGen \in Nat
  BY SpecAssumption, LenProperties
<1>3. /\ Len(text') = Len(text) + Len(ids)
      /\ \A i \in 1..(Len(text) + Len(ids)) :
             text'[i] = IF i <= Len(text) THEN text[i] ELSE ids[i - Len(text)]
  BY <1>1, <1>2, ConcatProperties DEF KindsInv
<1>4. pos = Len(text) /\ \A i \in 1..pos : rows[i - 1] = Nth(text, pend, i)
  BY <1>1 DEF HeldInv
<1>5. \A i \in 1..pos : rows'[i - 1] = Nth(text', pend', i)
  BY <1>1, <1>2, <1>3, <1>4, Numbers DEF Nth
<1>6. ASSUME NEW i \in 1..Len(ids)
      PROVE  text'[Len(text') - Len(ids) + i] = ids[i]
  <2>1. /\ Len(text') - Len(ids) + i = Len(text) + i
        /\ Len(text) + i \in 1..(Len(text) + Len(ids))
        /\ ~(Len(text) + i <= Len(text)) /\ (Len(text) + i) - Len(text) = i
    BY <1>2, <1>3, Numbers
  <2> QED
    BY <1>3, <2>1
<1>7. PromptInv'
  BY <1>1, <1>2, <1>3, <1>6, Numbers DEF PromptInv
<1>8. HeldInv'
  BY <1>1, <1>2, <1>3, <1>4, <1>5, Numbers DEF HeldInv
<1> QED
  BY <1>7, <1>8

\* Feeding a prompt moves the cursor with what is fed, and the rows follow the text.
LEMMA PromptHeld ==
  ASSUME ModelsAnswer, KindsInv, RowsFit, HeldInv, PromptInv,
         PrefillChunk \/ ChunkRefused \/ PromptToken
  PROVE  HeldInv' /\ PromptInv'
<1>1. /\ phase = "prompt" /\ UNCHANGED <<phase, prompt, text, pend, cfg>>
      /\ fed' - fed = pos' - pos
  BY Numbers, ChunkFacts DEF PrefillChunk, ChunkRefused, PromptToken, ChunkDue, PrefillBatch,
     Forward, BatchRefused, cacheVars
<1>2. fed' \in Int /\ pos' \in Int
  <2>1. CASE PrefillChunk \/ ChunkRefused
    BY <2>1, Numbers, ChunkFacts DEF PrefillChunk, PrefillBatch, ChunkRefused, BatchRefused, cacheVars
  <2>2. CASE PromptToken
    BY <2>2, Numbers DEF PromptToken, Forward
  <2> QED
    BY <2>1, <2>2
<1>3. \A i \in 1..pos' : rows'[i - 1] = Nth(text, pend, i)
  <2>1. CASE PrefillChunk
    <3>1. ChunkDue /\ BatchLayers(NextChunk, cfg.mirror, Len(prompt)) /\ pos' = pos + Len(NextChunk)
      BY <2>1 DEF PrefillChunk, PrefillBatch
    <3> QED
      BY <3>1, ChunkHeld
  <2>2. CASE ChunkRefused
    <3>1. ChunkDue /\ BatchRefused(NextChunk, cfg.mirror, Len(prompt))
      BY <2>2 DEF ChunkRefused
    <3>2. CASE UNCHANGED cacheVars
      BY <1>1, <3>2 DEF cacheVars, HeldInv
    <3>3. CASE BatchLayers(NextChunk, cfg.mirror, Len(prompt)) /\ UNCHANGED <<pos, logits>>
      <4>1. \A i \in 1..(pos + Len(NextChunk)) : rows'[i - 1] = Nth(text, pend, i)
        BY <3>1, <3>3, ChunkHeld
      <4>2. \A i \in 1..pos' : i \in 1..(pos + Len(NextChunk))
        BY <3>1, <3>3, ChunkFacts, Numbers
      <4> QED
        BY <4>1, <4>2
    <3> QED
      BY <3>1, <3>2, <3>3 DEF BatchRefused
  <2>3. CASE PromptToken
    <3>1. pos' = pos + 1
      BY <2>3 DEF PromptToken, Forward
    <3> QED
      BY <2>3, <3>1, TokenHeld
  <2> QED
    BY <2>1, <2>2, <2>3
<1>4. /\ pos = Len(text) - Len(prompt) + fed
      /\ cfg.k = 0 => pend = <<>>
  BY <1>1 DEF HeldInv
<1>5. /\ pos' = Len(text) - Len(prompt) + fed'
      /\ pos' + (Len(prompt) - fed') < NCtx
  <2>1. pos + (Len(prompt) - fed) < NCtx
    BY <1>1 DEF PromptInv
  <2>2. /\ Len(text) \in Nat /\ Len(prompt) \in Nat /\ fed \in Int /\ pos \in Int
        /\ NCtx \in Nat
    BY Numbers
  <2> QED
    BY <1>1, <1>2, <1>4, <2>1, <2>2, PromptMoves
<1>6. HeldInv'
  BY <1>1, <1>3, <1>4, <1>5 DEF HeldInv
<1>7. PromptInv'
  BY <1>1, <1>5 DEF PromptInv
<1> QED
  BY <1>6, <1>7

\* The steps of a reply that leave the cache alone.
LEMMA QuietHeld ==
  ASSUME KindsInv, HeldInv, PromptDone \/ SayEog \/ Say \/ StillPending
  PROVE  HeldInv' /\ PromptInv'
<1>1. UNCHANGED <<rows, pos, cfg>> /\ phase' \in {"say", "feed", "over"}
  BY DEF PromptDone, SayEog, Say, StillPending, cacheVars, Around
<1>2. PromptInv'
  BY <1>1 DEF PromptInv
<1>3. CASE PromptDone
  <2>1. phase = "prompt" /\ fed = Len(prompt) /\ phase' = "say" /\ pend' = <<>> /\ text' = text
    BY <1>3 DEF PromptDone
  <2>2. pos = Len(text) /\ \A i \in 1..pos : rows[i - 1] = Nth(text, pend, i)
    BY <2>1, Numbers DEF HeldInv
  <2>3. \A i \in 1..pos : rows[i - 1] = Nth(text, pend', i)
    BY <2>2, Numbers DEF Nth
  <2> QED
    BY <1>1, <1>2, <2>1, <2>2, <2>3, Numbers DEF HeldInv
<1>4. CASE SayEog
  <2>1. phase = "say" /\ phase' = "over" /\ UNCHANGED <<pend, text>>
    BY <1>4 DEF SayEog
  <2> QED
    BY <1>1, <1>2, <2>1, Numbers DEF HeldInv
<1>5. CASE Say /\ pend = <<>>
  <2>1. /\ phase = "say" /\ phase' = "feed" /\ pend' = <<>>
        /\ text' = Append(text, logits) /\ logits \in Token /\ text \in Seq(Token)
    BY <1>5 DEF Say, Decided, KindsInv
  <2>2. Len(text') = Len(text) + 1 /\ \A i \in 1..Len(text) : text'[i] = text[i]
    BY <2>1, AppendProperties
  <2>3. pos = Len(text) /\ \A i \in 1..pos : rows[i - 1] = Nth(text, pend, i)
    BY <1>5, <2>1, Numbers DEF HeldInv
  <2>4. \A i \in 1..pos : rows[i - 1] = Nth(text', pend', i)
    BY <2>2, <2>3, Numbers DEF Nth
  <2>5. Len(pend') = 0
    BY <2>1
  <2>6. pos = Len(text') + Len(pend') - 1
    BY <2>2, <2>3, <2>5, Numbers
  <2> QED
    BY <1>1, <1>2, <2>1, <2>4, <2>6 DEF HeldInv
<1>6. CASE Say /\ pend # <<>>
  <2>1. /\ phase = "say" /\ phase' = "feed" /\ pend' = Tail(pend)
        /\ text' = Append(text, Head(pend)) /\ text \in Seq(Token) /\ pend \in Seq(Token)
    BY <1>6 DEF Say, Decided, KindsInv
  <2>2. /\ Len(text') = Len(text) + 1 /\ Len(pend') = Len(pend) - 1 /\ Len(pend) >= 1
        /\ \A i \in 1..(Len(text) + Len(pend)) : Nth(text', pend', i) = Nth(text, pend, i)
    BY <1>6, <2>1, PrintMoves
  <2>3. /\ pos = Len(text) + (Len(pend) - 1) /\ cfg.k # 0
        /\ \A i \in 1..pos : rows[i - 1] = Nth(text, pend, i)
    BY <1>6, <2>1 DEF HeldInv
  <2>4. \A i \in 1..pos : i \in 1..(Len(text) + Len(pend))
    BY <2>2, <2>3, Numbers
  <2>5. \A i \in 1..pos : rows[i - 1] = Nth(text', pend', i)
    BY <2>2, <2>3, <2>4
  <2>6. pos = Len(text') + Len(pend') - 1
    BY <2>2, <2>3, Numbers
  <2> QED
    BY <1>1, <1>2, <2>1, <2>3, <2>5, <2>6 DEF HeldInv
<1>7. CASE StillPending
  <2>1. /\ phase = "feed" /\ pend # <<>> /\ phase' \in {"say", "over"}
        /\ UNCHANGED <<pend, text>>
    BY <1>7 DEF StillPending, Around
  <2>2. cfg.k # 0 /\ pos = Len(text) + Len(pend) - 1
    BY <2>1 DEF HeldInv
  <2>3. pos = Len(text) + (Len(pend) - 1)
    BY <2>2, Numbers
  <2> QED
    BY <1>1, <1>2, <2>1, <2>2, <2>3 DEF HeldInv
<1> QED
  BY <1>3, <1>4, <1>5, <1>6, <1>7

\* A plain forward brings the rows up to the text.
LEMMA PlainStepHeld ==
  ASSUME ModelsAnswer, KindsInv, HeldInv, PlainForward \/ PlainPass
  PROVE  HeldInv' /\ PromptInv'
<1>1. /\ PassDue /\ Forward(Tok) /\ phase' \in {"say", "over"} /\ UNCHANGED <<cfg, text>>
      /\ cfg.k = 0 => pend' = pend
      /\ cfg.k # 0 => pend' = <<logits'>>
  BY Numbers DEF PlainForward, PlainPass, Around
<1>2. /\ pos' = Len(text) /\ \A i \in 1..Len(text) : rows'[i - 1] = text[i]
  BY <1>1, PlainHeld
<1>3. \A i \in 1..pos' : rows'[i - 1] = Nth(text', pend', i)
  BY <1>1, <1>2, Numbers DEF Nth
<1>4. cfg.k = 0 => pend' = <<>>
  BY <1>1 DEF HeldInv
<1>5. cfg.k # 0 => pend' # <<>> /\ Len(pend') = 1
  BY <1>1
<1>6. pos' = Len(text') + (IF pend' = <<>> THEN 0 ELSE Len(pend') - 1)
  <2>1. CASE cfg.k = 0
    BY <1>1, <1>2, <1>4, <2>1, Numbers
  <2>2. CASE cfg.k # 0
    <3>1. pend' # <<>> /\ Len(pend') - 1 = 0
      BY <1>5, <2>2
    <3>2. (IF pend' = <<>> THEN 0 ELSE Len(pend') - 1) = 0
      BY <3>1, Zenon
    <3>3. Len(text) + 0 = Len(text)
      BY Numbers
    <3> QED
      BY <1>1, <1>2, <3>2, <3>3
  <2> QED
    BY <2>1, <2>2
<1> QED
  BY <1>1, <1>2, <1>3, <1>4, <1>6 DEF HeldInv, PromptInv

\* A pass leaves below the cursor the text and the drafts that were accepted.
LEMMA SpecPassHeld ==
  ASSUME ModelsAnswer, KindsInv, RowsFit, HeldInv, SpecPass
  PROVE  HeldInv' /\ PromptInv'
<1>1. PassDue /\ cfg.k > 0 /\ phase' \in {"say", "over"} /\ UNCHANGED <<cfg, text>>
  BY DEF SpecPass, Around
<1>2. PICK d \in Drafts \ {<<>>} :
         /\ BatchLayers(PassRows(d), cfg.mirror, 0)
         /\ \E store \in Read(pos + Len(PassRows(d))) : Commit(store, d)
  BY DEF SpecPass
<1>3. PICK store \in Read(pos + Len(PassRows(d))) : Commit(store, d)
  BY <1>2
<1>4. d \in Drafts /\ d # <<>>
  OBVIOUS
<1>5. store \in [Places -> Token \cup {NoToken}]
  BY <1>1, <1>2, <1>4, PassRoom, BatchKinds, ReadKinds
<1> DEFINE a == Accepted(store, d)
<1>6. /\ a \in 0..Len(d) /\ Len(d) \in Nat /\ pos' = pos + 1 + a
      /\ Len(pend') = a + 1 /\ pend' \in Seq(Token)
      /\ \A j \in 1..a : pend'[j] = d[j]
  BY <1>1, <1>3, <1>4, <1>5, CommitFacts
<1> HIDE DEF a
<1>7. /\ \A i \in 1..Len(text) : rows'[i - 1] = text[i]
      /\ \A j \in 1..Len(d) : rows'[Len(text) + j - 1] = d[j]
  BY <1>1, <1>2, <1>4, PassHeld
<1>8. pos = Len(text) - 1 /\ Len(text) >= 1
  BY <1>1, DueHeld
<1>9. ASSUME NEW i \in 1..pos'
      PROVE  rows'[i - 1] = Nth(text', pend', i)
  <2>1. CASE i <= Len(text)
    <3>1. i \in 1..Len(text)
      BY <1>6, <1>8, <2>1, Numbers
    <3> QED
      BY <1>1, <1>7, <3>1 DEF Nth
  <2>2. CASE i > Len(text)
    <3> DEFINE j == i - Len(text)
    <3>1. j \in 1..a /\ j \in 1..Len(d) /\ Len(text) + j - 1 = i - 1 /\ ~(i <= Len(text))
      BY <1>6, <1>8, <2>2, Numbers
    <3>2. Nth(text, pend', i) = pend'[j]
      BY <3>1 DEF Nth
    <3> HIDE DEF j
    <3> QED
      BY <1>1, <1>6, <1>7, <3>1, <3>2
  <2> QED
    BY <1>6, <1>8, <2>1, <2>2, Numbers
<1>10. pend' # <<>> /\ pos' = Len(text') + (Len(pend') - 1)
  BY <1>1, <1>6, <1>8, Numbers
<1>11. cfg' = cfg /\ cfg.k # 0 /\ phase' \notin {"idle", "prompt", "feed"}
  BY <1>1, Numbers
<1> QED
  BY <1>9, <1>10, <1>11 DEF HeldInv, PromptInv

\* A refused pass has written nothing below the cursor.
LEMMA SpecRefusedHeld ==
  ASSUME KindsInv, RowsFit, HeldInv, SpecRefused
  PROVE  HeldInv' /\ PromptInv'
<1>1. /\ PassDue /\ phase = "feed" /\ UNCHANGED <<phase, cfg, text, pend>>
  BY DEF SpecRefused, PassDue
<1>2. PICK d \in Drafts \ {<<>>} : BatchRefused(PassRows(d), cfg.mirror, 0)
  BY DEF SpecRefused
<1>3. pos' = pos /\ \A i \in 1..pos : rows'[i - 1] = rows[i - 1]
  <2>1. CASE UNCHANGED cacheVars
    BY <2>1 DEF cacheVars
  <2>2. CASE BatchLayers(PassRows(d), cfg.mirror, 0) /\ UNCHANGED <<pos, logits>>
    <3>1. \A q \in Places : q < pos => rows'[q] = rows[q]
      BY <1>1, <2>2, PassRoom, BatchKinds
    <3>2. \A i \in 1..pos : i - 1 \in Places /\ i - 1 < pos
      BY Numbers
    <3> QED
      BY <2>2, <3>1, <3>2
  <2> QED
    BY <1>2, <2>1, <2>2 DEF BatchRefused
<1> QED
  BY <1>1, <1>3 DEF HeldInv, PromptInv

\* A turn that ends keeps the text in the rows, or starts it again.
LEMMA EndTurnHeld ==
  ASSUME StartsSafely, KindsInv, HeldInv, EndTurn
  PROVE  HeldInv' /\ PromptInv'
<1>1. phase = "over" /\ phase' = "idle" /\ UNCHANGED <<rows, cfg, pend>>
  BY DEF EndTurn
<1>2. CASE cfg.repeat
  <2>1. pos' = 0 /\ text' = <<>>
    BY <1>2 DEF EndTurn
  <2>2. Len(text') = 0 /\ \A i \in 1..pos' : FALSE
    BY <2>1
  <2> QED
    BY <1>1, <2>1, <2>2 DEF HeldInv, PromptInv
<1>3. CASE ~cfg.repeat
  <2>1. cfg.k = 0 /\ UNCHANGED <<pos, text>>
    BY <1>3 DEF EndTurn, StartsSafely, KindsInv
  <2> QED
    BY <1>1, <2>1 DEF HeldInv, PromptInv
<1> QED
  BY <1>2, <1>3

\* Every step keeps the rows with the text.
LEMMA HeldStep ==
  ASSUME ModelsAnswer, StartsSafely, SpecInv, [Next]_vars
  PROVE  HeldInv' /\ PromptInv'
<1> USE DEF SpecInv
<1>1. CASE UNCHANGED vars
  BY <1>1 DEF vars, cacheVars, loopVars, HeldInv, PromptInv
<1>2. CASE \E ids \in Prompts : BeginTurn(ids)
  BY <1>2, BeginTurnHeld
<1>3. CASE PrefillChunk \/ ChunkRefused \/ PromptToken
  BY <1>3, PromptHeld
<1>4. CASE PromptDone \/ SayEog \/ Say \/ StillPending
  BY <1>4, QuietHeld
<1>5. CASE PlainForward \/ PlainPass \/ SpecPass \/ SpecRefused
  BY <1>5, PlainStepHeld, SpecPassHeld, SpecRefusedHeld
<1>6. CASE EndTurn
  BY <1>6, EndTurnHeld
<1> QED
  BY <1>1, <1>2, <1>3, <1>4, <1>5, <1>6 DEF Next, Turning
-----------------------------------------------------------------------------
(* The mirror is the beginning of the prompt.                              *)

\* A mirror is only kept by a session that repeats one prompt, undrafted.
LEMMA MirrorMode ==
  ASSUME StartsSafely, KindsInv, cfg.mirror # "off"
  PROVE  cfg.k = 0 /\ cfg.repeat
BY DEF StartsSafely, KindsInv

\* A prompt that is being fed is in the context.
LEMMA PromptFits ==
  ASSUME KindsInv, HeldInv, PromptInv, phase = "prompt"
  PROVE  \A p \in 0..(Len(prompt) - 1) : p \in Places
<1>1. pos + (Len(prompt) - fed) < NCtx /\ pos = Len(text) - Len(prompt) + fed
      /\ Len(prompt) <= Len(text)
  BY DEF PromptInv, HeldInv
<1>2. /\ Len(text) \in Nat /\ Len(prompt) \in Nat /\ fed \in Nat /\ pos \in Nat /\ NCtx \in Nat
  BY Numbers
<1>3. Len(prompt) < NCtx
  BY <1>1, <1>2
<1> QED
  BY <1>2, <1>3, KvAssumption DEF Places

\* What a chunk leaves in the mirror: nothing where it is off or refused, and
\* otherwise the prompt up to the chunk's end.
LEMMA ChunkMirror ==
  ASSUME StartsSafely, KindsInv, RowsFit, HeldInv, PromptInv, MirrorInv, ChunkDue,
         BatchLayers(NextChunk, cfg.mirror, Len(prompt))
  PROVE  /\ cfg.mirror = "off" => mirrorIs' = "none"
         /\ mirrorIs' # "open" => packed' = 0
         /\ packed' <= Len(prompt)
         /\ \A p \in 0..(packed' - 1) : mirror'[p] = prompt[p + 1]
         /\ mirrorIs' # "none" \/ ~Wanted(cfg.mirror, Len(prompt))
         /\ mirrorIs' = "open" => /\ cfg.mirror # "off" /\ pos = fed
                                  /\ fed + Len(NextChunk) <= packed'
<1> DEFINE n == Len(NextChunk)
<1>1. /\ NextChunk \in Seq(Token) /\ n \in Nat /\ n >= 2
      /\ fed + n <= Len(prompt)
      /\ \A i \in 1..n : NextChunk[i] = prompt[fed + i]
  BY ChunkFacts
<1>2. pos + n <= NCtx
  BY ChunkRoom, KvAssumption
<1>3. /\ packed' \in Nat /\ packed \in Nat
      /\ mirrorIs' \in {"none", "open", "refused"} /\ mirrorIs \in {"none", "open", "refused"}
      /\ mirrorIs # "none" \/ ~Wanted(cfg.mirror, Len(prompt)) => mirrorIs' = mirrorIs
      /\ mirrorIs = "none" /\ Wanted(cfg.mirror, Len(prompt)) => mirrorIs' # "none"
      /\ mirrorIs' # "open" => mirror' = mirror /\ packed' = packed
      /\ mirrorIs' = "open" => /\ packed' = Raised(pos + n)
                               /\ mirror' = Written(mirror, NextChunk, pos)
  BY <1>1, <1>2, BatchFacts DEF KindsInv
<1>4. /\ pos \in Nat /\ fed \in Nat /\ Len(prompt) \in Nat /\ Len(text) \in Nat
  BY Numbers
<1>5. \A q \in Places : q < pos \/ q >= pos + n =>
                         Written(mirror, NextChunk, pos)[q] = mirror[q]
  BY <1>1, <1>2, <1>4, WrittenFacts DEF KindsInv
<1>6. \A i \in 1..n : Written(mirror, NextChunk, pos)[pos + i - 1] = NextChunk[i]
  BY <1>1, <1>2, <1>4, WrittenFacts DEF KindsInv
<1> HIDE DEF n
<1>7. cfg.mirror = "off" => ~Wanted(cfg.mirror, Len(prompt)) /\ mirrorIs = "none"
  BY DEF Wanted, MirrorInv
<1>8. mirrorIs' # "none" \/ ~Wanted(cfg.mirror, Len(prompt))
  BY <1>3
<1>9. CASE mirrorIs' # "open"
  <2>1. mirrorIs # "open"
    BY <1>3, <1>9
  <2>2. packed = 0 /\ \A p \in 0..(packed - 1) : FALSE
    BY <2>1 DEF MirrorInv
  <2> QED
    BY <1>3, <1>4, <1>7, <1>8, <1>9, <2>2
<1>10. CASE mirrorIs' = "open"
  <2>1. cfg.mirror # "off"
    BY <1>3, <1>7, <1>10
  <2>2. phase = "prompt" /\ Len(text) = Len(prompt)
    BY <2>1 DEF MirrorInv, ChunkDue
  <2>3. pos = Len(text) - Len(prompt) + fed
    BY <2>2 DEF HeldInv
  <2>4. pos = fed
    BY <1>4, <2>2, <2>3
  <2>5. fed <= packed
    <3>1. CASE fed > 0
      BY <1>3, <1>10, <2>1, <3>1 DEF MirrorInv
    <3>2. CASE fed = 0
      BY <1>3, <3>2
    <3> QED
      BY <1>4, <3>1, <3>2
  <2>6. packed <= Len(prompt) /\ \A p \in 0..(packed - 1) : mirror[p] = prompt[p + 1]
    BY DEF MirrorInv
  <2>7. /\ packed' = (IF packed < pos + n THEN pos + n ELSE packed)
        /\ mirror' = Written(mirror, NextChunk, pos)
    BY <1>3, <1>10 DEF Raised
  <2>8. packed' <= Len(prompt) /\ fed + n <= packed'
    BY <1>1, <1>3, <1>4, <2>4, <2>6, <2>7
  <2>9. ASSUME NEW p \in 0..(packed' - 1)
        PROVE  mirror'[p] = prompt[p + 1]
    <3>1. CASE p < pos \/ p >= pos + n
      <4>1. p \in 0..(packed - 1)
        BY <1>1, <1>3, <1>4, <2>4, <2>5, <2>7, <3>1
      <4>2. p \in Places
        BY <1>3, <1>4, <2>2, <2>6, <4>1, PromptFits
      <4> QED
        BY <1>5, <2>6, <2>7, <3>1, <4>1, <4>2
    <3>2. CASE ~(p < pos \/ p >= pos + n)
      <4>1. PICK i \in 1..n : p = pos + i - 1
        <5>1. p - pos + 1 \in 1..n /\ p = pos + (p - pos + 1) - 1
          BY <1>1, <1>3, <1>4, <3>2
        <5> QED
          BY <5>1
      <4>2. p + 1 = fed + i
        BY <1>1, <1>4, <2>4, <4>1
      <4> QED
        BY <1>1, <1>6, <2>7, <4>1, <4>2
    <3> QED
      BY <3>1, <3>2
  <2> QED
    BY <1>3, <1>8, <1>10, <2>1, <2>4, <2>8, <2>9 DEF n
<1> QED
  BY <1>9, <1>10
\* The mirror, the prompt and how the loop was started are left alone.
LEMMA MirrorStutter ==
  ASSUME KindsInv, MirrorInv, UNCHANGED <<mirror, packed, mirrorIs, prompt, turn, cfg, text>>,
         phase' # "idle", phase # "idle", ~ChunkDue', phase' = "prompt" => phase = "prompt"
  PROVE  MirrorInv'
BY DEF MirrorInv

\* A new turn brings the prompt the mirror already has, or finds no mirror.
LEMMA BeginTurnMirror ==
  ASSUME StartsSafely, KindsInv, MirrorInv, NEW ids \in Prompts, BeginTurn(ids)
  PROVE  MirrorInv'
<1>1. /\ phase = "idle" /\ phase' = "prompt" /\ prompt' = ids /\ fed' = 0
      /\ text' = text \o ids /\ turn' = turn + 1
      /\ cfg.repeat /\ turn > 0 => ids = prompt
      /\ UNCHANGED <<mirror, packed, mirrorIs, cfg>>
  BY DEF BeginTurn, cacheVars
<1>2. ids \in Seq(Token) /\ Len(ids) \in Nat /\ turn \in Nat /\ turn' # 0 /\ packed \in Nat
  <2>1. ids \in Seq(Token) /\ Len(ids) \in Nat
    BY SpecAssumption, LenProperties
  <2>2. turn \in Nat /\ packed \in Nat
    BY DEF KindsInv
  <2>3. turn' # 0
    BY <1>1, <2>2
  <2> QED
    BY <2>1, <2>2, <2>3
<1>3. packed <= Len(ids) /\ \A p \in 0..(packed - 1) : mirror[p] = ids[p + 1]
  <2>1. CASE packed = 0
    BY <1>2, <2>1
  <2>2. CASE packed # 0
    <3>1. mirrorIs = "open" /\ cfg.mirror # "off"
      BY <2>2 DEF MirrorInv
    <3>2. turn # 0
      <4>1. prompt = <<>> => Len(prompt) = 0
        OBVIOUS
      <4> QED
        BY <1>2, <2>2, <4>1 DEF MirrorInv
    <3>3. turn > 0 /\ cfg.repeat
      BY <1>2, <3>1, <3>2, MirrorMode
    <3>4. ids = prompt
      BY <1>1, <3>3
    <3> QED
      BY <3>4 DEF MirrorInv
  <2> QED
    BY <2>1, <2>2
<1>4. ASSUME cfg.mirror # "off"
      PROVE  text' = ids
  <2>1. text = <<>>
    BY <1>1, <1>4 DEF MirrorInv
  <2> QED
    BY <1>1, <1>2, <2>1, ConcatEmptySeq
<1> QED
  BY <1>1, <1>2, <1>3, <1>4 DEF MirrorInv

\* A chunk, refused or not, extends what the mirror has of the prompt.
LEMMA PrefillMirror ==
  ASSUME StartsSafely, KindsInv, RowsFit, HeldInv, PromptInv, MirrorInv,
         PrefillChunk \/ ChunkRefused
  PROVE  MirrorInv'
<1>1. /\ ChunkDue /\ phase' = "prompt" /\ phase = "prompt"
      /\ UNCHANGED <<cfg, prompt, text, turn>>
  BY DEF PrefillChunk, ChunkRefused, ChunkDue
<1>2. CASE ChunkRefused /\ UNCHANGED cacheVars
  <2>1. ~ChunkDue'
    BY <1>2 DEF ChunkRefused, ChunkDue
  <2> QED
    BY <1>1, <1>2, <2>1, MirrorStutter DEF cacheVars
<1>3. CASE ~(ChunkRefused /\ UNCHANGED cacheVars)
  <2>1. BatchLayers(NextChunk, cfg.mirror, Len(prompt))
    BY <1>3 DEF PrefillChunk, PrefillBatch, ChunkRefused, BatchRefused
  <2>2. /\ cfg.mirror = "off" => mirrorIs' = "none"
        /\ mirrorIs' # "open" => packed' = 0
        /\ packed' <= Len(prompt)
        /\ \A p \in 0..(packed' - 1) : mirror'[p] = prompt[p + 1]
        /\ mirrorIs' # "none" \/ ~Wanted(cfg.mirror, Len(prompt))
        /\ mirrorIs' = "open" => fed + Len(NextChunk) <= packed'
    BY <1>1, <2>1, ChunkMirror
  <2>3. ChunkDue' => fed' = fed + Len(NextChunk)
    BY <1>1 DEF PrefillChunk, ChunkRefused, ChunkDue
  <2> QED
    BY <1>1, <2>2, <2>3 DEF MirrorInv, Wanted
<1> QED
  BY <1>2, <1>3

\* No chunk follows a token of the prompt, so the mirror is behind but has no hole.
LEMMA PromptTokenMirror ==
  ASSUME KindsInv, MirrorInv, PromptToken
  PROVE  MirrorInv'
<1>1. /\ phase = "prompt" /\ ~ChunkDue /\ fed' = fed + 1 /\ fed < Len(prompt)
      /\ UNCHANGED <<mirror, packed, mirrorIs, prompt, turn, cfg, text, phase, batching>>
  BY DEF PromptToken, Forward
<1>2. ~ChunkDue'
  <2>1. SUFFICES ASSUME batching, Width(Len(prompt) - (fed + 1)) >= 2
                 PROVE  FALSE
    BY <1>1, WidthKept DEF ChunkDue
  <2>2. Len(prompt) - (fed + 1) \in Nat /\ Len(prompt) - fed \in Nat
    <3>1. Len(prompt) \in Nat /\ fed \in Nat
      BY Numbers
    <3> QED
      BY <1>1, <3>1
  <2>3. Len(prompt) - (fed + 1) >= 2
    BY <2>1, <2>2, WidthFacts
  <2>4. Len(prompt) - fed >= 2
    <3>1. Len(prompt) \in Nat /\ fed \in Nat
      BY Numbers
    <3> QED
      BY <2>3, <3>1
  <2>5. Width(Len(prompt) - fed) >= 2
    BY <2>2, <2>3, <2>4, WidthFacts
  <2> QED
    BY <1>1, <2>1, <2>5 DEF ChunkDue
<1> QED
  BY <1>1, <1>2, MirrorStutter

\* The reply leaves the mirror alone, and speculation has none.
LEMMA ReplyMirror ==
  ASSUME StartsSafely, KindsInv, HeldInv, MirrorInv,
         \/ PromptDone \/ SayEog \/ Say \/ StillPending
         \/ PlainForward \/ PlainPass \/ SpecPass \/ SpecRefused
  PROVE  MirrorInv'
<1>1. /\ phase \in {"prompt", "say", "feed"} /\ phase' \in {"say", "feed", "over"}
      /\ ~ChunkDue' /\ UNCHANGED <<cfg, prompt, turn>>
  BY DEF PromptDone, SayEog, Say, StillPending, PlainForward, PlainPass, SpecPass,
     SpecRefused, PassDue, Around, ChunkDue
<1>2. CASE PromptDone \/ SayEog \/ StillPending \/ PlainForward \/ PlainPass
  <2>1. UNCHANGED <<mirror, packed, mirrorIs, text>>
    BY <1>2 DEF PromptDone, SayEog, StillPending, PlainForward, PlainPass, Forward, cacheVars
  <2> QED
    BY <1>1, <2>1, MirrorStutter
<1>3. CASE Say
  <2>1. /\ UNCHANGED <<mirror, packed, mirrorIs>> /\ text' = Append(text, Decided)
        /\ text \in Seq(Token) /\ Decided \in Token
    BY <1>3, DecidedFacts DEF Say, cacheVars, KindsInv
  <2>2. Len(text') = Len(text) + 1 /\ \A i \in 1..Len(text) : text'[i] = text[i]
    BY <2>1, AppendProperties
  <2>3. ASSUME cfg.mirror # "off"
        PROVE  Len(prompt) <= Len(text') /\ \A i \in 1..Len(prompt) : text'[i] = prompt[i]
    <3>1. Len(prompt) <= Len(text) /\ \A i \in 1..Len(prompt) : text[i] = prompt[i]
      BY <1>1, <2>3 DEF MirrorInv
    <3>2. Len(prompt) \in Nat /\ Len(text) \in Nat
      BY Numbers
    <3> QED
      BY <2>2, <3>1, <3>2
  <2> QED
    BY <1>1, <2>1, <2>3 DEF MirrorInv
<1>4. CASE SpecPass \/ SpecRefused
  <2>1. PassDue /\ cfg.k > 0 /\ UNCHANGED text
    BY <1>4 DEF SpecPass, SpecRefused
  <2>2. cfg.mirror = "off" /\ mirrorIs = "none" /\ packed = 0
    BY <2>1, Numbers, MirrorMode DEF MirrorInv
  <2>3. mirrorIs' = "none" /\ packed' = 0
    <3>1. CASE UNCHANGED cacheVars
      BY <2>2, <3>1 DEF cacheVars
    <3>2. CASE ~UNCHANGED cacheVars
      <4>1. PICK d \in Drafts \ {<<>>} : BatchLayers(PassRows(d), cfg.mirror, 0)
        BY <1>4, <3>2 DEF SpecPass, SpecRefused, BatchRefused
      <4>2. PassRows(d) \in Seq(Token) /\ pos + Len(PassRows(d)) <= NCtx
        BY <2>1, PassRoom
      <4>3. ~Wanted(cfg.mirror, 0)
        BY <2>2 DEF Wanted
      <4>4. /\ mirrorIs # "none" \/ ~Wanted(cfg.mirror, 0) => mirrorIs' = mirrorIs
            /\ mirrorIs' # "open" => packed' = packed
        BY <4>1, <4>2, BatchFacts DEF KindsInv
      <4> QED
        BY <2>2, <4>3, <4>4
    <3> QED
      BY <3>1, <3>2
  <2> QED
    BY <1>1, <2>1, <2>2, <2>3, Numbers DEF MirrorInv
<1> QED
  BY <1>2, <1>3, <1>4

\* The end of a turn leaves the mirror to the next turn.
LEMMA EndTurnMirror ==
  ASSUME StartsSafely, KindsInv, MirrorInv, EndTurn
  PROVE  MirrorInv'
<1>1. /\ phase' = "idle" /\ ~ChunkDue'
      /\ UNCHANGED <<mirror, packed, mirrorIs, cfg, turn, prompt>>
  BY DEF EndTurn, ChunkDue
<1>2. cfg.mirror # "off" => text' = <<>>
  BY MirrorMode DEF EndTurn
<1> QED
  BY <1>1, <1>2 DEF MirrorInv

\* Every step keeps the mirror a beginning of the prompt.
LEMMA MirrorStep ==
  ASSUME StartsSafely, SpecInv, [Next]_vars
  PROVE  MirrorInv'
<1> USE DEF SpecInv
<1>1. CASE UNCHANGED vars
  <2>1. UNCHANGED <<cfg, prompt, fed, phase, batching>> /\ (ChunkDue' <=> ChunkDue)
    BY <1>1, WidthKept DEF vars, loopVars, ChunkDue
  <2> QED
    BY <1>1, <2>1 DEF vars, cacheVars, loopVars, MirrorInv, Wanted
<1>2. CASE \E ids \in Prompts : BeginTurn(ids)
  BY <1>2, BeginTurnMirror
<1>3. CASE PrefillChunk \/ ChunkRefused
  BY <1>3, PrefillMirror
<1>4. CASE PromptToken
  BY <1>4, PromptTokenMirror
<1>5. CASE \/ PromptDone \/ SayEog \/ Say \/ StillPending
           \/ PlainForward \/ PlainPass \/ SpecPass \/ SpecRefused
  BY <1>5, ReplyMirror
<1>6. CASE EndTurn
  BY <1>6, EndTurnMirror
<1> QED
  BY <1>1, <1>2, <1>3, <1>4, <1>5, <1>6 DEF Next, Turning
-----------------------------------------------------------------------------
(* What is said is the model's own.                                        *)

\* A line only depends on what its places hold.
LEMMA SameLine ==
  ASSUME NEW t, NEW c, NEW t1, NEW c1, NEW n,
         \A i \in 1..n : Nth(t1, c1, i) = Nth(t, c, i)
  PROVE  Line(t1, c1, n) = Line(t, c, n)
BY DEF Line

\* The token the loop decides on is the model's next one after the text.
LEMMA DecidedIsGreedy ==
  ASSUME KindsInv, GreedyInv, phase = "say"
  PROVE  Decided = Argmax(model, text)
<1>1. CASE pend = <<>>
  BY <1>1 DEF GreedyInv, Decided
<1>2. CASE pend # <<>>
  <2>1. Len(pend) \in Nat /\ Len(pend) >= 1 /\ Head(pend) = pend[1] /\ Len(text) \in Nat
        /\ text \in Seq(Token)
    BY <1>2, HeadTailProperties, EmptySeq, LenProperties DEF KindsInv
  <2>2. pend[1] = Argmax(model, Line(text, pend, Len(text) + 1 - 1))
    BY <2>1 DEF GreedyInv
  <2>3. Len(text) + 1 - 1 = Len(text) /\ Line(text, pend, Len(text)) = text
    BY <2>1, LineIsText
  <2> QED
    BY <1>2, <2>1, <2>2, <2>3 DEF Decided
<1> QED
  BY <1>1, <1>2

\* A row whose store holds the line to it has the model's next token after it.
LEMMA AfterLine ==
  ASSUME NEW store, NEW t, NEW c, NEW n \in Nat, n > 0,
         \A i \in 1..n : store[i - 1] = Nth(t, c, i)
  PROVE  After(store, n - 1) = Argmax(model, Line(t, c, n))
BY AttendedIsLine DEF After

\* A place of the mirror, counted from one.
LEMMA MirrorPlaces ==
  ASSUME NEW e \in Nat, NEW k \in Nat, NEW l \in Nat, NEW t \in Nat, NEW i \in 1..e,
         e <= k, k <= l, l <= t
  PROVE  i - 1 \in 0..(k - 1) /\ (i - 1) + 1 = i /\ i \in 1..l /\ i <= t
OBVIOUS

\* What a chunk's rows attend to, in the cache or in the mirror, is the line.
LEMMA ChunkReads ==
  ASSUME StartsSafely, KindsInv, RowsFit, HeldInv, PromptInv, MirrorInv, PrefillChunk,
         NEW store \in Read(pos')
  PROVE  \A i \in 1..pos' : store[i - 1] = Nth(text, pend, i)
<1>1. /\ ChunkDue /\ BatchLayers(NextChunk, cfg.mirror, Len(prompt))
      /\ pos' = pos + Len(NextChunk) /\ phase = "prompt"
  BY DEF PrefillChunk, PrefillBatch, ChunkDue
<1>2. CASE store = rows'
  BY <1>1, <1>2, ChunkHeld
<1>3. CASE store = mirror' /\ mirrorIs' = "open"
  <2>1. /\ \A p \in 0..(packed' - 1) : mirror'[p] = prompt[p + 1]
        /\ cfg.mirror # "off" /\ pos = fed /\ fed + Len(NextChunk) <= packed'
        /\ packed' <= Len(prompt)
    BY <1>1, <1>3, ChunkMirror
  <2>2. Len(prompt) <= Len(text) /\ \A i \in 1..Len(prompt) : text[i] = prompt[i]
    BY <1>1, <2>1 DEF MirrorInv
  <2>3. /\ packed' \in Nat /\ pos \in Nat /\ Len(NextChunk) \in Nat
        /\ Len(prompt) \in Nat /\ Len(text) \in Nat
    <3>1. packed' \in Nat
      BY <1>1, ChunkFacts, ChunkRoom, BatchKinds
    <3> QED
      BY <1>1, <3>1, ChunkFacts, Numbers
  <2>4. ASSUME NEW i \in 1..pos'
        PROVE  store[i - 1] = Nth(text, pend, i)
    <3>1. /\ i - 1 \in 0..(packed' - 1) /\ (i - 1) + 1 = i /\ i \in 1..Len(prompt)
          /\ i <= Len(text)
      <4>1. /\ pos' <= packed' /\ packed' <= Len(prompt) /\ Len(prompt) <= Len(text)
            /\ pos' \in Nat
        BY <1>1, <2>1, <2>2, <2>3
      <4>2. packed' \in Nat /\ Len(prompt) \in Nat /\ Len(text) \in Nat
        BY <2>3
      <4>3. i \in 1..pos'
        OBVIOUS
      <4> QED
        BY <4>1, <4>2, <4>3, MirrorPlaces
    <3> QED
      BY <1>3, <2>1, <2>2, <3>1 DEF Nth
  <2> QED
    BY <2>4
<1> QED
  BY <1>2, <1>3 DEF Read

\* A turn begins with its whole reply to be given.
LEMMA BeginTurnGreedy ==
  ASSUME GreedyInv, NEW ids \in Prompts, BeginTurn(ids)
  PROVE  GreedyInv'
BY SpecAssumption DEF BeginTurn, GreedyInv

\* What is answered while a prompt is fed is the answer to all that is fed of it.
LEMMA PromptGreedy ==
  ASSUME ModelsAnswer, StartsSafely, KindsInv, RowsFit, HeldInv, PromptInv, GreedyInv,
         MirrorInv, PrefillChunk \/ ChunkRefused \/ PromptToken
  PROVE  GreedyInv'
<1>1. /\ phase = "prompt" /\ UNCHANGED <<phase, text, pend, model, produced>>
  BY DEF PrefillChunk, ChunkRefused, PromptToken, ChunkDue, PrefillBatch, Forward,
     BatchRefused, BatchLayers, cacheVars
<1>2. fed' > 0 => logits' = Argmax(model, Line(text, pend, pos'))
  <2>1. CASE PrefillChunk
    <3>1. PICK store \in Read(pos') : logits' = After(store, pos' - 1)
      BY <2>1 DEF PrefillChunk, PrefillBatch
    <3>2. \A i \in 1..pos' : store[i - 1] = Nth(text, pend, i)
      BY <2>1, ChunkReads
    <3>3. pos' \in Nat /\ pos' > 0
      <4>1. ChunkDue /\ pos' = pos + Len(NextChunk)
        BY <2>1 DEF PrefillChunk, PrefillBatch
      <4> QED
        BY <4>1, ChunkRoom
    <3> QED
      BY <3>1, <3>2, <3>3, AfterLine
  <2>2. CASE ChunkRefused
    BY <1>1, <2>2 DEF ChunkRefused, BatchRefused, cacheVars, GreedyInv
  <2>3. CASE PromptToken
    <3>1. pos' = pos + 1 /\ logits' = After(rows', pos) /\ pos \in Nat
      BY <2>3, Numbers DEF PromptToken, Forward
    <3>2. \A i \in 1..(pos + 1) : rows'[i - 1] = Nth(text, pend, i)
      BY <2>3, TokenHeld
    <3>3. pos + 1 \in Nat /\ pos + 1 > 0 /\ (pos + 1) - 1 = pos
      BY <3>1
    <3>4. After(rows', (pos + 1) - 1) = Argmax(model, Line(text, pend, pos + 1))
      BY <3>2, <3>3, AfterLine
    <3> QED
      BY <3>1, <3>3, <3>4
  <2> QED
    BY <2>1, <2>2, <2>3
<1> QED
  BY <1>1, <1>2 DEF GreedyInv
\* When the prompt is in, the logits are the answer to the text.
LEMMA PromptDoneGreedy ==
  ASSUME KindsInv, HeldInv, PromptInv, GreedyInv, PromptDone
  PROVE  GreedyInv'
<1>1. /\ phase = "prompt" /\ fed = Len(prompt) /\ phase' = "say" /\ pend' = <<>>
      /\ UNCHANGED <<text, model, logits, produced>> /\ text \in Seq(Token)
  BY DEF PromptDone, cacheVars, KindsInv
<1>2. Len(prompt) \in Nat /\ Len(text) \in Nat /\ Len(prompt) > 0
  <2>1. prompt \in Seq(Token) /\ prompt # <<>>
    BY <1>1 DEF PromptInv, KindsInv
  <2> QED
    BY <2>1, Numbers, EmptySeq
<1>3. fed > 0 /\ pos = Len(text)
  <2>1. pos = Len(text) - Len(prompt) + fed
    BY <1>1 DEF HeldInv
  <2> QED
    BY <1>1, <1>2, <2>1
<1>4. logits = Argmax(model, text)
  <2>1. logits = Argmax(model, Line(text, pend, Len(text)))
    BY <1>1, <1>3 DEF GreedyInv
  <2> QED
    BY <1>1, <2>1, LineIsText
<1>5. \A j \in 1..Len(pend') : FALSE
  BY <1>1
<1>6. produced < NGen
  BY <1>1 DEF GreedyInv
<1> QED
  BY <1>1, <1>4, <1>5, <1>6 DEF GreedyInv

\* Printing a token leaves the rest of what is committed right.
LEMMA SayGreedy ==
  ASSUME KindsInv, GreedyInv, SayEog \/ Say
  PROVE  GreedyInv'
<1>1. CASE SayEog
  <2>1. /\ phase = "say" /\ Decided = Eog /\ phase' = "over" /\ UNCHANGED <<text, model>>
    BY <1>1 DEF SayEog, cacheVars
  <2>2. Argmax(model', text') = Eog
    BY <2>1, DecidedIsGreedy
  <2> QED
    BY <2>1, <2>2 DEF GreedyInv
<1>2. CASE Say /\ pend = <<>>
  <2>1. phase' = "feed" /\ pend' = <<>> /\ \A j \in 1..Len(pend') : FALSE
    BY <1>2 DEF Say
  <2> QED
    BY <2>1 DEF GreedyInv
<1>3. CASE Say /\ pend # <<>>
  <2>1. /\ phase = "say" /\ phase' = "feed" /\ pend' = Tail(pend) /\ model' = model
        /\ text' = Append(text, Head(pend)) /\ text \in Seq(Token) /\ pend \in Seq(Token)
    BY <1>3 DEF Say, Decided, KindsInv, cacheVars
  <2>2. /\ Len(text') = Len(text) + 1 /\ Len(pend') = Len(pend) - 1 /\ Len(pend) >= 1
        /\ \A i \in 1..(Len(text) + Len(pend)) : Nth(text', pend', i) = Nth(text, pend, i)
    BY <1>3, <2>1, PrintMoves
  <2>3. ASSUME NEW j \in 1..Len(pend')
        PROVE  pend'[j] = Argmax(model', Line(text', pend', Len(text') + j - 1))
    <3>1. /\ Len(text) \in Nat /\ Len(pend) \in Nat
      BY Numbers
    <3>2. /\ j + 1 \in 1..Len(pend) /\ j \in 1..(Len(pend) - 1)
          /\ Len(text') + j - 1 = Len(text) + (j + 1) - 1
          /\ \A i \in 1..(Len(text') + j - 1) : i \in 1..(Len(text) + Len(pend))
      BY <2>2, <3>1
    <3>3. pend'[j] = pend[j + 1]
      BY <1>3, <2>1, <3>2, HeadTailProperties
    <3>4. pend[j + 1] = Argmax(model, Line(text, pend, Len(text) + (j + 1) - 1))
      BY <2>1, <3>2 DEF GreedyInv
    <3>5. Line(text', pend', Len(text') + j - 1) = Line(text, pend, Len(text') + j - 1)
      BY <2>2, <3>2, SameLine
    <3> QED
      BY <2>1, <3>2, <3>3, <3>4, <3>5
  <2> QED
    BY <2>1, <2>3 DEF GreedyInv
<1> QED
  BY <1>1, <1>2, <1>3

\* At the label next: the loop goes on only with tokens left of n_gen.
LEMMA AroundGreedy ==
  ASSUME KindsInv, Around, UNCHANGED produced
  PROVE  /\ phase' \in {"say", "over"}
         /\ phase' = "say" => produced' < NGen
         /\ phase' = "over" => produced' = NGen
BY SpecAssumption DEF KindsInv, Around

\* So does going round the loop with tokens still committed.
LEMMA StillPendingGreedy ==
  ASSUME KindsInv, GreedyInv, StillPending
  PROVE  GreedyInv'
<1>1. /\ phase = "feed" /\ pend # <<>> /\ Around
      /\ UNCHANGED <<text, model, pend, produced>>
  BY DEF StillPending, cacheVars
<1> QED
  BY <1>1, AroundGreedy DEF GreedyInv

\* What a plain forward of the text's last token answers.
LEMMA PlainAnswer ==
  ASSUME ModelsAnswer, KindsInv, HeldInv, PassDue, Forward(Tok)
  PROVE  logits' = Argmax(model, text)
<1>1. /\ logits' = After(rows', pos) /\ pos \in Nat /\ text \in Seq(Token)
      /\ pos = Len(text) - 1 /\ Len(text) \in Nat /\ Len(text) > 0
  BY DueHeld, Numbers DEF Forward, KindsInv
<1>2. \A i \in 1..Len(text) : rows'[i - 1] = Nth(text, pend, i)
  BY <1>1, PlainHeld DEF Nth
<1>3. After(rows', Len(text) - 1) = Argmax(model, Line(text, pend, Len(text)))
  BY <1>1, <1>2, AfterLine
<1> QED
  BY <1>1, <1>3, LineIsText

\* A plain forward commits the answer to the text.
LEMMA PlainGreedy ==
  ASSUME ModelsAnswer, KindsInv, HeldInv, GreedyInv, PlainForward \/ PlainPass
  PROVE  GreedyInv'
<1>1. /\ PassDue /\ Forward(Tok) /\ Around /\ UNCHANGED <<text, model, produced>>
      /\ pend' = <<>> \/ pend' = <<logits'>>
  BY DEF PlainForward, PlainPass, Forward, PassDue
<1>2. logits' = Argmax(model, text)
  BY <1>1, PlainAnswer
<1>3. text \in Seq(Token) /\ Len(text) + 1 - 1 = Len(text)
  BY Numbers DEF KindsInv
<1>4. ASSUME NEW j \in 1..Len(pend')
      PROVE  pend'[j] = Argmax(model', Line(text', pend', Len(text') + j - 1))
  <2>1. pend' = <<logits'>> /\ j = 1
    BY <1>1
  <2>2. Line(text, pend', Len(text)) = text
    BY <1>3, LineIsText
  <2> QED
    BY <1>1, <1>2, <1>3, <2>1, <2>2
<1> QED
  BY <1>1, <1>2, <1>4, AroundGreedy DEF GreedyInv

\* A pass commits the drafts that are the answers themselves, and the next answer.
LEMMA SpecPassGreedy ==
  ASSUME ModelsAnswer, StartsSafely, KindsInv, RowsFit, HeldInv, GreedyInv, MirrorInv, SpecPass
  PROVE  GreedyInv'
<1>1. PassDue /\ cfg.k > 0 /\ Around /\ UNCHANGED <<text, produced>>
  BY DEF SpecPass
<1>2. PICK d \in Drafts \ {<<>>} :
         /\ BatchLayers(PassRows(d), cfg.mirror, 0)
         /\ \E store \in Read(pos + Len(PassRows(d))) : Commit(store, d)
  BY DEF SpecPass
<1>3. d \in Drafts /\ d # <<>>
  OBVIOUS
<1>4. PassRows(d) \in Seq(Token) /\ pos + Len(PassRows(d)) <= NCtx
  BY <1>1, <1>3, PassRoom
<1>5. mirrorIs' = "none" /\ model' = model
  <2>1. cfg.mirror = "off" /\ mirrorIs = "none"
    BY <1>1, Numbers, MirrorMode DEF MirrorInv
  <2>2. ~Wanted(cfg.mirror, 0)
    BY <2>1 DEF Wanted
  <2> QED
    BY <1>2, <1>4, <2>1, <2>2, BatchFacts DEF KindsInv
<1>6. Commit(rows', d)
  BY <1>2, <1>5 DEF Read
<1>7. rows' \in [Places -> Token \cup {NoToken}]
  BY <1>2, <1>4, BatchKinds
<1> DEFINE a == Accepted(rows', d)
<1>8. /\ a \in 0..Len(d) /\ Len(d) \in Nat
      /\ pend' \in Seq(Token) /\ Len(pend') = a + 1
      /\ \A j \in 1..a : pend'[j] = d[j] /\ pend'[j] = After(rows', pos + j - 1)
      /\ pend'[a + 1] = After(rows', pos + a)
  BY <1>1, <1>3, <1>6, <1>7, CommitFacts
<1> HIDE DEF a
<1>9. /\ \A i \in 1..Len(text) : rows'[i - 1] = text[i]
      /\ \A j \in 1..Len(d) : rows'[Len(text) + j - 1] = d[j]
  BY <1>1, <1>2, <1>3, PassHeld
<1>10. pos = Len(text) - 1 /\ Len(text) >= 1 /\ Len(text) \in Nat
  BY <1>1, DueHeld, Numbers
<1>11. ASSUME NEW i \in 1..(Len(text) + a)
       PROVE  rows'[i - 1] = Nth(text, pend', i)
  <2>1. CASE i <= Len(text)
    <3>1. i \in 1..Len(text)
      BY <1>8, <1>10, <2>1
    <3> QED
      BY <1>9, <3>1 DEF Nth
  <2>2. CASE i > Len(text)
    <3> DEFINE j == i - Len(text)
    <3>1. j \in 1..a /\ j \in 1..Len(d) /\ Len(text) + j - 1 = i - 1 /\ ~(i <= Len(text))
      BY <1>8, <1>10, <2>2
    <3>2. Nth(text, pend', i) = pend'[j]
      BY <3>1 DEF Nth
    <3> HIDE DEF j
    <3> QED
      BY <1>8, <1>9, <3>1, <3>2
  <2> QED
    BY <1>8, <1>10, <2>1, <2>2
<1>12. ASSUME NEW j \in 1..Len(pend')
       PROVE  pend'[j] = Argmax(model', Line(text', pend', Len(text') + j - 1))
  <2>1. pend'[j] = After(rows', pos + j - 1)
    <3>1. CASE j \in 1..a
      BY <1>8, <3>1
    <3>2. CASE j = a + 1
      <4>1. pos + j - 1 = pos + a
        BY <1>8, <1>10, <3>2
      <4> QED
        BY <1>8, <3>2, <4>1
    <3> QED
      BY <1>8, <3>1, <3>2
  <2> DEFINE n == Len(text) + j - 1
  <2>2. n \in Nat /\ n > 0 /\ n - 1 = pos + j - 1 /\ \A i \in 1..n : i \in 1..(Len(text) + a)
    BY <1>8, <1>10
  <2>3. \A i \in 1..n : rows'[i - 1] = Nth(text, pend', i)
    BY <1>11, <2>2
  <2> HIDE DEF n
  <2>4. After(rows', n - 1) = Argmax(model, Line(text, pend', n))
    BY <2>2, <2>3, AfterLine
  <2> QED
    BY <1>1, <1>5, <2>1, <2>2, <2>4 DEF n
<1>13. pend' # <<>>
  BY <1>8
<1> QED
  BY <1>1, <1>12, <1>13, AroundGreedy DEF GreedyInv

\* A refused pass commits nothing.
LEMMA SpecRefusedGreedy ==
  ASSUME KindsInv, GreedyInv, SpecRefused
  PROVE  GreedyInv'
<1>1. /\ phase = "feed" /\ phase' = "feed" /\ pend = <<>> /\ pend' = <<>>
  BY DEF SpecRefused, PassDue
<1>2. \A j \in 1..Len(pend') : FALSE
  BY <1>1
<1> QED
  BY <1>1, <1>2 DEF GreedyInv

\* Every step commits only what the model itself says.
LEMMA GreedyStep ==
  ASSUME ModelsAnswer, StartsSafely, SpecInv, [Next]_vars
  PROVE  GreedyInv'
<1> USE DEF SpecInv
<1>1. CASE UNCHANGED vars
  BY <1>1 DEF vars, cacheVars, loopVars, GreedyInv
<1>2. CASE \E ids \in Prompts : BeginTurn(ids)
  BY <1>2, BeginTurnGreedy
<1>3. CASE PrefillChunk \/ ChunkRefused \/ PromptToken
  BY <1>3, PromptGreedy
<1>4. CASE PromptDone \/ SayEog \/ Say \/ StillPending
  BY <1>4, PromptDoneGreedy, SayGreedy, StillPendingGreedy
<1>5. CASE PlainForward \/ PlainPass \/ SpecPass \/ SpecRefused
  BY <1>5, PlainGreedy, SpecPassGreedy, SpecRefusedGreedy
<1>6. CASE EndTurn
  BY <1>6 DEF EndTurn, GreedyInv
<1> QED
  BY <1>1, <1>2, <1>3, <1>4, <1>5, <1>6 DEF Next, Turning
-----------------------------------------------------------------------------
(* The theorems.                                                           *)

\* The loop starts in the invariant.
LEMMA InitSpec ==
  ASSUME Init
  PROVE  SpecInv
<1>1. /\ model \in Models /\ rows = Blank /\ pos = 0 /\ logits \in Token /\ mirror = Blank
      /\ packed = 0 /\ mirrorIs = "none" /\ cfg \in Configs /\ phase = "idle" /\ turn = 0
      /\ prompt = <<>> /\ fed = 0 /\ text = <<>> /\ produced = 0 /\ pend = <<>> /\ hist = <<>>
  BY DEF Init, CacheInit
<1>2. Blank \in [Places -> Token \cup {NoToken}]
  BY DEF Blank
<1>3. Len(prompt) = 0 /\ Len(text) = 0 /\ \A i \in 1..0 : FALSE
  BY <1>1
<1>4. <<>> \in Seq(Token)
  BY EmptySeq
<1>5. KindsInv
  BY <1>1, <1>2, <1>3, <1>4, KvAssumption, SpecAssumption DEF KindsInv, CacheKinds
<1>6. RowsFit
  BY <1>1 DEF RowsFit, Blank
<1>7. HeldInv /\ PromptInv /\ GreedyInv
  BY <1>1, <1>3 DEF HeldInv, PromptInv, GreedyInv
<1>8. MirrorInv
  BY <1>1, <1>3 DEF MirrorInv, ChunkDue
<1> QED
  BY <1>5, <1>6, <1>7, <1>8 DEF SpecInv

(* However a conversation goes - chunks refused or not, drafts of any kind *)
(* accepted or not, turns repeated or continued - the invariant of the     *)
(* turn loop is kept.                                                      *)
THEOREM SpecInvariance ==
  ASSUME ModelsAnswer, StartsSafely
  PROVE  Spec => []SpecInv
<1>1. Init => SpecInv
  BY InitSpec
<1>2. SpecInv /\ [Next]_vars => SpecInv'
  <2> SUFFICES ASSUME SpecInv, [Next]_vars
               PROVE  SpecInv'
    OBVIOUS
  <2>1. KindsInv' /\ RowsFit'
    BY KindsStep
  <2>2. HeldInv' /\ PromptInv'
    BY HeldStep
  <2>3. GreedyInv' /\ MirrorInv'
    BY GreedyStep, MirrorStep
  <2> QED
    BY <2>1, <2>2, <2>3 DEF SpecInv
<1> QED
  BY <1>1, <1>2, PTL DEF Spec

(* No chunk, no token and no pass of drafts with its padding row is ever   *)
(* written past the n_ctx rows that were allocated, of the cache or of the *)
(* mirror (llama.c:9657), whatever the context, the chunk and --spec are.  *)
THEOREM NothingPastTheEnd ==
  ASSUME ModelsAnswer, StartsSafely
  PROVE  Spec => []RowsFit
<1>1. SpecInv => RowsFit
  BY DEF SpecInv
<1> QED
  BY <1>1, SpecInvariance, PTL

(* The mirror that attention on the NPU reads holds what the float cache   *)
(* holds wherever it is counted to ("how many positions each layer's       *)
(* mirror actually holds", llama.c:5216).                                  *)
THEOREM MirrorIsCache ==
  ASSUME ModelsAnswer, StartsSafely
  PROVE  Spec => []MirrorFilled
<1>1. SpecInv => MirrorFilled
  <2> SUFFICES ASSUME SpecInv, mirrorIs = "open", NEW p \in Places, p < packed, p < pos
               PROVE  mirror[p] = rows[p]
    BY DEF MirrorFilled
  <2> USE DEF SpecInv
  <2>1. /\ pos \in Nat /\ Len(text) \in Nat /\ Len(prompt) \in Nat /\ packed \in Nat
        /\ p \in Nat
    BY Numbers, KvAssumption DEF KindsInv, Places
  <2>2. cfg.mirror # "off" /\ packed <= Len(prompt)
        /\ \A q \in 0..(packed - 1) : mirror[q] = prompt[q + 1]
    BY DEF MirrorInv
  <2>3. cfg.k = 0
    BY <2>2, MirrorMode
  <2>4. \A i \in 1..pos : rows[i - 1] = Nth(text, pend, i)
    BY <2>3 DEF HeldInv
  <2>5. phase # "idle"
    <3>1. SUFFICES ASSUME phase = "idle"
                   PROVE  FALSE
      OBVIOUS
    <3>2. pos = Len(text) /\ text = <<>>
      BY <2>2, <3>1 DEF HeldInv, MirrorInv
    <3>3. pos = 0
      BY <3>2
    <3> QED
      BY <2>1, <3>3
  <2>6. Len(prompt) <= Len(text) /\ \A i \in 1..Len(prompt) : text[i] = prompt[i]
    BY <2>2, <2>5 DEF MirrorInv
  <2>7. /\ p \in 0..(packed - 1) /\ p + 1 \in 1..pos /\ p + 1 \in 1..Len(prompt)
        /\ (p + 1) - 1 = p /\ p + 1 <= Len(text)
    <3>1. packed <= Len(prompt) /\ Len(prompt) <= Len(text)
      BY <2>2, <2>6
    <3> QED
      BY <2>1, <3>1
  <2>8. rows[p] = Nth(text, pend, p + 1)
    BY <2>4, <2>7
  <2>9. Nth(text, pend, p + 1) = prompt[p + 1]
    BY <2>6, <2>7 DEF Nth
  <2> QED
    BY <2>2, <2>7, <2>8, <2>9
<1> QED
  BY <1>1, SpecInvariance, PTL
\* The first of a text with what follows it, as a sequence.
LEMMA FirstOfText ==
  ASSUME NEW t \in Seq(Token), NEW c \in Seq(Token), NEW n \in Nat, n <= Len(t) + Len(c)
  PROVE  SubSeq(t \o c, 1, n) = Line(t, c, n)
<1>1. /\ Len(t \o c) = Len(t) + Len(c) /\ Len(t) \in Nat /\ Len(c) \in Nat
      /\ \A i \in 1..(Len(t) + Len(c)) :
             (t \o c)[i] = IF i <= Len(t) THEN t[i] ELSE c[i - Len(t)]
      /\ t \o c \in Seq(Token)
  BY ConcatProperties, LenProperties
<1>2. \A i \in 1..n : (t \o c)[i] \in Token /\ (t \o c)[i] = Nth(t, c, i)
  <2>1. \A i \in 1..n : i \in 1..Len(t \o c)
    BY <1>1
  <2>2. \A i \in 1..Len(t \o c) : (t \o c)[i] \in Token
    BY <1>1, ElementOfSeq
  <2> QED
    BY <1>1, <2>1, <2>2 DEF Nth
<1> DEFINE first == SubSeq(t \o c, 1, n)
<1>3. /\ first \in Seq(Token) /\ Len(first) = n
      /\ \A i \in 1..n : first[i] = Nth(t, c, i)
  <2>1. /\ first \in Seq(Token) /\ Len(first) = (IF 1 <= n THEN n - 1 + 1 ELSE 0)
        /\ \A i \in 1..(n - 1 + 1) : first[i] = (t \o c)[1 + i - 1]
    BY <1>2, SubSeqProperties
  <2>2. n - 1 + 1 = n /\ (~(1 <= n) => n = 0) /\ \A i \in 1..n : 1 + i - 1 = i
    OBVIOUS
  <2> HIDE DEF first
  <2> QED
    BY <1>2, <2>1, <2>2
<1> HIDE DEF first
<1>4. first = [i \in 1..n |-> first[i]]
  <2>1. first \in [1..Len(first) -> Token]
    BY <1>3, LenProperties
  <2> QED
    BY <1>3, <2>1
<1>5. [i \in 1..n |-> first[i]] = [i \in 1..n |-> Nth(t, c, i)]
  BY <1>3
<1> QED
  BY <1>4, <1>5 DEF Line, first

(* Between any two steps the rows below s->pos hold the conversation and   *)
(* what is committed to be printed of it, each token once and in order,    *)
(* and no rejected draft ("rolling back is one assignment", llama.c:8954). *)
THEOREM CacheHoldsText ==
  ASSUME ModelsAnswer, StartsSafely
  PROVE  Spec => []CacheIsText
<1>1. SpecInv => CacheIsText
  <2> SUFFICES ASSUME SpecInv, phase # "over"
               PROVE  [i \in 1..pos |-> rows[i - 1]] = Conversation
    BY DEF CacheIsText
  <2> USE DEF SpecInv
  <2>1. /\ pos \in Nat /\ Len(text) \in Nat /\ Len(pend) \in Nat /\ Len(prompt) \in Nat
        /\ fed \in Nat /\ fed <= Len(prompt)
    BY Numbers
  <2>2. /\ text \in Seq(Token) /\ pend \in Seq(Token) /\ logits \in Token
        /\ phase \in {"idle", "prompt", "say", "feed", "over"}
    BY DEF KindsInv
  <2>3. [i \in 1..pos |-> rows[i - 1]] = Line(text, pend, pos)
    BY DEF HeldInv, Line
  <2>4. CASE phase = "idle"
    <3>1. pos = Len(text) /\ Conversation = text
      BY <2>4 DEF HeldInv, Conversation
    <3> QED
      BY <2>2, <2>3, <3>1, LineIsText
  <2>5. CASE phase = "prompt"
    <3>1. pos = Len(text) - Len(prompt) + fed /\ Conversation = SubSeq(text, 1, pos)
      BY <2>5 DEF HeldInv, Conversation
    <3>2. pos <= Len(text) + Len(pend) /\ pos <= Len(text) + 0
      BY <2>1, <3>1
    <3>3. text \o <<>> = text /\ Len(<<>>) = 0 /\ <<>> \in Seq(Token)
      BY <2>2, ConcatEmptySeq, EmptySeq
    <3>4. SubSeq(text \o <<>>, 1, pos) = Line(text, <<>>, pos)
      BY <2>1, <2>2, <3>2, <3>3, FirstOfText
    <3>5. \A i \in 1..pos : Nth(text, <<>>, i) = Nth(text, pend, i)
      BY <2>1, <3>2 DEF Nth
    <3>6. Line(text, <<>>, pos) = Line(text, pend, pos)
      BY <3>5, SameLine
    <3> QED
      BY <2>3, <3>1, <3>3, <3>4, <3>6
  <2>6. CASE phase \in {"say", "feed"}
    <3> DEFINE c == Decisions
    <3>1. Conversation = SubSeq(text \o c, 1, Len(text \o c) - 1)
      BY <2>6 DEF Conversation, Front
    <3>2. CASE phase = "say" /\ pend = <<>>
      <4>1. c = <<logits>> /\ pos = Len(text)
        BY <2>1, <3>2 DEF Decisions, HeldInv
      <4>2. c \in Seq(Token) /\ Len(c) = 1
        BY <2>2, <4>1
      <4> HIDE DEF c
      <4>3. Len(text \o c) - 1 = Len(text) /\ Len(text) <= Len(text) + Len(c)
        <5>1. Len(text \o c) = Len(text) + Len(c)
          BY <2>2, <4>2, ConcatProperties
        <5> QED
          BY <2>1, <4>2, <5>1
      <4>4. SubSeq(text \o c, 1, Len(text)) = Line(text, c, Len(text))
        BY <2>1, <2>2, <4>2, <4>3, FirstOfText
      <4> QED
        BY <2>2, <2>3, <3>1, <4>1, <4>3, <4>4, LineIsText
    <3>3. CASE ~(phase = "say" /\ pend = <<>>)
      <4>1. c = pend
        BY <2>6, <3>3 DEF Decisions
      <4>2. pos = Len(text) + Len(pend) - 1
        <5>1. CASE phase = "say"
          <6>1. pos = Len(text) + (Len(pend) - 1)
            BY <3>3, <5>1 DEF HeldInv
          <6> QED
            BY <2>1, <6>1
        <5>2. CASE phase = "feed"
          BY <5>2 DEF HeldInv
        <5> QED
          BY <2>6, <5>1, <5>2
      <4>3. Len(text \o pend) - 1 = pos /\ pos <= Len(text) + Len(pend)
        BY <2>1, <2>2, <4>2, ConcatProperties
      <4>4. SubSeq(text \o pend, 1, pos) = Line(text, pend, pos)
        BY <2>1, <2>2, <4>3, FirstOfText
      <4> QED
        BY <2>3, <3>1, <4>1, <4>3, <4>4
    <3> QED
      BY <3>2, <3>3
  <2> QED
    BY <2>2, <2>4, <2>5, <2>6
<1> QED
  BY <1>1, SpecInvariance, PTL

\* Every step of the loop is one of the plain greedy conversation, or is not
\* to be seen in it.
LEMMA GreedyMaps ==
  ASSUME ModelsAnswer, StartsSafely, SpecInv, [Next]_vars
  PROVE  [Greedy!Next]_(Greedy!vars)
<1> USE DEF SpecInv
<1>1. CASE UNCHANGED vars
  BY <1>1 DEF vars, cacheVars, loopVars, Greedy!vars
<1>2. ASSUME NEW ids \in Prompts, BeginTurn(ids)
      PROVE  Greedy!Ask
  BY <1>2 DEF BeginTurn, cacheVars, Greedy!Ask
<1>3. CASE PrefillChunk \/ ChunkRefused
  <2>1. phase = "prompt" /\ UNCHANGED <<phase, text, produced>> /\ ChunkDue
    BY <1>3 DEF PrefillChunk, ChunkRefused, ChunkDue
  <2>2. UNCHANGED model
    BY <1>3 DEF PrefillChunk, ChunkRefused, PrefillBatch, BatchRefused, BatchLayers, cacheVars
  <2> QED
    BY <2>1, <2>2 DEF Greedy!vars
<1>4. CASE PromptToken \/ PromptDone \/ SayEog \/ StillPending
  <2>1. phase # "idle" /\ phase' # "idle" /\ UNCHANGED <<text, produced, model>>
    BY <1>4 DEF PromptToken, PromptDone, SayEog, StillPending, Around, Forward, cacheVars
  <2> QED
    BY <2>1 DEF Greedy!vars
<1>5. CASE Say
  <2>1. /\ phase = "say" /\ phase' = "feed" /\ Decided # Eog /\ text' = Append(text, Decided)
        /\ produced' = produced + 1 /\ UNCHANGED model
    BY <1>5 DEF Say, cacheVars
  <2>2. produced < NGen /\ Decided = Argmax(model, text)
    BY <2>1, DecidedIsGreedy DEF GreedyInv
  <2>3. Greedy!Say
    BY <2>1, <2>2 DEF Greedy!Say
  <2> QED
    BY <2>3 DEF Greedy!Next
<1>6. CASE PlainForward \/ PlainPass \/ SpecPass \/ SpecRefused
  <2>1. phase # "idle" /\ phase' # "idle" /\ UNCHANGED <<text, produced>>
    BY <1>6 DEF PlainForward, PlainPass, SpecPass, SpecRefused, PassDue, Around
  <2>2. UNCHANGED model
    BY <1>6 DEF PlainForward, PlainPass, SpecPass, SpecRefused, Forward, BatchRefused,
       BatchLayers, cacheVars
  <2> QED
    BY <2>1, <2>2 DEF Greedy!vars
<1>7. CASE EndTurn
  <2>1. /\ phase = "over" /\ phase' = "idle" /\ text' \in {text, <<>>}
        /\ UNCHANGED <<model, produced>>
    BY <1>7 DEF EndTurn
  <2>2. produced = NGen \/ Argmax(model, text) = Eog
    BY <2>1 DEF GreedyInv
  <2>3. Greedy!Hush
    BY <2>1, <2>2 DEF Greedy!Hush
  <2> QED
    BY <2>3 DEF Greedy!Next
<1> QED
  BY <1>1, <1>2, <1>3, <1>4, <1>5, <1>6, <1>7 DEF Next, Turning, Greedy!Next

(* Whatever is drafted, accepted, refused or batched, what is printed is   *)
(* what the plain greedy loop prints, token for token: "the drafts decide  *)
(* how many tokens one weight read yields, never which tokens"             *)
(* (charsiu_llm.h:1290).                                                   *)
THEOREM Greediness ==
  ASSUME ModelsAnswer, StartsSafely
  PROVE  Spec => ImplementsGreedy
<1>1. Init => Greedy!Init
  BY DEF Init, CacheInit, Greedy!Init
<1>2. SpecInv /\ [Next]_vars => [Greedy!Next]_(Greedy!vars)
  BY GreedyMaps
<1> QED
  BY <1>1, <1>2, SpecInvariance, PTL DEF Spec, ImplementsGreedy, Greedy!Spec

=============================================================================
