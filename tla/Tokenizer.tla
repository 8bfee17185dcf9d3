----------------------------- MODULE Tokenizer -----------------------------
(***************************************************************************)
(* The tokenizer (src/tokenizer.c): how a text is cut and merged into the  *)
(* tokens a model is given, and how tokens are spelled back.               *)
(*                                                                         *)
(* A text is a sequence of characters and a token is what it spells: its   *)
(* piece, or the one byte it stands for.  Bytes and characters are one     *)
(* here (UTF-8 and the GPT-2 byte map are bijections that nothing below    *)
(* looks into).  A tokenizer is a record:                                  *)
(*   spm       pieces are merged by their scores, not by a merge table     *)
(*   merges    the merge table, best first: pairs of pieces                *)
(*   score     the score of every piece, negated: least is best            *)
(*   vocab     the pieces                                                  *)
(*   bytes     characters that have a token <0xNN>                         *)
(*   special   pieces matched in the raw text, before any merging          *)
(*   bos       pieces that open every text: at most one                    *)
(***************************************************************************)
EXTENDS Integers, Sequences, FiniteSets, SequencesExt

None == -1
Mark == "_"     \* U+2581, how SentencePiece spells a space
Space == " "

ByteToken(ch) == <<"<0x>", ch>>
Least(S) == CHOOSE x \in S : \A y \in S : x <= y
Greatest(S) == CHOOSE x \in S : \A y \in S : x >= y

-----------------------------------------------------------------------------
(* The merge loop.  Symbol i begins at character i of the text; n[i] is    *)
(* its length, 0 once it has been merged away, prev and next the symbols   *)
(* beside it (0: none), and heap the pairs waiting to be merged.           *)

(* How early two pieces merge: the rank of the pair in the merge table, or *)
(* the score of what the two make together.                                *)
Rank(tk, l, r) ==
    IF tk.spm
    THEN IF l \o r \in tk.vocab THEN tk.score[l \o r] ELSE None
    ELSE IF \E i \in DOMAIN tk.merges : tk.merges[i] = <<l, r>>
         THEN Least({i \in DOMAIN tk.merges : tk.merges[i] = <<l, r>>})
         ELSE None

SymText(t, s, i) == SubSeq(t, i, i + s.n[i] - 1)

TryBigram(tk, t, s, l, r) ==
    IF l = 0 \/ r = 0 THEN s
    ELSE LET rank == Rank(tk, SymText(t, s, l), SymText(t, s, r))
         IN IF rank = None THEN s
            ELSE [s EXCEPT !.heap = @ \cup {[left |-> l, right |-> r, rank |-> rank,
                                             size |-> s.n[l] + s.n[r]]}]

(* cand_better, spm_better.                                                *)
Better(a, b) == a.rank < b.rank \/ (a.rank = b.rank /\ a.left < b.left)
Popped(heap) == CHOOSE c \in heap : \A d \in heap \ {c} : ~Better(d, c)

(* Mutant: a pair is taken as it was when it was pushed.                   *)
StaleIgnored(s, c) == s.n[c.left] = 0 \/ s.n[c.right] = 0

(* One of the two has been merged into something else since.               *)
Stale(s, c) ==
    \/ s.n[c.left] = 0 \/ s.n[c.right] = 0
    \/ s.n[c.left] + s.n[c.right] # c.size

MergedAt(s, c) ==
    LET after == s.next[c.right]
    IN [s EXCEPT !.n = [@ EXCEPT ![c.left] = @ + s.n[c.right], ![c.right] = 0],
                 !.next = [@ EXCEPT ![c.left] = after],
                 !.prev = IF after = 0 THEN @ ELSE [@ EXCEPT ![after] = c.left]]

(* A merge makes two new pairs, with the symbols beside it.                *)
TryBeside(tk, t, s, i) ==
    TryBigram(tk, t, TryBigram(tk, t, s, s.prev[i], i), i, s.next[i])

(* One turn of the loop: the best pair is popped, and merged if it still   *)
(* stands.                                                                 *)
MergeNext(tk, t, s) ==
    LET c == Popped(s.heap)
        rest == [s EXCEPT !.heap = @ \ {c}]
    IN IF Stale(s, c) THEN rest ELSE TryBeside(tk, t, MergedAt(rest, c), c.left)

SymbolLists ==
    [n : Seq(Nat), prev : Seq(Nat), next : Seq(Nat),
     heap : SUBSET [left : Nat, right : Nat, rank : Nat, size : Nat]]

MergeAll(tk, t, seeded) ==
    LET run[s \in SymbolLists] == IF s.heap = {} THEN s ELSE run[MergeNext(tk, t, s)]
    IN run[seeded]

Symbols(t) ==
    [n |-> [i \in 1..Len(t) |-> 1],
     prev |-> [i \in 1..Len(t) |-> i - 1],
     next |-> [i \in 1..Len(t) |-> IF i = Len(t) THEN 0 ELSE i + 1],
     heap |-> {}]

Seeded(tk, t) ==
    FoldLeftDomain(LAMBDA s, j : TryBigram(tk, t, s, j - 1, j), Symbols(t), t)

Chain(t, s) ==
    LET from[i \in 0..Len(t)] ==
          IF i = 0 THEN <<>> ELSE <<SymText(t, s, i)>> \o from[s.next[i]]
    IN from[1]

(* The pieces bpe_word and encode_span_spm leave of a word.                *)
Pieces(tk, t) ==
    IF t = <<>> THEN <<>>
    ELSE Chain(t, MergeAll(tk, t, Seeded(tk, t)))

-----------------------------------------------------------------------------
(* From pieces to tokens.  A piece the vocabulary lacks is spelled a byte  *)
(* at a time; a byte it cannot spell fails a BPE word, and is dropped from *)
(* a SentencePiece one.                                                    *)
SpelledByBytes(tk, p) ==
    IF tk.spm
    THEN LET spelt == SelectSeq(p, LAMBDA ch : ch \in tk.bytes)
         IN [i \in DOMAIN spelt |-> ByteToken(spelt[i])]
    ELSE [i \in DOMAIN p |-> ByteToken(p[i])]

Spellable(tk, p) ==
    tk.spm \/ p \in tk.vocab \/ \A i \in DOMAIN p : p[i] \in tk.bytes

(* The tokens of a word after those of out; Failed when it cannot be       *)
(* spelled or out has no room left.                                        *)
Failed == <<<<"failed">>>>
EmitWord(tk, pieces, out, max) ==
    LET ids == FlattenSeq([i \in DOMAIN pieces |->
                             IF pieces[i] \in tk.vocab THEN <<pieces[i]>>
                             ELSE SpelledByBytes(tk, pieces[i])])
    IN IF /\ \A i \in DOMAIN pieces : Spellable(tk, pieces[i])
          /\ Len(out) + Len(ids) <= max
       THEN out \o ids ELSE Failed

-----------------------------------------------------------------------------
(* pretok_next: where the word that begins at i ends (the place after it). *)
(* Characters are classed as the regex classes them.                       *)
Letter == {"s", "r", "e", "x"}
Digit == {"1"}
Newline == {"n"}
White == Newline \cup {Space}

IsPunct(ch) == ch \notin White /\ ch \notin Letter /\ ch \notin Digit

(* The first place at or after j, at most to, outside S.                   *)
RunEnd(t, j, to, S) ==
    Least({to} \cup {k \in j..(to - 1) : t[k] \notin S})

PunctEnd(t, j) ==
    Least({Len(t) + 1} \cup {k \in j..Len(t) : ~IsPunct(t[k])})

Contraction(t, i) ==
    LET at(k) == IF i + k <= Len(t) THEN t[i + k] ELSE ""
    IN IF t[i] # "'" THEN None
       ELSE IF at(1) = "s" THEN i + 2
       ELSE IF at(1) = "r" /\ at(2) = "e" THEN i + 3 ELSE None

Word(t, i) ==
    LET s == IF t[i] \notin Letter \cup Newline \cup Digit THEN i + 1 ELSE i
    IN IF s <= Len(t) /\ t[s] \in Letter
       THEN RunEnd(t, s, Len(t) + 1, Letter) ELSE None

Number(t, i) ==
    IF t[i] \in Digit
    THEN RunEnd(t, i, Least({Len(t) + 1, i + 3}), Digit) ELSE None

Punctuation(t, i) ==
    LET s == IF t[i] = Space THEN i + 1 ELSE i
    IN IF s <= Len(t) /\ IsPunct(t[s])
       THEN RunEnd(t, PunctEnd(t, s), Len(t) + 1, Newline) ELSE None

(* Mutant: whitespace is cut at its first newline.                         *)
WhitespaceToFirst(t, i) ==
    LET e == RunEnd(t, i, Len(t) + 1, White)
        nl == {k \in i..(e - 1) : t[k] \in Newline}
    IN IF t[i] \notin White THEN None
       ELSE IF nl # {} THEN Least(nl) + 1
       ELSE IF e <= Len(t) /\ e - i > 1 THEN e - 1 ELSE e

(* Whitespace as far as its last newline, and the rest of it but one.      *)
Whitespace(t, i) ==
    LET e == RunEnd(t, i, Len(t) + 1, White)
        last == {k \in i..(e - 1) : t[k] \in Newline}
    IN IF t[i] \notin White THEN None
       ELSE IF last # {} THEN Greatest(last) + 1
       ELSE IF e <= Len(t) /\ e - i > 1 THEN e - 1 ELSE e

PretokNext(t, i) ==
    LET tried == <<Contraction(t, i), Word(t, i), Number(t, i),
                   Punctuation(t, i), Whitespace(t, i)>>
        hits == {k \in DOMAIN tried : tried[k] # None}
    IN IF hits = {} THEN i + 1 ELSE tried[Least(hits)]

-----------------------------------------------------------------------------
(* encode_span, tokenizer_encode and tokenizer_decode.                     *)
Escaped(t) == [i \in DOMAIN t |-> IF t[i] = Space THEN Mark ELSE t[i]]

Tokens == Seq(Seq(STRING))

EncodeWords(tk, t, first, max) ==
    LET from[i \in Nat, out \in Tokens] ==
          LET j == PretokNext(t, i)
          IN IF i > Len(t) \/ out = Failed THEN out
             ELSE from[j, EmitWord(tk, Pieces(tk, SubSeq(t, i, j - 1)), out, max)]
    IN from[1, first]

EncodeSpan(tk, t, out, max, atStart) ==
    IF t = <<>> THEN out
    ELSE IF tk.spm
    THEN LET buf == (IF atStart THEN <<Mark>> ELSE <<>>) \o Escaped(t)
         IN EmitWord(tk, Pieces(tk, buf), out, max)
    ELSE EncodeWords(tk, t, out, max)

(* The longest special piece that starts at i, or nothing.                 *)
SpecialAt(tk, t, i) ==
    LET fit == {p \in tk.special : /\ p # <<>> /\ i + Len(p) - 1 <= Len(t)
                                   /\ p = SubSeq(t, i, i + Len(p) - 1)}
    IN IF fit = {} THEN <<>>
       ELSE CHOOSE p \in fit : \A q \in fit : Len(q) <= Len(p)

(* Mutant: every span begins the text.                                     *)
AtStartAlways(i, run) == TRUE

AtStart(i, run) == i - run = 1

EncodeFrom(tk, t, first, max) ==
    LET from[i \in Nat, run \in Nat, out \in Tokens] ==
          LET sid == IF i > Len(t) THEN <<>> ELSE SpecialAt(tk, t, i)
              after(span) ==
                IF i > Len(t) THEN span
                ELSE IF span = Failed \/ Len(span) >= max THEN Failed
                ELSE from[i + Len(sid), 0, Append(span, sid)]
          IN IF i <= Len(t) /\ sid = <<>> THEN from[i + 1, run + 1, out]
             ELSE after(EncodeSpan(tk, SubSeq(t, i - run, i - 1), out, max, AtStart(i, run)))
    IN from[1, 0, first]

Encode(tk, t, max) ==
    IF Len(tk.bos) > max THEN Failed
    ELSE EncodeFrom(tk, t, tk.bos, max)

(* A byte token is spelled as the byte, unless the pieces are GPT-2's: it  *)
(* is then written out as its name.                                        *)
DecodeToken(tk, id) ==
    IF ~tk.spm \/ id \in tk.special THEN id
    ELSE IF Len(id) = 2 /\ id[1] = "<0x>" THEN <<id[2]>>
    ELSE [i \in DOMAIN id |-> IF id[i] = Mark THEN Space ELSE id[i]]

Decode(tk, ids) == FlattenSeq([i \in DOMAIN ids |-> DecodeToken(tk, ids[i])])
=============================================================================
