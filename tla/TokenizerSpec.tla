--------------------------- MODULE TokenizerSpec ---------------------------
(***************************************************************************)
(* What the tokenizer is meant to compute, said the way the formats say    *)
(* it: byte-pair encoding as sweeps over the word, one merge of the table  *)
(* after another, and the pre-tokenizer as the regular expression that     *)
(* src/tokenizer.c quotes over pretok_next.                                *)
(***************************************************************************)
EXTENDS Tokenizer

Singles(t) == [i \in DOMAIN t |-> <<t[i]>>]

(* Every l followed by r becomes one piece, from the left.                 *)
Sweep(p, l, r) ==
    LET from[i \in 1..(Len(p) + 1)] ==
          IF i > Len(p) THEN <<>>
          ELSE IF i < Len(p) /\ p[i] = l /\ p[i + 1] = r THEN <<l \o r>> \o from[i + 2]
          ELSE <<p[i]>> \o from[i + 1]
    IN from[1]

Segmentation(merges, t) ==
    FoldLeft(LAMBDA p, merge : Sweep(p, merge[1], merge[2]), Singles(t), merges)

(* The tables training can produce: at every step one of the most frequent *)
(* pairs of the corpus as it stands.                                       *)
Beside(p) == {<<p[i], p[i + 1]>> : i \in 1..(Len(p) - 1)}
Occurs(p, q) == Cardinality({i \in 1..(Len(p) - 1) : <<p[i], p[i + 1]>> = q})
Frequent(p) == {q \in Beside(p) : \A r \in Beside(p) : Occurs(p, r) <= Occurs(p, q)}

Grown(g) ==
    IF Beside(g.p) = {} THEN {g}
    ELSE {[p |-> Sweep(g.p, q[1], q[2]), merges |-> Append(g.merges, q)] : q \in Frequent(g.p)}

Trained(p, n) ==
    LET after[i \in 0..n] ==
          IF i = 0 THEN {[p |-> p, merges |-> <<>>]} ELSE UNION {Grown(g) : g \in after[i - 1]}
    IN {g.merges : g \in after[n]}

(* The tokenizers with such a table: the merges themselves, or the same    *)
(* order as scores of what they make.                                      *)
Made(merges, i) == merges[i][1] \o merges[i][2]
Products(merges) == {Made(merges, i) : i \in DOMAIN merges}

BpeOf(merges, chars) ==
    [spm |-> FALSE, merges |-> merges, score |-> <<>>,
     vocab |-> Products(merges) \cup {<<c>> : c \in chars},
     bytes |-> {}, special |-> {}, bos |-> <<>>]

SpmOf(merges, chars) ==
    [BpeOf(merges, chars) EXCEPT
        !.spm = TRUE,
        !.score = [p \in Products(merges) |->
                     Least({i \in DOMAIN merges : Made(merges, i) = p})]]

-----------------------------------------------------------------------------
(* The regular expression.  A branch is a sequence of classes, each with   *)
(* how many it may take, or NoLimit; the classes of a branch are disjoint  *)
(* or the last takes all it can, so that its greedy match is its longest.  *)
Chars == Letter \cup Digit \cup White \cup {"'", ".", "_"}
NoLimit == -1
Few(S) == [class |-> S, min |-> 0, max |-> 1]
Many(S) == [class |-> S, min |-> 1, max |-> NoLimit]
Maybe(S) == [class |-> S, min |-> 0, max |-> NoLimit]
One(ch) == [class |-> {ch}, min |-> 1, max |-> 1]

Branches ==
    <<<<One("'"), One("s")>>,
      <<One("'"), One("r"), One("e")>>,
      <<Few(Chars \ (Letter \cup Newline \cup Digit)), Many(Letter)>>,
      <<[class |-> Digit, min |-> 1, max |-> 3]>>,
      <<Few({Space}), Many(Chars \ (White \cup Letter \cup Digit)), Maybe(Newline)>>,
      <<Maybe(White), Many(Newline)>>,
      <<Many(White)>>,
      <<Many(White)>>>>
LookAhead == 7        \* the branch that must not stop before a non-space

EndsOf(t, starts, item) ==
    {j \in 1..(Len(t) + 1) :
        \E s \in starts : /\ j - s >= item.min
                          /\ item.max = NoLimit \/ j - s <= item.max
                          /\ \A k \in s..(j - 1) : t[k] \in item.class}

Matches(t, i, items) ==
    LET after[n \in 0..Len(items)] ==
          IF n = 0 THEN {i} ELSE EndsOf(t, after[n - 1], items[n])
    IN after[Len(items)]

Ends(t, i, b) ==
    {j \in Matches(t, i, Branches[b]) :
        b = LookAhead => j > Len(t) \/ t[j] \in White}

RegexNext(t, i) ==
    LET hits == {b \in DOMAIN Branches : Ends(t, i, b) # {}}
    IN IF hits = {} THEN i + 1 ELSE Greatest(Ends(t, i, Least(hits)))
=============================================================================
