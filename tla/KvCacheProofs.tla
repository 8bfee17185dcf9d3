---------------------------- MODULE KvCacheProofs ----------------------------
(***************************************************************************)
(* What the operations of KvCache do to rows, whoever calls them: the      *)
(* lemmas that the proofs about the turn loop and the server share.        *)
(***************************************************************************)
EXTENDS KvCache, SequenceTheorems, FiniteSetsExt, WellFoundedInduction, TLAPS

(* The part of a state that a forward reads.                               *)
CacheKinds ==
    /\ model \in Models
    /\ rows \in [Places -> Token \cup {NoToken}]
    /\ pos \in 0..NCtx

-----------------------------------------------------------------------------
(* Greatest and least.                                                     *)

\* The lesser of two numbers is one of them.
LEMMA MinOfTwo ==
  ASSUME NEW a \in Int, NEW b \in Int
  PROVE  /\ Min({a, b}) \in {a, b}
         /\ Min({a, b}) <= a /\ Min({a, b}) <= b
<1>1. \E x \in {a, b} : \A y \in {a, b} : x =< y
  OBVIOUS
<1> QED
  BY <1>1 DEF Min

\* A bounded set of natural numbers that is not empty has a greatest element.
LEMMA MaxOfBounded ==
  ASSUME NEW b \in Nat, NEW S \in SUBSET (0..b), S # {}
  PROVE  Max(S) \in S
<1> DEFINE T == {b - x : x \in S}
<1>1. T \subseteq Nat /\ T # {}
  <2>1. \A x \in S : x \in Nat /\ x <= b
    OBVIOUS
  <2>2. \A x \in S : b - x \in Nat
    BY <2>1
  <2> QED
    BY <2>2
<1>2. PICK t \in T : \A u \in T : ~(<<u, t>> \in OpToRel(<, Nat))
  BY <1>1, NatLessThanWellFounded, WFMin
<1>3. \A u \in T : t <= u
  <2>1. \A u \in T : u \in Nat /\ t \in Nat /\ ~(u < t)
    <3>1. TAKE u \in T
    <3>2. u \in Nat /\ t \in Nat
      BY <1>1, <1>2
    <3>3. ~(<<u, t>> \in OpToRel(<, Nat))
      BY <1>2
    <3> HIDE DEF T
    <3> QED
      BY <3>2, <3>3 DEF OpToRel
  <2> HIDE DEF T
  <2> QED
    BY <2>1
<1>4. PICK x \in S : t = b - x
  OBVIOUS
<1>5. \A y \in S : x >= y
  BY <1>3, <1>4
<1> QED
  BY <1>5 DEF Max

-----------------------------------------------------------------------------
(* Reading the cache.                                                      *)

\* What a row inside the context attends to is a sequence of tokens, and every
\* model has an answer to it.
LEMMA AfterAnswers ==
  ASSUME ModelsAnswer, model \in Models,
         NEW store \in [Places -> Token \cup {NoToken}],
         NEW p \in Nat, p < NCtx
  PROVE  After(store, p) \in Token
<1>1. \A i \in 1..(p + 1) : store[i - 1] \in Token \cup {NoToken}
  <2>1. \A i \in 1..(p + 1) : i - 1 \in Places
    BY KvAssumption DEF Places
  <2> QED
    BY <2>1
<1>2. Attended(store, p) \in [1..(p + 1) -> Token \cup {NoToken}]
  BY <1>1 DEF Attended
<1>3. p + 1 \in Nat
  OBVIOUS
<1>4. Attended(store, p) \in Seq(Token \cup {NoToken})
  BY <1>2, <1>3, SeqDef
<1> QED
  BY <1>4 DEF After, ModelsAnswer

-----------------------------------------------------------------------------
(* Writing the cache.                                                      *)

\* One forward writes one row, and the logits are a token's.
LEMMA ForwardFacts ==
  ASSUME ModelsAnswer, CacheKinds, NEW tok \in Token, Forward(tok)
  PROVE  /\ rows' \in [Places -> Token \cup {NoToken}]
         /\ pos < NCtx /\ pos' = pos + 1 /\ pos' \in 0..NCtx
         /\ rows'[pos] = tok
         /\ \A p \in Places : p # pos => rows'[p] = rows[p]
         /\ logits' \in Token /\ model' = model
<1>1. pos < NCtx /\ pos' = pos + 1 /\ rows' = [rows EXCEPT ![pos] = tok] /\ model' = model
  BY DEF Forward
<1>2. pos \in Places /\ pos \in Nat /\ pos' \in 0..NCtx
  BY <1>1, KvAssumption DEF CacheKinds, Places
<1>3. rows' \in [Places -> Token \cup {NoToken}]
  BY <1>1 DEF CacheKinds
<1>4. rows'[pos] = tok /\ \A p \in Places : p # pos => rows'[p] = rows[p]
  BY <1>1, <1>2 DEF CacheKinds
<1>5. logits' \in Token
  BY <1>1, <1>2, <1>3, AfterAnswers DEF Forward, CacheKinds
<1> QED
  BY <1>1, <1>2, <1>3, <1>4, <1>5

\* A run of tokens written inside the context.
LEMMA WrittenFacts ==
  ASSUME NEW store \in [Places -> Token \cup {NoToken}], NEW toks \in Seq(Token),
         NEW p \in Nat, p + Len(toks) <= NCtx
  PROVE  /\ Written(store, toks, p) \in [Places -> Token \cup {NoToken}]
         /\ \A q \in Places : q < p \/ q >= p + Len(toks) =>
                Written(store, toks, p)[q] = store[q]
         /\ \A i \in 1..Len(toks) : Written(store, toks, p)[p + i - 1] = toks[i]
<1>1. Len(toks) \in Nat /\ \A i \in 1..Len(toks) : toks[i] \in Token
  BY ElementOfSeq, LenProperties
<1>2. \A q \in Places : q \in Nat
  BY DEF Places
<1>3. \A q \in Places : q \in p..(p + Len(toks) - 1) => q - p + 1 \in 1..Len(toks)
  BY <1>1, <1>2
<1>4. \A q \in Places : (IF q \in p..(p + Len(toks) - 1) THEN toks[q - p + 1] ELSE store[q])
                          \in Token \cup {NoToken}
  BY <1>1, <1>3
<1>5. Written(store, toks, p) \in [Places -> Token \cup {NoToken}]
  BY <1>4 DEF Written
<1>6. \A q \in Places : q < p \/ q >= p + Len(toks) => Written(store, toks, p)[q] = store[q]
  BY <1>1, <1>2 DEF Written
<1>7. ASSUME NEW i \in 1..Len(toks)
      PROVE  Written(store, toks, p)[p + i - 1] = toks[i]
  <2>1. /\ p + i - 1 \in Places
        /\ p + i - 1 \in p..(p + Len(toks) - 1)
        /\ (p + i - 1) - p + 1 = i
    BY <1>1, KvAssumption DEF Places
  <2> QED
    BY <2>1 DEF Written
<1> QED
  BY <1>5, <1>6, <1>7

\* A catch-up that has nothing to do does nothing.
LEMMA NothingToCatchUp ==
  ASSUME NEW store \in [Places -> Token \cup {NoToken}], NEW from \in Nat, NEW to \in Nat,
         from >= to
  PROVE  CaughtUp(store, from, to) = store
<1>1. \A q \in Places : ~(q \in from..(to - 1))
  BY DEF Places
<1>2. CaughtUp(store, from, to) = [q \in Places |-> store[q]]
  BY <1>1 DEF CaughtUp
<1> QED
  BY <1>2

\* A batch writes its rows to the cache.  An open mirror has them too, where the
\* count was not behind them, and a mirror that is not open is left alone.
LEMMA BatchFacts ==
  ASSUME CacheKinds, mirror \in [Places -> Token \cup {NoToken}], packed \in Nat,
         mirrorIs \in {"none", "open", "refused"},
         NEW toks \in Seq(Token), pos + Len(toks) <= NCtx,
         NEW mode, NEW total, BatchLayers(toks, mode, total)
  PROVE  /\ model' = model
         /\ rows' = Written(rows, toks, pos)
         /\ mirror' \in [Places -> Token \cup {NoToken}]
         /\ packed' \in Nat
         /\ mirrorIs' \in {"none", "open", "refused"}
         /\ mirrorIs # "none" \/ ~Wanted(mode, total) => mirrorIs' = mirrorIs
         /\ mirrorIs = "none" /\ Wanted(mode, total) => mirrorIs' # "none"
         /\ mirrorIs' # "open" => mirror' = mirror /\ packed' = packed
         /\ mirrorIs' = "open" => /\ packed' = Raised(pos + Len(toks))
                                  /\ mirror' = Written(mirror, toks, pos)
<1>1. model' = model /\ rows' = Written(rows, toks, pos)
  BY DEF BatchLayers
<1>2. pos \in Nat /\ Len(toks) \in Nat
  BY LenProperties DEF CacheKinds
<1>3. /\ mirrorIs' \in {"none", "open", "refused"}
      /\ mirrorIs # "none" \/ ~Wanted(mode, total) => mirrorIs' = mirrorIs
      /\ mirrorIs = "none" /\ Wanted(mode, total) => mirrorIs' # "none"
  BY DEF BatchLayers, MirrorGot
<1>4. Appended(toks)
  BY DEF BatchLayers
<1>5. CASE mirrorIs' # "open"
  BY <1>1, <1>3, <1>4, <1>5 DEF Appended
<1>6. CASE mirrorIs' = "open"
  <2>1. packed' = Raised(pos + Len(toks))
    BY <1>4, <1>6 DEF Appended
  <2>2. packed' \in Nat /\ packed' >= pos + Len(toks)
    BY <1>2, <2>1 DEF Raised
  <2>3. mirror' = CaughtUp(Written(mirror, toks, pos), packed', pos + Len(toks))
    BY <1>4, <1>6 DEF Appended
  <2>4. Written(mirror, toks, pos) \in [Places -> Token \cup {NoToken}]
    BY <1>2, WrittenFacts
  <2>5. pos + Len(toks) \in Nat
    BY <1>2
  <2>6. mirror' = Written(mirror, toks, pos)
    BY <2>2, <2>3, <2>4, <2>5, NothingToCatchUp
  <2> QED
    BY <1>1, <1>3, <1>6, <2>1, <2>2, <2>4, <2>6
<1> QED
  BY <1>5, <1>6
=============================================================================
