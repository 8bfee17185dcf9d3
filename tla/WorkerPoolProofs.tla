--------------------------- MODULE WorkerPoolProofs ---------------------------
(***************************************************************************)
(* The pool of WorkerPool for any number of threads and rows: IInv is      *)
(* inductive, the safety properties follow from it, and every step maps to *)
(* a step of ParallelFor or a stutter.                                     *)
(***************************************************************************)
EXTENDS WorkerPoolInv, FiniteSetTheorems, TLAPS

\* The threads of a pool of k are threads.
LEMMA Within ==
  ASSUME NEW k \in 1 .. MaxThreads, NEW C \in SUBSET (0 .. k - 1)
  PROVE  C \subseteq Thread
BY PoolAssumption DEF Thread

\* What PoolStart makes of the thread count and the created set.
LEMMA StartFacts ==
  ASSUME PoolStart
  PROVE  /\ n' \in 1 .. MaxThreads /\ n' # 0
         /\ created' \in SUBSET (0 .. n' - 1)
         /\ created' \subseteq Thread
         /\ n' <= 1 => created' = {}
<1>1. n' \in 1 .. MaxThreads
  BY DEF PoolStart
<1>2. created' \in SUBSET (0 .. n' - 1)
  BY DEF PoolStart
<1>3. n' # 0 /\ (n' <= 1 => created' = {})
  BY PoolAssumption DEF PoolStart
<1>4. created' \subseteq Thread
  BY <1>1, <1>2, Within
<1> QED
  BY <1>1, <1>2, <1>3, <1>4

\* Division rounding up: enough pieces of b to cover a.
LEMMA CeilDivFacts ==
  ASSUME NEW a \in Nat, NEW b \in Nat, b > 0
  PROVE  /\ CeilDiv(a, b) \in Nat
         /\ CeilDiv(a, b) * b >= a
         /\ a > 0 => CeilDiv(a, b) > 0
BY Z3 DEF CeilDiv

\* Every grain a caller passes is a positive number.
LEMMA GrainFacts ==
  ASSUME NEW g \in Grains \cup {1}
  PROVE  g \in Nat \ {0}
BY PoolAssumption

\* pool_arm never arms an empty chunk for the cursor split, and arms 0 for the
\* static one: worker() tells the two apart by that alone.
LEMMA ChunkFacts ==
  ASSUME NEW rows \in Nat, NEW grain \in Nat \ {0}, n \in Nat, n > 0, dynamic \in BOOLEAN
  PROVE  /\ ArmedChunk(rows, grain) \in Nat
         /\ dynamic <=> ArmedChunk(rows, grain) > 0
<1>1. Items(rows) \in Nat /\ Items(rows) > 0
  <2>1. rows \div (4 * n) \in Nat
    BY Z3
  <2> QED
    BY <2>1 DEF Items
<1>2. CeilDiv(Items(rows), grain) \in Nat /\ CeilDiv(Items(rows), grain) > 0
  BY <1>1, CeilDivFacts
<1>3. \A a, b \in Nat : b > 0 /\ a > 0 => a * b \in Nat /\ a * b > 0
  BY Z3
<1> QED
  BY <1>2, <1>3 DEF ArmedChunk

\* The generation a job publishes differs from the one before, wrapping or not.
LEMMA NextGen ==
  ASSUME NEW g \in 0 .. GenLimit - 1
  PROVE  (g + 1) % GenLimit \in 0 .. GenLimit - 1 /\ (g + 1) % GenLimit # g
<1>1. GenLimit \in Nat /\ GenLimit > 1
  BY PoolAssumption
<1> QED
  BY <1>1, Z3

\* The threads that have reported are finitely many, at most n, and all of the
\* pool when they are n.
LEMMA FinishedCount ==
  ASSUME PoolTypes, ThreadsInv
  PROVE  /\ IsFiniteSet(Finished)
         /\ Cardinality(Finished) \in 0 .. n
         /\ Cardinality(Finished) = n => Finished = 0 .. n - 1
<1>0. n \in Nat
  BY PoolAssumption DEF PoolTypes
<1>s. Finished \subseteq created
  BY DEF Finished
<1>1. IsFiniteSet(0 .. n - 1) /\ Cardinality(0 .. n - 1) = n
  BY <1>0, FS_Interval
<1>2. Finished \in SUBSET (0 .. n - 1)
  BY <1>s DEF ThreadsInv
<1>3. /\ IsFiniteSet(Finished)
      /\ Cardinality(Finished) <= Cardinality(0 .. n - 1)
      /\ Cardinality(0 .. n - 1) = Cardinality(Finished) => 0 .. n - 1 = Finished
  BY <1>1, <1>2, FS_Subset, Zenon
<1>4. Cardinality(Finished) \in Nat
  BY <1>3, FS_CardinalityType
<1> QED
  BY <1>0, <1>1, <1>3, <1>4

\* The static split: what ShareLen hands worker w is its share of the rows.
LEMMA ShareFacts ==
  ASSUME nrows \in Nat, n \in Nat, n > 0, NEW w \in Nat
  PROVE  /\ ShareSize \in Nat
         /\ ShareSize * n >= nrows
         /\ ShareSize * w \in Nat
         /\ ShareLen(w) \in 0 .. nrows
         /\ \A r \in Nat : r \in ShareSize * w .. ShareSize * w + ShareLen(w) - 1
              <=> r < nrows /\ ShareSize * w <= r /\ r < ShareSize * (w + 1)
<1>1. ShareSize \in Nat /\ ShareSize * n >= nrows
  BY CeilDivFacts DEF ShareSize
<1> DEFINE s == ShareSize
<1> HIDE DEF s
<1>2. s \in Nat
  BY <1>1 DEF s
<1>3. s * w \in Nat /\ s * (w + 1) = s * w + s
  BY <1>2, Z3
<1>4. ShareLen(w) = IF s * w >= nrows THEN 0
                    ELSE IF nrows - s * w < s THEN nrows - s * w ELSE s
  BY DEF ShareLen, Lesser, s
<1> DEFINE p == s * w
<1>5. p \in Nat /\ s * (w + 1) = p + s /\ ShareSize * w = p /\ ShareSize * (w + 1) = p + s
  BY <1>3 DEF s
<1>6. ShareLen(w) = IF p >= nrows THEN 0 ELSE IF nrows - p < s THEN nrows - p ELSE s
  BY <1>4
<1> HIDE DEF p
<1>7. ShareLen(w) \in 0 .. nrows
  BY <1>2, <1>5, <1>6
<1>8. \A r \in Nat : r \in p .. p + ShareLen(w) - 1 <=> r < nrows /\ p <= r /\ r < p + s
  BY <1>2, <1>5, <1>6
<1> QED
  BY <1>1, <1>5, <1>7, <1>8

\* No row is in the shares of two workers.
LEMMA SharesApart ==
  ASSUME nrows \in Nat, n \in Nat, n > 0,
         NEW v \in Nat, NEW w \in Nat, v # w
  PROVE  ShareRows(v) \cap ShareRows(w) = {}
<1> DEFINE s == ShareSize
<1> HIDE DEF s
<1>1. s \in Nat
  BY ShareFacts DEF s
<1>2. v < w => s * (v + 1) <= s * w
  BY <1>1, Z3
<1>3. w < v => s * (w + 1) <= s * v
  BY <1>1, Z3
<1>4. s * v \in Nat /\ s * w \in Nat /\ s * (v + 1) \in Nat /\ s * (w + 1) \in Nat
  BY <1>1, Z3
<1>5. ASSUME NEW r \in Row, s * v <= r, r < s * (v + 1), s * w <= r, r < s * (w + 1)
      PROVE  FALSE
  BY <1>2, <1>3, <1>4, <1>5, PoolAssumption DEF Row
<1> QED
  BY <1>5 DEF ShareRows, s

\* Every row of the job is in some worker's share.
LEMMA ShareOwner ==
  ASSUME nrows \in Nat, n \in Nat, n > 0, NEW r \in Row, r < nrows
  PROVE  \E w \in 0 .. n - 1 : r \in ShareRows(w)
<1> DEFINE s == ShareSize
<1> HIDE DEF s
<1>1. s \in Nat /\ s * n >= nrows /\ r \in Nat
  BY ShareFacts, PoolAssumption DEF s, Row
<1>2. s > 0
  BY <1>1, Z3
<1> DEFINE w == r \div s
<1>3. w \in Nat /\ s * w <= r /\ r < s * (w + 1)
  BY <1>1, <1>2, Z3
<1> HIDE DEF w
<1>4. w < n
  BY <1>1, <1>3, Z3
<1>5. w \in 0 .. n - 1
  BY <1>3, <1>4
<1> QED
  BY <1>3, <1>5 DEF ShareRows, s

\* What a worker that is inside a job can rely on without the mutex.
LEMMA WorkingFacts ==
  ASSUME IInv, NEW w \in Thread, pc[w] \in Working
  PROVE  /\ InCall /\ mygen[w] = gen /\ w \in created /\ w \notin Finished
         /\ nrows = call.n /\ (dynamic <=> chunk > 0)
         /\ Dispatch = <<call.kind, call.id>>
         /\ n \in 2 .. MaxThreads /\ w \in 0 .. n - 1 /\ w \in Nat
         /\ nrows \in 0 .. MaxRows /\ call.n \in 0 .. MaxRows
         /\ Dispatch \in {"callback", "matvec"} \X (Serial \cup {None})
<1> USE PoolAssumption DEF IInv
<1>1. pc[w] # "absent"
  BY DEF Working
<1>2. w \in created /\ InCall /\ mygen[w] = gen
  BY <1>1 DEF ThreadsInv, QuietInv, CountInv, InJob
<1>3. nrows = call.n /\ (dynamic <=> chunk > 0) /\ Dispatch = <<call.kind, call.id>>
  BY <1>2 DEF JobInv, InCall
<1>4. n \in 0 .. MaxThreads /\ n > 1
  BY <1>2 DEF PoolTypes, CallerInv, InCall
<1>5. w \in 0 .. n - 1 /\ w \in Nat
  BY <1>2, <1>4 DEF ThreadsInv
<1>6. nrows \in 0 .. MaxRows
  BY DEF PoolTypes
<1>7. Dispatch \in {"callback", "matvec"} \X (Serial \cup {None})
  BY DEF Dispatch, PoolTypes
<1> QED
  BY <1>2, <1>3, <1>4, <1>5, <1>6, <1>7 DEF Finished

\* The fetch_add step preserves the invariant.
LEMMA StepClaimChunk ==
  ASSUME IInv, NEW w \in Thread, ClaimChunk(w)
  PROVE  IInv'
<1> USE PoolAssumption DEF Thread, Row, Serial, None, NoWork, Working, Running, setup, shared, local
<1>i. /\ PoolTypes /\ CallerTypes /\ WorkerTypes
      /\ ThreadsInv /\ CallerInv /\ QuietInv /\ CountInv /\ JobInv
      /\ FreshInv /\ RanInlineInv /\ SplitInv /\ CursorInv /\ ShareInv
  BY DEF IInv
<1>1. /\ pc[w] \in {"begin", "claim"}
      /\ pc[w] = "begin" => chunk > 0
      /\ next' = next + chunk
      /\ UNCHANGED <<dynamic, n, created, holder, gen, done, fn, mv, nrows, chunk, cpc,
                     call, mygen, times>>
  BY DEF ClaimChunk, CursorBumped
<1>2. /\ InCall /\ mygen[w] = gen /\ w \in created /\ w \notin Finished
      /\ nrows = call.n /\ (dynamic <=> chunk > 0)
      /\ Dispatch = <<call.kind, call.id>>
      /\ nrows \in 0 .. MaxRows
      /\ Dispatch \in {"callback", "matvec"} \X (Serial \cup {None})
  BY <1>1, WorkingFacts
<1>3. dynamic /\ chunk > 0 /\ chunk \in Nat /\ next \in Nat
  BY <1>i, <1>1, <1>2 DEF SplitInv, PoolTypes
<1>4. ASSUME NEW q \in {"runChunk", "report"}, pc' = [pc EXCEPT ![w] = q]
      PROVE  /\ PoolTypes' /\ CallerTypes' /\ ThreadsInv' /\ CallerInv' /\ QuietInv' /\ CountInv'
             /\ FreshInv' /\ RanInlineInv' /\ SplitInv' /\ ShareInv'
             /\ Finished' = Finished
  <2>1. Finished' = Finished
    <3>1. pc'[w] \in Working
      BY <1>i, <1>4 DEF WorkerTypes
    <3>2. \A v \in created : v # w => pc'[v] = pc[v]
      BY <1>i, <1>4 DEF WorkerTypes, ThreadsInv
    <3> HIDE DEF Working
    <3> QED
      BY <1>1, <1>2, <3>1, <3>2 DEF Finished
  <2>2. PoolTypes' /\ CallerTypes' /\ CallerInv'
    BY <1>i, <1>1, <1>3 DEF PoolTypes, CallerTypes, CallerInv
  <2>3. ThreadsInv' /\ QuietInv'
    BY <1>i, <1>1, <1>2, <1>4 DEF ThreadsInv, QuietInv, WorkerTypes, InCall
  <2>4. CountInv'
    BY <1>i, <1>1, <1>2, <1>4, <2>1 DEF CountInv, InJob, InCall, WorkerTypes
  <2>5. FreshInv' /\ RanInlineInv' /\ ShareInv'
    BY <1>i, <1>1, <1>3 DEF FreshInv, RanInlineInv, ShareInv
  <2>6. SplitInv'
    BY <1>i, <1>1, <1>3, <1>4 DEF SplitInv, WorkerTypes
  <2> QED
    BY <2>1, <2>2, <2>3, <2>4, <2>5, <2>6
<1>c. /\ \A v \in Chunks : from[v] + len[v] <= next /\ from[v] + len[v] <= nrows
      /\ \A u, v \in Chunks : u # v => RangeOf(u) \cap RangeOf(v) = {}
      /\ \A v \in Chunks : \A r \in RangeOf(v) : times[r] = 0
      /\ \A r \in Row : r >= next \/ r >= nrows => times[r] = 0
      /\ \A r \in Row : r < next /\ r < nrows =>
            times[r] = 1 \/ \E v \in Chunks : r \in RangeOf(v)
      /\ \A v \in created : pc[v] = "report" \/ v \in Finished => next >= nrows
  BY <1>i, <1>2, <1>3 DEF CursorInv
<1>5. CASE next < nrows
  <2> DEFINE k == Lesser(nrows - next, chunk)
  <2>1. /\ pc' = [pc EXCEPT ![w] = "runChunk"]
        /\ from' = [from EXCEPT ![w] = next]
        /\ len' = [len EXCEPT ![w] = k]
        /\ did' = [did EXCEPT ![w] = Dispatch]
    BY <1>5 DEF ClaimChunk, HandRange
  <2>2. /\ k \in 0 .. MaxRows /\ next + k <= next' /\ next + k <= nrows
        /\ \A r \in Row : r >= next /\ r < next' /\ r < nrows => r < next + k
    BY <1>1, <1>2, <1>3, <1>5 DEF Lesser
  <2> HIDE DEF k
  <2>3. WorkerTypes'
    BY <1>i, <1>1, <1>2, <1>3, <2>1, <2>2 DEF WorkerTypes
  <2>4. JobInv'
    BY <1>i, <1>1, <1>2, <1>3, <2>1 DEF JobInv, Dispatch, WorkerTypes, InCall
  <2>5. CursorInv'
    <3>1. Chunks' = Chunks \cup {w} /\ w \notin Chunks
      BY <1>i, <1>1, <2>1 DEF Chunks, WorkerTypes
    <3>2. \A v \in Chunks : from'[v] = from[v] /\ len'[v] = len[v] /\ RangeOf(v)' = RangeOf(v)
      BY <1>i, <2>1, <3>1 DEF RangeOf, WorkerTypes, Chunks
    <3>3. from'[w] = next /\ len'[w] = k /\ RangeOf(w)' = next .. next + k - 1
      BY <1>i, <2>1 DEF RangeOf, WorkerTypes
    <3>4. \A v \in Chunks : from[v] \in Nat /\ len[v] \in Nat
      BY <1>i DEF WorkerTypes, Chunks
    <3>5. \A v \in Chunks' : from'[v] + len'[v] <= next' /\ from'[v] + len'[v] <= nrows'
      BY <1>1, <1>2, <1>3, <1>c, <2>2, <3>1, <3>2, <3>3, <3>4
    <3>6. \A v \in Chunks : RangeOf(v) \cap (next .. next + k - 1) = {}
      BY <1>3, <1>c, <2>2, <3>4 DEF RangeOf
    <3>7. \A u, v \in Chunks' : u # v => RangeOf(u)' \cap RangeOf(v)' = {}
      <4> SUFFICES ASSUME NEW u \in Chunks', NEW v \in Chunks', u # v
                   PROVE  RangeOf(u)' \cap RangeOf(v)' = {}
        OBVIOUS
      <4>1. CASE u = w
        BY <3>1, <3>2, <3>3, <3>6, <4>1
      <4>2. CASE v = w
        BY <3>1, <3>2, <3>3, <3>6, <4>2
      <4>3. CASE u # w /\ v # w
        <5>1. u \in Chunks /\ v \in Chunks
          BY <3>1, <4>3
        <5>2. RangeOf(u)' = RangeOf(u) /\ RangeOf(v)' = RangeOf(v)
          BY <3>2, <5>1
        <5> QED
          BY <1>c, <5>1, <5>2
      <4> QED
        BY <4>1, <4>2, <4>3
    <3>8. \A v \in Chunks' : \A r \in RangeOf(v)' : times'[r] = 0
      <4>1. \A r \in next .. next + k - 1 : r \in Row /\ r >= next
        BY <1>2, <1>3, <2>2
      <4> SUFFICES ASSUME NEW v \in Chunks', NEW r \in RangeOf(v)'
                   PROVE  times'[r] = 0
        OBVIOUS
      <4>2. CASE v = w
        BY <1>1, <1>c, <3>3, <4>1, <4>2
      <4>3. CASE v # w
        <5>1. v \in Chunks /\ r \in RangeOf(v)
          BY <3>1, <3>2, <4>3
        <5> QED
          BY <1>1, <1>c, <5>1
      <4> QED
        BY <4>2, <4>3
    <3>9. \A r \in Row : r >= next' \/ r >= nrows' => times'[r] = 0
      BY <1>1, <1>2, <1>3, <1>c
    <3>10. \A r \in Row : r < next' /\ r < nrows' =>
              times'[r] = 1 \/ \E v \in Chunks' : r \in RangeOf(v)'
      <4> SUFFICES ASSUME NEW r \in Row, r < next', r < nrows', times'[r] # 1
                   PROVE  \E v \in Chunks' : r \in RangeOf(v)'
        OBVIOUS
      <4>1. CASE r < next
        <5>1. PICK v \in Chunks : r \in RangeOf(v)
          BY <1>1, <1>c, <4>1
        <5> QED
          BY <3>1, <3>2, <5>1
      <4>2. CASE r >= next
        <5>1. r \in next .. next + k - 1
          BY <1>1, <1>3, <2>2, <4>2
        <5> QED
          BY <3>1, <3>3, <5>1
      <4> QED
        BY <1>3, <4>1, <4>2
    <3>11. \A v \in created' : pc'[v] = "report" \/ v \in Finished' => next' >= nrows'
      <4>1. Finished' = Finished
        BY <1>4, <2>1
      <4>2. \A v \in created : pc'[v] = "report" => pc[v] = "report"
        BY <1>i, <2>1 DEF WorkerTypes, ThreadsInv
      <4> QED
        BY <1>1, <1>2, <1>3, <1>5, <1>c, <4>1, <4>2
    <3> QED
      BY <3>5, <3>7, <3>8, <3>9, <3>10, <3>11 DEF CursorInv
  <2> QED
    BY <1>4, <2>1, <2>3, <2>4, <2>5 DEF IInv
<1>6. CASE ~(next < nrows)
  <2>1. pc' = [pc EXCEPT ![w] = "report"] /\ UNCHANGED <<from, len, did>>
    BY <1>6 DEF ClaimChunk, NoRange
  <2>2. WorkerTypes'
    BY <1>i, <1>1, <2>1 DEF WorkerTypes
  <2>3. JobInv'
    BY <1>i, <1>1, <1>2, <2>1 DEF JobInv, Dispatch, WorkerTypes, InCall
  <2>4. CursorInv'
    <3>1. Chunks' = Chunks
      BY <1>i, <1>1, <2>1 DEF Chunks, WorkerTypes
    <3>2. \A v : RangeOf(v)' = RangeOf(v)
      BY <2>1 DEF RangeOf
    <3>3. \A v \in Chunks : from[v] \in Nat /\ len[v] \in Nat
      BY <1>i DEF WorkerTypes, Chunks
    <3>4. next' >= next /\ next' >= nrows' /\ next \in Nat /\ next' \in Nat /\ nrows \in Nat
      BY <1>1, <1>2, <1>3, <1>6
    <3>5. \A v \in Chunks' : from'[v] + len'[v] <= next' /\ from'[v] + len'[v] <= nrows'
      BY <1>1, <1>c, <2>1, <3>1, <3>3, <3>4
    <3>6. \A u, v \in Chunks' : u # v => RangeOf(u)' \cap RangeOf(v)' = {}
      BY <1>c, <3>1, <3>2
    <3>7. \A v \in Chunks' : \A r \in RangeOf(v)' : times'[r] = 0
      BY <1>1, <1>c, <3>1, <3>2
    <3>8. \A r \in Row : r >= next' \/ r >= nrows' => times'[r] = 0
      BY <1>1, <1>c, <3>4
    <3>9. \A r \in Row : r < next' /\ r < nrows' =>
             times'[r] = 1 \/ \E v \in Chunks' : r \in RangeOf(v)'
      BY <1>1, <1>6, <1>c, <3>1, <3>2, <3>4
    <3> QED
      BY <3>4, <3>5, <3>6, <3>7, <3>8, <3>9 DEF CursorInv
  <2> QED
    BY <1>4, <2>1, <2>2, <2>3, <2>4 DEF IInv
<1> QED
  BY <1>5, <1>6

\* The static split preserves the invariant.
LEMMA StepTakeShare ==
  ASSUME IInv, NEW w \in Thread, TakeShare(w)
  PROVE  IInv'
<1> USE PoolAssumption DEF Thread, Row, Serial, None, NoWork, Working, Running, setup, shared, local
<1>i. /\ PoolTypes /\ CallerTypes /\ WorkerTypes
      /\ ThreadsInv /\ CallerInv /\ QuietInv /\ CountInv /\ JobInv
      /\ FreshInv /\ RanInlineInv /\ SplitInv /\ CursorInv /\ ShareInv
  BY DEF IInv
<1>1. /\ pc[w] = "begin" /\ chunk = 0
      /\ UNCHANGED <<dynamic, n, created, holder, gen, done, fn, mv, nrows, next, chunk, cpc,
                     call, mygen, times>>
  BY DEF TakeShare
<1>2. /\ InCall /\ mygen[w] = gen /\ w \in created /\ w \notin Finished
      /\ nrows = call.n /\ (dynamic <=> chunk > 0)
      /\ Dispatch = <<call.kind, call.id>>
      /\ n \in 2 .. MaxThreads /\ w \in 0 .. n - 1 /\ w \in Nat
      /\ nrows \in 0 .. MaxRows
      /\ Dispatch \in {"callback", "matvec"} \X (Serial \cup {None})
  BY <1>1, WorkingFacts
<1>3. ~dynamic
  BY <1>1, <1>2
<1>s. /\ ShareSize \in Nat /\ ShareSize * w \in Nat /\ ShareLen(w) \in 0 .. nrows
      /\ \A r \in Nat : r \in ShareSize * w .. ShareSize * w + ShareLen(w) - 1
           <=> r < nrows /\ ShareSize * w <= r /\ r < ShareSize * (w + 1)
  <2>1. nrows \in Nat /\ n \in Nat /\ n > 0
    BY <1>2
  <2> QED
    BY <1>2, <2>1, ShareFacts, Zenon
<1>u. ShareSize' = ShareSize /\ (\A v : ShareLen(v)' = ShareLen(v) /\ ShareRows(v)' = ShareRows(v))
  BY <1>1 DEF ShareSize, ShareLen, ShareRows
<1>4. ASSUME NEW q \in {"runShare", "report"}, pc' = [pc EXCEPT ![w] = q]
      PROVE  /\ PoolTypes' /\ CallerTypes' /\ ThreadsInv' /\ CallerInv' /\ QuietInv' /\ CountInv'
             /\ FreshInv' /\ RanInlineInv' /\ SplitInv' /\ CursorInv'
             /\ Finished' = Finished
  <2>1. Finished' = Finished
    <3>1. pc'[w] \in Working
      BY <1>i, <1>4 DEF WorkerTypes
    <3>2. \A v \in created : v # w => pc'[v] = pc[v]
      BY <1>i, <1>4 DEF WorkerTypes, ThreadsInv
    <3> HIDE DEF Working
    <3> QED
      BY <1>1, <1>2, <3>1, <3>2 DEF Finished
  <2>2. PoolTypes' /\ CallerTypes' /\ CallerInv'
    BY <1>i, <1>1 DEF PoolTypes, CallerTypes, CallerInv
  <2>3. ThreadsInv' /\ QuietInv'
    BY <1>i, <1>1, <1>2, <1>4 DEF ThreadsInv, QuietInv, WorkerTypes, InCall
  <2>4. CountInv'
    BY <1>i, <1>1, <1>2, <1>4, <2>1 DEF CountInv, InJob, InCall, WorkerTypes
  <2>5. FreshInv' /\ RanInlineInv' /\ CursorInv'
    BY <1>i, <1>1, <1>3 DEF FreshInv, RanInlineInv, CursorInv
  <2>6. SplitInv'
    BY <1>i, <1>1, <1>3, <1>4 DEF SplitInv, WorkerTypes
  <2> QED
    BY <2>1, <2>2, <2>3, <2>4, <2>5, <2>6
<1>5. CASE ShareLen(w) > 0
  <2>1. /\ pc' = [pc EXCEPT ![w] = "runShare"]
        /\ from' = [from EXCEPT ![w] = ShareSize * w]
        /\ len' = [len EXCEPT ![w] = ShareLen(w)]
        /\ did' = [did EXCEPT ![w] = Dispatch]
    BY <1>5 DEF TakeShare, HandRange
  <2>2. WorkerTypes'
    <3> DEFINE p == ShareSize * w
    <3>1. p \in Nat /\ from' = [from EXCEPT ![w] = p]
      BY <1>s, <2>1
    <3> HIDE DEF p
    <3>2. ShareLen(w) \in 0 .. MaxRows
      BY <1>2, <1>s
    <3> QED
      BY <1>i, <1>1, <1>2, <2>1, <3>1, <3>2 DEF WorkerTypes
  <2>3. JobInv'
    BY <1>i, <1>1, <1>2, <2>1 DEF JobInv, Dispatch, WorkerTypes, InCall
  <2>4. ShareInv'
    <3>1. \A v \in Thread : pc'[v] = "runShare" =>
             from'[v] = ShareSize * v /\ len'[v] = ShareLen(v)
      BY <1>i, <1>2, <1>3, <2>1 DEF ShareInv, WorkerTypes
    <3>2. \A v \in 0 .. n - 1 : v \in Thread /\ (pc'[v] = "report" <=> pc[v] = "report")
      BY <1>i, <1>1, <1>2, <2>1 DEF WorkerTypes
    <3>3. Finished' = Finished
      BY <1>4, <2>1
    <3> QED
      BY <1>i, <1>1, <1>2, <1>3, <1>u, <3>1, <3>2, <3>3 DEF ShareInv
  <2> QED
    BY <1>4, <2>1, <2>2, <2>3, <2>4 DEF IInv
<1>6. CASE ~(ShareLen(w) > 0)
  <2>1. pc' = [pc EXCEPT ![w] = "report"] /\ UNCHANGED <<from, len, did>>
    BY <1>6 DEF TakeShare, NoRange
  <2>2. WorkerTypes'
    BY <1>i, <1>1, <2>1 DEF WorkerTypes
  <2>3. JobInv'
    BY <1>i, <1>1, <1>2, <2>1 DEF JobInv, Dispatch, WorkerTypes, InCall
  <2>4. ShareInv'
    <3>1. \A v \in Thread : pc'[v] = "runShare" =>
             from'[v] = ShareSize * v /\ len'[v] = ShareLen(v)
      BY <1>i, <1>2, <1>3, <2>1 DEF ShareInv, WorkerTypes
    <3>2. \A v \in 0 .. n - 1 : v \in Thread /\ (v # w => (pc'[v] = "report" <=> pc[v] = "report"))
      BY <1>i, <1>1, <1>2, <2>1 DEF WorkerTypes
    <3>3. Finished' = Finished
      BY <1>4, <2>1
    <3>4. ShareRows(w) = {}
      BY <1>6, <1>s DEF ShareRows
    <3> QED
      BY <1>i, <1>1, <1>2, <1>3, <1>u, <3>1, <3>2, <3>3, <3>4 DEF ShareInv
  <2> QED
    BY <1>4, <2>1, <2>2, <2>3, <2>4 DEF IInv
<1> QED
  BY <1>5, <1>6

\* Coming back from a range preserves the invariant.
LEMMA StepRunRange ==
  ASSUME IInv, NEW w \in Thread, RunRange(w)
  PROVE  IInv'
<1> USE PoolAssumption DEF Thread, Row, Serial, None, NoWork, Working, Running, setup, shared, local
<1>i. /\ PoolTypes /\ CallerTypes /\ WorkerTypes
      /\ ThreadsInv /\ CallerInv /\ QuietInv /\ CountInv /\ JobInv
      /\ FreshInv /\ RanInlineInv /\ SplitInv /\ CursorInv /\ ShareInv
  BY DEF IInv
<1> DEFINE q == IF pc[w] = "runChunk" THEN "claim" ELSE "report"
<1>1. /\ pc[w] \in {"runChunk", "runShare"}
      /\ times' = [r \in Row |-> IF r \in RangeOf(w) THEN times[r] + 1 ELSE times[r]]
      /\ pc' = [pc EXCEPT ![w] = q]
      /\ from' = [from EXCEPT ![w] = 0] /\ len' = [len EXCEPT ![w] = 0]
      /\ did' = [did EXCEPT ![w] = NoWork]
      /\ UNCHANGED <<dynamic, n, created, holder, gen, done, fn, mv, nrows, next, chunk, cpc,
                     call, mygen>>
  BY DEF RunRange
<1>q. q \in {"claim", "report"}
  OBVIOUS
<1>2. /\ InCall /\ mygen[w] = gen /\ w \in created /\ w \notin Finished
      /\ n \in 2 .. MaxThreads /\ w \in 0 .. n - 1 /\ w \in Nat
      /\ nrows \in 0 .. MaxRows
  BY <1>1, WorkingFacts
<1>3. (pc[w] = "runChunk" <=> dynamic) /\ dynamic \in BOOLEAN
  BY <1>i, <1>1 DEF SplitInv, PoolTypes
<1>4. Finished' = Finished
  <2>1. created \subseteq Thread
    BY <1>i DEF PoolTypes
  <2>2. pc'[w] = q /\ \A v \in Thread : v # w => pc'[v] = pc[v]
    BY <1>i, <1>1 DEF WorkerTypes
  <2>3. \A v \in Thread : pc'[v] \in Working <=> pc[v] \in Working
    BY <1>1, <1>q, <2>2
  <2> QED
    BY <1>1, <2>1, <2>3 DEF Finished
<1>5. PoolTypes' /\ CallerInv'
  BY <1>i, <1>1 DEF PoolTypes, CallerInv
<1>6. CallerTypes'
  BY <1>i, <1>1 DEF CallerTypes
<1>7. WorkerTypes'
  BY <1>i, <1>1, <1>q DEF WorkerTypes
<1>8. ThreadsInv' /\ QuietInv'
  BY <1>i, <1>1, <1>2, <1>q DEF ThreadsInv, QuietInv, WorkerTypes, InCall
<1>9. CountInv'
  BY <1>i, <1>1, <1>2, <1>4, <1>q DEF CountInv, InJob, InCall, WorkerTypes
<1>10. JobInv'
  BY <1>i, <1>1, <1>q DEF JobInv, Dispatch, WorkerTypes
<1>11. FreshInv' /\ RanInlineInv'
  BY <1>1, <1>2 DEF FreshInv, RanInlineInv, InCall
<1>12. SplitInv'
  BY <1>i, <1>1, <1>3 DEF SplitInv, WorkerTypes
<1>13. ASSUME NEW v \in Thread \ {w} PROVE RangeOf(v)' = RangeOf(v) /\ pc'[v] = pc[v]
  BY <1>i, <1>1 DEF RangeOf, WorkerTypes
<1>14. CursorInv'
  <2> SUFFICES ASSUME dynamic PROVE CursorInv'
    BY <1>1 DEF CursorInv
  <2>c. /\ \A v \in Chunks : from[v] + len[v] <= next /\ from[v] + len[v] <= nrows
        /\ \A u, v \in Chunks : u # v => RangeOf(u) \cap RangeOf(v) = {}
        /\ \A v \in Chunks : \A r \in RangeOf(v) : times[r] = 0
        /\ \A r \in Row : r >= next \/ r >= nrows => times[r] = 0
        /\ \A r \in Row : r < next /\ r < nrows =>
              times[r] = 1 \/ \E v \in Chunks : r \in RangeOf(v)
        /\ \A v \in created : pc[v] = "report" \/ v \in Finished => next >= nrows
    BY <1>i, <1>2 DEF CursorInv
  <2>1. Chunks' = Chunks \ {w} /\ w \in Chunks
    BY <1>i, <1>1, <1>3, <1>q DEF Chunks, WorkerTypes
  <2>2. \A v \in Chunks' : /\ v \in Chunks /\ v # w
                           /\ from'[v] = from[v] /\ len'[v] = len[v]
                           /\ RangeOf(v)' = RangeOf(v)
    BY <1>i, <1>1, <1>13, <2>1 DEF WorkerTypes, Chunks
  <2>3. from[w] \in Nat /\ len[w] \in Nat /\ next \in Nat /\ nrows \in Nat
    BY <1>i DEF WorkerTypes, PoolTypes
  <2>4. \A r \in Row : (r >= next \/ r >= nrows) => r \notin RangeOf(w)
    BY <2>c, <2>1, <2>3 DEF RangeOf
  <2>5. \A v \in Chunks' : from'[v] + len'[v] <= next' /\ from'[v] + len'[v] <= nrows'
    BY <1>1, <2>c, <2>2
  <2>6. \A u, v \in Chunks' : u # v => RangeOf(u)' \cap RangeOf(v)' = {}
    BY <2>c, <2>2
  <2>7. \A v \in Chunks' : \A r \in RangeOf(v)' : times'[r] = 0
    <3> SUFFICES ASSUME NEW v \in Chunks', NEW r \in RangeOf(v)'
                 PROVE  times'[r] = 0
      OBVIOUS
    <3>1. r \in RangeOf(v) /\ r \notin RangeOf(w) /\ v \in Chunks
      BY <2>c, <2>1, <2>2
    <3>2. from[v] \in Nat /\ len[v] \in Nat /\ from[v] + len[v] <= nrows
      BY <1>i, <2>c, <3>1 DEF WorkerTypes, Chunks
    <3>3. r \in Row
      BY <1>2, <3>1, <3>2 DEF RangeOf
    <3> QED
      BY <1>1, <2>c, <3>1, <3>3
  <2>8. \A r \in Row : r >= next' \/ r >= nrows' => times'[r] = 0
    BY <1>1, <2>c, <2>4
  <2>9. \A r \in Row : r < next' /\ r < nrows' =>
           times'[r] = 1 \/ \E v \in Chunks' : r \in RangeOf(v)'
    <3> SUFFICES ASSUME NEW r \in Row, r < next', r < nrows', times'[r] # 1
                 PROVE  \E v \in Chunks' : r \in RangeOf(v)'
      OBVIOUS
    <3>1. r \notin RangeOf(w) /\ times[r] # 1
      BY <1>1, <2>c, <2>1
    <3>2. PICK v \in Chunks : r \in RangeOf(v)
      BY <1>1, <2>c, <3>1
    <3> QED
      BY <2>1, <2>2, <3>1, <3>2
  <2>10. \A v \in created' : pc'[v] = "report" \/ v \in Finished' => next' >= nrows'
    BY <1>i, <1>1, <1>3, <1>4, <2>c DEF WorkerTypes, ThreadsInv
  <2> QED
    BY <2>5, <2>6, <2>7, <2>8, <2>9, <2>10 DEF CursorInv
<1>15. ShareInv'
  <2> SUFFICES ASSUME ~dynamic PROVE ShareInv'
    BY <1>1 DEF ShareInv
  <2>u. ShareSize' = ShareSize /\ (\A v : ShareLen(v)' = ShareLen(v) /\ ShareRows(v)' = ShareRows(v))
    BY <1>1 DEF ShareSize, ShareLen, ShareRows
  <2>1. pc[w] = "runShare" /\ q = "report"
    BY <1>1, <1>3
  <2>2. from[w] = ShareSize * w /\ len[w] = ShareLen(w)
    BY <1>i, <1>2, <2>1 DEF ShareInv
  <2>3. \A r \in Row : r \in RangeOf(w) <=> r \in ShareRows(w)
    BY <1>2, <2>2, ShareFacts DEF RangeOf, ShareRows
  <2>4. \A v \in Thread : pc'[v] = "runShare" =>
           from'[v] = ShareSize * v /\ len'[v] = ShareLen(v)
    BY <1>i, <1>1, <1>2, <2>1 DEF ShareInv, WorkerTypes
  <2>5. \A v \in 0 .. n - 1 : \A r \in ShareRows(v) :
           times'[r] = IF pc'[v] = "report" \/ v \in Finished' THEN 1 ELSE 0
    <3> SUFFICES ASSUME NEW v \in 0 .. n - 1, NEW r \in ShareRows(v)
                 PROVE  times'[r] = IF pc'[v] = "report" \/ v \in Finished' THEN 1 ELSE 0
      OBVIOUS
    <3>1. r \in Row /\ v \in Thread /\ v \in Nat
      BY <1>2 DEF ShareRows
    <3>2. times[r] = IF pc[v] = "report" \/ v \in Finished THEN 1 ELSE 0
      BY <1>i, <1>2 DEF ShareInv
    <3>3. CASE v = w
      <4>1. pc'[w] = "report" /\ r \in RangeOf(w)
        BY <1>i, <1>1, <2>1, <2>3, <3>1, <3>3 DEF WorkerTypes
      <4>2. times[r] = 0
        BY <1>2, <2>1, <3>2, <3>3
      <4> QED
        BY <1>1, <3>1, <3>3, <4>1, <4>2
    <3>4. CASE v # w
      <4>1. r \notin ShareRows(w)
        BY <1>2, <3>1, <3>4, SharesApart
      <4> QED
        BY <1>1, <1>4, <1>13, <2>3, <3>1, <3>2, <3>4, <4>1
    <3> QED
      BY <3>3, <3>4
  <2>6. \A r \in Row : r >= nrows' => times'[r] = 0
    BY <1>i, <1>1, <1>2, <2>3 DEF ShareInv, ShareRows
  <2> QED
    BY <1>1, <2>u, <2>4, <2>5, <2>6 DEF ShareInv
<1> QED
  BY <1>5, <1>6, <1>7, <1>8, <1>9, <1>10, <1>11, <1>12, <1>14, <1>15 DEF IInv

\* Reporting to the caller preserves the invariant.
LEMMA StepReport ==
  ASSUME IInv, NEW w \in Thread, Report(w)
  PROVE  IInv'
<1> USE PoolAssumption DEF Thread, Row, Serial, None, NoWork, Working, Running, setup, shared, local
<1>i. /\ PoolTypes /\ CallerTypes /\ WorkerTypes
      /\ ThreadsInv /\ CallerInv /\ QuietInv /\ CountInv /\ JobInv
      /\ FreshInv /\ RanInlineInv /\ SplitInv /\ CursorInv /\ ShareInv
  BY DEF IInv
<1>1. /\ pc[w] = "report"
      /\ done' = done + 1
      /\ cpc' = IF done' = n /\ cpc = "asleep" THEN "woken" ELSE cpc
      /\ pc' = [pc EXCEPT ![w] = "lock"]
      /\ UNCHANGED <<dynamic, n, created, holder, gen, fn, mv, nrows, next, chunk,
                     call, mygen, from, len, did, times>>
  BY DEF Report
<1>2. /\ InCall /\ mygen[w] = gen /\ w \in created /\ w \notin Finished
      /\ n \in 2 .. MaxThreads /\ w \in 0 .. n - 1
  BY <1>1, WorkingFacts
<1>3. InCall' /\ (cpc' = cpc \/ cpc' = "woken")
  BY <1>1, <1>2 DEF InCall
<1>4. Finished' = Finished \cup {w}
  <2>1. pc'[w] \notin Working /\ mygen'[w] = gen' /\ w \in created'
    BY <1>i, <1>1, <1>2 DEF WorkerTypes
  <2>2. \A v \in created : v # w => pc'[v] = pc[v] /\ mygen'[v] = mygen[v]
    BY <1>i, <1>1 DEF WorkerTypes, ThreadsInv
  <2> HIDE DEF Working
  <2> QED
    BY <1>1, <2>1, <2>2 DEF Finished
<1>5. IsFiniteSet(Finished) /\ Cardinality(Finished) = done
  BY <1>i, <1>2, FinishedCount DEF CountInv
<1>6. done' = Cardinality(Finished')
  BY <1>1, <1>2, <1>4, <1>5, FS_AddElement
<1>7. ThreadsInv'
  BY <1>i, <1>1, <1>2 DEF ThreadsInv, WorkerTypes
<1>8. done' \in 0 .. n
  <2>1. Cardinality(Finished) \in 0 .. n /\ (Cardinality(Finished) = n => Finished = 0 .. n - 1)
    BY <1>i, FinishedCount
  <2>2. done # n
    BY <1>2, <1>5, <2>1
  <2>3. done \in 0 .. n
    BY <1>5, <2>1
  <2> QED
    BY <1>1, <1>2, <2>2, <2>3
<1>9. PoolTypes'
  BY <1>i, <1>1, <1>8 DEF PoolTypes
<1>10. CallerTypes' /\ CallerInv'
  BY <1>i, <1>1, <1>2, <1>3 DEF CallerTypes, CallerInv, InCall
<1>11. WorkerTypes'
  BY <1>i, <1>1 DEF WorkerTypes
<1>12. QuietInv' /\ CountInv'
  BY <1>i, <1>1, <1>2, <1>3, <1>6 DEF QuietInv, CountInv, InJob, InCall, WorkerTypes
<1>13. JobInv'
  BY <1>i, <1>1, <1>2 DEF JobInv, Dispatch, WorkerTypes, InCall
<1>14. FreshInv' /\ RanInlineInv'
  BY <1>3 DEF FreshInv, RanInlineInv, InCall
<1>15. SplitInv'
  BY <1>i, <1>1 DEF SplitInv, WorkerTypes
<1>16. CursorInv'
  <2>1. Chunks' = Chunks
    BY <1>i, <1>1 DEF Chunks, WorkerTypes
  <2>2. \A v : RangeOf(v)' = RangeOf(v)
    BY <1>1 DEF RangeOf
  <2>3. \A v \in created : pc'[v] = "report" \/ v \in Finished' => pc[v] = "report" \/ v \in Finished
    BY <1>i, <1>1, <1>4 DEF WorkerTypes, ThreadsInv
  <2> QED
    BY <1>i, <1>1, <1>2, <2>1, <2>2, <2>3 DEF CursorInv
<1>17. ShareInv'
  <2>u. ShareSize' = ShareSize /\ (\A v : ShareLen(v)' = ShareLen(v) /\ ShareRows(v)' = ShareRows(v))
    BY <1>1 DEF ShareSize, ShareLen, ShareRows
  <2>1. \A v \in 0 .. n - 1 : (pc'[v] = "report" \/ v \in Finished') <=> (pc[v] = "report" \/ v \in Finished)
    BY <1>i, <1>1, <1>2, <1>4 DEF WorkerTypes
  <2>2. \A v \in Thread : pc'[v] = "runShare" => pc[v] = "runShare"
    BY <1>i, <1>1 DEF WorkerTypes
  <2> QED
    BY <1>i, <1>1, <1>2, <2>u, <2>1, <2>2 DEF ShareInv
<1> QED
  BY <1>7, <1>9, <1>10, <1>11, <1>12, <1>13, <1>14, <1>15, <1>16, <1>17 DEF IInv

\* A step that moves no worker into or out of its share keeps ShareInv.
LEMMA ShareFrame ==
    ASSUME ShareInv, PoolTypes,
           UNCHANGED <<dynamic, n, cpc, nrows, from, len, times>>,
           Finished' = Finished,
           \A v \in Thread : pc'[v] = "runShare" => pc[v] = "runShare",
           \A v \in Thread : pc'[v] = "report" <=> pc[v] = "report"
    PROVE  ShareInv'
<1>1. /\ InCall' = InCall
      /\ ShareSize' = ShareSize
      /\ \A w \in Thread : ShareLen(w)' = ShareLen(w)
      /\ \A w \in 0 .. n - 1 : ShareRows(w)' = ShareRows(w)
  BY DEF InCall, ShareSize, ShareLen, ShareToTheEnd, ShareRows
<1>2. 0 .. n - 1 \subseteq Thread
  BY PoolAssumption DEF PoolTypes, Thread
<1> QED
  BY <1>1, <1>2 DEF ShareInv

\* Every step of the pool preserves the invariant.
LEMMA Inductive == IInv /\ [Next]_vars => IInv'
<1> SUFFICES ASSUME IInv, [Next]_vars PROVE IInv'
  OBVIOUS
<1> USE PoolAssumption DEF Thread, Row, Serial, None, NoWork, Working, Running, setup, shared, local
<1>i. /\ PoolTypes /\ CallerTypes /\ WorkerTypes
     /\ ThreadsInv /\ CallerInv /\ QuietInv /\ CountInv /\ JobInv
     /\ FreshInv /\ RanInlineInv /\ SplitInv /\ CursorInv /\ ShareInv
  BY DEF IInv
<1> USE <1>i
<1>f. \A w \in Thread : pc[w] \in Working => InCall /\ mygen[w] = gen /\ w \in created
  BY DEF QuietInv, ThreadsInv, CountInv, InJob
<1>n. n \in Nat
  BY DEF PoolTypes
<1>g. InCall /\ AllDone => Finished = 0 .. n - 1 /\ created = 0 .. n - 1
  <2> SUFFICES ASSUME InCall, AllDone PROVE Finished = 0 .. n - 1 /\ created = 0 .. n - 1
    OBVIOUS
  <2>1. Finished = 0 .. n - 1
    BY FinishedCount, <1>n DEF CountInv, AllDone
  <2> QED
    BY <2>1 DEF Finished, ThreadsInv
<1>1. ASSUME PoolStart PROVE IInv'
  <2>1. PoolTypes'
    <3>1. n' \in 1 .. MaxThreads /\ created' \in SUBSET Thread
      BY <1>1, StartFacts
    <3>2. done' = 0
      BY <1>1 DEF PoolStart, PoolTypes
    <3> QED
      BY <1>1, <3>1, <3>2 DEF PoolStart, PoolTypes
  <2>2. CallerTypes'
    BY <1>1, <1>f DEF PoolStart, CallerTypes
  <2>3. WorkerTypes'
    BY <1>1, <1>f DEF PoolStart, WorkerTypes
  <2>4. ThreadsInv'
    <3>1. created' \subseteq 0 .. n' - 1 /\ n' # 0 /\ (n' <= 1 => created' = {})
      BY <1>1, StartFacts
    <3>2. \A w \in Thread : pc'[w] = "absent" <=> w \notin created'
      BY <1>1 DEF PoolStart
    <3> QED
      BY <3>1, <3>2 DEF ThreadsInv
  <2>5. CallerInv'
    BY <1>1, <1>f DEF PoolStart, CallerInv, WorkerTypes
  <2>6. QuietInv'
    <3>1. gen = 0 /\ \A w \in Thread : mygen[w] = 0
      BY <1>1 DEF PoolStart, ThreadsInv
    <3>2. \A w \in Thread : pc'[w] \notin Working
      BY <1>1 DEF PoolStart
    <3>3. created' \subseteq Thread
      BY <1>1, StartFacts
    <3> QED
      BY <1>1, <3>1, <3>2, <3>3 DEF PoolStart, QuietInv
  <2>7. CountInv'
    BY <1>1, <1>f DEF PoolStart, CountInv, InJob, InCall, Finished, WorkerTypes
  <2>8. JobInv'
    BY <1>1, <1>f DEF PoolStart, JobInv, Dispatch, WorkerTypes
  <2>9. FreshInv'
    BY <1>1, <1>f DEF PoolStart, FreshInv, WorkerTypes
  <2>10. RanInlineInv'
    BY <1>1, <1>f DEF PoolStart, RanInlineInv, WorkerTypes
  <2>11. SplitInv'
    BY <1>1, <1>f DEF PoolStart, SplitInv, WorkerTypes
  <2>12. CursorInv'
    BY <1>1, <1>f DEF PoolStart, CursorInv, InCall, Chunks, RangeOf, Finished, WorkerTypes
  <2>13. ShareInv'
    BY <1>1, <1>f DEF PoolStart, ShareInv, InCall, ShareRows, ShareSize, ShareLen, Finished, WorkerTypes
  <2> QED BY <2>1, <2>2, <2>3, <2>4, <2>5, <2>6, <2>7, <2>8, <2>9, <2>10, <2>11, <2>12, <2>13 DEF IInv
<1>2. ASSUME CallInline PROVE IInv'
  <2>1. PoolTypes'
    BY <1>2, <1>f DEF CallInline, NewCall, Requests, PoolTypes
  <2>2. CallerTypes'
    BY <1>2, <1>f DEF CallInline, NewCall, Requests, CallerTypes
  <2>3. WorkerTypes'
    BY <1>2, <1>f DEF CallInline, NewCall, Requests, WorkerTypes
  <2>4. ThreadsInv'
    BY <1>2, <1>f DEF CallInline, NewCall, Requests, ThreadsInv, WorkerTypes
  <2>5. CallerInv'
    BY <1>2, <1>f DEF CallInline, NewCall, Requests, CallerInv, WorkerTypes
  <2>6. QuietInv'
    BY <1>2, <1>f DEF CallInline, NewCall, Requests, QuietInv, InCall, WorkerTypes
  <2>7. CountInv'
    BY <1>2, <1>f DEF CallInline, NewCall, Requests, CountInv, InJob, InCall, Finished, WorkerTypes
  <2>8. JobInv'
    BY <1>2, <1>f DEF CallInline, JobInv, InCall
  <2>9. FreshInv'
    BY <1>2, <1>f DEF CallInline, NewCall, Requests, FreshInv, WorkerTypes
  <2>10. RanInlineInv'
    BY <1>2, <1>f DEF CallInline, NewCall, Requests, RanInlineInv, WorkerTypes
  <2>11. SplitInv'
    BY <1>2, <1>f DEF CallInline, NewCall, Requests, SplitInv, WorkerTypes
  <2>12. CursorInv'
    BY <1>2, <1>f DEF CallInline, NewCall, Requests, CursorInv, InCall, Chunks, RangeOf, Finished, WorkerTypes
  <2>13. ShareInv'
    BY <1>2, <1>f DEF CallInline, NewCall, Requests, ShareInv, InCall, ShareRows, ShareSize, ShareLen, Finished, WorkerTypes
  <2> QED BY <2>1, <2>2, <2>3, <2>4, <2>5, <2>6, <2>7, <2>8, <2>9, <2>10, <2>11, <2>12, <2>13 DEF IInv
<1>3. ASSUME RunInline PROVE IInv'
  <2>1. PoolTypes'
    BY <1>3, <1>f DEF RunInline, PoolTypes
  <2>2. CallerTypes'
    BY <1>3, <1>f DEF RunInline, CallerTypes
  <2>3. WorkerTypes'
    BY <1>3, <1>f DEF RunInline, WorkerTypes
  <2>4. ThreadsInv'
    BY <1>3, <1>f DEF RunInline, ThreadsInv, WorkerTypes
  <2>5. CallerInv'
    BY <1>3, <1>f DEF RunInline, CallerInv, WorkerTypes
  <2>6. QuietInv'
    BY <1>3, <1>f DEF RunInline, QuietInv, InCall, WorkerTypes
  <2>7. CountInv'
    BY <1>3, <1>f DEF RunInline, CountInv, InJob, InCall, Finished, WorkerTypes
  <2>8. JobInv'
    BY <1>3, <1>f DEF RunInline, JobInv, Dispatch, WorkerTypes
  <2>9. FreshInv'
    BY <1>3, <1>f DEF RunInline, FreshInv, WorkerTypes
  <2>10. RanInlineInv'
    BY <1>3 DEF RunInline, RanInlineInv, FreshInv, CallerTypes
  <2>11. SplitInv'
    BY <1>3, <1>f DEF RunInline, SplitInv, WorkerTypes
  <2>12. CursorInv'
    BY <1>3, <1>f DEF RunInline, CursorInv, InCall, Chunks, RangeOf, Finished, WorkerTypes
  <2>13. ShareInv'
    BY <1>3, <1>f DEF RunInline, ShareInv, InCall, ShareRows, ShareSize, ShareLen, Finished, WorkerTypes
  <2> QED BY <2>1, <2>2, <2>3, <2>4, <2>5, <2>6, <2>7, <2>8, <2>9, <2>10, <2>11, <2>12, <2>13 DEF IInv
<1>4. ASSUME ReturnInline PROVE IInv'
  <2>1. PoolTypes'
    BY <1>4, <1>f DEF ReturnInline, PoolTypes
  <2>2. CallerTypes'
    BY <1>4, <1>f DEF ReturnInline, CallerTypes
  <2>3. WorkerTypes'
    BY <1>4, <1>f DEF ReturnInline, WorkerTypes
  <2>4. ThreadsInv'
    BY <1>4, <1>f DEF ReturnInline, ThreadsInv, WorkerTypes
  <2>5. CallerInv'
    BY <1>4, <1>f DEF ReturnInline, CallerInv, WorkerTypes
  <2>6. QuietInv'
    BY <1>4, <1>f DEF ReturnInline, QuietInv, InCall, WorkerTypes
  <2>7. CountInv'
    BY <1>4, <1>f DEF ReturnInline, CountInv, InJob, InCall, Finished, WorkerTypes
  <2>8. JobInv'
    BY <1>4, <1>f DEF ReturnInline, JobInv, Dispatch, WorkerTypes
  <2>9. FreshInv'
    BY <1>4, <1>f DEF ReturnInline, FreshInv, WorkerTypes
  <2>10. RanInlineInv'
    BY <1>4, <1>f DEF ReturnInline, RanInlineInv, WorkerTypes
  <2>11. SplitInv'
    BY <1>4, <1>f DEF ReturnInline, SplitInv, WorkerTypes
  <2>12. CursorInv'
    BY <1>4, <1>f DEF ReturnInline, CursorInv, InCall, Chunks, RangeOf, Finished, WorkerTypes
  <2>13. ShareInv'
    BY <1>4, <1>f DEF ReturnInline, ShareInv, InCall, ShareRows, ShareSize, ShareLen, Finished, WorkerTypes
  <2> QED BY <2>1, <2>2, <2>3, <2>4, <2>5, <2>6, <2>7, <2>8, <2>9, <2>10, <2>11, <2>12, <2>13 DEF IInv
<1>5. ASSUME CallPool PROVE IInv'
  <2>f. call'.id \in Serial /\ call'.kind \in {"callback", "matvec"}
    BY <1>5 DEF CallPool, NewCall, Requests, CallerTypes
  <2>1. PoolTypes'
    BY <1>5, <2>f DEF CallPool, PoolTypes
  <2>2. CallerTypes'
    BY <1>5, <2>f, <1>f DEF CallPool, NewCall, Requests, CallerTypes
  <2>3. WorkerTypes'
    BY <1>5, <2>f, <1>f DEF CallPool, NewCall, Requests, WorkerTypes
  <2>4. ThreadsInv'
    BY <1>5, <2>f, <1>f DEF CallPool, NewCall, Requests, ThreadsInv, WorkerTypes
  <2>5. CallerInv'
    BY <1>5, <2>f, <1>f DEF CallPool, NewCall, Requests, CallerInv, WorkerTypes
  <2>6. QuietInv'
    BY <1>5, <2>f, <1>f DEF CallPool, NewCall, Requests, QuietInv, InCall, WorkerTypes
  <2>7. CountInv'
    BY <1>5, <2>f, <1>f DEF CallPool, NewCall, Requests, CountInv, InJob, InCall, Finished, WorkerTypes
  <2>8. JobInv'
    BY <1>5, <1>f, <2>f DEF CallPool, JobInv, InCall, Dispatch
  <2>9. FreshInv'
    BY <1>5, <2>f, <1>f DEF CallPool, NewCall, Requests, FreshInv, WorkerTypes
  <2>10. RanInlineInv'
    BY <1>5, <2>f, <1>f DEF CallPool, NewCall, Requests, RanInlineInv, WorkerTypes
  <2>11. SplitInv'
    BY <1>5, <2>f, <1>f DEF CallPool, NewCall, Requests, SplitInv, WorkerTypes
  <2>12. CursorInv'
    BY <1>5, <2>f, <1>f DEF CallPool, NewCall, Requests, CursorInv, InCall, Chunks, RangeOf, Finished, WorkerTypes
  <2>13. ShareInv'
    BY <1>5, <2>f, <1>f DEF CallPool, NewCall, Requests, ShareInv, InCall, ShareRows, ShareSize, ShareLen, Finished, WorkerTypes
  <2> QED BY <2>1, <2>2, <2>3, <2>4, <2>5, <2>6, <2>7, <2>8, <2>9, <2>10, <2>11, <2>12, <2>13 DEF IInv
<1>6. ASSUME Arm PROVE IInv'
  <2>f. ArmedChunk(call.n, call.grain) \in Nat /\ (dynamic <=> ArmedChunk(call.n, call.grain) > 0)
    <3>0. call.grain \in Grains \cup {1} /\ call.n \in 0 .. MaxRows
      BY DEF CallerTypes
    <3>1. call.n \in Nat
      BY <3>0
    <3>3. call.grain \in Nat \ {0}
      BY <3>0, GrainFacts, Zenon
    <3>2. n > 0 /\ dynamic \in BOOLEAN
      BY <1>6, <1>n DEF Arm, CallerInv, PoolTypes
    <3> QED
      BY <3>1, <3>2, <3>3, <1>n, ChunkFacts
  <2>1. PoolTypes'
    <3>1. call.n \in 0 .. MaxRows
      BY DEF CallerTypes
    <3> QED
      BY <1>6, <1>n, <2>f, <3>1 DEF Arm, PoolArm, PoolTypes
  <2>2. CallerTypes'
    BY <1>6, <2>f, <1>f DEF Arm, PoolArm, CallerTypes
  <2>3. WorkerTypes'
    BY <1>6, <2>f, <1>f DEF Arm, PoolArm, WorkerTypes
  <2>4. ThreadsInv'
    BY <1>6, <2>f, <1>f DEF Arm, PoolArm, ThreadsInv, WorkerTypes
  <2>5. CallerInv'
    BY <1>6, <2>f, <1>f DEF Arm, PoolArm, CallerInv, WorkerTypes
  <2>6. QuietInv'
    BY <1>6, <2>f, <1>f DEF Arm, PoolArm, QuietInv, InCall, WorkerTypes
  <2>7. CountInv'
    BY <1>6, <2>f, <1>f DEF Arm, PoolArm, CountInv, InJob, InCall, Finished, WorkerTypes
  <2>8. JobInv'
    BY <1>6, <1>f, <2>f DEF Arm, PoolArm, JobInv, InCall, Dispatch
  <2>9. FreshInv'
    BY <1>6, <2>f, <1>f DEF Arm, PoolArm, FreshInv, WorkerTypes
  <2>10. RanInlineInv'
    BY <1>6, <2>f, <1>f DEF Arm, PoolArm, RanInlineInv, WorkerTypes
  <2>11. SplitInv'
    BY <1>6, <2>f, <1>f DEF Arm, PoolArm, SplitInv, WorkerTypes
  <2>12. CursorInv'
    BY <1>6, <2>f, <1>f DEF Arm, PoolArm, CursorInv, InCall, Chunks, RangeOf, Finished, WorkerTypes
  <2>13. ShareInv'
    BY <1>6, <2>f, <1>f DEF Arm, PoolArm, ShareInv, InCall, ShareRows, ShareSize, ShareLen, Finished, WorkerTypes
  <2> QED BY <2>1, <2>2, <2>3, <2>4, <2>5, <2>6, <2>7, <2>8, <2>9, <2>10, <2>11, <2>12, <2>13 DEF IInv
<1>7. ASSUME Publish PROVE IInv'
  <2>f. gen' \in 0 .. GenLimit - 1 /\ gen' # gen
    BY <1>7, NextGen DEF Publish, PoolTypes
  <2>g. /\ Finished' = {}
        /\ \A w \in Thread : pc'[w] \notin Working /\ pc[w] \notin Working
        /\ \A w \in Thread : pc'[w] = "absent" <=> pc[w] = "absent"
    <3>1. \A w \in Thread : pc[w] \notin Working
      BY <1>7, <1>f DEF Publish, InCall
    <3>2. \A w \in Thread : pc'[w] = pc[w] \/ pc'[w] = "lock"
      BY <1>7 DEF Publish, Woken, Asleep, WorkerTypes
    <3>3. \A w \in Thread : pc'[w] = "absent" <=> pc[w] = "absent"
      BY <1>7 DEF Publish, Woken, Asleep, WorkerTypes
    <3>4. \A w \in created : mygen'[w] # gen'
      BY <1>7, <2>f DEF Publish, QuietInv, InCall
    <3>5. Finished' = {}
      BY <1>7, <3>4 DEF Publish, Finished
    <3> QED
      BY <3>1, <3>2, <3>3, <3>5
  <2>1. PoolTypes'
    BY <1>7, <2>f DEF Publish, PoolTypes
  <2>2. CallerTypes'
    BY <1>7, <2>f, <1>f DEF Publish, Woken, Asleep, CallerTypes
  <2>3. WorkerTypes'
    BY <1>7, <2>f, <1>f DEF Publish, Woken, Asleep, WorkerTypes
  <2>4. ThreadsInv'
    BY <1>7, <2>g DEF Publish, ThreadsInv, CallerInv
  <2>5. CallerInv'
    BY <1>7, <2>f, <1>f DEF Publish, Woken, Asleep, CallerInv, WorkerTypes
  <2>6. QuietInv'
    BY <1>7, <2>f, <1>f DEF Publish, Woken, Asleep, QuietInv, InCall, WorkerTypes
  <2>7. CountInv'
    BY <1>7, <2>g, FS_EmptySet DEF Publish, CountInv, InJob, InCall
  <2>8. JobInv'
    BY <1>7, <2>f, <1>f DEF Publish, Woken, Asleep, JobInv, Dispatch, WorkerTypes
  <2>9. FreshInv'
    BY <1>7, <2>f, <1>f DEF Publish, Woken, Asleep, FreshInv, WorkerTypes
  <2>10. RanInlineInv'
    BY <1>7, <2>f, <1>f DEF Publish, Woken, Asleep, RanInlineInv, WorkerTypes
  <2>11. SplitInv'
    BY <1>7, <2>f, <1>f DEF Publish, Woken, Asleep, SplitInv, WorkerTypes
  <2>12. CursorInv'
    BY <1>7, <2>g DEF Publish, CursorInv, InCall, Chunks, JobInv, FreshInv, PoolTypes
  <2>13. ShareInv'
    <3>1. \A r \in Row : times'[r] = 0
      BY <1>7 DEF Publish, FreshInv
    <3>2. 0 .. n' - 1 \subseteq Thread
      BY <1>7 DEF Publish, PoolTypes
    <3> QED
      BY <2>g, <3>1, <3>2 DEF ShareInv, ShareRows
  <2> QED BY <2>1, <2>2, <2>3, <2>4, <2>5, <2>6, <2>7, <2>8, <2>9, <2>10, <2>11, <2>12, <2>13 DEF IInv
<1>8. ASSUME CallerWakes PROVE IInv'
  <2>1. PoolTypes'
    BY <1>8, <1>f DEF CallerWakes, PoolTypes
  <2>2. CallerTypes'
    BY <1>8, <1>f DEF CallerWakes, CallerTypes
  <2>3. WorkerTypes'
    BY <1>8, <1>f DEF CallerWakes, WorkerTypes
  <2>4. ThreadsInv'
    BY <1>8, <1>f DEF CallerWakes, ThreadsInv, WorkerTypes
  <2>5. CallerInv'
    BY <1>8, <1>f DEF CallerWakes, CallerInv, WorkerTypes
  <2>6. QuietInv'
    BY <1>8, <1>f DEF CallerWakes, QuietInv, InCall, WorkerTypes
  <2>7. CountInv'
    BY <1>8, <1>f DEF CallerWakes, CountInv, InJob, InCall, Finished, WorkerTypes
  <2>8. JobInv'
    BY <1>8, <1>f DEF CallerWakes, JobInv, Dispatch, WorkerTypes
  <2>9. FreshInv'
    BY <1>8, <1>f DEF CallerWakes, FreshInv, WorkerTypes
  <2>10. RanInlineInv'
    BY <1>8, <1>f DEF CallerWakes, RanInlineInv, WorkerTypes
  <2>11. SplitInv'
    BY <1>8, <1>f DEF CallerWakes, SplitInv, WorkerTypes
  <2>12. CursorInv'
    BY <1>8, <1>f DEF CallerWakes, CursorInv, InCall, Chunks, RangeOf, Finished, WorkerTypes
  <2>13. ShareInv'
    BY <1>8, <1>f DEF CallerWakes, ShareInv, InCall, ShareRows, ShareSize, ShareLen, Finished, WorkerTypes
  <2> QED BY <2>1, <2>2, <2>3, <2>4, <2>5, <2>6, <2>7, <2>8, <2>9, <2>10, <2>11, <2>12, <2>13 DEF IInv
<1>9. ASSUME CallerSleeps PROVE IInv'
  <2>1. PoolTypes'
    BY <1>9, <1>f DEF CallerSleeps, AllDone, PoolTypes
  <2>2. CallerTypes'
    BY <1>9, <1>f DEF CallerSleeps, AllDone, CallerTypes
  <2>3. WorkerTypes'
    BY <1>9, <1>f DEF CallerSleeps, AllDone, WorkerTypes
  <2>4. ThreadsInv'
    BY <1>9, <1>f DEF CallerSleeps, AllDone, ThreadsInv, WorkerTypes
  <2>5. CallerInv'
    BY <1>9, <1>f DEF CallerSleeps, AllDone, CallerInv, WorkerTypes
  <2>6. QuietInv'
    BY <1>9, <1>f DEF CallerSleeps, AllDone, QuietInv, InCall, WorkerTypes
  <2>7. CountInv'
    BY <1>9, <1>f DEF CallerSleeps, AllDone, CountInv, InJob, InCall, Finished, WorkerTypes
  <2>8. JobInv'
    BY <1>9, <1>f DEF CallerSleeps, AllDone, JobInv, Dispatch, WorkerTypes
  <2>9. FreshInv'
    BY <1>9, <1>f DEF CallerSleeps, AllDone, FreshInv, WorkerTypes
  <2>10. RanInlineInv'
    BY <1>9, <1>f DEF CallerSleeps, AllDone, RanInlineInv, WorkerTypes
  <2>11. SplitInv'
    BY <1>9, <1>f DEF CallerSleeps, AllDone, SplitInv, WorkerTypes
  <2>12. CursorInv'
    BY <1>9, <1>f DEF CallerSleeps, AllDone, CursorInv, InCall, Chunks, RangeOf, Finished, WorkerTypes
  <2>13. ShareInv'
    BY <1>9, <1>f DEF CallerSleeps, AllDone, ShareInv, InCall, ShareRows, ShareSize, ShareLen, Finished, WorkerTypes
  <2> QED BY <2>1, <2>2, <2>3, <2>4, <2>5, <2>6, <2>7, <2>8, <2>9, <2>10, <2>11, <2>12, <2>13 DEF IInv
<1>10. ASSUME ReturnPool PROVE IInv'
  <2>1. PoolTypes'
    BY <1>10, <1>f DEF ReturnPool, AllDone, PoolTypes
  <2>2. CallerTypes'
    BY <1>10, <1>f DEF ReturnPool, AllDone, CallerTypes
  <2>3. WorkerTypes'
    BY <1>10, <1>f DEF ReturnPool, AllDone, WorkerTypes
  <2>4. ThreadsInv'
    BY <1>10, <1>f DEF ReturnPool, AllDone, ThreadsInv, WorkerTypes
  <2>5. CallerInv'
    BY <1>10, <1>f DEF ReturnPool, AllDone, CallerInv, WorkerTypes
  <2>6. QuietInv'
    BY <1>10, <1>g, <1>f DEF ReturnPool, QuietInv, InCall, Finished
  <2>7. CountInv'
    BY <1>10, <1>f DEF ReturnPool, AllDone, CountInv, InJob, InCall, Finished, WorkerTypes
  <2>8. JobInv'
    BY <1>10, <1>f DEF ReturnPool, AllDone, JobInv, Dispatch, WorkerTypes
  <2>9. FreshInv'
    BY <1>10, <1>f DEF ReturnPool, AllDone, FreshInv, WorkerTypes
  <2>10. RanInlineInv'
    BY <1>10, <1>f DEF ReturnPool, AllDone, RanInlineInv, WorkerTypes
  <2>11. SplitInv'
    BY <1>10, <1>f DEF ReturnPool, AllDone, SplitInv, WorkerTypes
  <2>12. CursorInv'
    BY <1>10, <1>f DEF ReturnPool, AllDone, CursorInv, InCall, Chunks, RangeOf, Finished, WorkerTypes
  <2>13. ShareInv'
    BY <1>10, <1>f DEF ReturnPool, AllDone, ShareInv, InCall, ShareRows, ShareSize, ShareLen, Finished, WorkerTypes
  <2> QED BY <2>1, <2>2, <2>3, <2>4, <2>5, <2>6, <2>7, <2>8, <2>9, <2>10, <2>11, <2>12, <2>13 DEF IInv
<1>11. ASSUME NEW w \in Thread, WorkerSleeps(w) PROVE IInv'
  <2>f. Finished' = Finished
    BY <1>11, <1>f DEF WorkerSleeps, Finished, WorkerTypes
  <2>1. PoolTypes'
    BY <1>11, <2>f, <1>f DEF WorkerSleeps, PoolTypes
  <2>2. CallerTypes'
    BY <1>11, <2>f, <1>f DEF WorkerSleeps, CallerTypes
  <2>3. WorkerTypes'
    BY <1>11, <2>f, <1>f DEF WorkerSleeps, WorkerTypes
  <2>4. ThreadsInv'
    BY <1>11, <2>f, <1>f DEF WorkerSleeps, ThreadsInv, WorkerTypes
  <2>5. CallerInv'
    BY <1>11, <2>f, <1>f DEF WorkerSleeps, CallerInv, WorkerTypes
  <2>6. QuietInv'
    BY <1>11, <2>f, <1>f DEF WorkerSleeps, QuietInv, InCall, WorkerTypes
  <2>7. CountInv'
    BY <1>11, <1>f, <2>f DEF WorkerSleeps, CountInv, InJob, InCall, WorkerTypes
  <2>8. JobInv'
    BY <1>11, <2>f, <1>f DEF WorkerSleeps, JobInv, Dispatch, WorkerTypes
  <2>9. FreshInv'
    BY <1>11, <2>f, <1>f DEF WorkerSleeps, FreshInv, WorkerTypes
  <2>10. RanInlineInv'
    BY <1>11, <2>f, <1>f DEF WorkerSleeps, RanInlineInv, WorkerTypes
  <2>11. SplitInv'
    BY <1>11, <2>f, <1>f DEF WorkerSleeps, SplitInv, WorkerTypes
  <2>12. CursorInv'
    <3>1. Chunks' = Chunks
      BY <1>11, <1>f DEF WorkerSleeps, Chunks, WorkerTypes
    <3>2. \A v \in created : pc'[v] = "report" => pc[v] = "report"
      BY <1>11, <1>f DEF WorkerSleeps, WorkerTypes, ThreadsInv
    <3> QED
      BY <1>11, <1>f, <2>f, <3>1, <3>2 DEF WorkerSleeps, CursorInv, InCall, RangeOf
  <2>13. ShareInv'
    <3>1. /\ UNCHANGED <<dynamic, n, cpc, nrows, from, len, times>>
          /\ \A v \in Thread : pc'[v] = "runShare" => pc[v] = "runShare"
          /\ \A v \in Thread : pc'[v] = "report" <=> pc[v] = "report"
      BY <1>11, <1>f DEF WorkerSleeps, WorkerTypes
    <3> QED
      BY <1>f, <2>f, <3>1, ShareFrame
  <2> QED BY <2>1, <2>2, <2>3, <2>4, <2>5, <2>6, <2>7, <2>8, <2>9, <2>10, <2>11, <2>12, <2>13 DEF IInv
<1>12. ASSUME NEW w \in Thread, WorkerWakes(w) PROVE IInv'
  <2>f. Finished' = Finished
    BY <1>12, <1>f DEF WorkerWakes, Finished, WorkerTypes
  <2>1. PoolTypes'
    BY <1>12, <2>f, <1>f DEF WorkerWakes, PoolTypes
  <2>2. CallerTypes'
    BY <1>12, <2>f, <1>f DEF WorkerWakes, CallerTypes
  <2>3. WorkerTypes'
    BY <1>12, <2>f, <1>f DEF WorkerWakes, WorkerTypes
  <2>4. ThreadsInv'
    BY <1>12, <2>f, <1>f DEF WorkerWakes, ThreadsInv, WorkerTypes
  <2>5. CallerInv'
    BY <1>12, <2>f, <1>f DEF WorkerWakes, CallerInv, WorkerTypes
  <2>6. QuietInv'
    BY <1>12, <2>f, <1>f DEF WorkerWakes, QuietInv, InCall, WorkerTypes
  <2>7. CountInv'
    BY <1>12, <1>f, <2>f DEF WorkerWakes, CountInv, InJob, InCall, WorkerTypes
  <2>8. JobInv'
    BY <1>12, <2>f, <1>f DEF WorkerWakes, JobInv, Dispatch, WorkerTypes
  <2>9. FreshInv'
    BY <1>12, <2>f, <1>f DEF WorkerWakes, FreshInv, WorkerTypes
  <2>10. RanInlineInv'
    BY <1>12, <2>f, <1>f DEF WorkerWakes, RanInlineInv, WorkerTypes
  <2>11. SplitInv'
    BY <1>12, <2>f, <1>f DEF WorkerWakes, SplitInv, WorkerTypes
  <2>12. CursorInv'
    <3>1. Chunks' = Chunks
      BY <1>12, <1>f DEF WorkerWakes, Chunks, WorkerTypes
    <3>2. \A v \in created : pc'[v] = "report" => pc[v] = "report"
      BY <1>12, <1>f DEF WorkerWakes, WorkerTypes, ThreadsInv
    <3> QED
      BY <1>12, <1>f, <2>f, <3>1, <3>2 DEF WorkerWakes, CursorInv, InCall, RangeOf
  <2>13. ShareInv'
    <3>1. /\ UNCHANGED <<dynamic, n, cpc, nrows, from, len, times>>
          /\ \A v \in Thread : pc'[v] = "runShare" => pc[v] = "runShare"
          /\ \A v \in Thread : pc'[v] = "report" <=> pc[v] = "report"
      BY <1>12, <1>f DEF WorkerWakes, WorkerTypes
    <3> QED
      BY <1>f, <2>f, <3>1, ShareFrame
  <2> QED BY <2>1, <2>2, <2>3, <2>4, <2>5, <2>6, <2>7, <2>8, <2>9, <2>10, <2>11, <2>12, <2>13 DEF IInv
<1>13. ASSUME NEW w \in Thread, TakeJob(w) PROVE IInv'
  <2>f. Finished' = Finished
    BY <1>13, <1>f DEF TakeJob, Finished, WorkerTypes
  <2>1. PoolTypes'
    BY <1>13, <2>f, <1>f DEF TakeJob, PoolTypes
  <2>2. CallerTypes'
    BY <1>13, <2>f, <1>f DEF TakeJob, CallerTypes
  <2>3. WorkerTypes'
    BY <1>13 DEF TakeJob, WorkerTypes, PoolTypes
  <2>4. ThreadsInv'
    BY <1>13, <2>f, <1>f DEF TakeJob, ThreadsInv, WorkerTypes
  <2>5. CallerInv'
    BY <1>13, <2>f, <1>f DEF TakeJob, CallerInv, WorkerTypes
  <2>6. QuietInv'
    BY <1>13, <2>f, <1>f DEF TakeJob, QuietInv, InCall, WorkerTypes
  <2>7. CountInv'
    BY <1>13, <1>f, <2>f DEF TakeJob, CountInv, InJob, InCall, WorkerTypes
  <2>8. JobInv'
    BY <1>13, <2>f, <1>f DEF TakeJob, JobInv, Dispatch, WorkerTypes
  <2>9. FreshInv'
    BY <1>13, <2>f, <1>f DEF TakeJob, FreshInv, WorkerTypes
  <2>10. RanInlineInv'
    BY <1>13, <2>f, <1>f DEF TakeJob, RanInlineInv, WorkerTypes
  <2>11. SplitInv'
    BY <1>13, <2>f, <1>f DEF TakeJob, SplitInv, WorkerTypes
  <2>12. CursorInv'
    <3>1. Chunks' = Chunks
      BY <1>13, <1>f DEF TakeJob, Chunks, WorkerTypes
    <3>2. \A v \in created : pc'[v] = "report" => pc[v] = "report"
      BY <1>13, <1>f DEF TakeJob, WorkerTypes, ThreadsInv
    <3> QED
      BY <1>13, <1>f, <2>f, <3>1, <3>2 DEF TakeJob, CursorInv, InCall, RangeOf
  <2>13. ShareInv'
    <3>1. /\ UNCHANGED <<dynamic, n, cpc, nrows, from, len, times>>
          /\ \A v \in Thread : pc'[v] = "runShare" => pc[v] = "runShare"
          /\ \A v \in Thread : pc'[v] = "report" <=> pc[v] = "report"
      BY <1>13, <1>f DEF TakeJob, WorkerTypes
    <3> QED
      BY <1>f, <2>f, <3>1, ShareFrame
  <2> QED BY <2>1, <2>2, <2>3, <2>4, <2>5, <2>6, <2>7, <2>8, <2>9, <2>10, <2>11, <2>12, <2>13 DEF IInv
<1>14. ASSUME NEW w \in Thread, ClaimChunk(w) PROVE IInv'
  BY <1>14, StepClaimChunk
<1>15. ASSUME NEW w \in Thread, TakeShare(w) PROVE IInv'
  BY <1>15, StepTakeShare
<1>16. ASSUME NEW w \in Thread, RunRange(w) PROVE IInv'
  BY <1>16, StepRunRange
<1>17. ASSUME NEW w \in Thread, Report(w) PROVE IInv'
  BY <1>17, StepReport
<1>18. ASSUME UNCHANGED vars PROVE IInv'
  <2> USE <1>18 DEF vars
  <2>1. PoolTypes'
    BY DEF PoolTypes
  <2>2. CallerTypes'
    BY DEF CallerTypes
  <2>3. WorkerTypes'
    BY DEF WorkerTypes
  <2>4. ThreadsInv'
    BY DEF ThreadsInv
  <2>5. CallerInv'
    BY DEF CallerInv
  <2>6. QuietInv'
    BY DEF QuietInv, InCall
  <2>7. CountInv'
    BY DEF CountInv, InJob, InCall, Finished
  <2>8. JobInv'
    BY DEF JobInv, Dispatch
  <2>9. FreshInv'
    BY DEF FreshInv
  <2>10. RanInlineInv'
    BY DEF RanInlineInv
  <2>11. SplitInv'
    BY DEF SplitInv
  <2>12. CursorInv'
    BY DEF CursorInv, InCall, Chunks, RangeOf, Finished
  <2>13. ShareInv'
    BY DEF ShareInv, InCall, ShareRows, ShareSize, ShareLen, Finished
  <2> QED BY <2>1, <2>2, <2>3, <2>4, <2>5, <2>6, <2>7, <2>8, <2>9, <2>10, <2>11, <2>12, <2>13 DEF IInv
<1> QED BY <1>1, <1>2, <1>3, <1>4, <1>5, <1>6, <1>7, <1>8, <1>9, <1>10, <1>11, <1>12, <1>13, <1>14, <1>15, <1>16, <1>17, <1>18 DEF Next, Caller, Worker

\* The pool starts in the invariant.
LEMMA InitIInv == Init => IInv
<1> SUFFICES ASSUME Init PROVE IInv
  OBVIOUS
<1> USE PoolAssumption DEF Init, Thread, Row, Serial, None, NoWork, Working, Running
<1>1. PoolTypes
  <2>1. dynamic \in BOOLEAN /\ holder \in BOOLEAN
    OBVIOUS
  <2>2. created \in SUBSET Thread /\ fn \in Serial \cup {None} /\ mv \in Serial \cup {None}
    OBVIOUS
  <2>3. n \in 0 .. MaxThreads /\ gen \in 0 .. GenLimit - 1 /\ done \in 0 .. n /\ nrows \in 0 .. MaxRows
    OBVIOUS
  <2>4. next \in Nat /\ chunk \in Nat
    OBVIOUS
  <2> QED
    BY <2>1, <2>2, <2>3, <2>4 DEF PoolTypes
<1>2. CallerTypes
  BY DEF CallerTypes
<1>3. WorkerTypes
  BY DEF WorkerTypes
<1>4. ThreadsInv /\ CallerInv /\ QuietInv
  BY DEF ThreadsInv, CallerInv, QuietInv, InCall
<1>5. CountInv /\ JobInv /\ SplitInv
  BY DEF CountInv, InJob, InCall, JobInv, SplitInv
<1>6. FreshInv /\ RanInlineInv /\ CursorInv /\ ShareInv
  BY DEF FreshInv, RanInlineInv, CursorInv, ShareInv, InCall
<1> QED
  BY <1>1, <1>2, <1>3, <1>4, <1>5, <1>6 DEF IInv

\* Whatever the number of threads, rows and grains, the pool stays in IInv.
THEOREM Invariance == Spec => []IInv
BY InitIInv, Inductive, PTL DEF Spec

\* Types: no field of g_pool leaves its range, and no thread reports twice, so
\* that done never passes n.
THEOREM TypeCorrect == Spec => []TypeOK
<1>1. IInv => TypeOK
  BY DEF IInv, TypeOK
<1> QED
  BY <1>1, Invariance, PTL

\* worker() reads g_pool outside the mutex only while the caller that armed it
\* waits, and what it runs is that caller's work.
THEOREM NoStragglers == Spec => []NoWorkerOutlivesItsCall
<1>1. IInv => NoWorkerOutlivesItsCall
  <2> SUFFICES ASSUME IInv, NEW w \in Thread, pc[w] \in Working
               PROVE  /\ cpc \in {"asleep", "woken"} /\ mygen[w] = gen
                      /\ pc[w] \in Running => did[w] = <<call.kind, call.id>>
    BY DEF NoWorkerOutlivesItsCall
  <2>1. InCall /\ mygen[w] = gen
    BY WorkingFacts
  <2> QED
    BY <2>1 DEF InCall, IInv, JobInv
<1> QED
  BY <1>1, Invariance, PTL

\* The rows in a worker's hands: in the job, not yet run, nobody else's.
LEMMA RunningRows ==
  ASSUME IInv, NEW w \in Thread, pc[w] \in Running
  PROVE  /\ RangeOf(w) \subseteq 0 .. call.n - 1
         /\ RangeOf(w) \subseteq Row
         /\ \A r \in RangeOf(w) : times[r] = 0
         /\ \A v \in Thread \ {w} : pc[v] \in Running => RangeOf(v) \cap RangeOf(w) = {}
<1> USE PoolAssumption DEF Thread, Row, Serial, None, NoWork, Running
<1>i. /\ PoolTypes /\ CallerTypes /\ WorkerTypes /\ SplitInv /\ CursorInv /\ ShareInv
  BY DEF IInv
<1>1. pc[w] \in Working
  BY DEF Working
<1>2. /\ InCall /\ w \notin Finished /\ nrows = call.n /\ nrows \in 0 .. MaxRows
      /\ n \in 2 .. MaxThreads /\ w \in 0 .. n - 1
  BY <1>1, WorkingFacts
<1>3. CASE dynamic
  <2>1. \A v \in Thread : pc[v] \in Running => v \in Chunks
    BY <1>i, <1>3 DEF SplitInv, Chunks
  <2>2. from[w] \in Nat /\ len[w] \in Nat /\ from[w] + len[w] <= nrows
    <3>1. w \in Chunks
      BY <2>1
    <3>2. from[w] + len[w] <= nrows
      BY <1>i, <1>2, <1>3, <3>1 DEF CursorInv
    <3>3. from[w] \in Nat /\ len[w] \in 0 .. MaxRows
      BY <1>i DEF WorkerTypes
    <3> QED
      BY <3>2, <3>3
  <2>3. RangeOf(w) \subseteq 0 .. call.n - 1 /\ RangeOf(w) \subseteq Row
    BY <1>2, <2>2 DEF RangeOf
  <2> QED
    BY <1>i, <1>2, <1>3, <2>1, <2>3 DEF CursorInv
<1>4. CASE ~dynamic
  <2>1. \A v \in Thread : pc[v] \in Running =>
          pc[v] = "runShare" /\ v \in Nat /\ v \in 0 .. n - 1
    <3> SUFFICES ASSUME NEW v \in Thread, pc[v] \in Running
                 PROVE  pc[v] = "runShare" /\ v \in Nat /\ v \in 0 .. n - 1
      OBVIOUS
    <3>1. v \in Nat /\ v \in 0 .. n - 1
      BY WorkingFacts DEF Working
    <3> QED
      BY <1>i, <1>4, <3>1 DEF SplitInv
  <2>2. ASSUME NEW v \in Thread, pc[v] \in Running
        PROVE  RangeOf(v) = ShareRows(v)
    <3>1. from[v] = ShareSize * v /\ len[v] = ShareLen(v)
      BY <1>i, <1>2, <1>4, <2>1, <2>2 DEF ShareInv
    <3>2. /\ ShareSize \in Nat /\ ShareSize * v \in Nat /\ ShareLen(v) \in 0 .. nrows
          /\ \A r \in Nat : r \in ShareSize * v .. ShareSize * v + ShareLen(v) - 1
               <=> r < nrows /\ ShareSize * v <= r /\ r < ShareSize * (v + 1)
      <4>1. nrows \in Nat /\ n \in Nat /\ n > 0 /\ v \in Nat
        BY <1>2, <2>1, <2>2
      <4> QED
        BY <4>1, ShareFacts, Zenon
    <3>3. \A r : r \in RangeOf(v) => r \in Nat
      BY <3>1, <3>2 DEF RangeOf
    <3>4. \A r : r \in RangeOf(v) => r \in ShareRows(v)
      BY <1>2, <3>1, <3>2, <3>3 DEF RangeOf, ShareRows
    <3>5. \A r : r \in ShareRows(v) => r \in RangeOf(v)
      BY <3>1, <3>2 DEF RangeOf, ShareRows
    <3> QED
      BY <3>4, <3>5
  <2>3. RangeOf(w) \subseteq 0 .. call.n - 1 /\ RangeOf(w) \subseteq Row
    BY <1>2, <2>2 DEF ShareRows
  <2>4. \A r \in RangeOf(w) : times[r] = 0
    BY <1>i, <1>2, <1>4, <2>1, <2>2 DEF ShareInv
  <2>5. \A v \in Thread \ {w} : pc[v] \in Running => RangeOf(v) \cap RangeOf(w) = {}
    BY <1>2, <2>1, <2>2, SharesApart
  <2> QED
    BY <2>3, <2>4, <2>5
<1> QED
  BY <1>i, <1>3, <1>4 DEF PoolTypes

\* No two workers are ever inside a callback for the same row, for either split.
THEOREM DisjointRanges == Spec => []RangesDisjoint
<1>1. IInv => RangesDisjoint
  BY RunningRows DEF RangesDisjoint
<1> QED
  BY <1>1, Invariance, PTL

\* A row handed to a worker has not run before in this call.
THEOREM OnceEach == Spec => []RowsRunOnce
<1>1. IInv => RowsRunOnce
  BY RunningRows DEF RowsRunOnce
<1> QED
  BY <1>1, Invariance, PTL

\* When pool_run leaves its wait, every row of the call has run.
LEMMA NothingLeft ==
  ASSUME IInv, InCall, AllDone, NEW r \in Row, r < call.n
  PROVE  times[r] = 1
<1> USE PoolAssumption DEF Thread, Row, Serial, None, NoWork
<1>i. /\ PoolTypes /\ CallerTypes /\ WorkerTypes /\ ThreadsInv /\ CallerInv /\ CountInv
      /\ JobInv /\ SplitInv /\ CursorInv /\ ShareInv
  BY DEF IInv
<1>1. n \in 2 .. MaxThreads /\ nrows \in 0 .. MaxRows /\ nrows = call.n /\ dynamic \in BOOLEAN
  BY <1>i DEF PoolTypes, CallerInv, InCall, JobInv
<1>2. Finished = 0 .. n - 1
  BY <1>i, <1>1, FinishedCount DEF CountInv, AllDone
<1>3. \A w \in 0 .. n - 1 : w \in created /\ pc[w] \notin Working
  BY <1>2 DEF Finished
<1>4. CASE dynamic
  <2>1. 0 \in Finished /\ 0 \in created
    BY <1>1, <1>2, <1>3
  <2>2. next >= nrows
    BY <1>i, <1>4, <2>1 DEF CursorInv
  <2>3. Chunks = {}
    BY <1>i, <1>3 DEF Chunks, ThreadsInv, Working
  <2> QED
    BY <1>i, <1>1, <1>4, <2>2, <2>3 DEF CursorInv, PoolTypes
<1>5. CASE ~dynamic
  <2>1. PICK w \in 0 .. n - 1 : r \in ShareRows(w)
    BY <1>1, ShareOwner
  <2> QED
    BY <1>i, <1>2, <1>5, <2>1 DEF ShareInv
<1> QED
  BY <1>1, <1>4, <1>5

\* An idle pool is an idle ParallelFor.
LEMMA InitMaps == Init => PF!PFInit
BY DEF Init, PF!PFInit, Busy, Todo

\* Every step of the pool is a step of ParallelFor or leaves it alone.
LEMMA StepMaps == IInv /\ IInv' /\ [Next]_vars => [PF!PFNext]_(PF!pfVars)
<1> SUFFICES ASSUME IInv, IInv', [Next]_vars PROVE [PF!PFNext]_(PF!pfVars)
  OBVIOUS
<1> USE PoolAssumption DEF PF!PFNext, PF!pfVars, Row
<1>i. /\ PoolTypes /\ CallerTypes /\ WorkerTypes /\ CallerInv /\ FreshInv /\ RanInlineInv
  BY DEF IInv
<1>j. CallerTypes'
  BY DEF IInv
<1>1. ASSUME UNCHANGED <<call, times>>, Busy' = Busy PROVE UNCHANGED PF!pfVars
  BY <1>1 DEF Todo
<1>2. ASSUME PoolStart PROVE UNCHANGED PF!pfVars
  BY <1>1, <1>2 DEF PoolStart, Busy
<1>3. ASSUME CallInline \/ CallPool PROVE PF!PFCall
  <2>1. Busy = FALSE /\ Busy' = TRUE
    BY <1>3 DEF CallInline, CallPool, Busy
  <2>2. UNCHANGED times /\ \A r \in Row : times[r] = 0
    BY <1>i, <1>3 DEF CallInline, CallPool, NewCall, FreshInv
  <2>3. call'.n \in 0 .. MaxRows
    BY <1>j DEF CallerTypes
  <2>4. Todo' = 0 .. call'.n - 1
    BY <2>1, <2>2, <2>3 DEF Todo
  <2> QED
    BY <2>1, <2>3, <2>4 DEF PF!PFCall
<1>4. ASSUME NEW S, S \in SUBSET Row, \A r \in S : times[r] = 0,
             times' = [r \in Row |-> IF r \in S THEN times[r] + 1 ELSE times[r]],
             UNCHANGED call, Busy, Busy'
      PROVE  UNCHANGED PF!pfVars \/ PF!PFRun
  <2>1. \A r \in Row : times'[r] = 0 <=> times[r] = 0 /\ r \notin S
    BY <1>i, <1>4 DEF CallerTypes
  <2>2. Todo' = Todo \ S
    BY <1>4, <2>1 DEF Todo
  <2>3. Busy = TRUE /\ Busy' = TRUE
    BY <1>4 DEF Busy
  <2>4. CASE Todo' = Todo
    BY <2>3, <2>4
  <2>5. CASE Todo' # Todo
    <3>1. Todo' \in SUBSET Todo /\ Todo' # Todo
      BY <2>2, <2>5
    <3>2. UNCHANGED Busy
      BY <2>3
    <3> QED
      BY <1>4, <3>1, <3>2, Zenon DEF PF!PFRun
  <2> QED
    BY <2>4, <2>5
<1>5. ASSUME RunInline PROVE UNCHANGED PF!pfVars \/ PF!PFRun
  <2> DEFINE S == {r \in Row : r < call.n}
  <2>1. \A r \in S : times[r] = 0
    BY <1>i, <1>5 DEF RunInline, FreshInv
  <2>2. times' = [r \in Row |-> IF r \in S THEN times[r] + 1 ELSE times[r]]
    BY <1>5 DEF RunInline
  <2>3. UNCHANGED call /\ Busy /\ Busy' /\ S \in SUBSET Row
    BY <1>5 DEF RunInline, Busy
  <2> HIDE DEF S
  <2> QED
    BY <1>4, <2>1, <2>2, <2>3
<1>6. ASSUME NEW w \in Thread, RunRange(w) PROVE UNCHANGED PF!pfVars \/ PF!PFRun
  <2>1. RangeOf(w) \in SUBSET Row /\ \A r \in RangeOf(w) : times[r] = 0
    BY <1>6, RunningRows DEF RunRange
  <2>2. pc[w] \in Working
    BY <1>6 DEF RunRange, Running, Working
  <2>3. Busy
    BY <2>2, WorkingFacts DEF InCall, Busy
  <2>4. UNCHANGED call /\ Busy'
    BY <1>6, <2>3 DEF RunRange, Busy
  <2>5. times' = [r \in Row |-> IF r \in RangeOf(w) THEN times[r] + 1 ELSE times[r]]
    BY <1>6 DEF RunRange
  <2> QED
    BY <1>4, <2>1, <2>3, <2>4, <2>5
<1>7. ASSUME ReturnInline \/ ReturnPool PROVE PF!PFReturn
  <2>1. Busy = TRUE /\ Busy' = FALSE /\ UNCHANGED call
    BY <1>7 DEF ReturnInline, ReturnPool, Busy
  <2>2. ASSUME ReturnInline PROVE Todo = {}
    BY <1>i, <2>2 DEF ReturnInline, RanInlineInv, Todo
  <2>3. ASSUME ReturnPool PROVE Todo = {}
    <3>1. InCall /\ AllDone
      BY <2>3 DEF ReturnPool, InCall
    <3>2. \A r \in Row : r < call.n => times[r] = 1
      BY <3>1, NothingLeft
    <3> QED
      BY <3>2 DEF Todo
  <2>4. Todo = {}
    BY <1>7, <2>2, <2>3
  <2>5. Todo' = {}
    BY <2>1 DEF Todo
  <2> QED
    BY <2>1, <2>4, <2>5 DEF PF!PFReturn
<1>8. ASSUME Arm \/ Publish \/ CallerWakes \/ CallerSleeps PROVE UNCHANGED PF!pfVars
  BY <1>1, <1>8 DEF Arm, Publish, CallerWakes, CallerSleeps, Busy
<1>9. ASSUME NEW w \in Thread,
             WorkerSleeps(w) \/ WorkerWakes(w) \/ TakeJob(w) \/ ClaimChunk(w) \/ TakeShare(w) \/ Report(w)
      PROVE  UNCHANGED PF!pfVars
  <2>1. UNCHANGED <<call, times>> /\ (cpc' = cpc \/ (cpc = "asleep" /\ cpc' = "woken"))
    BY <1>9 DEF WorkerSleeps, WorkerWakes, TakeJob, ClaimChunk, TakeShare, Report
  <2> QED
    BY <1>1, <2>1 DEF Busy
<1>10. ASSUME UNCHANGED vars PROVE UNCHANGED PF!pfVars
  BY <1>1, <1>10 DEF vars, Busy
<1> QED
  BY <1>2, <1>3, <1>5, <1>6, <1>7, <1>8, <1>9, <1>10 DEF Next, Caller, Worker

\* charsiu_parallel_for, over any pool: each row of the range runs exactly once,
\* and the call returns only after the last.
THEOREM Refinement == Spec => ImplementsParallelFor
BY InitMaps, StepMaps, Invariance, PTL DEF Spec, ImplementsParallelFor, PF!PFSpec

==============================================================================
