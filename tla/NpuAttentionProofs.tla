-------------------------- MODULE NpuAttentionProofs --------------------------
(***************************************************************************)
(* Proofs about NpuAttention: that a handle's buffers are left alone while *)
(* its job is queued, that a job that stopped early is noticed, and that   *)
(* what a layer takes from the NPU is attention over this turn's rows.     *)
(***************************************************************************)
EXTENDS NpuAttention, FiniteSetTheorems, WellFoundedInduction, TLAPS

-----------------------------------------------------------------------------
(* Jobs in the queue.                                                      *)

Fields == {"cap", "sig", "wt", "in", "out", "last", "ops", "shape", "held",
           "prepoisoned", "inflight"}

\* A handle's job is queued once, from its submit to its wait or drain.
QueueInv ==
    /\ DOMAIN unit = Units
    /\ \A u \in Units : DOMAIN unit[u] = Fields /\ unit[u].inflight \in BOOLEAN
    /\ queue \in Seq(Units)
    /\ \A i, j \in DOMAIN queue : queue[i] = queue[j] => i = j
    /\ \A i \in DOMAIN queue : unit[queue[i]].inflight

\* The scores that are being turned into values have been waited for.
BuffersInv == QueueInv /\ (phase = "values" => ~unit[S(head)].inflight)

\* What BuffersStill says of a step.
Still ==
    \A u \in Units :
       (Queued(u) /\ \E i \in DOMAIN queue' : queue'[i] = u)
          => /\ unit'[u] = unit[u]
             /\ Cardinality({i \in DOMAIN queue' : queue'[i] = u}) = 1

\* A step of the thread changes handles that are not queued, and may queue one.
Touches(us) ==
    /\ us \subseteq Units
    /\ \A u \in us : ~Queued(u)
    /\ DOMAIN unit' = Units
    /\ \A u \in us : DOMAIN unit'[u] = Fields /\ unit'[u].inflight \in BOOLEAN
    /\ \A u \in Units \ us : unit'[u] = unit[u]
    /\ \/ queue' = queue
       \/ \E x \in us : queue' = Append(queue, x) /\ unit'[x].inflight

\* Nothing is in a queue twice.
LEMMA OnceEach ==
  ASSUME NEW q \in Seq(Units), \A i, j \in DOMAIN q : q[i] = q[j] => i = j,
         NEW u, \E i \in DOMAIN q : q[i] = u
  PROVE  Cardinality({i \in DOMAIN q : q[i] = u}) = 1
<1>1. PICK i \in DOMAIN q : q[i] = u
  OBVIOUS
<1>2. {j \in DOMAIN q : q[j] = u} = {i}
  BY <1>1
<1> QED
  BY <1>2, FS_Singleton

\* Such a step keeps the queue in order and queued handles as they are.
LEMMA TouchKeeps ==
  ASSUME QueueInv, NEW us, Touches(us)
  PROVE  QueueInv' /\ Still
<1>1. PICK q \in Seq(Units) : /\ q = queue
                              /\ \A i, j \in DOMAIN q : q[i] = q[j] => i = j
                              /\ \A i \in DOMAIN q : unit[q[i]].inflight
  BY DEF QueueInv
<1>2. PICK l \in Nat : l = Len(q) /\ DOMAIN q = 1..l
  BY <1>1
<1>3. \A i \in 1..l : q[i] \in Units /\ q[i] \notin us
  BY <1>1, <1>2 DEF Touches, Queued
<1>4. \A i \in 1..l : unit'[q[i]] = unit[q[i]] /\ unit'[q[i]].inflight
  BY <1>1, <1>2, <1>3 DEF Touches
<1>5. /\ DOMAIN unit' = Units
      /\ \A u \in Units : DOMAIN unit'[u] = Fields /\ unit'[u].inflight \in BOOLEAN
  BY DEF Touches, QueueInv
<1>6. \E p \in Seq(Units) : /\ p = queue'
                            /\ \A i, j \in DOMAIN p : p[i] = p[j] => i = j
                            /\ \A i \in DOMAIN p : unit'[p[i]].inflight
  <2>1. CASE queue' = queue
    BY <1>1, <1>2, <1>4, <2>1
  <2>2. CASE queue' # queue
    <3>1. PICK x \in us : queue' = Append(q, x) /\ unit'[x].inflight /\ x \in Units
      BY <1>1, <2>2 DEF Touches
    <3>2. PICK p : p = Append(q, x)
      OBVIOUS
    <3>3. p \in Seq(Units) /\ DOMAIN p = 1..(l + 1)
      BY <1>1, <1>2, <3>1, <3>2
    <3>4. p[l + 1] = x /\ \A i \in 1..l : p[i] = q[i]
      BY <1>1, <1>2, <3>1, <3>2
    <3>5. \A i \in 1..(l + 1) : i = l + 1 \/ i \in 1..l
      BY <1>2
    <3>6. \A i, j \in DOMAIN p : p[i] = p[j] => i = j
      BY <1>1, <1>2, <1>3, <3>1, <3>3, <3>4, <3>5
    <3>7. \A i \in DOMAIN p : unit'[p[i]].inflight
      BY <1>4, <3>1, <3>3, <3>4, <3>5
    <3> QED
      BY <3>1, <3>2, <3>3, <3>6, <3>7
  <2> QED
    BY <2>1, <2>2
<1>7. QueueInv'
  BY <1>5, <1>6 DEF QueueInv
<1>8. Still
  <2> SUFFICES ASSUME NEW u \in Units, Queued(u), \E i \in DOMAIN queue' : queue'[i] = u
               PROVE  /\ unit'[u] = unit[u]
                      /\ Cardinality({i \in DOMAIN queue' : queue'[i] = u}) = 1
    BY DEF Still
  <2>1. unit'[u] = unit[u]
    BY <1>1, <1>2, <1>4 DEF Queued
  <2>2. Cardinality({i \in DOMAIN queue' : queue'[i] = u}) = 1
    BY <1>6, OnceEach
  <2> QED
    BY <2>1, <2>2
<1> QED
  BY <1>7, <1>8

\* The handles: scores and values have different ones.
LEMMA Handles ==
  /\ Units = {"f", "f2", "fv", "fv2"}
  /\ \A g : S(g) \in {"f", "f2"} /\ V(g) \in {"fv", "fv2"} /\ S(g) # V(g)
BY AttentionAssumption DEF S, V

\* A handle that may be drained is not queued.
LEMMA NotQueued ==
  ASSUME QueueInv, NEW u \in Units, CanDrain(u) \/ ~unit[u].inflight
  PROVE  ~Queued(u)
BY DEF QueueInv, CanDrain, Queued

\* What the operations on a handle do to it, as far as the queue is concerned.
LEMMA HandleKinds ==
  ASSUME NEW f, DOMAIN f = Fields, f.inflight \in BOOLEAN, NEW shape, NEW ops
  PROVE  /\ DOMAIN Staged(f, shape, ops) = Fields /\ Staged(f, shape, ops).inflight = FALSE
         /\ DOMAIN Submitted(f, shape, ops) = Fields /\ Submitted(f, shape, ops).inflight = TRUE
         /\ DOMAIN Refused(f) = Fields /\ Refused(f).inflight = FALSE
         /\ \A borrow : DOMAIN Waited(f, borrow) = Fields /\ Waited(f, borrow).inflight = FALSE
         /\ DOMAIN PoisonReleased(f) = Fields /\ PoisonReleased(f).inflight = f.inflight
<1>1. PICK d : d = Drained(f)
  OBVIOUS
<1>a. DOMAIN d = Fields /\ d.inflight = FALSE
  BY <1>1 DEF Drained, Fields
<1>2. PICK r : r = Released(d)
  OBVIOUS
<1>b. DOMAIN r = Fields /\ r.inflight = FALSE
  BY <1>2, <1>a DEF Released, Fields
<1>3. PICK w : w = Wanted(r, Needs(shape, Len(ops)))
  OBVIOUS
<1>c. DOMAIN w = Fields /\ w.inflight = FALSE
  BY <1>3, <1>b DEF Wanted, Fields
<1>4. PICK s : s = Streams(w, shape, ops)
  OBVIOUS
<1>d. DOMAIN s = Fields /\ s.inflight = FALSE
  BY <1>4, <1>c DEF Streams, Fields
<1>5. PICK t : t = Staged(f, shape, ops)
  OBVIOUS
<1>e. DOMAIN t = Fields /\ t.inflight = FALSE
  <2>1. t = [s EXCEPT !.prepoisoned = FALSE, !.in = [i \in DOMAIN ops |-> ops[i].good],
                      !.out = Poisoned(w, shape, ops)]
    BY <1>1, <1>2, <1>3, <1>4, <1>5 DEF Staged
  <2> QED
    BY <1>d, <2>1 DEF Fields
<1>6. DOMAIN Submitted(f, shape, ops) = Fields /\ Submitted(f, shape, ops).inflight = TRUE
  BY <1>5, <1>e DEF Submitted, Fields
<1>7. DOMAIN Refused(f) = Fields /\ Refused(f).inflight = FALSE
  BY <1>1, <1>2, <1>b DEF Refused
<1>8. \A borrow : DOMAIN Waited(f, borrow) = Fields /\ Waited(f, borrow).inflight = FALSE
  BY DEF Waited, Fields
<1>9. DOMAIN PoisonReleased(f) = Fields /\ PoisonReleased(f).inflight = f.inflight
  BY DEF PoisonReleased, Fields
<1> QED
  BY <1>5, <1>e, <1>6, <1>7, <1>8, <1>9

-----------------------------------------------------------------------------
(* BuffersStill.                                                           *)

\* A step that leaves the handles and the queue alone.
LEMMA Untouched ==
  ASSUME QueueInv, UNCHANGED <<unit, queue>>
  PROVE  QueueInv' /\ Still
<1>1. Touches({})
  BY DEF Touches, QueueInv
<1> QED
  BY <1>1, TouchKeeps

\* A submit touches its own handle, which is not queued then.
LEMMA SubmitTouches ==
  ASSUME QueueInv, NEW u \in Units, NEW shape, NEW ops, NEW next, Submit(u, shape, ops, next)
  PROVE  Touches({u}) /\ phase' \in {next, "cpu"}
<1>1. ~Queued(u)
  BY NotQueued DEF Submit
<1>2. PICK f : f = unit[u] /\ DOMAIN f = Fields /\ f.inflight \in BOOLEAN
  BY DEF QueueInv
<1>3. CASE unit' = [unit EXCEPT ![u] = Submitted(@, shape, ops)] /\ queue' = Append(queue, u)
  <2>1. unit' = [unit EXCEPT ![u] = Submitted(f, shape, ops)]
    BY <1>2, <1>3
  <2>2. PICK g : g = Submitted(f, shape, ops) /\ DOMAIN g = Fields /\ g.inflight = TRUE
    BY <1>2, HandleKinds
  <2>3. /\ DOMAIN unit' = Units /\ unit'[u] = g
        /\ \A x \in Units \ {u} : unit'[x] = unit[x]
    BY <2>1, <2>2 DEF QueueInv
  <2> QED
    BY <1>1, <1>3, <2>2, <2>3 DEF Touches, Submit, FallBack
<1>4. CASE unit' = [unit EXCEPT ![u] = Staged(@, shape, ops)] /\ queue' = queue
  <2>1. unit' = [unit EXCEPT ![u] = Staged(f, shape, ops)]
    BY <1>2, <1>4
  <2>2. PICK g : g = Staged(f, shape, ops) /\ DOMAIN g = Fields /\ g.inflight = FALSE
    BY <1>2, HandleKinds
  <2>3. /\ DOMAIN unit' = Units /\ unit'[u] = g
        /\ \A x \in Units \ {u} : unit'[x] = unit[x]
    BY <2>1, <2>2 DEF QueueInv
  <2> QED
    BY <1>1, <1>4, <2>2, <2>3 DEF Touches, Submit, FallBack
<1> QED
  BY <1>3, <1>4 DEF Submit

\* A wait touches its own handle, which is not queued any more.
LEMMA WaitTouches ==
  ASSUME QueueInv, NEW u \in Units, NEW borrow, NEW next, Wait(u, borrow, next)
  PROVE  /\ Touches({u}) /\ phase' \in {next, "cpu"}
         /\ unit'[u] = Waited(unit[u], borrow) /\ ~unit'[u].inflight
<1>1. PICK f : f = unit[u] /\ DOMAIN f = Fields /\ f.inflight \in BOOLEAN
  BY DEF QueueInv
<1>2. unit' = [unit EXCEPT ![u] = Waited(f, borrow)] /\ ~Queued(u) /\ queue' = queue
  BY <1>1 DEF Wait
<1>3. PICK g : g = Waited(f, borrow) /\ DOMAIN g = Fields /\ g.inflight = FALSE
  BY <1>1, HandleKinds
<1>4. /\ DOMAIN unit' = Units /\ unit'[u] = g
      /\ \A x \in Units \ {u} : unit'[x] = unit[x]
  BY <1>2, <1>3 DEF QueueInv
<1> QED
  BY <1>1, <1>2, <1>3, <1>4 DEF Touches, Wait

\* The values are submitted and the scores' sentinels written.
LEMMA ValuesTouch ==
  ASSUME BuffersInv, SubmitValues
  PROVE  Touches({V(head), S(head)}) /\ phase' \in {"behind", "cpu"}
<1>1. PICK v \in Units, s \in Units : v = V(head) /\ s = S(head) /\ v # s
  BY Handles
<1>2. ~Queued(v)
  BY <1>1, NotQueued DEF SubmitValues, BuffersInv
<1>3. ~Queued(s)
  BY <1>1, NotQueued DEF SubmitValues, BuffersInv
<1>4. PICK f, e : /\ f = unit[v] /\ DOMAIN f = Fields /\ f.inflight \in BOOLEAN
                  /\ e = unit[s] /\ DOMAIN e = Fields /\ e.inflight \in BOOLEAN
  BY DEF BuffersInv, QueueInv
<1>5. PICK ops : ops = ValueOps(head)
  OBVIOUS
<1>6. /\ DOMAIN Submitted(f, ValueShape, ops) = Fields
      /\ Submitted(f, ValueShape, ops).inflight = TRUE
      /\ DOMAIN Staged(f, ValueShape, ops) = Fields
      /\ Staged(f, ValueShape, ops).inflight = FALSE
      /\ DOMAIN Refused(f) = Fields /\ Refused(f).inflight = FALSE
      /\ DOMAIN PoisonReleased(e) = Fields
      /\ PoisonReleased(e).inflight = e.inflight
  <2>1. PICK sh : sh = ValueShape
    OBVIOUS
  <2>2. DOMAIN f = Fields /\ f.inflight \in BOOLEAN /\ DOMAIN e = Fields /\ e.inflight \in BOOLEAN
    BY <1>4
  <2>3. PICK a : a = Submitted(f, sh, ops) /\ DOMAIN a = Fields /\ a.inflight = TRUE
    BY <2>2, HandleKinds
  <2>4. PICK b : b = Staged(f, sh, ops) /\ DOMAIN b = Fields /\ b.inflight = FALSE
    BY <2>2, HandleKinds
  <2>5. PICK c : c = Refused(f) /\ DOMAIN c = Fields /\ c.inflight = FALSE
    BY <2>2, HandleKinds
  <2>6. PICK d : d = PoisonReleased(e) /\ DOMAIN d = Fields /\ d.inflight = e.inflight
    BY <2>2, HandleKinds
  <2> QED
    BY <2>1, <2>3, <2>4, <2>5, <2>6
<1>7. CASE /\ unit' = [unit EXCEPT ![v] = Submitted(f, ValueShape, ops),
                                   ![s] = PoisonReleased(e)]
           /\ queue' = Append(queue, v) /\ phase' = "behind"
  <2>1. /\ DOMAIN unit' = Units
        /\ unit'[v] = Submitted(f, ValueShape, ops) /\ unit'[s] = PoisonReleased(e)
        /\ \A x \in Units \ {v, s} : unit'[x] = unit[x]
    BY <1>1, <1>7 DEF BuffersInv, QueueInv
  <2> QED
    BY <1>1, <1>2, <1>3, <1>4, <1>6, <1>7, <2>1 DEF Touches
<1>8. CASE /\ unit' = [unit EXCEPT ![v] = Staged(f, ValueShape, ops)]
           /\ queue' = queue /\ phase' = "cpu"
  <2>1. /\ DOMAIN unit' = Units /\ unit'[v] = Staged(f, ValueShape, ops)
        /\ \A x \in Units \ {v} : unit'[x] = unit[x]
    BY <1>1, <1>8 DEF BuffersInv, QueueInv
  <2> QED
    BY <1>1, <1>2, <1>3, <1>4, <1>6, <1>8, <2>1 DEF Touches
<1>9. CASE /\ unit' = [unit EXCEPT ![v] = Refused(f)]
           /\ queue' = queue /\ phase' = "cpu"
  <2>1. /\ DOMAIN unit' = Units /\ unit'[v] = Refused(f)
        /\ \A x \in Units \ {v} : unit'[x] = unit[x]
    BY <1>1, <1>9 DEF BuffersInv, QueueInv
  <2> QED
    BY <1>1, <1>2, <1>3, <1>4, <1>6, <1>9, <2>1 DEF Touches
<1> QED
  BY <1>1, <1>4, <1>5, <1>7, <1>8, <1>9 DEF SubmitValues, FallBack

\* The hardware writes what the head of the queue asks for, and forgets it.
LEMMA HardwareStill ==
  ASSUME BuffersInv, Hardware
  PROVE  BuffersInv' /\ Still
<1>1. PICK q \in Seq(Units) : /\ q = queue /\ q # <<>>
                              /\ \A i, j \in DOMAIN q : q[i] = q[j] => i = j
                              /\ \A i \in DOMAIN q : unit[q[i]].inflight
  BY DEF BuffersInv, QueueInv, Hardware, Run
<1>2. PICK n \in Nat \ {0} : n = Len(q) /\ DOMAIN q = 1..n
  BY <1>1
<1>3. PICK l \in Nat : l = n - 1
  OBVIOUS
<1>4. PICK p : p = Tail(q)
  OBVIOUS
<1>5. /\ p \in Seq(Units) /\ DOMAIN p = 1..l
      /\ \A i \in 1..l : p[i] = q[i + 1] /\ i + 1 \in 1..n
  <2>1. p \in Seq(Units)
    BY <1>1, <1>4
  <2>2. Len(p) = l
    BY <1>1, <1>2, <1>3, <1>4
  <2>3. DOMAIN p = 1..l
    BY <2>1, <2>2
  <2>4. \A i \in 1..l : p[i] = q[i + 1] /\ i + 1 \in 1..n
    BY <1>1, <1>2, <1>3, <1>4
  <2> QED
    BY <2>1, <2>3, <2>4
<1>6. PICK u \in Units : u = Head(q) /\ u = q[1]
  BY <1>1, <1>2
<1>7. queue' = p /\ \E out : unit' = [unit EXCEPT ![u].out = out]
  <2>1. \E upto \in 0..Len(unit[u].ops) :
           unit' = [unit EXCEPT ![u].out = Answers(u, Computes, upto)]
    BY <1>1, <1>6 DEF Hardware, Run
  <2>2. queue' = p
    BY <1>1, <1>4 DEF Hardware, Run
  <2> QED
    BY <2>1, <2>2
<1>8. PICK out : unit' = [unit EXCEPT ![u].out = out]
  BY <1>7
<1>9. PICK f, g : /\ f = unit[u] /\ DOMAIN f = Fields /\ f.inflight \in BOOLEAN
                  /\ g = [f EXCEPT !.out = out]
  BY DEF BuffersInv, QueueInv
<1>10. DOMAIN g = Fields /\ g.inflight = f.inflight
  BY <1>9 DEF Fields
<1>11. unit' = [unit EXCEPT ![u] = g]
  BY <1>8, <1>9
<1>12. /\ DOMAIN unit' = Units /\ unit'[u] = g
       /\ \A x \in Units \ {u} : unit'[x] = unit[x]
  BY <1>11 DEF BuffersInv, QueueInv
<1>13. \A x \in Units : DOMAIN unit'[x] = Fields /\ unit'[x].inflight = unit[x].inflight
  BY <1>9, <1>10, <1>12 DEF BuffersInv, QueueInv
<1>14. \A i \in 1..l : p[i] # u /\ p[i] \in Units /\ unit[p[i]].inflight
  <2> SUFFICES ASSUME NEW i \in 1..l
               PROVE  p[i] # u /\ p[i] \in Units /\ unit[p[i]].inflight
    OBVIOUS
  <2>1. PICK m : m = i + 1 /\ m \in 1..n /\ m # 1 /\ p[i] = q[m]
    BY <1>5
  <2>2. 1 \in 1..n
    BY <1>2
  <2> QED
    BY <1>1, <1>2, <1>6, <2>1, <2>2
<1>15. \A i, j \in 1..l : p[i] = p[j] => i = j
  <2> SUFFICES ASSUME NEW i \in 1..l, NEW j \in 1..l, p[i] = p[j]
               PROVE  i = j
    OBVIOUS
  <2>1. i + 1 = j + 1
    BY <1>1, <1>2, <1>5
  <2> QED
    BY <2>1
<1>16. QueueInv'
  BY <1>5, <1>7, <1>12, <1>13, <1>14, <1>15 DEF BuffersInv, QueueInv
<1>17. Still
  <2> SUFFICES ASSUME NEW x \in Units, \E i \in DOMAIN p : p[i] = x
               PROVE  /\ unit'[x] = unit[x]
                      /\ Cardinality({i \in DOMAIN p : p[i] = x}) = 1
    BY <1>7 DEF Still
  <2>1. x # u
    BY <1>5, <1>14
  <2>2. unit'[x] = unit[x]
    BY <1>12, <2>1
  <2>3. p \in Seq(Units) /\ \A i, j \in DOMAIN p : p[i] = p[j] => i = j
    BY <1>5, <1>15
  <2>4. Cardinality({i \in DOMAIN p : p[i] = x}) = 1
    BY <2>3, OnceEach
  <2> QED
    BY <2>2, <2>4
<1>18. phase' = phase /\ head' = head
  BY DEF Hardware, threadVars
<1>19. S(head) \in Units
  BY Handles
<1> QED
  BY <1>13, <1>16, <1>17, <1>18, <1>19 DEF BuffersInv, S

\* Every step keeps the queue's invariant and BuffersStill.
LEMMA StillStep ==
  ASSUME BuffersInv, [Next]_vars
  PROVE  BuffersInv' /\ Still
<1>q. QueueInv
  BY DEF BuffersInv
<1>1. CASE \/ \E len \in Lens : NewTurn(len)
           \/ NewChunk \/ AppendRow \/ Attend \/ LayerOver
  <2>1. UNCHANGED <<unit, queue>>
    BY <1>1 DEF NewTurn, NewChunk, AppendRow, Attend, LayerOver, unitVars
  <2>2. phase' # "values"
    BY <1>1 DEF NewTurn, NewChunk, AppendRow, Attend, LayerOver, NextLayer, ChunkOver
  <2> QED
    BY <1>q, <2>1, <2>2, Untouched DEF BuffersInv
<1>2. CASE MemoryFreed \/ UNCHANGED vars
  <2>1. UNCHANGED <<unit, queue, phase, head>>
    BY <1>2 DEF MemoryFreed, vars, unitVars, threadVars
  <2> QED
    BY <1>q, <2>1, Untouched DEF BuffersInv, S
<1>3. CASE SubmitScores
  <2>1. PICK u \in Units : u = S(0)
    BY Handles
  <2>2. Touches({u}) /\ phase' \in {"ahead", "cpu"}
    BY <1>3, <1>q, <2>1, SubmitTouches DEF SubmitScores
  <2> QED
    BY <1>q, <2>2, TouchKeeps DEF BuffersInv
<1>4. CASE SubmitAhead
  <2>1. PICK u \in Units : u = S(head + 1)
    BY Handles
  <2>2. CASE head + 1 < G
    <3>1. Touches({u}) /\ phase' \in {"collect", "cpu"}
      BY <1>4, <1>q, <2>1, <2>2, SubmitTouches DEF SubmitAhead
    <3> QED
      BY <1>q, <3>1, TouchKeeps DEF BuffersInv
  <2>3. CASE ~(head + 1 < G)
    <3>1. UNCHANGED <<unit, queue>> /\ phase' = "collect"
      BY <1>4, <2>3 DEF SubmitAhead, unitVars
    <3> QED
      BY <1>q, <3>1, Untouched DEF BuffersInv
  <2> QED
    BY <2>2, <2>3
<1>5. CASE CollectScores
  <2>1. PICK u \in Units : u = S(head)
    BY Handles
  <2>2. Touches({u}) /\ ~unit'[u].inflight /\ head' = head
    BY <1>5, <1>q, <2>1, WaitTouches DEF CollectScores
  <2>3. S(head)' = u
    BY <2>1, <2>2 DEF S
  <2> QED
    BY <1>q, <2>2, <2>3, TouchKeeps DEF BuffersInv
<1>6. CASE SubmitValues
  BY <1>6, <1>q, ValuesTouch, TouchKeeps DEF BuffersInv
<1>7. CASE CollectBehind
  <2>1. PICK u \in Units : u = V(head - 1)
    BY Handles
  <2>2. CASE head > 0
    <3>1. Touches({u}) /\ phase' # "values"
      <4>1. PICK next : next = IF head + 1 < G THEN "ahead" ELSE "last"
        OBVIOUS
      <4>2. Wait(u, FALSE, next)
        BY <1>7, <2>1, <2>2, <4>1 DEF CollectBehind
      <4>3. Touches({u}) /\ phase' \in {next, "cpu"}
        BY <1>q, <4>2, WaitTouches
      <4>4. next # "values"
        BY <4>1
      <4> QED
        BY <4>3, <4>4
    <3> QED
      BY <1>q, <3>1, TouchKeeps DEF BuffersInv
  <2>3. CASE ~(head > 0)
    <3>1. UNCHANGED <<unit, queue>> /\ phase' # "values"
      BY <1>7, <2>3 DEF CollectBehind, unitVars
    <3> QED
      BY <1>q, <3>1, Untouched DEF BuffersInv
  <2> QED
    BY <2>2, <2>3
<1>8. CASE CollectLast
  <2>1. PICK u \in Units : u = V(G - 1)
    BY Handles
  <2>2. PICK next : next = IF row + M < rows THEN "scores" ELSE "taken"
    OBVIOUS
  <2>3. Wait(u, FALSE, next)
    BY <1>8, <2>1, <2>2 DEF CollectLast
  <2>a. Touches({u}) /\ phase' \in {next, "cpu"}
    BY <1>q, <2>3, WaitTouches
  <2>b. next # "values"
    BY <2>2
  <2>4. Touches({u}) /\ phase' # "values"
    BY <2>a, <2>b
  <2> QED
    BY <1>q, <2>4, TouchKeeps DEF BuffersInv
<1>9. CASE Hardware
  BY <1>9, HardwareStill
<1> QED
  BY <1>1, <1>2, <1>3, <1>4, <1>5, <1>6, <1>7, <1>8, <1>9 DEF Next, Thread

\* Nothing is queued at first.
LEMMA BuffersBegin ==
  ASSUME Init
  PROVE  BuffersInv
<1>1. PICK n : n = Unopened
  OBVIOUS
<1>2. DOMAIN n = Fields /\ n.inflight = FALSE
  BY <1>1 DEF Unopened, Fields
<1>3. unit = [u \in Units |-> n] /\ queue = <<>> /\ phase = "idle"
  BY <1>1 DEF Init, UnitInit
<1>4. queue \in Seq(Units) /\ DOMAIN queue = {}
  BY <1>3
<1> QED
  BY <1>2, <1>3, <1>4 DEF BuffersInv, QueueInv

\* The queue's invariant holds in every state, and no step breaks BuffersStill.
\* BuffersStill: while a job is queued nothing touches its handle's input,
\* streams or output, and no second job of the handle is queued, for any heads,
\* groups, shapes and faults: charsiu_fp16_matmul_group_submit and _wait, and
\* attn_npu_layer's order of them.
THEOREM QueuedIsStill == Spec => BuffersStill
<1>1. Init => BuffersInv
  BY BuffersBegin
<1>2. BuffersInv /\ [Next]_vars => BuffersInv' /\ Still
  BY StillStep
<1>3. Still => \A u \in Units :
         (Queued(u) /\ \E i \in DOMAIN queue' : queue'[i] = u)
            => /\ unit'[u] = unit[u]
               /\ Cardinality({i \in DOMAIN queue' : queue'[i] = u}) = 1
  BY DEF Still
<1> QED
  BY <1>1, <1>2, <1>3, PTL DEF Spec, BuffersStill

-----------------------------------------------------------------------------
(* DeadJobsNoticed.                                                        *)

\* What a group of scores of the one head_dim needs of a handle's buffers.
Needed(m, n, nops) == Needs([m |-> m, k |-> HeadDim[0], n |-> n], nops)
Fits(f, need) == \A b \in DOMAIN need : need[b] <= f.cap[b]

\* A handle of scores: what is left in its buffer by a group that was waited
\* for, and the sentinels that were written over it, are where last says.
ScoreHandle(f) ==
    /\ f.cap \in [{"in", "out", "reg"} -> Int]
    /\ {f.held, f.prepoisoned} \subseteq BOOLEAN
    /\ f.inflight => /\ ~f.prepoisoned
                     /\ DOMAIN f.out = 1..Len(f.ops)
                     /\ Fits(f, Needed(f.shape.m, f.shape.n, Len(f.ops)))
    /\ f.held \/ f.prepoisoned =>
          /\ DOMAIN f.out = 1..f.last.nops
          /\ Fits(f, Needed(f.last.m, f.last.n, f.last.nops))
    /\ f.prepoisoned => \A i \in DOMAIN f.out : f.out[i] = "poison"

\* Values are copied out at once: their sentinels are always written anew.
ValueHandle(f) == f.held = FALSE /\ f.prepoisoned = FALSE

HandleRight(u, f) ==
    /\ \A i \in DOMAIN f.out : f.out[i] # "other"
    /\ IF u \in {"f", "f2"} THEN ScoreHandle(f) ELSE ValueHandle(f)
HandlesRight == \A u \in Units : HandleRight(u, unit[u])

\* The groups of scores that are waited for are the ones submitted.
Pending ==
    /\ phase \in {"ahead", "collect"} => unit[S(head)].inflight
    /\ phase \in {"collect", "values", "behind"} /\ head + 1 < G
          => unit[S(head + 1)].inflight

Kinds ==
    /\ {total, pos, rows, row, mmax} \subseteq Int
    /\ kv \in 1..KvMax
    /\ layer \in 0..(Layers - 1)
    /\ head \in Nat

NoticedInv == BuffersInv /\ HandlesRight /\ Pending /\ Kinds /\ "other" \notin got

\* One head_dim for all layers, as every model but gemma-4 has.
Alike == \A l \in 0..(Layers - 1) : HeadDim[l] = HeadDim[0]

\* What a submit has made of a handle of scores when it comes to the ioctl.
StagedRight(t, m, n, l) ==
    /\ DOMAIN t = Fields
    /\ t.inflight = FALSE /\ t.held = FALSE /\ t.prepoisoned = FALSE
    /\ t.cap \in [{"in", "out", "reg"} -> Int]
    /\ Fits(t, Needed(m, n, l))
    /\ DOMAIN t.out = 1..l /\ \A i \in 1..l : t.out[i] # "other"

\* Buffers that were enough for the same group before stay where they are, so
\* sentinels written ahead for a group of one shape and number are still there.
LEMMA StagedScores ==
  ASSUME NEW f, DOMAIN f = Fields, f.inflight \in BOOLEAN, ScoreHandle(f),
         NEW m \in Int, NEW n \in Int, HeadDim[0] \in Int,
         NEW shape, shape = [m |-> m, k |-> HeadDim[0], n |-> n],
         NEW ops, NEW l \in Nat, l = Len(ops), DOMAIN ops = 1..l
  PROVE  StagedRight(Staged(f, shape, ops), m, n, l)
<1>1. PICK need : need = Needed(m, n, l) /\ need = Needs(shape, Len(ops))
  BY DEF Needed
<1>2. need \in [{"in", "out", "reg"} -> Int] /\ DOMAIN need = {"in", "out", "reg"}
  <2>1. PICK x, y : x = l * m * HeadDim[0] /\ y = l * m * n
    OBVIOUS
  <2>2. x \in Int /\ y \in Int
    BY <2>1
  <2>3. need = [in |-> x, out |-> y, reg |-> l]
    BY <1>1, <2>1 DEF Needed, Needs
  <2> QED
    BY <2>2, <2>3
<1>3. PICK d : d = Drained(f)
  OBVIOUS
<1>4. /\ DOMAIN d = Fields /\ d.inflight = FALSE
      /\ d.cap = f.cap /\ d.last = f.last /\ d.out = f.out
      /\ {d.held, d.prepoisoned} \subseteq BOOLEAN
      /\ d.prepoisoned => f.prepoisoned
  BY <1>3 DEF Drained, Fields, ScoreHandle
<1>5. PICK r : r = Released(d)
  OBVIOUS
<1>6. /\ DOMAIN r = Fields /\ r.inflight = FALSE /\ r.held = FALSE
      /\ r.cap = f.cap /\ r.last = f.last /\ r.out = f.out
      /\ r.prepoisoned \in BOOLEAN /\ r.prepoisoned => f.prepoisoned
  BY <1>4, <1>5 DEF Released, Fields
<1>7. PICK w : w = Wanted(r, need)
  OBVIOUS
<1>8. /\ DOMAIN w = Fields /\ w.inflight = FALSE /\ w.held = FALSE
      /\ w.last = f.last /\ w.prepoisoned = r.prepoisoned
  BY <1>6, <1>7 DEF Wanted, Fields
<1>9. r.cap \in [{"in", "out", "reg"} -> Int]
  BY <1>6 DEF ScoreHandle
<1>10. w.cap \in [{"in", "out", "reg"} -> Int] /\ Fits(w, need)
  <2>1. CASE Fits(r, need)
    <3>1. w = r
      BY <1>7, <2>1 DEF Wanted, Fits
    <3> QED
      BY <1>9, <2>1, <3>1
  <2>2. CASE ~Fits(r, need)
    <3>1. w.cap = [b \in DOMAIN need |-> Larger(need[b], r.cap[b])]
      BY <1>6, <1>7, <2>2 DEF Wanted, Fits, Fields
    <3>2. \A b \in {"in", "out", "reg"} : /\ need[b] \in Int /\ r.cap[b] \in Int
                                          /\ w.cap[b] = Larger(need[b], r.cap[b])
      BY <1>2, <1>9, <3>1
    <3>3. \A b \in {"in", "out", "reg"} : w.cap[b] \in Int /\ need[b] <= w.cap[b]
      <4> SUFFICES ASSUME NEW b \in {"in", "out", "reg"}
                   PROVE  w.cap[b] \in Int /\ need[b] <= w.cap[b]
        OBVIOUS
      <4>1. PICK x \in Int, y \in Int : x = need[b] /\ y = r.cap[b]
        BY <3>2
      <4>2. w.cap[b] = IF x < y THEN y ELSE x
        BY <3>2, <4>1 DEF Larger
      <4> QED
        BY <4>1, <4>2
    <3> QED
      BY <1>2, <3>1, <3>3 DEF Fits
  <2> QED
    BY <2>1, <2>2
<1>11. PICK p : p = Poisoned(w, shape, ops)
  OBVIOUS
<1>12. DOMAIN p = 1..l /\ \A i \in 1..l : p[i] # "other"
  <2>1. CASE ~(w.prepoisoned /\ PoisonMatches(w, shape, Len(ops)))
    <3>1. p = [i \in 1..l |-> "poison"]
      BY <1>11, <2>1 DEF Poisoned, All
    <3> QED
      BY <3>1
  <2>2. CASE w.prepoisoned /\ PoisonMatches(w, shape, Len(ops))
    <3>1. w.last = [nops |-> l, m |-> m, n |-> n]
      BY <2>2 DEF PoisonMatches
    <3>2. f.prepoisoned
      BY <1>6, <1>8, <2>2
    <3>3. f.last.nops = l /\ f.last.m = m /\ f.last.n = n
      BY <1>8, <3>1
    <3>4. /\ DOMAIN f.out = 1..l /\ \A i \in 1..l : f.out[i] = "poison"
          /\ Fits(f, need)
      BY <1>1, <3>2, <3>3 DEF ScoreHandle
    <3>5. Fits(r, need)
      BY <1>6, <3>4 DEF Fits
    <3>6. w = r
      BY <1>7, <3>5 DEF Wanted, Fits
    <3>7. \A i \in 1..l : w.out[i] = "poison"
      BY <1>6, <3>4, <3>6
    <3>8. p = [i \in 1..l |-> IF w.last = [nops |-> l, m |-> m, n |-> n] /\ w.out[i] = "poison"
                              THEN "poison" ELSE "other"]
      BY <1>11, <2>2 DEF Poisoned
    <3>9. p = [i \in 1..l |-> "poison"]
      BY <3>1, <3>7, <3>8
    <3> QED
      BY <3>9
  <2> QED
    BY <2>1, <2>2
<1>13. PICK s : s = Streams(w, shape, ops)
  OBVIOUS
<1>14. DOMAIN s = Fields /\ s.inflight = FALSE /\ s.held = FALSE /\ s.cap = w.cap
  BY <1>8, <1>13 DEF Streams, Fields
<1>15. PICK t : t = Staged(f, shape, ops)
  OBVIOUS
<1>16. t = [s EXCEPT !.prepoisoned = FALSE, !.in = [i \in DOMAIN ops |-> ops[i].good],
                     !.out = p]
  BY <1>1, <1>3, <1>5, <1>7, <1>11, <1>13, <1>15 DEF Staged
<1>17. /\ DOMAIN t = Fields
       /\ t.inflight = FALSE /\ t.held = FALSE /\ t.prepoisoned = FALSE
       /\ t.cap = w.cap /\ t.out = p
  BY <1>14, <1>16 DEF Fields
<1> QED
  BY <1>1, <1>10, <1>12, <1>15, <1>17 DEF StagedRight, Fits

\* A submit of scores that fails at the ioctl, and one that goes in.
LEMMA ScoresSubmitted ==
  ASSUME NEW u \in {"f", "f2"}, NEW f, DOMAIN f = Fields, f.inflight \in BOOLEAN,
         ScoreHandle(f),
         NEW m \in Int, NEW n \in Int, HeadDim[0] \in Int,
         NEW shape, shape = [m |-> m, k |-> HeadDim[0], n |-> n],
         NEW ops, NEW l \in Nat, l = Len(ops), DOMAIN ops = 1..l
  PROVE  /\ HandleRight(u, Staged(f, shape, ops))
         /\ HandleRight(u, Submitted(f, shape, ops))
<1>1. PICK t : t = Staged(f, shape, ops) /\ StagedRight(t, m, n, l)
  BY StagedScores
<1>2. HandleRight(u, t)
  BY <1>1 DEF StagedRight, HandleRight, ScoreHandle
<1>3. PICK s : s = [t EXCEPT !.ops = ops, !.shape = shape, !.inflight = TRUE]
  OBVIOUS
<1>4. s = Submitted(f, shape, ops)
  BY <1>1, <1>3 DEF Submitted
<1>5. /\ s.ops = ops /\ s.shape = shape /\ s.inflight = TRUE
      /\ s.cap = t.cap /\ s.out = t.out /\ s.held = FALSE /\ s.prepoisoned = FALSE
  BY <1>1, <1>3 DEF StagedRight, Fields
<1>6. s.shape.m = m /\ s.shape.n = n
  BY <1>5
<1>7. Fits(s, Needed(m, n, l))
  BY <1>1, <1>5 DEF StagedRight, Fits
<1>8. DOMAIN s.out = 1..l /\ \A i \in 1..l : s.out[i] # "other"
  BY <1>1, <1>5 DEF StagedRight
<1>9. s.cap \in [{"in", "out", "reg"} -> Int]
  BY <1>1, <1>5 DEF StagedRight
<1>10. ScoreHandle(s)
  BY <1>5, <1>6, <1>7, <1>8, <1>9 DEF ScoreHandle
<1> QED
  BY <1>1, <1>2, <1>4, <1>8, <1>10 DEF HandleRight

\* Answers that are held are where the group that was waited for put them.
LEMMA ScoresHeld ==
  ASSUME NEW u \in {"f", "f2"}, NEW f, DOMAIN f = Fields, f.inflight = TRUE,
         HandleRight(u, f)
  PROVE  HandleRight(u, Waited(f, TRUE))
<1>1. PICK w : w = Waited(f, TRUE)
  OBVIOUS
<1>2. /\ w.cap = f.cap /\ w.out = f.out /\ w.held = TRUE /\ w.inflight = FALSE
      /\ w.prepoisoned = f.prepoisoned
      /\ w.last = [nops |-> Len(f.ops), m |-> f.shape.m, n |-> f.shape.n]
  BY <1>1 DEF Waited, Fields
<1>3. w.last.nops = Len(f.ops) /\ w.last.m = f.shape.m /\ w.last.n = f.shape.n
  BY <1>2
<1>4. /\ ScoreHandle(f) /\ ~f.prepoisoned /\ DOMAIN f.out = 1..Len(f.ops)
      /\ Fits(f, Needed(f.shape.m, f.shape.n, Len(f.ops)))
      /\ \A i \in DOMAIN f.out : f.out[i] # "other"
  BY DEF HandleRight, ScoreHandle
<1>5. Fits(w, Needed(w.last.m, w.last.n, w.last.nops))
  BY <1>2, <1>3, <1>4 DEF Fits
<1>6. w.cap \in [{"in", "out", "reg"} -> Int]
  BY <1>2, <1>4 DEF ScoreHandle
<1>7. DOMAIN w.out = 1..w.last.nops
  BY <1>2, <1>3, <1>4
<1>8. {w.held, w.prepoisoned} \subseteq BOOLEAN /\ ~w.inflight /\ ~w.prepoisoned
  BY <1>2, <1>4 DEF ScoreHandle
<1>9. ScoreHandle(w)
  BY <1>5, <1>6, <1>7, <1>8 DEF ScoreHandle
<1> QED
  BY <1>1, <1>2, <1>4, <1>9 DEF HandleRight

\* Sentinels over answers that were held.
LEMMA ScoresPoisoned ==
  ASSUME NEW u \in {"f", "f2"}, NEW f, DOMAIN f = Fields, f.inflight = FALSE,
         HandleRight(u, f)
  PROVE  HandleRight(u, PoisonReleased(f))
<1>1. CASE ~f.held
  BY <1>1 DEF PoisonReleased
<1>2. CASE f.held
  <2>1. PICK p : p = All("poison", f.out)
    OBVIOUS
  <2>2. PICK w : w = PoisonReleased(f)
    OBVIOUS
  <2>3. w = [f EXCEPT !.out = p, !.held = FALSE, !.prepoisoned = TRUE]
    BY <1>2, <2>1, <2>2 DEF PoisonReleased
  <2>4. /\ w.cap = f.cap /\ w.out = p /\ w.held = FALSE /\ w.inflight = FALSE
        /\ w.prepoisoned = TRUE /\ w.last = f.last
    BY <2>3 DEF Fields
  <2>5. /\ f.cap \in [{"in", "out", "reg"} -> Int]
        /\ DOMAIN f.out = 1..f.last.nops
        /\ Fits(f, Needed(f.last.m, f.last.n, f.last.nops))
    BY <1>2 DEF HandleRight, ScoreHandle
  <2>6. DOMAIN p = 1..f.last.nops /\ \A i \in DOMAIN p : p[i] = "poison"
    BY <2>1, <2>5 DEF All
  <2>7. Fits(w, Needed(w.last.m, w.last.n, w.last.nops))
    BY <2>4, <2>5 DEF Fits
  <2>8. ScoreHandle(w)
    BY <2>4, <2>5, <2>6, <2>7 DEF ScoreHandle
  <2> QED
    BY <2>2, <2>4, <2>6, <2>8 DEF HandleRight
<1> QED
  BY <1>1, <1>2 DEF HandleRight, ScoreHandle

\* Values: nothing is ever held in their buffers, nor written ahead.
LEMMA ValuesKept ==
  ASSUME NEW u \in {"fv", "fv2"}, NEW f, DOMAIN f = Fields, f.inflight \in BOOLEAN,
         HandleRight(u, f), NEW shape, NEW ops
  PROVE  /\ HandleRight(u, Staged(f, shape, ops))
         /\ HandleRight(u, Submitted(f, shape, ops))
         /\ HandleRight(u, Refused(f))
         /\ HandleRight(u, Waited(f, FALSE))
<1>0. /\ f.held = FALSE /\ f.prepoisoned = FALSE
      /\ \A i \in DOMAIN f.out : f.out[i] # "other"
  BY DEF HandleRight, ValueHandle
<1>1. PICK d : d = Drained(f)
  OBVIOUS
<1>2. /\ DOMAIN d = Fields /\ d.out = f.out
      /\ d.held = FALSE /\ d.prepoisoned = FALSE
  BY <1>0, <1>1 DEF Drained, Fields
<1>3. Released(d) = d
  BY <1>2 DEF Released
<1>4. HandleRight(u, Refused(f))
  BY <1>0, <1>1, <1>2, <1>3 DEF Refused, HandleRight, ValueHandle
<1>5. PICK w : w = Wanted(d, Needs(shape, Len(ops)))
  OBVIOUS
<1>6. DOMAIN w = Fields /\ w.held = FALSE /\ w.prepoisoned = FALSE
  BY <1>2, <1>5 DEF Wanted, Fields
<1>7. PICK p : p = Poisoned(w, shape, ops)
  OBVIOUS
<1>8. \A i \in DOMAIN p : p[i] # "other"
  <2>1. p = [i \in DOMAIN ops |-> "poison"]
    BY <1>6, <1>7 DEF Poisoned, All
  <2> QED
    BY <2>1
<1>9. PICK s : s = Streams(w, shape, ops)
  OBVIOUS
<1>10. DOMAIN s = Fields /\ s.held = FALSE
  BY <1>6, <1>9 DEF Streams, Fields
<1>11. PICK t : t = Staged(f, shape, ops)
  OBVIOUS
<1>12. t = [s EXCEPT !.prepoisoned = FALSE, !.in = [i \in DOMAIN ops |-> ops[i].good],
                     !.out = p]
  BY <1>1, <1>3, <1>5, <1>7, <1>9, <1>11 DEF Staged
<1>13. DOMAIN t = Fields /\ t.held = FALSE /\ t.prepoisoned = FALSE /\ t.out = p
  BY <1>10, <1>12 DEF Fields
<1>14. HandleRight(u, t)
  BY <1>8, <1>13 DEF HandleRight, ValueHandle
<1>15. PICK s2 : s2 = [t EXCEPT !.ops = ops, !.shape = shape, !.inflight = TRUE]
  OBVIOUS
<1>16. s2 = Submitted(f, shape, ops)
  BY <1>11, <1>15 DEF Submitted
<1>17. s2.held = FALSE /\ s2.prepoisoned = FALSE /\ s2.out = p
  BY <1>13, <1>15 DEF Fields
<1>18. HandleRight(u, s2)
  BY <1>8, <1>17 DEF HandleRight, ValueHandle
<1>19. PICK v : v = Waited(f, FALSE)
  OBVIOUS
<1>20. v.held = FALSE /\ v.prepoisoned = FALSE /\ v.out = f.out
  BY <1>0, <1>19 DEF Waited, Fields
<1>21. HandleRight(u, v)
  BY <1>0, <1>20 DEF HandleRight, ValueHandle
<1> QED
  BY <1>4, <1>11, <1>14, <1>16, <1>18, <1>19, <1>21

\* Numbers rounded up to a multiple.
LEMMA Aligned ==
  ASSUME NEW x \in Int, NEW a \in Nat \ {0}
  PROVE  /\ AlignUp(x, a) \in Int /\ x <= AlignUp(x, a) /\ AlignUp(x, a) <= x + a - 1
         /\ x > 0 => AlignUp(x, a) > 0
<1>1. PICK y \in Int : y = x + a - 1
  OBVIOUS
<1>2. PICK q \in Int : q = y \div a /\ q * a <= y /\ y < (q + 1) * a
  OBVIOUS
<1>3. (q + 1) * a = q * a + a /\ q * a \in Int
  OBVIOUS
<1> QED
  BY <1>1, <1>2, <1>3 DEF AlignUp

\* What a K surface has room for, a V surface has at its largest.
LEMMA Extents ==
  /\ KvMax \in Nat \ {0} /\ NK \in Int /\ NK <= KvMax /\ Pair <= KvMax
<1>1. PICK x \in Nat \ {0}, b \in Nat \ {0} : x = NCtx /\ b = Pair /\ b % 2 = 0
  BY LadderAssumption
<1>2. PICK a \in Nat \ {0} : b = 2 * a /\ b \div 2 = a
  <2>1. PICK a \in Int : a = b \div 2
    OBVIOUS
  <2>2. b = 2 * a
    BY <1>1, <2>1
  <2> QED
    BY <1>1, <2>1, <2>2
<1>3. PICK q \in Int : q = (x + a - 1) \div a /\ q * a <= x + a - 1
  OBVIOUS
<1>4. PICK y \in Int : y = x + b - 1
  OBVIOUS
<1>5. PICK r \in Int : r = y \div b /\ y < (r + 1) * b
  OBVIOUS
<1>6. (r + 1) * b = r * b + b /\ r * b \in Int
  OBVIOUS
<1>7. r * b >= x /\ r >= 1
  <2>1. r * b >= x
    BY <1>4, <1>5, <1>6
  <2>2. r >= 1
    BY <2>1
  <2> QED
    BY <2>1, <2>2
<1>8. KvMax = r * b /\ NK = q * a
  BY <1>1, <1>2, <1>3, <1>4, <1>5 DEF KvMax, NK, AlignUp
<1>9. r * b = (2 * r) * a /\ (2 * r) * a \in Int /\ q * a \in Int
  BY <1>2
<1>10. q * a <= (2 * r) * a
  <2>1. CASE q <= 2 * r
    BY <2>1
  <2>2. CASE q >= 2 * r + 1
    <3>1. q * a >= (2 * r + 1) * a
      BY <2>2
    <3>2. (2 * r + 1) * a = (2 * r) * a + a
      OBVIOUS
    <3> QED
      BY <1>3, <1>7, <1>9, <3>1, <3>2
  <2> QED
    BY <2>1, <2>2
<1>11. r * b >= b
  BY <1>7
<1> QED
  BY <1>1, <1>7, <1>8, <1>9, <1>10, <1>11

\* Rungs climb, and stop at the context.
LEMMA RungsClimb ==
  ASSUME NEW k \in Nat, k < KvMax
  PROVE  NextRung(k) \in (k + 1)..KvMax
<1>1. PICK s \in Nat, b \in Nat \ {0} : s = Step /\ b = Pair
  BY LadderAssumption
<1>2. PICK p \in Nat : p = k * s
  OBVIOUS
<1>3. PICK x \in Int : x = p \div 100
  OBVIOUS
<1>4. PICK nx \in Int : nx = AlignUp((k * Step) \div 100, Pair)
  BY <1>1, <1>2, <1>3, Aligned
<1>5. NextRung(k) = LET up == IF nx <= k THEN k + b ELSE nx
                    IN  IF up > KvMax THEN KvMax ELSE up
  BY <1>1, <1>4 DEF NextRung
<1> QED
  BY <1>1, <1>5, Extents

\* A set of numbers that holds the last one, and with each the one before, holds
\* the first.
LEMMA Descent ==
  ASSUME NEW last \in Nat, NEW Ds \in SUBSET (0..last), last \in Ds,
         \A d \in Ds : d > 0 => d - 1 \in Ds
  PROVE  0 \in Ds
<1>1. Ds \subseteq Nat /\ Ds # {}
  OBVIOUS
<1>2. PICK d \in Ds : \A e \in Ds : ~(<<e, d>> \in OpToRel(<, Nat))
  BY <1>1, NatLessThanWellFounded, WFMin
<1>3. d \in Nat
  BY <1>1
<1>4. CASE d > 0
  <2>1. PICK e \in Ds : e = d - 1
    BY <1>4
  <2>2. e \in Nat /\ e < d
    BY <1>1, <1>3, <2>1
  <2>3. <<e, d>> \in OpToRel(<, Nat)
    BY <1>3, <2>2 DEF OpToRel
  <2> QED
    BY <1>2, <2>3
<1>5. CASE ~(d > 0)
  BY <1>3, <1>5
<1> QED
  BY <1>4, <1>5

\* The climb, as ClimbTo defines it, and what it is from some extent on.
Rung(want) ==
    CHOOSE g : g = [k \in 0..(KvMax * Step) |-> IF k >= want THEN k ELSE g[NextRung(k)]]
RungFrom(g, d, last, want) ==
    g = [k \in d..last |-> IF k >= want THEN k ELSE g[NextRung(k)]]

\* There is such a function, although it looks ahead: one from the last extent
\* on, and from every one that is one before.
LEMMA RungExists ==
  ASSUME NEW want \in Int, want <= KvMax
  PROVE  Rung(want) = [k \in 0..(KvMax * Step) |->
                         IF k >= want THEN k ELSE Rung(want)[NextRung(k)]]
<1>1. PICK last \in Nat : last = KvMax * Step /\ KvMax <= last
  <2>1. PICK a \in Nat \ {0}, b \in Nat : a = KvMax /\ b = Step /\ b >= 1
    BY Extents, LadderAssumption
  <2>2. a * b >= a /\ a * b \in Nat
    BY <2>1
  <2> QED
    BY <2>1, <2>2
<1>2. PICK Ds : Ds = {d \in 0..last : \E g : RungFrom(g, d, last, want)}
  OBVIOUS
<1>3. last \in Ds
  <2>1. PICK g : g = [k \in last..last |-> k]
    OBVIOUS
  <2>2. \A k \in last..last : k >= want
    BY <1>1, Extents
  <2>3. RungFrom(g, last, last, want)
    BY <2>1, <2>2 DEF RungFrom
  <2> QED
    BY <1>2, <2>3
<1>4. ASSUME NEW d \in Ds, d > 0
      PROVE  d - 1 \in Ds
  <2>1. PICK g : d \in 0..last /\ RungFrom(g, d, last, want)
    BY <1>2
  <2>2. PICK e \in Nat : e = d - 1 /\ e \in 0..last /\ e < d
    BY <1>4, <2>1
  <2>3. PICK top : top = IF e >= want THEN e ELSE g[NextRung(e)]
    OBVIOUS
  <2>4. PICK h : h = [k \in e..last |-> IF k = e THEN top ELSE g[k]]
    OBVIOUS
  <2>5. \A k \in e..last : k # e => k \in d..last
    BY <2>1, <2>2
  <2>6. ASSUME NEW k \in e..last
        PROVE  h[k] = IF k >= want THEN k ELSE h[NextRung(k)]
    <3>1. CASE k >= want
      <4>1. k # e => g[k] = k
        BY <2>1, <2>5, <3>1 DEF RungFrom
      <4> QED
        BY <2>3, <2>4, <3>1, <4>1
    <3>2. CASE ~(k >= want)
      <4>1. k \in Nat /\ k < KvMax
        BY <2>2, <3>2, Extents
      <4>2. PICK n : n = NextRung(k) /\ n \in (k + 1)..KvMax
        BY <4>1, RungsClimb
      <4>3. n \in e..last /\ n # e
        BY <1>1, <2>2, <4>1, <4>2, Extents
      <4>4. h[n] = g[n]
        BY <2>4, <4>3
      <4>5. CASE k = e
        BY <2>3, <2>4, <3>2, <4>2, <4>4, <4>5
      <4>6. CASE k # e
        <5>1. h[k] = g[k] /\ k \in d..last
          BY <2>4, <2>5, <4>6
        <5>2. g[k] = g[n]
          BY <2>1, <3>2, <4>2, <5>1 DEF RungFrom
        <5> QED
          BY <3>2, <4>2, <4>4, <5>1, <5>2
      <4> QED
        BY <4>5, <4>6
    <3> QED
      BY <3>1, <3>2
  <2>7. RungFrom(h, e, last, want)
    <3>1. PICK h2 : h2 = [k \in e..last |-> IF k >= want THEN k ELSE h[NextRung(k)]]
      OBVIOUS
    <3>2. h = h2
      BY <2>4, <2>6, <3>1
    <3> QED
      BY <3>1, <3>2 DEF RungFrom
  <2> QED
    BY <1>2, <2>2, <2>7
<1>5. 0 \in Ds
  BY <1>2, <1>3, <1>4, Descent
<1>6. \E g : g = [k \in 0..(KvMax * Step) |-> IF k >= want THEN k ELSE g[NextRung(k)]]
  BY <1>1, <1>2, <1>5 DEF RungFrom
<1> QED
  BY <1>6 DEF Rung

\* It ends at an extent, whatever position is wanted below the largest one.
LEMMA RungsEnd ==
  ASSUME NEW want \in Int, want <= KvMax, NEW k0 \in 1..KvMax
  PROVE  Rung(want)[k0] \in k0..KvMax
<1>1. PICK m \in Nat : m = KvMax
  BY Extents
<1>2. PICK g : g = Rung(want)
  OBVIOUS
<1>3. \A k \in 0..m : g[k] = IF k >= want THEN k ELSE g[NextRung(k)]
  <2>1. \A k \in 0..m : k \in 0..(KvMax * Step)
    <3>1. PICK b \in Nat : b = Step /\ b >= 1
      BY LadderAssumption
    <3>2. m * b >= m /\ m * b \in Nat
      BY <3>1
    <3> QED
      BY <1>1, <3>1, <3>2
  <2> QED
    BY <1>2, <2>1, RungExists
<1>4. PICK Ds : Ds = {d \in 0..m : \A k \in d..m : g[k] \in k..m}
  OBVIOUS
<1>5. m \in Ds
  <2>1. g[m] = m
    BY <1>1, <1>3
  <2> QED
    BY <1>4, <2>1
<1>6. ASSUME NEW d \in Ds, d > 0
      PROVE  d - 1 \in Ds
  <2>1. d \in 0..m /\ \A k \in d..m : g[k] \in k..m
    BY <1>4
  <2>2. PICK e \in 0..m : e = d - 1
    BY <1>6, <2>1
  <2>a. d = e + 1
    <3>1. d \in Nat
      BY <2>1
    <3> QED
      BY <2>2, <3>1
  <2>3. g[e] \in e..m
    <3>1. CASE e >= want
      BY <1>3, <3>1
    <3>2. CASE ~(e >= want)
      <4>1. e \in Nat /\ e < KvMax
        BY <1>1, <3>2
      <4>2. PICK n : n = NextRung(e) /\ n \in (e + 1)..m
        BY <1>1, <4>1, RungsClimb
      <4>3. n \in d..m
        BY <2>a, <4>2
      <4>4. g[e] = g[n] /\ g[n] \in n..m
        BY <1>3, <2>1, <3>2, <4>2, <4>3
      <4> QED
        BY <4>2, <4>4
    <3> QED
      BY <3>1, <3>2
  <2>4. \A k \in e..m : k = e \/ k \in d..m
    BY <2>a
  <2> QED
    BY <1>4, <2>1, <2>2, <2>3, <2>4
<1>7. 0 \in Ds
  BY <1>4, <1>5, <1>6, Descent
<1> QED
  BY <1>1, <1>2, <1>4, <1>7

\* The extent that attn_npu_fit climbs to.
LEMMA ClimbStays ==
  ASSUME NEW want \in Int, want <= KvMax, kv \in 1..KvMax, total \in Int
  PROVE  ClimbTo(want) \in 1..KvMax
<1>1. PICK r : r = Rung(want)[kv] /\ r \in kv..KvMax
  BY RungsEnd
<1>2. PICK c : c = Ceiling
  OBVIOUS
<1>3. c \in Int /\ c <= KvMax
  <2>1. PICK x \in Int : x = AlignUp(total, Pair)
    BY Aligned, LadderAssumption
  <2> QED
    BY <1>2, <2>1, Extents DEF Ceiling
<1>4. ClimbTo(want) = IF c > 0 /\ want <= c /\ r > c THEN c ELSE r
  BY <1>1, <1>2 DEF ClimbTo, Rung
<1> QED
  BY <1>1, <1>3, <1>4, Extents

\* What a group of scores asks for is of the shape's kinds.
LEMMA ShapeKinds ==
  ASSUME Kinds
  PROVE  M \in Int /\ CausalN \in Int /\ G \in {1, 2} /\ (G = 2 => Heads >= 2)
<1>1. PICK b \in Nat \ {0}, a \in Int : b = Pair /\ b % 2 = 0 /\ a = b \div 2
  BY LadderAssumption
<1>2. a \in Nat \ {0} /\ a = Atom
  BY <1>1 DEF Atom
<1>3. PICK ps \in Int, rs \in Int, r \in Int, mm \in Int :
         ps = pos /\ rs = rows /\ r = row /\ mm = mmax
  BY DEF Kinds
<1>4. PICK m \in Int : m = M
  BY <1>3 DEF M
<1>5. PICK np \in Int : np = NPad
  <2>1. PICK t \in Int : t = T
    BY <1>3 DEF T
  <2>2. AlignUp(t, a) \in Int
    BY <1>2, Aligned
  <2> QED
    BY <1>2, <2>1, <2>2 DEF NPad
<1>6. PICK cn \in Int : cn = AlignUp(Reach, Atom)
  <2>1. PICK t \in Int : t = Reach
    BY <1>3, <1>4 DEF Reach
  <2>2. AlignUp(t, a) \in Int
    BY <1>2, Aligned
  <2> QED
    BY <1>2, <2>1, <2>2
<1>7. CausalN \in Int
  <2>1. CausalN = LET up == IF cn < b THEN b ELSE cn
                  IN  IF up > np THEN np ELSE up
    BY <1>1, <1>5, <1>6 DEF CausalN
  <2> QED
    BY <2>1
<1>8. G \in {1, 2} /\ (G = 2 => Heads >= 2)
  BY AttentionAssumption DEF G
<1> QED
  BY <1>4, <1>7, <1>8

\* Its operations are a sequence.
LEMMA OpsKinds ==
  ASSUME Kinds, NEW g \in Nat, g < G
  PROVE  \E l \in Nat : l = Len(ScoreOps(g)) /\ DOMAIN ScoreOps(g) = 1..l
<1>1. PICK h \in Nat \ {0}, n \in {1, 2} : h = Heads /\ n = G /\ (n = 2 => h >= 2)
  BY ShapeKinds, AttentionAssumption
<1>2. PICK q \in Nat : q = (h + n - 1) \div n /\ q <= h
  <2>1. CASE n = 1
    BY <2>1
  <2>2. CASE n = 2
    BY <1>1, <2>2
  <2> QED
    BY <2>1, <2>2
<1>3. q = PerGroup
  BY <1>1, <1>2 DEF PerGroup
<1>4. g = 0 \/ g = 1
  BY <1>1
<1>5. First(g) \in Nat /\ First(g) <= h
  BY <1>2, <1>3, <1>4 DEF First
<1>6. PICK c \in Nat : c = Count(g)
  BY <1>1, <1>2, <1>3, <1>5 DEF Count
<1>7. PICK ops : ops = ScoreOps(g)
  OBVIOUS
<1>8. DOMAIN ops = 1..c
  BY <1>6, <1>7 DEF ScoreOps
<1>9. ops = [i \in 1..c |-> ops[i]]
  BY <1>6, <1>7 DEF ScoreOps
<1>10. Len(ops) = c
  BY <1>9
<1> QED
  BY <1>6, <1>7, <1>8, <1>10

\* Appending a position leaves the extent within the context.
LEMMA AppendKinds ==
  ASSUME Kinds, NEW l, NEW kh, NEW p \in Int, AppendHead(l, kh, p)
  PROVE  kv' \in 1..KvMax
<1>1. CASE Opened # "open" \/ p >= NK
  BY <1>1 DEF AppendHead, Kinds
<1>2. CASE ~(Opened # "open" \/ p >= NK)
  <2>1. p + 1 \in Int /\ p + 1 <= KvMax
    BY <1>2, Extents
  <2>2. ClimbTo(p + 1) \in 1..KvMax
    BY <2>1, ClimbStays DEF Kinds
  <2>3. Fitted(Surfs, p + 1).kv \in {ClimbTo(p + 1), kv}
    BY DEF Fitted
  <2>4. kv' \in {Fitted(Surfs, p + 1).kv, kv}
    BY <1>2 DEF AppendHead
  <2> QED
    BY <2>2, <2>3, <2>4 DEF Kinds
<1> QED
  BY <1>1, <1>2

\* Actions that leave the handles alone and begin no wait.
LEMMA QuietSteps ==
  ASSUME NoticedInv,
         \/ \E len \in Lens : NewTurn(len)
         \/ NewChunk \/ AppendRow \/ Attend \/ LayerOver
  PROVE  HandlesRight' /\ Pending' /\ Kinds' /\ "other" \notin got'
<1>1. UNCHANGED unit
  BY DEF NewTurn, NewChunk, AppendRow, Attend, LayerOver, unitVars
<1>2. phase' \in {"idle", "append", "attend", "scores", "cpu"}
  <2>1. CASE \E len \in Lens : NewTurn(len)
    BY <2>1 DEF NewTurn
  <2>2. CASE NewChunk \/ AppendRow
    BY <2>2 DEF NewChunk, AppendRow
  <2>3. CASE Attend
    BY <2>3 DEF Attend
  <2>4. CASE LayerOver
    BY <2>4 DEF LayerOver, NextLayer, ChunkOver
  <2> QED
    BY <2>1, <2>2, <2>3, <2>4
<1>3. HandlesRight'
  BY <1>1 DEF NoticedInv, HandlesRight
<1>4. Pending'
  BY <1>2 DEF Pending
<1>5. "other" \notin got'
  BY DEF NoticedInv, NewTurn, NewChunk, AppendRow, Attend, LayerOver
<1>6. Kinds'
  <2>0. /\ {total, pos, rows, row, mmax} \subseteq Int /\ kv \in 1..KvMax
        /\ layer \in 0..(Layers - 1) /\ head \in Nat
    BY DEF NoticedInv, Kinds
  <2>1. CASE \E len \in Lens : NewTurn(len)
    <3>1. PICK len \in Lens : NewTurn(len)
      BY <2>1
    <3>2. len \in Int
      BY AttentionAssumption
    <3>3. total' = len /\ pos' = 0 /\ UNCHANGED <<kv, rows, row, mmax, layer, head>>
      BY <3>1 DEF NewTurn, Restarted
    <3> QED
      BY <2>0, <3>2, <3>3 DEF Kinds
  <2>2. CASE NewChunk
    <3>1. rows' \in Int
      BY <2>0, <2>2, AttentionAssumption DEF NewChunk
    <3>2. 0 \in 0..(Layers - 1)
      BY LadderAssumption
    <3> QED
      BY <2>0, <2>2, <3>1, <3>2 DEF NewChunk, ladderVars, Kinds
  <2>3. CASE AppendRow
    <3>1. kv' \in 1..KvMax
      <4>1. PICK p \in Int : p = pos + row
        BY <2>0
      <4>2. AppendHead(layer, head, p)
        BY <2>3, <4>1 DEF AppendRow
      <4> QED
        BY <4>1, <4>2, AppendKinds DEF NoticedInv
    <3>2. mmax' \in Int
      <4>1. PICK a \in Nat, k \in Nat \ {0} : a = Area /\ k = kv'
        BY <3>1, AttentionAssumption, Extents
      <4>2. a \div k \in Int
        OBVIOUS
      <4> QED
        BY <2>0, <2>3, <4>1, <4>2 DEF AppendRow, RowsAt
    <3>3. row' \in Int /\ head' \in Nat
      BY <2>0, <2>3 DEF AppendRow
    <3>4. UNCHANGED <<total, pos, rows, layer>>
      BY <2>3 DEF AppendRow, AppendHead
    <3> QED
      BY <2>0, <3>1, <3>2, <3>3, <3>4 DEF Kinds
  <2>4. CASE Attend
    BY <2>0, <2>4 DEF Attend, Kinds
  <2>5. CASE LayerOver
    <3>1. layer' \in 0..(Layers - 1) /\ pos' \in Int
      BY <2>0, <2>5, LadderAssumption DEF LayerOver, NextLayer, ChunkOver
    <3>2. row' = 0 /\ head' = 0 /\ UNCHANGED <<total, kv, rows, mmax>>
      BY <2>5 DEF LayerOver, ladderVars
    <3> QED
      BY <2>0, <3>1, <3>2 DEF Kinds
  <2> QED
    BY <2>1, <2>2, <2>3, <2>4, <2>5
<1> QED
  BY <1>3, <1>4, <1>5, <1>6

\* Changing one handle.
LEMMA OneHandle ==
  ASSUME BuffersInv, HandlesRight, NEW u \in Units, NEW f, HandleRight(u, f),
         unit' = [unit EXCEPT ![u] = f]
  PROVE  /\ HandlesRight' /\ unit'[u] = f
         /\ \A x \in Units \ {u} : unit'[x] = unit[x]
<1>1. unit'[u] = f /\ \A x \in Units \ {u} : unit'[x] = unit[x]
  BY DEF BuffersInv, QueueInv
<1>2. ASSUME NEW x \in Units PROVE HandleRight(x, unit'[x])
  BY <1>1 DEF HandlesRight
<1> QED
  BY <1>1, <1>2 DEF HandlesRight

\* The hardware writes answers, of a job that is waited for.
LEMMA HardwareNotices ==
  ASSUME NoticedInv, Hardware
  PROVE  HandlesRight' /\ Pending' /\ Kinds' /\ "other" \notin got'
<1>1. UNCHANGED <<ladderVars, threadVars>>
  BY DEF Hardware
<1>2. Kinds' /\ "other" \notin got'
  BY <1>1 DEF NoticedInv, Kinds, ladderVars, threadVars
<1>3. PICK q \in Seq(Units) : q = queue /\ q # <<>> /\ \A i \in DOMAIN q : unit[q[i]].inflight
  BY DEF NoticedInv, BuffersInv, QueueInv, Hardware, Run
<1>4. PICK u : u = Head(q) /\ u \in Units /\ unit[u].inflight
  <2>1. Head(q) = q[1] /\ 1 \in DOMAIN q /\ q[1] \in Units
    BY <1>3
  <2> QED
    BY <1>3, <2>1
<1>5. PICK f : f = unit[u] /\ DOMAIN f = Fields /\ f.inflight = TRUE
  BY <1>4 DEF NoticedInv, BuffersInv, QueueInv
<1>6. HandleRight(u, f)
  BY <1>4, <1>5 DEF NoticedInv, HandlesRight
<1>7. PICK upto : unit' = [unit EXCEPT ![u].out = Answers(u, Computes, upto)]
  BY <1>3, <1>4 DEF Hardware, Run
<1>8. PICK o : o = Answers(u, Computes, upto)
  OBVIOUS
<1>9. DOMAIN o = DOMAIN f.out /\ \A i \in DOMAIN o : o[i] # "other"
  BY <1>5, <1>6, <1>8 DEF Answers, HandleRight
<1>10. PICK g : g = [f EXCEPT !.out = o]
  OBVIOUS
<1>11. /\ g.out = o /\ g.inflight = TRUE /\ g.cap = f.cap /\ g.held = f.held
       /\ g.prepoisoned = f.prepoisoned /\ g.ops = f.ops /\ g.shape = f.shape
       /\ g.last = f.last
  BY <1>5, <1>10 DEF Fields
<1>12. unit' = [unit EXCEPT ![u] = g]
  BY <1>5, <1>7, <1>8, <1>10
<1>13. HandleRight(u, g)
  <2>1. CASE u \in {"f", "f2"}
    <3>1. ScoreHandle(f) /\ ~f.prepoisoned
      BY <1>5, <1>6, <2>1 DEF HandleRight, ScoreHandle
    <3>2. ScoreHandle(g)
      BY <1>5, <1>9, <1>11, <3>1 DEF ScoreHandle, Fits
    <3> QED
      BY <1>9, <1>11, <2>1, <3>2 DEF HandleRight
  <2>2. CASE u \notin {"f", "f2"}
    BY <1>6, <1>9, <1>11, <2>2 DEF HandleRight, ValueHandle
  <2> QED
    BY <2>1, <2>2
<1>14. /\ HandlesRight' /\ unit'[u] = g
       /\ \A x \in Units \ {u} : unit'[x] = unit[x]
  BY <1>4, <1>12, <1>13, OneHandle DEF NoticedInv
<1>15. \A x \in Units : unit'[x].inflight = unit[x].inflight
  BY <1>5, <1>11, <1>14
<1>16. Pending'
  <2>1. UNCHANGED <<phase, head, rows, row, mmax>>
    BY <1>1 DEF threadVars
  <2>2. G' = G
    BY <2>1 DEF G, M
  <2>3. S(head) \in Units /\ S(head + 1) \in Units
    BY Handles
  <2> QED
    BY <1>15, <2>1, <2>2, <2>3 DEF NoticedInv, Pending, S
<1> QED
  BY <1>2, <1>14, <1>16

\* Scores are asked for on their handle.
LEMMA ScoresAsked ==
  ASSUME Alike, NoticedInv, NEW g \in Nat, g < G, NEW next,
         Submit(S(g), ScoreShape, ScoreOps(g), next)
  PROVE  /\ HandlesRight' /\ phase' \in {next, "cpu"}
         /\ phase' # "cpu" => unit'[S(g)].inflight
         /\ \A x \in Units : x # S(g) => unit'[x] = unit[x]
<1>1. PICK u \in {"f", "f2"} : u = S(g) /\ u \in Units
  BY Handles
<1>2. PICK m \in Int, n \in Int : m = M /\ n = CausalN
  BY ShapeKinds DEF NoticedInv
<1>3. HeadDim[0] \in Int /\ HeadDim[layer] = HeadDim[0]
  <2>1. 0 \in 0..(Layers - 1) /\ layer \in 0..(Layers - 1)
    BY LadderAssumption DEF NoticedInv, Kinds
  <2> QED
    BY <2>1, AttentionAssumption DEF Alike
<1>4. PICK shape : shape = ScoreShape /\ shape = [m |-> m, k |-> HeadDim[0], n |-> n]
  BY <1>2, <1>3 DEF ScoreShape
<1>5. PICK ops : ops = ScoreOps(g)
  OBVIOUS
<1>6. PICK l \in Nat : l = Len(ops) /\ DOMAIN ops = 1..l
  BY <1>5, OpsKinds DEF NoticedInv
<1>7. PICK f : f = unit[u] /\ DOMAIN f = Fields /\ f.inflight \in BOOLEAN
  BY <1>1 DEF NoticedInv, BuffersInv, QueueInv
<1>8. ScoreHandle(f)
  BY <1>1, <1>7 DEF NoticedInv, HandlesRight, HandleRight
<1>9. PICK t, s : /\ t = Staged(f, shape, ops) /\ HandleRight(u, t)
                  /\ s = Submitted(f, shape, ops) /\ HandleRight(u, s)
  BY <1>2, <1>3, <1>4, <1>6, <1>7, <1>8, ScoresSubmitted
<1>10. s.inflight = TRUE
  BY <1>7, <1>9, HandleKinds
<1>11. Submit(u, shape, ops, next)
  BY <1>1, <1>4, <1>5
<1>12. CASE unit' = [unit EXCEPT ![u] = s] /\ phase' = next
  <2>1. /\ HandlesRight' /\ unit'[u] = s
        /\ \A x \in Units \ {u} : unit'[x] = unit[x]
    BY <1>1, <1>9, <1>12, OneHandle DEF NoticedInv
  <2> QED
    BY <1>1, <1>10, <1>12, <2>1
<1>13. CASE unit' = [unit EXCEPT ![u] = t] /\ phase' = "cpu"
  <2>1. /\ HandlesRight' /\ unit'[u] = t
        /\ \A x \in Units \ {u} : unit'[x] = unit[x]
    BY <1>1, <1>9, <1>13, OneHandle DEF NoticedInv
  <2> QED
    BY <1>1, <1>13, <2>1
<1> QED
  BY <1>7, <1>9, <1>11, <1>12, <1>13 DEF Submit, FallBack

\* A wait for scores keeps them in the buffer.
LEMMA ScoresWaited ==
  ASSUME NoticedInv, CollectScores
  PROVE  HandlesRight' /\ Pending' /\ Kinds' /\ "other" \notin got'
<1>1. PICK u \in {"f", "f2"}, x \in Units : u = S(head) /\ x = S(head + 1) /\ u \in Units
  BY Handles
<1>2. PICK f : f = unit[u] /\ DOMAIN f = Fields /\ f.inflight = TRUE /\ HandleRight(u, f)
  <2>1. unit[u].inflight
    BY <1>1 DEF NoticedInv, Pending, CollectScores
  <2> QED
    BY <1>1, <2>1 DEF NoticedInv, BuffersInv, QueueInv, HandlesRight
<1>3. PICK w : w = Waited(f, TRUE) /\ HandleRight(u, w)
  BY <1>2, ScoresHeld
<1>4. unit' = [unit EXCEPT ![u] = w] /\ phase' \in {"cpu", "values"}
  BY <1>1, <1>2, <1>3 DEF CollectScores, Wait
<1>5. UNCHANGED <<total, kv, pos, rows, layer, row, head, mmax, got>>
  BY DEF CollectScores, ladderVars
<1>6. /\ HandlesRight'
      /\ \A y \in Units \ {u} : unit'[y] = unit[y]
  BY <1>1, <1>3, <1>4, OneHandle DEF NoticedInv
<1>7. x # u
  <2>1. PICK h \in Nat : h = head
    BY DEF NoticedInv, Kinds
  <2>2. h % 2 # (h + 1) % 2
    OBVIOUS
  <2> QED
    BY <1>1, <2>1, <2>2 DEF S
<1>8. Pending'
  <2>1. G' = G /\ S(head + 1)' = x
    BY <1>1, <1>5 DEF G, M, S
  <2>2. head + 1 < G => unit[x].inflight
    BY <1>1 DEF NoticedInv, Pending, CollectScores
  <2> QED
    BY <1>1, <1>4, <1>5, <1>6, <1>7, <2>1, <2>2 DEF Pending
<1> QED
  BY <1>5, <1>6, <1>8 DEF NoticedInv, Kinds

\* The values go in, and sentinels over the scores that were held.
LEMMA ValuesAsked ==
  ASSUME NoticedInv, SubmitValues
  PROVE  HandlesRight' /\ Pending' /\ Kinds' /\ "other" \notin got'
<1>1. PICK v \in {"fv", "fv2"}, u \in {"f", "f2"}, x \in {"f", "f2"} :
         v = V(head) /\ u = S(head) /\ x = S(head + 1)
  BY Handles
<1>a. v # u /\ v # x /\ {v, u, x} \subseteq Units
  BY <1>1, Handles
<1>2. PICK f, e : /\ f = unit[v] /\ DOMAIN f = Fields /\ f.inflight \in BOOLEAN
                  /\ e = unit[u] /\ DOMAIN e = Fields /\ e.inflight = FALSE
                  /\ HandleRight(v, f) /\ HandleRight(u, e)
  <2>1. ~unit[u].inflight
    BY <1>1 DEF NoticedInv, BuffersInv, SubmitValues
  <2> QED
    BY <1>a, <2>1 DEF NoticedInv, BuffersInv, QueueInv, HandlesRight
<1>3. PICK sh, ops : sh = ValueShape /\ ops = ValueOps(head)
  OBVIOUS
<1>4. PICK a, b, c : /\ a = Submitted(f, sh, ops) /\ HandleRight(v, a)
                     /\ b = Staged(f, sh, ops) /\ HandleRight(v, b)
                     /\ c = Refused(f) /\ HandleRight(v, c)
  BY <1>2, ValuesKept
<1>5. PICK d : d = PoisonReleased(e) /\ HandleRight(u, d)
  BY <1>2, ScoresPoisoned
<1>6. UNCHANGED <<total, kv, pos, rows, layer, row, head, mmax, got>>
  BY DEF SubmitValues, ladderVars
<1>7. CASE unit' = [unit EXCEPT ![v] = a, ![u] = d] /\ phase' = "behind"
  <2>1. /\ unit'[v] = a /\ unit'[u] = d
        /\ \A y \in Units : y # v /\ y # u => unit'[y] = unit[y]
    BY <1>a, <1>7 DEF NoticedInv, BuffersInv, QueueInv
  <2>2. ASSUME NEW y \in Units PROVE HandleRight(y, unit'[y])
    BY <1>4, <1>5, <2>1 DEF NoticedInv, HandlesRight
  <2>3. x # u
    <3>1. PICK h \in Nat : h = head
      BY DEF NoticedInv, Kinds
    <3>2. h % 2 # (h + 1) % 2
      OBVIOUS
    <3> QED
      BY <1>1, <3>1, <3>2 DEF S
  <2>4. unit'[x] = unit[x]
    BY <1>a, <2>1, <2>3
  <2>5. Pending'
    <3>1. G' = G /\ S(head + 1)' = x /\ head' = head
      BY <1>1, <1>6 DEF G, M, S
    <3>2. head + 1 < G => unit[x].inflight
      BY <1>1 DEF NoticedInv, Pending, SubmitValues
    <3> QED
      BY <1>7, <2>4, <3>1, <3>2 DEF Pending
  <2> QED
    BY <1>6, <2>2, <2>5 DEF NoticedInv, HandlesRight, Kinds
<1>8. CASE (unit' = [unit EXCEPT ![v] = b] \/ unit' = [unit EXCEPT ![v] = c]) /\ phase' = "cpu"
  <2>1. HandlesRight'
    BY <1>a, <1>4, <1>8, OneHandle DEF NoticedInv
  <2>2. Pending'
    BY <1>8 DEF Pending
  <2> QED
    BY <1>6, <2>1, <2>2 DEF NoticedInv, Kinds
<1> QED
  BY <1>1, <1>2, <1>3, <1>4, <1>5, <1>7, <1>8 DEF SubmitValues, FallBack

\* A wait for values copies the answers out.
LEMMA ValuesWaited ==
  ASSUME NoticedInv, NEW g, NEW next, Wait(V(g), FALSE, next)
  PROVE  /\ HandlesRight'
         /\ \A x \in {"f", "f2"} : unit'[x] = unit[x]
<1>1. PICK v \in {"fv", "fv2"} : v = V(g) /\ v \in Units
  BY Handles
<1>2. PICK f : f = unit[v] /\ DOMAIN f = Fields /\ f.inflight \in BOOLEAN /\ HandleRight(v, f)
  BY <1>1 DEF NoticedInv, BuffersInv, QueueInv, HandlesRight
<1>3. PICK w : w = Waited(f, FALSE) /\ HandleRight(v, w)
  BY <1>2, ValuesKept
<1>4. unit' = [unit EXCEPT ![v] = w]
  BY <1>1, <1>2, <1>3 DEF Wait
<1> QED
  BY <1>1, <1>3, <1>4, OneHandle, Handles DEF NoticedInv

\* What is taken out of a buffer was written by its job.
LEMMA TakenIsWritten ==
  ASSUME NoticedInv, NEW g, TakeAnswers(V(g))
  PROVE  "other" \notin got'
<1>1. PICK v \in Units : v = V(g)
  BY Handles
<1>2. PICK f : f = unit[v] /\ \A i \in DOMAIN f.out : f.out[i] # "other"
  BY <1>1 DEF NoticedInv, HandlesRight, HandleRight
<1>3. got' = got \cup ({f.out[i] : i \in DOMAIN f.out} \ {"poison"})
  BY <1>1, <1>2 DEF TakeAnswers
<1> QED
  BY <1>2, <1>3 DEF NoticedInv

\* Every step keeps the invariant.
LEMMA NoticedStep ==
  ASSUME Alike, NoticedInv, [Next]_vars
  PROVE  NoticedInv'
<1>0. BuffersInv'
  BY StillStep DEF NoticedInv
<1>k. head \in Nat /\ row \in Int /\ M \in Int /\ G \in {1, 2}
  BY ShapeKinds DEF NoticedInv, Kinds
<1>1. CASE \/ \E len \in Lens : NewTurn(len)
           \/ NewChunk \/ AppendRow \/ Attend \/ LayerOver
  BY <1>0, <1>1, QuietSteps DEF NoticedInv
<1>2. CASE MemoryFreed \/ UNCHANGED vars
  <2>1. /\ UNCHANGED <<unit, total, kv, pos, rows, layer, row, head, mmax, got, phase>>
    BY <1>2 DEF MemoryFreed, vars, unitVars, threadVars, ladderVars
  <2>2. Pending'
    BY <2>1 DEF NoticedInv, Pending, S, G, M
  <2> QED
    BY <1>0, <2>1, <2>2 DEF NoticedInv, HandlesRight, Kinds
<1>3. CASE SubmitScores
  <2>1. Submit(S(0), ScoreShape, ScoreOps(0), "ahead") /\ head' = 0
        /\ UNCHANGED <<total, kv, pos, rows, layer, row, mmax, got>>
    BY <1>3 DEF SubmitScores, ladderVars
  <2>2. /\ HandlesRight' /\ phase' \in {"ahead", "cpu"}
        /\ phase' # "cpu" => unit'[S(0)].inflight
    BY <1>k, <2>1, ScoresAsked
  <2>3. S(head)' = S(0)
    BY <2>1 DEF S
  <2>4. Pending'
    BY <2>2, <2>3 DEF Pending
  <2>5. Kinds'
    BY <2>1 DEF NoticedInv, Kinds
  <2> QED
    BY <1>0, <2>1, <2>2, <2>4, <2>5 DEF NoticedInv
<1>4. CASE SubmitAhead
  <2>1. UNCHANGED <<total, kv, pos, rows, layer, row, head, mmax, got>>
    BY <1>4 DEF SubmitAhead, ladderVars
  <2>2. Kinds' /\ "other" \notin got'
    BY <2>1 DEF NoticedInv, Kinds
  <2>3. PICK u, x : u = S(head) /\ x = S(head + 1) /\ {u, x} \subseteq Units
    BY Handles
  <2>4. unit[u].inflight
    BY <1>4, <2>3 DEF NoticedInv, Pending, SubmitAhead
  <2>5. G' = G /\ S(head)' = u /\ S(head + 1)' = x
    BY <2>1, <2>3 DEF G, M, S
  <2>6. CASE head + 1 < G
    <3>1. PICK g \in Nat : g = head + 1
      BY <1>k
    <3>2. Submit(S(g), ScoreShape, ScoreOps(g), "collect") /\ g < G
      BY <1>4, <2>6, <3>1 DEF SubmitAhead
    <3>3. /\ HandlesRight' /\ phase' \in {"collect", "cpu"}
          /\ phase' # "cpu" => unit'[S(g)].inflight
          /\ \A y \in Units : y # S(g) => unit'[y] = unit[y]
      BY <3>2, ScoresAsked
    <3>4. S(g) = x
      BY <2>3, <3>1
    <3>5. phase' # "cpu" => unit'[u].inflight /\ unit'[x].inflight
      BY <2>3, <2>4, <3>3, <3>4
    <3>6. Pending'
      BY <2>1, <2>5, <3>3, <3>5 DEF Pending
    <3> QED
      BY <1>0, <2>2, <3>3, <3>6 DEF NoticedInv
  <2>7. CASE ~(head + 1 < G)
    <3>1. phase' = "collect" /\ unit' = unit
      BY <1>4, <2>7 DEF SubmitAhead, unitVars
    <3>2. Pending'
      BY <2>1, <2>4, <2>5, <2>7, <3>1 DEF Pending
    <3> QED
      BY <1>0, <2>2, <3>1, <3>2 DEF NoticedInv, HandlesRight
  <2> QED
    BY <2>6, <2>7
<1>5. CASE CollectScores
  BY <1>0, <1>5, ScoresWaited DEF NoticedInv
<1>6. CASE SubmitValues
  BY <1>0, <1>6, ValuesAsked DEF NoticedInv
<1>7. CASE CollectBehind
  <2>1. UNCHANGED <<total, kv, pos, rows, layer, row, mmax>>
    BY <1>7 DEF CollectBehind, ladderVars
  <2>2. head' \in Nat /\ (phase' = "ahead" => head' = head + 1)
    BY <1>k, <1>7 DEF CollectBehind
  <2>3. Kinds'
    BY <2>1, <2>2 DEF NoticedInv, Kinds
  <2>4. PICK next : next = IF head + 1 < G THEN "ahead" ELSE "last"
    OBVIOUS
  <2>5. /\ HandlesRight' /\ "other" \notin got' /\ phase' \in {next, "cpu"}
        /\ \A x \in {"f", "f2"} : unit'[x] = unit[x]
    <3>1. CASE head > 0
      <4>1. PICK g : g = head - 1
        OBVIOUS
      <4>2. Wait(V(g), FALSE, next) /\ TakeAnswers(V(g))
        BY <1>7, <2>4, <3>1, <4>1 DEF CollectBehind
      <4>3. phase' \in {next, "cpu"}
        BY <4>2 DEF Wait
      <4> QED
        BY <4>2, <4>3, ValuesWaited, TakenIsWritten
    <3>2. CASE ~(head > 0)
      <4>1. phase' = next /\ unit' = unit /\ got' = got
        BY <1>7, <2>4, <3>2 DEF CollectBehind, unitVars
      <4> QED
        BY <4>1 DEF NoticedInv, HandlesRight
    <3> QED
      BY <3>1, <3>2
  <2>6. Pending'
    <3>1. CASE phase' = "ahead"
      <4>1. head + 1 < G /\ head' = head + 1
        BY <2>2, <2>4, <2>5, <3>1
      <4>2. PICK x \in {"f", "f2"} : x = S(head + 1) /\ S(head)' = x
        BY <4>1, Handles DEF S
      <4>3. unit[x].inflight
        BY <1>7, <4>1, <4>2 DEF NoticedInv, Pending, CollectBehind
      <4>4. unit'[x].inflight
        BY <2>5, <4>2, <4>3
      <4> QED
        BY <3>1, <4>2, <4>4 DEF Pending
    <3>2. CASE phase' # "ahead"
      <4>1. phase' \in {"last", "cpu"}
        BY <2>4, <2>5, <3>2
      <4> QED
        BY <4>1 DEF Pending
    <3> QED
      BY <3>1, <3>2
  <2> QED
    BY <1>0, <2>3, <2>5, <2>6 DEF NoticedInv
<1>8. CASE CollectLast
  <2>1. PICK g, next : /\ g = G - 1
                       /\ next = IF row + M < rows THEN "scores" ELSE "taken"
    OBVIOUS
  <2>2. Wait(V(g), FALSE, next) /\ TakeAnswers(V(g))
    BY <1>8, <2>1 DEF CollectLast
  <2>3. HandlesRight' /\ "other" \notin got'
    BY <2>2, ValuesWaited, TakenIsWritten
  <2>4. phase' \in {"scores", "taken", "cpu"}
    BY <2>1, <2>2 DEF Wait
  <2>5. UNCHANGED <<total, kv, pos, rows, layer, head, mmax>> /\ row' \in Int
    BY <1>k, <1>8 DEF CollectLast, ladderVars
  <2>6. Kinds'
    BY <2>5 DEF NoticedInv, Kinds
  <2>7. Pending'
    BY <2>4 DEF Pending
  <2> QED
    BY <1>0, <2>3, <2>6, <2>7 DEF NoticedInv
<1>9. CASE Hardware
  BY <1>0, <1>9, HardwareNotices DEF NoticedInv
<1> QED
  BY <1>1, <1>2, <1>3, <1>4, <1>5, <1>6, <1>7, <1>8, <1>9 DEF Next, Thread

\* The invariant holds at first.
LEMMA NoticedBegins ==
  ASSUME Init
  PROVE  NoticedInv
<1>1. BuffersInv
  BY BuffersBegin
<1>2. PICK n : n = Unopened
  OBVIOUS
<1>3. /\ n.cap = [in |-> 0, out |-> 0, reg |-> 0] /\ n.out = <<>>
      /\ n.held = FALSE /\ n.prepoisoned = FALSE /\ n.inflight = FALSE
  BY <1>2 DEF Unopened
<1>4. n.cap \in [{"in", "out", "reg"} -> Int] /\ DOMAIN n.out = {}
  BY <1>3
<1>5. \A u \in Units : HandleRight(u, n)
  BY <1>3, <1>4 DEF HandleRight, ScoreHandle, ValueHandle
<1>6. HandlesRight
  BY <1>2, <1>5 DEF Init, UnitInit, HandlesRight
<1>7. /\ phase = "idle" /\ total = 0 /\ pos = 0 /\ rows = 0 /\ row = 0
      /\ layer = 0 /\ head = 0 /\ got = {} /\ kv = Pair /\ mmax = RowsAt(kv)
  BY DEF Init, LadderInit
<1>8. kv \in 1..KvMax /\ layer \in 0..(Layers - 1)
  BY <1>7, Extents, LadderAssumption
<1>9. mmax \in Int
  <2>1. PICK a \in Nat, b \in Nat \ {0} : a = Area /\ b = Pair
    BY AttentionAssumption, LadderAssumption
  <2>2. a \div b \in Int
    OBVIOUS
  <2> QED
    BY <1>7, <2>1, <2>2 DEF RowsAt
<1> QED
  BY <1>1, <1>6, <1>7, <1>8, <1>9 DEF NoticedInv, Pending, Kinds

\* DeadJobsNoticed: no answer that is held or taken is something an earlier
\* group, or nobody, left there, whatever jobs stop early or are never waited
\* for, if all layers have one head_dim: charsiu_poison_matches compares the
\* number, the rows and the columns of the groups, which are then all that the
\* places of their words depend on.
THEOREM LostJobsNoticed ==
  ASSUME Alike
  PROVE  Spec => []DeadJobsNoticed
<1>1. Init => NoticedInv
  BY NoticedBegins
<1>2. NoticedInv /\ [Next]_vars => NoticedInv'
  BY NoticedStep
<1>3. NoticedInv => DeadJobsNoticed
  BY DEF NoticedInv, HandlesRight, HandleRight, DeadJobsNoticed
<1> QED
  BY <1>1, <1>2, <1>3, PTL DEF Spec

-----------------------------------------------------------------------------
(* AttentionRight.                                                         *)

\* The mirror grows only while it holds every row of the turn.
GrowsWhole ==
    [][kv' # kv => \A l \in 0..(Layers - 1) : filled[l] <= kv]_vars
Whole == \A l \in 0..(Layers - 1) : filled[l] <= kv

\* What has been appended to the float cache, by where the thread is.
RowsInv ==
    /\ DOMAIN filled = 0..(Layers - 1) /\ DOMAIN dirty = 0..(Layers - 1)
    /\ pos >= 0 /\ pos <= total /\ total <= NCtx
    /\ phase # "idle" => rows >= 1 /\ pos + rows <= total
    /\ phase = "append" => row >= 0 /\ row < rows /\ head < NKv
    /\ phase = "attend" => row = 0
    /\ \A l \in 0..(Layers - 1) :
          filled[l] = IF phase = "idle" \/ l > layer THEN pos
                      ELSE IF l = layer /\ phase = "append"
                      THEN pos + row + IF head > 0 THEN 1 ELSE 0
                      ELSE pos + rows
    /\ open = "none" => /\ pos = 0 /\ phase \in {"idle", "append"}
                        /\ phase = "append" => layer = 0 /\ row = 0 /\ head = 0

\* How many rows of this turn have been appended for a kv head of a layer.
Done(l, kh) == IF phase = "append" /\ l = layer /\ kh >= head THEN pos + row ELSE filled[l]

\* Surfaces, as far as their contents are looked at.
KSurface(s) == DOMAIN s = {"col", "dev"} /\ DOMAIN s.col = Places
VSurface(s) == /\ DOMAIN s = {"addr", "k", "at", "room", "col", "dev"}
               /\ DOMAIN s.col = Places
SurfacesInv ==
    /\ DOMAIN kbuf = Surfaces /\ \A i \in Surfaces : KSurface(kbuf[i])
    /\ open = "open" => /\ DOMAIN vbuf = Surfaces
                        /\ \A i \in Surfaces : VSurface(vbuf[i])

\* Of a surface: the first n rows are this turn's, in the layout of the extent.
Holds(i, n) ==
    /\ \A p \in 0..(n - 1) : kbuf[i].col[p] = "now" /\ vbuf[i].col[p] = "now"
    /\ n > 0 => vbuf[i].at = kv

\* While no row has been refused the mirror holds what has been appended.
MirrorInv ==
    open = "open" /\ Whole =>
       /\ \A l \in 0..(Layers - 1), kh \in 0..(NKv - 1) : Holds(SurfaceOf(l, kh), Done(l, kh))
       /\ (phase = "append" /\ (row > 0 \/ head > 0)) \/ phase = "attend" => dirty[layer]

AtWork == phase \in {"scores", "ahead", "collect", "values", "behind", "last"}

\* The device sees the layer's rows.
ReadyInv ==
    AtWork => /\ T <= kv
              /\ \A kh \in 0..(NKv - 1) :
                    KRight(SurfaceOf(layer, kh), T) /\ VRight(SurfaceOf(layer, kh), kv, T)

\* Places of the surfaces.
LEMMA SurfacePlaces ==
  ASSUME NEW l \in 0..(Layers - 1), NEW kh \in 0..(NKv - 1)
  PROVE  /\ SurfaceOf(l, kh) \in Surfaces /\ LayerOf(SurfaceOf(l, kh)) = l
         /\ \A l2 \in 0..(Layers - 1), kh2 \in 0..(NKv - 1) :
               SurfaceOf(l2, kh2) = SurfaceOf(l, kh) => l2 = l /\ kh2 = kh
<1>1. PICK n \in Nat \ {0}, b \in Nat \ {0} : n = NKv /\ b = Layers
  BY LadderAssumption
<1>2. ASSUME NEW x \in 0..(b - 1), NEW y \in 0..(n - 1)
      PROVE  x * n + y \in 0..(b * n - 1) /\ (x * n + y) \div n = x
  <2>1. x * n \in Nat /\ x * n <= (b - 1) * n
    BY <1>1
  <2>2. (b - 1) * n = b * n - n /\ b * n \in Nat
    OBVIOUS
  <2>3. PICK z \in Nat : z = x * n + y /\ z <= b * n - 1
    BY <2>1, <2>2
  <2>4. x * n <= z /\ z < (x + 1) * n
    BY <2>3
  <2>5. z \div n = x
    BY <2>4
  <2> QED
    BY <2>3, <2>5
<1>3. SurfaceOf(l, kh) \in Surfaces /\ LayerOf(SurfaceOf(l, kh)) = l
  BY <1>1, <1>2 DEF SurfaceOf, Surfaces, LayerOf
<1>4. ASSUME NEW l2 \in 0..(Layers - 1), NEW kh2 \in 0..(NKv - 1),
             SurfaceOf(l2, kh2) = SurfaceOf(l, kh)
      PROVE  l2 = l /\ kh2 = kh
  <2>1. l2 = l
    BY <1>1, <1>2, <1>4 DEF SurfaceOf
  <2>2. PICK z \in Int : z = l * n
    BY <1>1
  <2> QED
    BY <1>1, <1>4, <2>1, <2>2 DEF SurfaceOf
<1> QED
  BY <1>3, <1>4

\* A row being appended is within the context.
LEMMA RowPlace ==
  ASSUME NoticedInv, RowsInv, phase = "append"
  PROVE  /\ pos + row \in Places /\ pos + row < NK /\ layer \in 0..(Layers - 1)
         /\ head \in 0..(NKv - 1)
<1>0. {pos, rows, row, total} \subseteq Int /\ NCtx \in Int /\ head \in Nat
  BY LadderAssumption DEF NoticedInv, Kinds
<1>a. pos >= 0 /\ row >= 0 /\ row < rows /\ pos + rows <= total /\ total <= NCtx /\ head < NKv
  BY DEF RowsInv
<1>1. pos + row \in Int /\ pos + row >= 0 /\ pos + row < NCtx /\ head \in Nat /\ head < NKv
  BY <1>0, <1>a
<1>2. NCtx <= NK
  <2>1. PICK b \in Nat \ {0}, a \in Int : b = Pair /\ b % 2 = 0 /\ a = b \div 2
    BY LadderAssumption
  <2>2. a \in Nat \ {0} /\ NCtx \in Int
    BY <2>1, LadderAssumption
  <2> QED
    BY <2>1, <2>2, Aligned DEF NK
<1> QED
  BY <1>1, <1>2, Extents, LadderAssumption DEF Places, NoticedInv, Kinds

\* What is appended is counted.
LEMMA RowsStep ==
  ASSUME NoticedInv, RowsInv, [Next]_vars
  PROVE  RowsInv'
<1> DEFINE Ls == 0..(Layers - 1)
<1>0. /\ {total, pos, rows, row} \subseteq Int /\ layer \in Ls /\ head \in Nat
      /\ Layers \in Nat \ {0} /\ NKv \in Nat \ {0} /\ Chunk \in Nat \ {0}
  BY LadderAssumption, AttentionAssumption DEF NoticedInv, Kinds
<1>1. ASSUME NEW len \in Lens, NewTurn(len)
      PROVE  RowsInv'
  <2>1. /\ phase = "idle" /\ phase' = phase /\ pos' = 0 /\ total' = len
        /\ filled' = [l \in DOMAIN filled |-> 0] /\ dirty' = dirty /\ open' = open
    BY <1>1 DEF NewTurn, Restarted
  <2>2. len \in Nat /\ len <= NCtx
    BY AttentionAssumption, LadderAssumption
  <2> QED
    BY <2>1, <2>2 DEF RowsInv
<1>2. CASE NewChunk
  <2>1. /\ phase = "idle" /\ phase' = "append" /\ layer' = 0 /\ row' = 0 /\ head' = 0
        /\ pos < total /\ rows' = IF total - pos < Chunk THEN total - pos ELSE Chunk
        /\ UNCHANGED <<pos, total, filled, dirty, open>>
    BY <1>2 DEF NewChunk, ladderVars
  <2>2. rows' \in Int /\ rows' >= 1 /\ pos + rows' <= total
    BY <1>0, <2>1
  <2>3. \A l \in Ls : filled[l] = pos /\ l >= 0
    BY <1>0, <2>1 DEF RowsInv
  <2> QED
    BY <1>0, <2>1, <2>2, <2>3 DEF RowsInv
<1>3. CASE AppendRow
  <2>1. /\ phase = "append" /\ filled' = [filled EXCEPT ![layer] = pos + row + 1]
        /\ UNCHANGED <<pos, rows, layer, total>>
    BY <1>3 DEF AppendRow, AppendHead
  <2>2. \/ head + 1 < NKv /\ head' = head + 1 /\ row' = row /\ phase' = "append"
        \/ ~(head + 1 < NKv) /\ head' = 0 /\ row + 1 < rows /\ row' = row + 1 /\ phase' = "append"
        \/ ~(head + 1 < NKv) /\ head' = 0 /\ ~(row + 1 < rows) /\ row' = 0 /\ phase' = "attend"
    BY <1>3, <2>1 DEF AppendRow
  <2>3. DOMAIN dirty' = DOMAIN dirty
    BY <1>3 DEF AppendRow, AppendHead, DirtyAll
  <2>4. open' # "none"
    BY <1>3 DEF AppendRow, AppendHead, Opened
  <2>5. /\ DOMAIN filled' = Ls /\ filled'[layer] = pos + row + 1
        /\ \A l \in Ls : l # layer => filled'[l] = filled[l]
    BY <1>0, <2>1 DEF RowsInv
  <2>6. \A l \in Ls : l \in Int /\ (l # layer => filled[l] = IF l > layer THEN pos ELSE pos + rows)
    BY <1>0, <2>1 DEF RowsInv
  <2>7. /\ pos >= 0 /\ pos <= total /\ total <= NCtx /\ rows >= 1 /\ pos + rows <= total
        /\ row >= 0 /\ row < rows /\ head < NKv /\ DOMAIN dirty = Ls
    BY <2>1 DEF RowsInv
  <2>8. CASE head + 1 < NKv /\ head' = head + 1 /\ row' = row /\ phase' = "append"
    <3>1. head' > 0 /\ head' < NKv
      BY <1>0, <2>8
    <3> QED
      BY <1>0, <2>1, <2>3, <2>4, <2>5, <2>6, <2>7, <2>8, <3>1 DEF RowsInv
  <2>9. CASE head' = 0 /\ row + 1 < rows /\ row' = row + 1 /\ phase' = "append"
    <3>1. row' >= 0 /\ row' < rows /\ pos + row' + 0 = pos + row + 1
      BY <1>0, <2>7, <2>9
    <3> QED
      BY <1>0, <2>1, <2>3, <2>4, <2>5, <2>6, <2>7, <2>9, <3>1 DEF RowsInv
  <2>10. CASE head' = 0 /\ ~(row + 1 < rows) /\ row' = 0 /\ phase' = "attend"
    <3>1. pos + row + 1 = pos + rows
      BY <1>0, <2>7, <2>10
    <3> QED
      BY <1>0, <2>1, <2>3, <2>4, <2>5, <2>6, <2>7, <2>10, <3>1 DEF RowsInv
  <2> QED
    BY <2>2, <2>8, <2>9, <2>10
<1>4. CASE LayerOver
  <2>1. /\ phase \in {"taken", "cpu"} /\ row' = 0 /\ head' = 0
        /\ UNCHANGED <<total, filled, dirty, open, rows>>
        /\ \/ layer + 1 < Layers /\ layer' = layer + 1 /\ phase' = "append" /\ pos' = pos
           \/ layer + 1 = Layers /\ layer' = layer /\ phase' = "idle" /\ pos' = pos + rows
    BY <1>4 DEF LayerOver, NextLayer, ChunkOver, ladderVars
  <2>2. \A l \in Ls : l \in Int /\ filled[l] = IF l > layer THEN pos ELSE pos + rows
    BY <1>0, <2>1 DEF RowsInv
  <2>3. open # "none" /\ rows >= 1 /\ pos + rows <= total /\ pos >= 0
    BY <2>1 DEF RowsInv
  <2> QED
    BY <1>0, <2>1, <2>2, <2>3 DEF RowsInv
<1>5. CASE Attend
  <2>1. /\ phase = "attend" /\ phase' \in {"scores", "cpu"}
        /\ UNCHANGED <<total, filled, open, pos, rows, layer, row, head>>
    BY <1>5 DEF Attend
  <2>2. DOMAIN dirty' = DOMAIN dirty
    BY <1>5 DEF Attend, Ready
  <2> QED
    BY <2>1, <2>2 DEF RowsInv
<1>6. CASE SubmitScores \/ SubmitAhead \/ CollectScores \/ SubmitValues
  <2>1. UNCHANGED <<total, filled, open, dirty, pos, rows, layer>>
    BY <1>6 DEF SubmitScores, SubmitAhead, CollectScores, SubmitValues, ladderVars
  <2>2. /\ phase \in {"scores", "ahead", "collect", "values"}
        /\ phase' \in {"ahead", "cpu", "collect", "values", "behind"}
    <3>1. CASE SubmitScores
      BY <3>1 DEF SubmitScores, Submit, FallBack
    <3>2. CASE SubmitAhead
      BY <3>2 DEF SubmitAhead, Submit, FallBack
    <3>3. CASE CollectScores
      BY <3>3 DEF CollectScores, Wait
    <3>4. CASE SubmitValues
      BY <3>4 DEF SubmitValues, FallBack
    <3> QED
      BY <1>6, <3>1, <3>2, <3>3, <3>4
  <2> QED
    BY <2>1, <2>2 DEF RowsInv
<1>7. CASE CollectBehind \/ CollectLast
  <2>1. UNCHANGED <<total, filled, open, dirty, pos, rows, layer>>
    BY <1>7 DEF CollectBehind, CollectLast, ladderVars
  <2>2. phase \in {"behind", "last"} /\ phase' \in {"ahead", "last", "cpu", "scores", "taken"}
    <3>1. CASE CollectBehind
      BY <3>1 DEF CollectBehind, Wait
    <3>2. CASE CollectLast
      BY <3>2 DEF CollectLast, Wait
    <3> QED
      BY <1>7, <3>1, <3>2
  <2> QED
    BY <2>1, <2>2 DEF RowsInv
<1>8. CASE Hardware \/ MemoryFreed \/ UNCHANGED vars
  <2>1. UNCHANGED <<total, filled, open, dirty, pos, rows, layer, row, head, phase>>
    BY <1>8 DEF Hardware, MemoryFreed, vars, ladderVars, threadVars
  <2> QED
    BY <2>1 DEF RowsInv
<1> QED
  BY <1>1, <1>2, <1>3, <1>4, <1>5, <1>6, <1>7, <1>8 DEF Next, Thread

\* What attn_npu_fit does to a surface when it grows to an extent from live rows.
Carried(bufs, to, live, i) ==
    IF copy /\ Regrows(kv, to, live) THEN Regrown(bufs[i], kv, to, live).col
    ELSE [p \in Places |-> IF p < live THEN FloatTag(LayerOf(i), p) ELSE "none"]
Moved(bufs, to, live, i, s) ==
    /\ VSurface(s) /\ s.at = to
    /\ s.col = Carried(bufs, to, live, i)

\* A growth that succeeds carries every surface over; one that fails leaves each
\* as it was or replaces it.
FittedRight(bufs, to, live, f) ==
    /\ DOMAIN f.bufs = Surfaces
    /\ f.failed \in BOOLEAN
    /\ f.failed => f.kv = kv /\ \A i \in Surfaces : VSurface(f.bufs[i])
    /\ ~f.failed => f.kv = to /\ \A i \in Surfaces : Moved(bufs, to, live, i, f.bufs[i])

LEMMA GrowthCarries ==
  ASSUME NEW bufs, DOMAIN bufs = Surfaces, \A i \in Surfaces : VSurface(bufs[i]),
         NEW want \in Int
  PROVE  FittedRight(bufs, ClimbTo(want), want - 1, Fitted(bufs, want))
<1> DEFINE to == ClimbTo(want)
           live == want - 1
           copied == copy /\ Regrows(kv, to, live)
           stays(i) == copied /\ bufs[i].room >= to
           used(i) == MapThenSumSet(
                        LAMBDA j : IF j < i /\ ~stays(j) THEN RoomFor(to) ELSE bufs[j].room,
                        Surfaces)
           fails == {i \in Surfaces : ~stays(i) /\ used(i) + RoomFor(to) > memory}
           before(i) == {j \in Surfaces : j < i /\ ~stays(j)}
           addr(i) == IF before(i) = {} THEN NewAddr(bufs) ELSE bufs[Max(before(i))].addr
           columns(i) == IF copied THEN Regrown(bufs[i], kv, to, live).col
                         ELSE [p \in Places |->
                                 IF fails = {} /\ p < live THEN FloatTag(LayerOf(i), p)
                                 ELSE "none"]
<1>1. Fitted(bufs, want) =
        [bufs |-> [i \in Surfaces |->
            IF \E f \in fails : f <= i THEN bufs[i]
            ELSE IF stays(i) THEN [Regrown(bufs[i], kv, to, live) EXCEPT !.k = to]
            ELSE [Fresh(addr(i), to, RoomFor(to)) EXCEPT !.col = columns(i)]],
         kv |-> IF fails = {} THEN to ELSE kv,
         failed |-> fails # {}]
  BY DEF Fitted
<1> HIDE DEF fails, addr
<1>2. PICK f : f = Fitted(bufs, want)
  OBVIOUS
<1>3. /\ DOMAIN f.bufs = Surfaces /\ f.failed = (fails # {})
      /\ f.kv = IF fails = {} THEN to ELSE kv
      /\ \A i \in Surfaces :
            f.bufs[i] = IF \E x \in fails : x <= i THEN bufs[i]
                        ELSE IF stays(i) THEN [Regrown(bufs[i], kv, to, live) EXCEPT !.k = to]
                        ELSE [Fresh(addr(i), to, RoomFor(to)) EXCEPT !.col = columns(i)]
  BY <1>1, <1>2
<1> HIDE DEF to
<1>4. ASSUME NEW i \in Surfaces
      PROVE  /\ VSurface(f.bufs[i])
             /\ fails = {} => Moved(bufs, to, live, i, f.bufs[i])
  <2>1. PICK s : s = f.bufs[i]
    OBVIOUS
  <2>2. PICK b : b = bufs[i] /\ VSurface(b)
    OBVIOUS
  <2>3. PICK cols : cols = columns(i)
    OBVIOUS
  <2>4. PICK gc : gc = Regrown(b, kv, to, live).col
    OBVIOUS
  <2>5. PICK g : g = Regrown(b, kv, to, live)
    OBVIOUS
  <2>6. DOMAIN g = DOMAIN b /\ g.at = to /\ g.col = gc /\ DOMAIN gc = Places
    BY <2>2, <2>4, <2>5 DEF Regrown, VSurface
  <2>7. DOMAIN cols = Places
    BY <2>2, <2>3, <2>4, <2>6
  <2>8. fails = {} => cols = Carried(bufs, to, live, i)
    BY <2>3 DEF Carried
  <2>9. CASE \E x \in fails : x <= i
    BY <1>3, <2>2, <2>9
  <2>10. CASE ~(\E x \in fails : x <= i) /\ stays(i)
    <3>1. s = [g EXCEPT !.k = to]
      BY <1>3, <2>1, <2>2, <2>5, <2>10
    <3>2. VSurface(s) /\ s.at = to /\ s.col = gc
      BY <2>2, <2>6, <3>1 DEF VSurface
    <3>3. Carried(bufs, to, live, i) = gc
      BY <2>2, <2>4, <2>10 DEF Carried
    <3> QED
      BY <2>1, <3>2, <3>3 DEF Moved
  <2>11. CASE ~(\E x \in fails : x <= i) /\ ~stays(i)
    <3>1. PICK a, room : a = addr(i) /\ room = RoomFor(to)
      OBVIOUS
    <3>2. s = [Fresh(a, to, room) EXCEPT !.col = cols]
      BY <1>3, <2>1, <2>3, <2>11, <3>1
    <3>3. VSurface(s) /\ s.at = to /\ s.col = cols
      BY <2>7, <3>2 DEF Fresh, VSurface
    <3> QED
      BY <2>1, <2>8, <3>3 DEF Moved
  <2> QED
    BY <2>9, <2>10, <2>11
<1> QED
  BY <1>2, <1>3, <1>4 DEF FittedRight, to

\* The climb gets to the row it is for.
LEMMA RungsReach ==
  ASSUME NEW want \in Int, want <= KvMax, NEW k0 \in 1..KvMax
  PROVE  Rung(want)[k0] >= want
<1>1. PICK m \in Nat : m = KvMax
  BY Extents
<1>2. PICK g : g = Rung(want)
  OBVIOUS
<1>3. \A k \in 0..m : g[k] = IF k >= want THEN k ELSE g[NextRung(k)]
  <2>1. \A k \in 0..m : k \in 0..(KvMax * Step)
    <3>1. PICK b \in Nat : b = Step /\ b >= 1
      BY LadderAssumption
    <3>2. m * b >= m /\ m * b \in Nat
      BY <3>1
    <3> QED
      BY <1>1, <3>1, <3>2
  <2> QED
    BY <1>2, <2>1, RungExists
<1>4. PICK Ds : Ds = {d \in 0..m : \A k \in d..m : g[k] >= want}
  OBVIOUS
<1>5. m \in Ds
  <2>1. g[m] = m
    BY <1>1, <1>3
  <2> QED
    BY <1>1, <1>4, <2>1
<1>6. ASSUME NEW d \in Ds, d > 0
      PROVE  d - 1 \in Ds
  <2>1. d \in 0..m /\ \A k \in d..m : g[k] >= want
    BY <1>4
  <2>2. PICK e \in 0..m : e = d - 1 /\ d = e + 1
    BY <1>6, <2>1
  <2>3. g[e] >= want
    <3>1. CASE e >= want
      BY <1>3, <3>1
    <3>2. CASE ~(e >= want)
      <4>1. e \in Nat /\ e < KvMax
        BY <1>1, <3>2
      <4>2. PICK n : n = NextRung(e) /\ n \in (e + 1)..m
        BY <1>1, <4>1, RungsClimb
      <4>3. n \in d..m
        BY <2>2, <4>2
      <4>4. g[e] = g[n]
        BY <1>3, <3>2, <4>2
      <4> QED
        BY <2>1, <4>3, <4>4
    <3> QED
      BY <3>1, <3>2
  <2>4. \A k \in e..m : k = e \/ k \in d..m
    BY <2>2
  <2> QED
    BY <1>4, <2>1, <2>2, <2>3, <2>4
<1>7. 0 \in Ds
  BY <1>4, <1>5, <1>6, Descent
<1> QED
  BY <1>1, <1>2, <1>4, <1>7

LEMMA ClimbsFar ==
  ASSUME NEW want \in Int, want <= KvMax, kv \in 1..KvMax
  PROVE  ClimbTo(want) >= want
<1>1. PICK r : r = Rung(want)[kv] /\ r >= want
  BY RungsReach
<1>2. PICK c : c = Ceiling
  OBVIOUS
<1>3. ClimbTo(want) = IF c > 0 /\ want <= c /\ r > c THEN c ELSE r
  BY <1>1, <1>2 DEF ClimbTo, Rung
<1>4. want <= c => c >= want
  OBVIOUS
<1> QED
  BY <1>1, <1>3, <1>4

\* One kv head of one row is appended, the others stand.
LEMMA DoneGrows ==
  ASSUME NoticedInv, RowsInv, AppendRow
  PROVE  /\ Done(layer, head) = pos + row
         /\ \A l \in 0..(Layers - 1), kh \in 0..(NKv - 1) :
               /\ {Done(l, kh), filled[l], filled'[l]} \subseteq Int
               /\ Done(l, kh) <= filled'[l] /\ filled[l] <= filled'[l]
               /\ Done(l, kh)' = IF l = layer /\ kh = head THEN pos + row + 1 ELSE Done(l, kh)
         /\ filled'[layer] = pos + row + 1
         /\ filled[layer] = IF head > 0 THEN pos + row + 1 ELSE pos + row
<1>1. /\ {pos, rows, row, total} \subseteq Int /\ layer \in 0..(Layers - 1) /\ head \in 0..(NKv - 1)
      /\ NKv \in Nat \ {0} /\ Layers \in Nat \ {0} /\ row < rows /\ phase = "append"
  BY RowPlace, LadderAssumption DEF NoticedInv, Kinds, AppendRow, RowsInv
<1>2. /\ DOMAIN filled = 0..(Layers - 1)
      /\ filled[layer] = IF head > 0 THEN pos + row + 1 ELSE pos + row
      /\ \A l \in 0..(Layers - 1) : filled[l] \in Int
  BY <1>1 DEF RowsInv
<1>3. /\ filled'[layer] = pos + row + 1
      /\ \A l \in 0..(Layers - 1) : l # layer => filled'[l] = filled[l]
  BY <1>1, <1>2 DEF AppendRow
<1>4. layer' = layer /\ pos' = pos
  BY DEF AppendRow
<1>5. \/ head + 1 < NKv /\ head' = head + 1 /\ row' = row /\ phase' = "append"
      \/ ~(head + 1 < NKv) /\ head' = 0 /\ row' = row + 1 /\ phase' = "append"
      \/ ~(head + 1 < NKv) /\ head' = 0 /\ row' = 0 /\ phase' = "attend"
  BY <1>1 DEF AppendRow
<1>6. ASSUME NEW l \in 0..(Layers - 1), NEW kh \in 0..(NKv - 1)
      PROVE  /\ {Done(l, kh), filled[l], filled'[l]} \subseteq Int
             /\ Done(l, kh) <= filled'[l] /\ filled[l] <= filled'[l]
             /\ Done(l, kh)' = IF l = layer /\ kh = head THEN pos + row + 1 ELSE Done(l, kh)
  <2>1. Done(l, kh) = IF l = layer /\ kh >= head THEN pos + row ELSE filled[l]
    BY <1>1 DEF Done
  <2>2. Done(l, kh)' = IF phase' = "append" /\ l = layer /\ kh >= head' THEN pos + row'
                       ELSE filled'[l]
    BY <1>4 DEF Done
  <2>3. /\ {Done(l, kh), filled[l], filled'[l]} \subseteq Int
        /\ Done(l, kh) <= filled'[l] /\ filled[l] <= filled'[l]
    <3>1. PICK n \in Int : n = pos + row
      BY <1>1
    <3>2. filled[l] \in Int
      BY <1>2
    <3>3. CASE l = layer
      <4>1. filled'[l] = n + 1 /\ (filled[l] = n \/ filled[l] = n + 1)
        BY <1>2, <1>3, <3>1, <3>3
      <4>2. Done(l, kh) = n \/ Done(l, kh) = filled[l]
        BY <2>1, <3>1
      <4> QED
        BY <3>1, <4>1, <4>2
    <3>4. CASE l # layer
      <4>1. filled'[l] = filled[l] /\ Done(l, kh) = filled[l]
        BY <1>3, <2>1, <3>4
      <4> QED
        BY <3>2, <4>1
    <3> QED
      BY <3>3, <3>4
  <2>4. CASE l # layer
    <3>1. Done(l, kh) = filled[l] /\ filled'[l] = filled[l]
      BY <1>3, <2>1, <2>4
    <3>2. Done(l, kh)' = filled'[l]
      BY <2>2, <2>4
    <3> QED
      BY <2>3, <2>4, <3>1, <3>2
  <2>5. CASE l = layer /\ head + 1 < NKv
    BY <1>1, <1>2, <1>3, <1>5, <2>1, <2>2, <2>3, <2>5
  <2>6. CASE l = layer /\ ~(head + 1 < NKv)
    <3>1. kh <= head /\ head = NKv - 1 /\ kh >= 0
      BY <1>1, <2>6
    <3> QED
      BY <1>1, <1>2, <1>3, <1>5, <2>1, <2>2, <2>3, <2>6, <3>1
  <2> QED
    BY <2>3, <2>4, <2>5, <2>6
<1>7. Done(layer, head) = pos + row
  BY <1>1 DEF Done
<1>8. \A l \in 0..(Layers - 1), kh \in 0..(NKv - 1) :
         /\ {Done(l, kh), filled[l], filled'[l]} \subseteq Int
         /\ Done(l, kh) <= filled'[l] /\ filled[l] <= filled'[l]
         /\ Done(l, kh)' = IF l = layer /\ kh = head THEN pos + row + 1 ELSE Done(l, kh)
  BY <1>6
<1> QED
  BY <1>2, <1>3, <1>7, <1>8

\* What attn_npu_append finds: the rows it has, or surfaces just allocated.
LEMMA Found ==
  ASSUME NoticedInv, RowsInv, SurfacesInv, MirrorInv, Whole, phase = "append", Opened = "open",
         NEW l \in 0..(Layers - 1), NEW kh \in 0..(NKv - 1)
  PROVE  /\ \A p \in 0..(Done(l, kh) - 1) : /\ kbuf[SurfaceOf(l, kh)].col[p] = "now"
                                            /\ Surfs[SurfaceOf(l, kh)].col[p] = "now"
         /\ Done(l, kh) > 0 => Surfs[SurfaceOf(l, kh)].at = kv
<1>1. CASE open = "none"
  <2>1. pos = 0 /\ layer = 0 /\ row = 0 /\ head = 0 /\ l \in Int /\ kh \in Int /\ kh >= 0 /\ l >= 0
    BY <1>1, LadderAssumption DEF RowsInv
  <2>2. l # layer => filled[l] = 0
    BY <2>1 DEF RowsInv
  <2>3. Done(l, kh) = 0
    BY <2>1, <2>2 DEF Done
  <2> QED
    BY <2>3
<1>2. CASE open = "open"
  <2>1. Surfs = vbuf /\ Holds(SurfaceOf(l, kh), Done(l, kh))
    BY <1>2 DEF Surfs, MirrorInv
  <2> QED
    BY <2>1 DEF Holds
<1> QED
  BY <1>1, <1>2 DEF Opened

\* ... which are surfaces.
LEMMA FoundSurfaces ==
  ASSUME SurfacesInv, Opened = "open"
  PROVE  DOMAIN Surfs = Surfaces /\ \A i \in Surfaces : VSurface(Surfs[i])
<1>1. CASE open = "none"
  <2>1. PICK room : room = RoomFor(kv)
    OBVIOUS
  <2>2. Surfs = [i \in Surfaces |-> Fresh(i, kv, room)]
    BY <1>1, <2>1 DEF Surfs
  <2>3. \A i \in Surfaces : VSurface(Fresh(i, kv, room))
    BY DEF Fresh, VSurface, Nothing
  <2> QED
    BY <2>2, <2>3
<1>2. CASE open = "open"
  BY <1>2 DEF Surfs, SurfacesInv
<1> QED
  BY <1>1, <1>2 DEF Opened

\* A row goes into surfaces that held those before it.
Landed(bufs, to, i, p) ==
    /\ kv' = to
    /\ kbuf' = [kbuf EXCEPT ![i].col[p] = "now"]
    /\ vbuf' = [bufs EXCEPT ![i] = PackCol(@, to, p, "now")]
    /\ dirty'[layer] = TRUE
HeldIn(bufs, to, l, kh) ==
    /\ \A p \in 0..(Done(l, kh) - 1) : /\ kbuf[SurfaceOf(l, kh)].col[p] = "now"
                                       /\ bufs[SurfaceOf(l, kh)].col[p] = "now"
    /\ Done(l, kh) > 0 => bufs[SurfaceOf(l, kh)].at = to

LEMMA Packed ==
  ASSUME NEW s, VSurface(s), NEW to, NEW p \in Places
  PROVE  /\ VSurface(PackCol(s, to, p, "now")) /\ PackCol(s, to, p, "now").at = to
         /\ PackCol(s, to, p, "now").col[p] = "now"
         /\ s.at = to => \A q \in Places : q # p => PackCol(s, to, p, "now").col[q] = s.col[q]
<1>1. CASE s.at = to
  <2>1. PICK t : t = [s EXCEPT !.col[p] = "now"]
    OBVIOUS
  <2>2. PICK c : c = [s.col EXCEPT ![p] = "now"]
    OBVIOUS
  <2>3. t = [s EXCEPT !.col = c]
    BY <2>1, <2>2
  <2>4. DOMAIN c = Places /\ c[p] = "now" /\ \A q \in Places : q # p => c[q] = s.col[q]
    BY <2>2 DEF VSurface
  <2>5. DOMAIN t = DOMAIN s /\ t.col = c /\ t.at = to
    BY <1>1, <2>3 DEF VSurface
  <2> QED
    BY <1>1, <2>1, <2>4, <2>5 DEF PackCol, VSurface
<1>2. CASE s.at # to
  <2>1. PICK c : c = [q \in Places |-> IF q = p THEN "now" ELSE "garbage"]
    OBVIOUS
  <2>2. PICK t : t = [s EXCEPT !.at = to, !.col = c]
    OBVIOUS
  <2>3. PackCol(s, to, p, "now") = t
    BY <1>2, <2>1, <2>2 DEF PackCol
  <2>4. DOMAIN t = DOMAIN s /\ t.col = c /\ t.at = to
    BY <2>2 DEF VSurface
  <2> QED
    BY <1>2, <2>1, <2>3, <2>4 DEF VSurface
<1> QED
  BY <1>1, <1>2

LEMMA LandedRight ==
  ASSUME NoticedInv, RowsInv, SurfacesInv, AppendRow,
         NEW bufs, DOMAIN bufs = Surfaces, \A i \in Surfaces : VSurface(bufs[i]),
         NEW to, Landed(bufs, to, SurfaceOf(layer, head), pos + row)
  PROVE  /\ SurfacesInv'
         /\ (\A l \in 0..(Layers - 1), kh \in 0..(NKv - 1) : HeldIn(bufs, to, l, kh)) => MirrorInv'
<1>1. PICK l0 \in 0..(Layers - 1), h0 \in 0..(NKv - 1), p0 \in Places :
         l0 = layer /\ h0 = head /\ p0 = pos + row
  BY RowPlace DEF AppendRow
<1>2. PICK i0 \in Surfaces : i0 = SurfaceOf(l0, h0)
  BY SurfacePlaces
<1>3. PICK t : t = PackCol(bufs[i0], to, p0, "now") /\ VSurface(t) /\ t.at = to /\ t.col[p0] = "now"
               /\ (bufs[i0].at = to => \A q \in Places : q # p0 => t.col[q] = bufs[i0].col[q])
  BY Packed
<1>4. vbuf' = [bufs EXCEPT ![i0] = t]
  BY <1>1, <1>2, <1>3 DEF Landed
<1>5. DOMAIN vbuf' = Surfaces /\ vbuf'[i0] = t /\ \A i \in Surfaces : i # i0 => vbuf'[i] = bufs[i]
  BY <1>4
<1>6. PICK s, c : s = kbuf[i0] /\ c = [s.col EXCEPT ![p0] = "now"]
  OBVIOUS
<1>7. KSurface(s) /\ DOMAIN c = Places /\ c[p0] = "now" /\ \A q \in Places : q # p0 => c[q] = s.col[q]
  BY <1>6 DEF SurfacesInv, KSurface
<1>8. kbuf' = [kbuf EXCEPT ![i0].col = c]
  BY <1>1, <1>2, <1>6 DEF Landed
<1>9. /\ DOMAIN kbuf' = Surfaces /\ KSurface(kbuf'[i0]) /\ kbuf'[i0].col = c
      /\ \A i \in Surfaces : i # i0 => kbuf'[i] = kbuf[i]
  BY <1>6, <1>7, <1>8 DEF SurfacesInv, KSurface
<1>10. SurfacesInv'
  BY <1>3, <1>5, <1>9 DEF SurfacesInv
<1>11. ASSUME \A l \in 0..(Layers - 1), kh \in 0..(NKv - 1) : HeldIn(bufs, to, l, kh)
       PROVE  MirrorInv'
  <2>1. ASSUME NEW l \in 0..(Layers - 1), NEW kh \in 0..(NKv - 1)
        PROVE  Holds(SurfaceOf(l, kh), Done(l, kh))'
    <3>1. PICK i \in Surfaces : i = SurfaceOf(l, kh) /\ (i = i0 => l = l0 /\ kh = h0)
      BY <1>2, SurfacePlaces
    <3>2. PICK n \in Int : n = Done(l, kh)
      BY DoneGrows
    <3>3. /\ \A p \in 0..(n - 1) : kbuf[i].col[p] = "now" /\ bufs[i].col[p] = "now"
          /\ n > 0 => bufs[i].at = to
      BY <1>11, <3>1, <3>2 DEF HeldIn
    <3>4. kv' = to
      BY DEF Landed
    <3>5. CASE i # i0
      <4>1. Done(l, kh)' = n
        BY <1>1, <1>2, <3>1, <3>2, <3>5, DoneGrows
      <4>2. kbuf'[i] = kbuf[i] /\ vbuf'[i] = bufs[i]
        BY <1>5, <1>9, <3>5
      <4> QED
        BY <3>1, <3>3, <3>4, <4>1, <4>2 DEF Holds
    <3>6. CASE i = i0
      <4>1. Done(l, kh)' = p0 + 1 /\ n = p0
        BY <1>1, <3>1, <3>2, <3>6, DoneGrows
      <4>2. p0 \in Nat /\ \A p \in 0..p0 : p \in Places
        BY Extents DEF Places
      <4>3. ASSUME NEW p \in 0..p0
            PROVE  kbuf'[i].col[p] = "now" /\ vbuf'[i].col[p] = "now"
        <5>1. CASE p = p0
          BY <1>3, <1>5, <1>7, <1>9, <3>6, <5>1
        <5>2. CASE p # p0
          <6>1. p \in 0..(n - 1) /\ n > 0 /\ p \in Places
            BY <4>1, <4>2, <5>2
          <6> QED
            BY <1>3, <1>5, <1>6, <1>7, <1>9, <3>3, <3>6, <5>2, <6>1
        <5> QED
          BY <5>1, <5>2
      <4>4. vbuf'[i].at = kv'
        BY <1>3, <1>5, <3>4, <3>6
      <4>5. \A p \in 0..(p0 + 1 - 1) : p \in 0..p0
        BY <4>2
      <4> QED
        BY <3>1, <4>1, <4>3, <4>4, <4>5 DEF Holds
    <3> QED
      BY <3>5, <3>6
  <2>2. dirty'[layer'] = TRUE
    BY DEF AppendRow, Landed
  <2> QED
    BY <2>1, <2>2 DEF MirrorInv
<1> QED
  BY <1>10, <1>11

\* A row that is refused leaves the mirror short of it.
LEMMA Short ==
  ASSUME NoticedInv, RowsInv, AppendRow, kv' <= pos + row
  PROVE  ~Whole'
<1>1. layer \in 0..(Layers - 1) /\ filled'[layer] = pos + row + 1
  BY RowPlace, DoneGrows DEF AppendRow
<1>2. pos + row + 1 \in Int /\ kv' \in Int
  <2>1. PICK p \in Int : p = pos + row
    BY DEF NoticedInv, Kinds
  <2>2. AppendHead(layer, head, p)
    BY <2>1 DEF AppendRow
  <2>3. kv' \in 1..KvMax
    BY <2>1, <2>2, AppendKinds DEF NoticedInv
  <2> QED
    BY <2>1, <2>3, Extents
<1>3. ~(filled'[layer] <= kv')
  BY <1>1, <1>2 DEF NoticedInv, Kinds
<1> QED
  BY <1>1, <1>3 DEF Whole

\* Columns that a growth carries over or packs again are this turn's.
LEMMA CarriedRight ==
  ASSUME NoticedInv, RowsInv, SurfacesInv, MirrorInv, Whole, AppendRow, Opened = "open",
         pos + row >= kv, NEW b, DOMAIN b = Surfaces,
         NEW to, \A i \in Surfaces : Moved(Surfs, to, pos + row, i, b[i]),
         NEW l \in 0..(Layers - 1), NEW kh \in 0..(NKv - 1)
  PROVE  HeldIn(b, to, l, kh)
<1>1. PICK p0 \in Places : p0 = pos + row /\ p0 \in Nat /\ layer \in 0..(Layers - 1)
  BY RowPlace, Extents DEF AppendRow, Places
<1>2. kv \in Nat /\ kv = p0
  <2>1. filled[layer] <= kv
    BY <1>1 DEF Whole
  <2>2. kv \in Nat
    BY Extents DEF NoticedInv, Kinds
  <2> QED
    BY <1>1, <2>1, <2>2, DoneGrows
<1>3. PICK n \in Int : n = Done(l, kh) /\ n <= filled'[l]
  BY DoneGrows
<1>4. n <= p0
  <2>1. filled[l] <= kv
    BY DEF Whole
  <2>2. n = p0 \/ n = filled[l]
    BY <1>1, <1>3 DEF Done
  <2> QED
    BY <1>2, <2>1, <2>2
<1>5. PICK i \in Surfaces : i = SurfaceOf(l, kh) /\ LayerOf(i) = l
  BY SurfacePlaces
<1>6. PICK s : s = b[i] /\ s.at = to /\ s.col = Carried(Surfs, to, p0, i)
  BY <1>1, <1>5 DEF Moved
<1>7. PICK f : f = Surfs[i] /\ (n > 0 => f.at = kv) /\ \A p \in 0..(n - 1) : f.col[p] = "now"
  BY <1>3, <1>5, Found DEF AppendRow
<1>8. VSurface(f)
  BY <1>5, <1>7, FoundSurfaces
<1>9. ASSUME NEW p \in 0..(n - 1)
      PROVE  kbuf[i].col[p] = "now" /\ s.col[p] = "now"
  <2>1. p \in Int /\ p >= 0 /\ p < p0 /\ p < n /\ p \in Places /\ n > 0
    BY <1>1, <1>4, Extents DEF Places
  <2>2. kbuf[i].col[p] = "now" /\ f.col[p] = "now" /\ f.at = kv
    <3>1. kbuf[SurfaceOf(l, kh)].col[p] = "now"
      BY <1>3, Found DEF AppendRow
    <3> QED
      BY <1>5, <1>7, <2>1, <3>1
  <2>3. CASE copy /\ Regrows(kv, to, p0)
    <3>0. PICK e \in Nat \ {0} : e = Pair
      BY LadderAssumption
    <3>1. PICK a \in Int : a = AlignUp(p0, Pair) /\ p0 <= a
      BY <1>1, <3>0, Aligned
    <3>2. PICK c : c = [q \in Places |-> IF q < a THEN IF f.at = kv THEN f.col[q] ELSE "garbage"
                                         ELSE "none"]
      OBVIOUS
    <3>3. PICK r : r = [f EXCEPT !.at = to, !.col = c]
      OBVIOUS
    <3>4. r = Regrown(f, kv, to, p0)
      BY <3>1, <3>2, <3>3 DEF Regrown
    <3>5. r.col = c
      BY <1>8, <3>3 DEF VSurface
    <3>6. c[p] = "now"
      BY <1>1, <2>1, <2>2, <3>1, <3>2
    <3>7. s.col = c
      BY <1>6, <1>7, <2>3, <3>4, <3>5 DEF Carried
    <3> QED
      BY <2>2, <3>6, <3>7
  <2>4. CASE ~(copy /\ Regrows(kv, to, p0))
    <3>1. s.col = [q \in Places |-> IF q < p0 THEN FloatTag(LayerOf(i), q) ELSE "none"]
      BY <1>6, <2>4 DEF Carried
    <3>2. s.col[p] = FloatTag(l, p)
      BY <1>5, <2>1, <3>1
    <3>3. p < filled'[l]
      <4>1. filled'[l] \in Int
        BY DoneGrows
      <4> QED
        BY <1>3, <2>1, <4>1
    <3> QED
      BY <2>2, <3>2, <3>3 DEF FloatTag
  <2> QED
    BY <2>3, <2>4
<1> QED
  BY <1>3, <1>5, <1>6, <1>9 DEF HeldIn

\* attn_npu_append: a growth happens only while the mirror is whole.
LEMMA MirrorAppend ==
  ASSUME NoticedInv, RowsInv, SurfacesInv, MirrorInv, AppendRow, kv' # kv => Whole
  PROVE  SurfacesInv' /\ MirrorInv'
<1>1. PICK l0 \in 0..(Layers - 1), h0 \in 0..(NKv - 1), p0 \in Places :
         l0 = layer /\ h0 = head /\ p0 = pos + row /\ p0 < NK /\ p0 \in Int
  BY RowPlace, Extents DEF AppendRow, Places
<1>2. PICK i0 \in Surfaces : i0 = SurfaceOf(l0, h0)
  BY SurfacePlaces
<1>3. AppendHead(l0, h0, p0) /\ open' = Opened
  BY <1>1 DEF AppendRow, AppendHead
<1>4. kv \in 1..KvMax /\ kv \in Int /\ total \in Int
  BY Extents DEF NoticedInv, Kinds
<1>5. CASE Opened # "open"
  <2>1. UNCHANGED kbuf /\ open' # "open"
    BY <1>3, <1>5 DEF AppendHead
  <2> QED
    BY <2>1 DEF SurfacesInv, MirrorInv
<1>6. CASE Opened = "open" /\ p0 < kv
  <2>1. PICK b : b = Surfs /\ DOMAIN b = Surfaces /\ \A i \in Surfaces : VSurface(b[i])
    BY <1>6, FoundSurfaces
  <2>2. /\ kv' = kv
        /\ kbuf' = [kbuf EXCEPT ![i0].col[p0] = "now"]
        /\ vbuf' = [b EXCEPT ![i0] = PackCol(@, kv, p0, "now")]
        /\ dirty' = [dirty EXCEPT ![l0] = TRUE]
    <3>1. PICK fit : fit = [bufs |-> b, kv |-> kv, failed |-> FALSE]
      OBVIOUS
    <3>2. fit.bufs = b /\ fit.kv = kv /\ fit.failed = FALSE
      BY <3>1
    <3>3. ~(p0 >= kv) /\ ~(p0 >= NK) /\ ~(Opened # "open")
      BY <1>1, <1>4, <1>6, Extents
    <3>4. AppendHead(l0, h0, p0) =>
             /\ kv' = fit.kv
             /\ kbuf' = [kbuf EXCEPT ![i0].col[p0] = "now"]
             /\ vbuf' = [fit.bufs EXCEPT ![i0] = PackCol(@, fit.kv, p0, "now")]
             /\ dirty' = [dirty EXCEPT ![l0] = TRUE]
      BY <1>1, <1>2, <2>1, <3>1, <3>2, <3>3 DEF AppendHead
    <3> QED
      BY <1>3, <3>2, <3>4
  <2>3. dirty'[l0] = TRUE
    BY <2>2 DEF RowsInv
  <2>4. Landed(b, kv, SurfaceOf(layer, head), pos + row)
    BY <1>1, <1>2, <2>2, <2>3 DEF Landed
  <2>5. Whole' => Whole
    <3> SUFFICES ASSUME Whole', NEW l \in 0..(Layers - 1) PROVE filled[l] <= kv
      BY DEF Whole
    <3>1. filled'[l] <= kv
      BY <2>2 DEF Whole
    <3>2. PICK h \in 0..(NKv - 1) : TRUE
      BY <1>1
    <3>3. filled[l] <= filled'[l] /\ filled[l] \in Int /\ filled'[l] \in Int
      BY <3>2, DoneGrows
    <3> QED
      BY <1>4, <3>1, <3>3
  <2>6. Whole => \A l \in 0..(Layers - 1), kh \in 0..(NKv - 1) : HeldIn(b, kv, l, kh)
    <3> SUFFICES ASSUME Whole, NEW l \in 0..(Layers - 1), NEW kh \in 0..(NKv - 1)
                 PROVE  HeldIn(b, kv, l, kh)
      OBVIOUS
    <3> QED
      BY <1>6, <2>1, Found DEF HeldIn, AppendRow
  <2>7. Whole => MirrorInv'
    BY <2>1, <2>4, <2>6, LandedRight
  <2>8. SurfacesInv'
    BY <2>1, <2>4, LandedRight
  <2> QED
    BY <2>5, <2>7, <2>8 DEF MirrorInv
<1>7. CASE Opened = "open" /\ ~(p0 < kv)
  <2>1. PICK b : b = Surfs /\ DOMAIN b = Surfaces /\ \A i \in Surfaces : VSurface(b[i])
    BY <1>7, FoundSurfaces
  <2>2. PICK want \in Int : want = p0 + 1 /\ want <= KvMax /\ want - 1 = p0
    BY <1>1, Extents DEF Places
  <2>3. PICK to : to = ClimbTo(want) /\ to \in 1..KvMax /\ to >= want
    BY <1>4, <2>2, ClimbStays, ClimbsFar
  <2>4. PICK f : f = Fitted(b, want) /\ FittedRight(b, to, p0, f)
    BY <2>1, <2>2, <2>3, GrowthCarries
  <2>5. /\ kv' = f.kv
        /\ f.failed => vbuf' = f.bufs /\ UNCHANGED kbuf
        /\ ~f.failed => /\ kbuf' = [kbuf EXCEPT ![i0].col[p0] = "now"]
                        /\ vbuf' = [f.bufs EXCEPT ![i0] = PackCol(@, f.kv, p0, "now")]
                        /\ dirty' = [DirtyAll(l0) EXCEPT ![l0] = TRUE]
    <3>1. p0 >= kv /\ ~(p0 >= NK) /\ ~(Opened # "open")
      BY <1>1, <1>4, <1>7, Extents
    <3>2. f = Fitted(Surfs, p0 + 1)
      BY <2>1, <2>2, <2>4
    <3>3. f.failed \in BOOLEAN
      BY <2>4 DEF FittedRight
    <3> QED
      BY <1>1, <1>2, <1>3, <3>1, <3>2, <3>3 DEF AppendHead
  <2>6. CASE f.failed
    <3>1. kv' <= pos + row
      BY <1>1, <1>4, <1>7, <2>4, <2>5, <2>6 DEF FittedRight
    <3>2. ~Whole'
      BY <3>1, Short
    <3>3. SurfacesInv'
      BY <2>4, <2>5, <2>6 DEF FittedRight, SurfacesInv
    <3> QED
      BY <3>2, <3>3 DEF MirrorInv
  <2>7. CASE ~f.failed
    <3>1. kv' = to /\ f.kv = to
      BY <2>4, <2>5, <2>7 DEF FittedRight
    <3>2. Whole
      BY <1>1, <1>4, <1>7, <2>2, <2>3, <3>1, Extents
    <3>3. PICK g : g = f.bufs /\ DOMAIN g = Surfaces /\ \A i \in Surfaces : Moved(b, to, p0, i, g[i])
      BY <2>4, <2>7 DEF FittedRight
    <3>4. dirty'[l0] = TRUE
      BY <1>1, <2>5, <2>7 DEF DirtyAll, RowsInv
    <3>5. Landed(g, to, SurfaceOf(layer, head), pos + row)
      BY <1>1, <1>2, <2>5, <2>7, <3>1, <3>3, <3>4 DEF Landed
    <3>6. ASSUME NEW l \in 0..(Layers - 1), NEW kh \in 0..(NKv - 1)
          PROVE  HeldIn(g, to, l, kh)
      <4>1. pos + row >= kv
        BY <1>1, <1>4, <1>7
      <4>2. \A i \in Surfaces : Moved(Surfs, to, pos + row, i, g[i])
        BY <1>1, <2>1, <3>3
      <4> QED
        BY <1>7, <3>2, <3>3, <4>1, <4>2, CarriedRight
    <3>7. \A i \in Surfaces : VSurface(g[i])
      BY <3>3 DEF Moved
    <3> QED
      BY <3>3, <3>5, <3>6, <3>7, LandedRight
  <2> QED
    BY <2>4, <2>6, <2>7 DEF FittedRight
<1> QED
  BY <1>4, <1>5, <1>6, <1>7, <1>1

\* Steps that leave the mirror and the counts of rows alone.
LEMMA MirrorStays ==
  ASSUME SurfacesInv, MirrorInv, UNCHANGED <<open, kv, kbuf, vbuf, filled, dirty>>,
         \A l \in 0..(Layers - 1), kh \in 0..(NKv - 1) : Done(l, kh)' = Done(l, kh),
         \/ phase' \notin {"append", "attend"}
         \/ phase' = "append" /\ row' = 0 /\ head' = 0
         \/ phase' = phase /\ row' = row /\ head' = head /\ layer' = layer
  PROVE  SurfacesInv' /\ MirrorInv'
<1>1. SurfacesInv'
  BY DEF SurfacesInv
<1>2. ASSUME open' = "open" /\ Whole'
      PROVE  \A l \in 0..(Layers - 1), kh \in 0..(NKv - 1) :
                Holds(SurfaceOf(l, kh), Done(l, kh))'
  <2>1. open = "open" /\ Whole
    BY <1>2 DEF Whole
  <2>2. ASSUME NEW l \in 0..(Layers - 1), NEW kh \in 0..(NKv - 1)
        PROVE  Holds(SurfaceOf(l, kh), Done(l, kh))'
    <3>1. PICK n : n = Done(l, kh) /\ n = Done(l, kh)'
      OBVIOUS
    <3>2. Holds(SurfaceOf(l, kh), n)
      BY <2>1, <3>1 DEF MirrorInv
    <3>3. Holds(SurfaceOf(l, kh), n)'
      BY <3>2 DEF Holds
    <3> QED
      BY <3>1, <3>3 DEF Holds
  <2> QED
    BY <2>2
<1>3. ASSUME open' = "open" /\ Whole'
      PROVE  ((phase = "append" /\ (row > 0 \/ head > 0)) \/ phase = "attend" => dirty[layer])'
  <2>1. open = "open" /\ Whole
    BY <1>3 DEF Whole
  <2> QED
    BY <2>1 DEF MirrorInv
<1> QED
  BY <1>1, <1>2, <1>3 DEF MirrorInv

\* A new turn forgets what the mirror holds.
LEMMA MirrorTurns ==
  ASSUME NoticedInv, RowsInv, SurfacesInv, NEW len, NewTurn(len)
  PROVE  SurfacesInv' /\ MirrorInv'
<1>1. /\ kbuf' = [i \in Surfaces |-> [col |-> Aged(kbuf[i].col), dev |-> Aged(kbuf[i].dev)]]
      /\ vbuf' = [i \in DOMAIN vbuf |-> [vbuf[i] EXCEPT !.col = Aged(@), !.dev.col = Aged(@)]]
      /\ open' = open /\ phase' = "idle" /\ filled' = [l \in DOMAIN filled |-> 0]
  BY DEF NewTurn, Restarted
<1>2. ASSUME NEW i \in Surfaces
      PROVE  KSurface(kbuf'[i])
  <2>1. PICK a, b : a = Aged(kbuf[i].col) /\ b = Aged(kbuf[i].dev)
    OBVIOUS
  <2>2. kbuf'[i] = [col |-> a, dev |-> b] /\ DOMAIN a = Places
    BY <1>1, <2>1 DEF Aged
  <2> QED
    BY <2>2 DEF KSurface
<1>3. ASSUME open = "open", NEW i \in Surfaces
      PROVE  DOMAIN vbuf' = Surfaces /\ VSurface(vbuf'[i])
  <2>1. PICK s, a, t : /\ s = vbuf[i] /\ a = Aged(s.col)
                       /\ t = [s EXCEPT !.col = a, !.dev.col = Aged(s.dev.col)]
    OBVIOUS
  <2>2. DOMAIN vbuf = Surfaces /\ VSurface(s) /\ DOMAIN a = Places
    BY <1>3, <2>1 DEF SurfacesInv, Aged
  <2>3. vbuf'[i] = t
    BY <1>1, <2>1, <2>2
  <2>4. DOMAIN t = DOMAIN s /\ t.col = a
    BY <2>1, <2>2 DEF VSurface
  <2> QED
    BY <1>1, <2>2, <2>3, <2>4 DEF VSurface
<1>4. SurfacesInv'
  <2>1. open = "open" => DOMAIN vbuf' = Surfaces
    BY <1>1 DEF SurfacesInv
  <2> QED
    BY <1>1, <1>2, <1>3, <2>1 DEF SurfacesInv
<1>5. ASSUME NEW l \in 0..(Layers - 1), NEW kh \in 0..(NKv - 1)
      PROVE  Holds(SurfaceOf(l, kh), Done(l, kh))'
  <2>1. Done(l, kh)' = 0
    BY <1>1 DEF Done, RowsInv
  <2> QED
    BY <2>1 DEF Holds
<1> QED
  BY <1>1, <1>4, <1>5 DEF MirrorInv

\* What the layers have when one is attended to.
LEMMA Counted ==
  ASSUME NoticedInv, RowsInv, phase = "attend"
  PROVE  /\ T \in Int /\ T >= 1 /\ T <= KvMax /\ layer \in 0..(Layers - 1) /\ filled[layer] = T
         /\ \A l \in 0..(Layers - 1) : filled[l] \in Int /\ filled[l] <= T
<1>1. {pos, rows, total} \subseteq Int /\ pos >= 0 /\ layer \in 0..(Layers - 1)
  BY DEF NoticedInv, Kinds, RowsInv
<1>2. NCtx \in Int /\ NCtx <= KvMax
  <2>1. PICK b \in Nat \ {0}, n \in Int : b = Pair /\ n = NCtx
    BY LadderAssumption
  <2> QED
    BY <2>1, Aligned DEF KvMax
<1>3. rows >= 1 /\ pos + rows <= total /\ total <= NCtx
  BY DEF RowsInv
<1>4. T \in Int /\ T >= 1 /\ T <= KvMax
  BY <1>1, <1>2, <1>3, Extents DEF T
<1>5. \A l \in 0..(Layers - 1) : filled[l] = IF l > layer THEN pos ELSE pos + rows
  BY DEF RowsInv
<1> QED
  BY <1>1, <1>3, <1>4, <1>5 DEF T

\* attn_npu_catchup and the flush, of one surface.
LEMMA Readied ==
  ASSUME NoticedInv, RowsInv, SurfacesInv, Attend, Takes, NEW i \in Surfaces
  PROVE  /\ DOMAIN kbuf' = Surfaces /\ DOMAIN vbuf' = Surfaces
         /\ KSurface(kbuf'[i]) /\ VSurface(vbuf'[i])
         /\ LayerOf(i) = layer /\ dirty[layer] =>
               /\ kbuf'[i].dev = kbuf'[i].col
               /\ vbuf'[i].dev.at = vbuf'[i].at /\ vbuf'[i].dev.col = vbuf'[i].col
         /\ \A n \in Int : n <= T /\ n <= filled[LayerOf(i)] /\ Holds(i, n) => Holds(i, n)'
<1> DEFINE late == Late(layer, T)
           flush == dirty[layer] \/ late # {}
           fill(col) == [p \in Places |-> IF p \in late THEN FloatTag(layer, p) ELSE col[p]]
           caught(s) == IF late = {} THEN s
                        ELSE [s EXCEPT !.at = kv,
                                !.col = IF s.at = kv THEN fill(@)
                                        ELSE fill([p \in Places |-> "garbage"])]
<1>1. /\ kbuf' = [j \in Surfaces |->
            IF flush /\ LayerOf(j) = layer
            THEN [col |-> fill(kbuf[j].col), dev |-> fill(kbuf[j].col)]
            ELSE kbuf[j]]
      /\ vbuf' = [j \in Surfaces |->
            IF flush /\ LayerOf(j) = layer
            THEN LET s == caught(vbuf[j])
                 IN  [s EXCEPT !.dev = [at |-> s.at, col |-> s.col]]
            ELSE vbuf[j]]
  BY DEF Attend, Ready
<1> HIDE DEF late
<1>2. open = "open" /\ DOMAIN kbuf' = Surfaces /\ DOMAIN vbuf' = Surfaces
  BY <1>1 DEF Takes
<1>3. PICK k, s : k = kbuf[i] /\ s = vbuf[i] /\ KSurface(k) /\ VSurface(s)
  BY <1>2 DEF SurfacesInv
<1>4. phase = "attend" /\ UNCHANGED <<kv, filled>>
  BY DEF Attend
<1>5. CASE ~(flush /\ LayerOf(i) = layer)
  <2>1. kbuf'[i] = k /\ vbuf'[i] = s
    BY <1>1, <1>3, <1>5
  <2> QED
    BY <1>2, <1>3, <1>4, <1>5, <2>1 DEF Holds
<1>6. CASE flush /\ LayerOf(i) = layer
  <2>1. PICK c, d, e : /\ c = fill(k.col) /\ d = fill(s.col)
                       /\ e = fill([p \in Places |-> "garbage"])
    OBVIOUS
  <2>2. PICK t, u : t = caught(s) /\ u = [t EXCEPT !.dev = [at |-> t.at, col |-> t.col]]
    OBVIOUS
  <2>3. kbuf'[i] = [col |-> c, dev |-> c] /\ vbuf'[i] = u
    BY <1>1, <1>3, <1>6, <2>1, <2>2
  <2>4. DOMAIN c = Places /\ DOMAIN d = Places /\ DOMAIN e = Places
    BY <2>1
  <2>5. /\ DOMAIN t = DOMAIN s /\ DOMAIN t.col = Places
        /\ s.at = kv => t.at = kv /\ (t.col = s.col \/ t.col = d)
    <3>1. CASE late = {}
      BY <1>3, <2>2, <3>1 DEF VSurface
    <3>2. CASE late # {} /\ s.at = kv
      <4>1. t = [s EXCEPT !.at = kv, !.col = d]
        BY <2>1, <2>2, <3>2
      <4> QED
        BY <1>3, <2>4, <4>1 DEF VSurface
    <3>3. CASE late # {} /\ s.at # kv
      <4>1. t = [s EXCEPT !.at = kv, !.col = e]
        BY <2>1, <2>2, <3>3
      <4> QED
        BY <1>3, <2>4, <3>3, <4>1 DEF VSurface
    <3> QED
      BY <3>1, <3>2, <3>3
  <2>6. /\ DOMAIN u = DOMAIN s /\ u.col = t.col /\ u.at = t.at
        /\ u.dev.at = t.at /\ u.dev.col = t.col
    <3>a. PICK x, y : x = t.at /\ y = t.col
      OBVIOUS
    <3>b. PICK g : g = [at |-> x, col |-> y]
      OBVIOUS
    <3>1. g = [at |-> t.at, col |-> t.col] /\ g.at = t.at /\ g.col = t.col
      BY <3>a, <3>b
    <3>2. u = [t EXCEPT !.dev = g]
      BY <2>2, <3>1
    <3> QED
      BY <1>3, <2>5, <3>1, <3>2 DEF VSurface
  <2>7. KSurface(kbuf'[i])
    BY <2>3, <2>4 DEF KSurface
  <2>8. VSurface(vbuf'[i])
    BY <1>3, <2>3, <2>5, <2>6 DEF VSurface
  <2>9. ASSUME NEW n \in Int, n <= T, n <= filled[LayerOf(i)], Holds(i, n)
        PROVE  Holds(i, n)'
    <3>1. ASSUME NEW p \in 0..(n - 1)
          PROVE  kbuf'[i].col[p] = "now" /\ vbuf'[i].col[p] = "now"
      <4>1. /\ p \in Places /\ n > 0 /\ p < filled'[layer]
        BY <1>4, <1>6, <2>9, Counted, Extents DEF Places
      <4>2. k.col[p] = "now" /\ s.col[p] = "now" /\ s.at = kv
        BY <1>3, <2>9, <4>1 DEF Holds
      <4>3. FloatTag(layer, p) = "now"
        BY <4>1 DEF FloatTag
      <4>4. c[p] = "now" /\ d[p] = "now"
        BY <2>1, <4>1, <4>2, <4>3
      <4> QED
        BY <2>3, <2>5, <2>6, <4>2, <4>4
    <3>2. n > 0 => vbuf'[i].at = kv'
      BY <1>3, <1>4, <2>3, <2>5, <2>6, <2>9 DEF Holds
    <3> QED
      BY <3>1, <3>2 DEF Holds
  <2>10. /\ kbuf'[i].dev = kbuf'[i].col
         /\ vbuf'[i].dev.at = vbuf'[i].at /\ vbuf'[i].dev.col = vbuf'[i].col
    BY <2>3, <2>6
  <2> QED
    BY <1>2, <2>7, <2>8, <2>9, <2>10
<1> QED
  BY <1>5, <1>6

\* Then the device sees the layer's rows.
LEMMA MirrorReady ==
  ASSUME NoticedInv, RowsInv, SurfacesInv, MirrorInv, Attend
  PROVE  SurfacesInv' /\ MirrorInv' /\ ReadyInv'
<1>0. /\ phase = "attend" /\ phase' = (IF Takes THEN "scores" ELSE "cpu")
      /\ UNCHANGED <<open, kv, filled, layer, row, head, pos, rows>>
  BY DEF Attend
<1>1. \A l \in 0..(Layers - 1), kh \in 0..(NKv - 1) :
         Done(l, kh) = filled[l] /\ Done(l, kh)' = filled[l]
  BY <1>0 DEF Done
<1>2. CASE ~Takes
  <2>1. UNCHANGED <<kbuf, vbuf, dirty>> /\ phase' = "cpu"
    BY <1>0, <1>2 DEF Attend
  <2>2. SurfacesInv' /\ MirrorInv'
    BY <1>0, <1>1, <2>1, MirrorStays
  <2> QED
    BY <2>1, <2>2 DEF ReadyInv, AtWork
<1>3. CASE Takes
  <2>1. SurfacesInv'
    <3>1. \A i \in Surfaces : KSurface(kbuf'[i]) /\ VSurface(vbuf'[i])
      BY <1>3, Readied
    <3>2. DOMAIN kbuf' = Surfaces /\ DOMAIN vbuf' = Surfaces
      BY <1>3, <1>0 DEF Attend, Ready
    <3> QED
      BY <3>1, <3>2 DEF SurfacesInv
  <2>2. open = "open" /\ T <= kv /\ kv \in Int
    BY <1>3, Extents DEF Takes, NoticedInv, Kinds
  <2>3. Whole
    BY <1>0, <2>2, Counted DEF Whole
  <2>4. dirty[layer]
    BY <1>0, <2>2, <2>3 DEF MirrorInv
  <2>5. ASSUME NEW l \in 0..(Layers - 1), NEW kh \in 0..(NKv - 1)
        PROVE  Holds(SurfaceOf(l, kh), filled[l])'
    <3>1. PICK i \in Surfaces : i = SurfaceOf(l, kh) /\ LayerOf(i) = l
      BY SurfacePlaces
    <3>2. PICK n \in Int : n = filled[l] /\ n <= T /\ n = filled'[l]
      BY <1>0, Counted
    <3>3. Holds(i, n)
      BY <1>1, <2>2, <2>3, <3>1, <3>2 DEF MirrorInv
    <3>a. \A x \in Int : x <= T /\ x <= filled[LayerOf(i)] /\ Holds(i, x) => Holds(i, x)'
      BY <1>3, <3>1, Readied
    <3>4. Holds(i, n)'
      BY <3>1, <3>2, <3>3, <3>a
    <3> QED
      BY <3>1, <3>2, <3>4 DEF Holds
  <2>6. MirrorInv'
    <3>1. ASSUME NEW l \in 0..(Layers - 1), NEW kh \in 0..(NKv - 1)
          PROVE  Holds(SurfaceOf(l, kh), Done(l, kh))'
      <4>1. Done(l, kh)' = filled'[l]
        BY <1>0, <1>1
      <4> QED
        BY <2>5, <4>1 DEF Holds
    <3>2. phase' = "scores"
      BY <1>0, <1>3
    <3> QED
      BY <3>1, <3>2 DEF MirrorInv
  <2>7. ReadyInv'
    <3>1. T' = T /\ T \in Int /\ T >= 1 /\ layer \in 0..(Layers - 1) /\ filled'[layer] = T
      BY <1>0, Counted DEF T
    <3>2. ASSUME NEW kh \in 0..(NKv - 1)
          PROVE  (KRight(SurfaceOf(layer, kh), T) /\ VRight(SurfaceOf(layer, kh), kv, T))'
      <4>1. PICK i \in Surfaces, n \in Int : i = SurfaceOf(layer, kh) /\ LayerOf(i) = layer /\ n = T
        BY <3>1, SurfacePlaces
      <4>2. Holds(i, n)'
        <5>1. PICK x \in 0..(Layers - 1) : x = layer
          BY <3>1
        <5>2. Holds(SurfaceOf(x, kh), filled[x])'
          BY <2>5
        <5> QED
          BY <3>1, <4>1, <5>1, <5>2 DEF Holds
      <4>3. /\ kbuf'[i].dev = kbuf'[i].col
            /\ vbuf'[i].dev.at = vbuf'[i].at /\ vbuf'[i].dev.col = vbuf'[i].col
        BY <1>3, <2>4, <4>1, Readied
      <4>4. KRight(i, n)' /\ VRight(i, kv, n)'
        BY <1>0, <2>2, <3>1, <4>1, <4>2, <4>3 DEF Holds, KRight, VRight
      <4>5. SurfaceOf(layer, kh)' = i
        BY <1>0, <4>1
      <4> QED
        BY <3>1, <4>1, <4>4, <4>5
    <3> QED
      BY <1>0, <2>2, <3>1, <3>2 DEF ReadyInv
  <2> QED
    BY <2>1, <2>6, <2>7
<1> QED
  BY <1>2, <1>3

\* The mirror, the counts and what the device sees of them.
LEMMA MirrorStep ==
  ASSUME NoticedInv, RowsInv, SurfacesInv, MirrorInv, ReadyInv,
         [Next]_vars, kv' # kv => Whole
  PROVE  SurfacesInv' /\ MirrorInv' /\ ReadyInv'
<1>1. ASSUME UNCHANGED <<kv, kbuf, vbuf, layer, pos, rows>>, AtWork' => AtWork
      PROVE  ReadyInv'
  BY <1>1 DEF ReadyInv, T, SurfaceOf, KRight, VRight
<1>2. CASE \E len \in Lens : NewTurn(len)
  <2>1. SurfacesInv' /\ MirrorInv'
    BY <1>2, MirrorTurns
  <2>2. phase' = "idle"
    BY <1>2 DEF NewTurn
  <2> QED
    BY <2>1, <2>2 DEF ReadyInv, AtWork
<1>3. CASE NewChunk
  <2>1. /\ phase = "idle" /\ phase' = "append" /\ row' = 0 /\ head' = 0 /\ layer' = 0
        /\ UNCHANGED <<open, kv, kbuf, vbuf, filled, dirty, pos>>
    BY <1>3 DEF NewChunk, ladderVars
  <2>2. ASSUME NEW l \in 0..(Layers - 1), NEW kh \in 0..(NKv - 1)
        PROVE  Done(l, kh)' = Done(l, kh)
    <3>1. Done(l, kh) = pos /\ filled[l] = pos
      BY <2>1 DEF Done, RowsInv
    <3>2. pos + row' = pos
      BY <2>1 DEF NoticedInv, Kinds
    <3> QED
      BY <2>1, <3>1, <3>2 DEF Done
  <2>3. SurfacesInv' /\ MirrorInv'
    BY <2>1, <2>2, MirrorStays
  <2> QED
    BY <2>1, <2>3 DEF ReadyInv, AtWork
<1>4. CASE AppendRow
  <2>1. SurfacesInv' /\ MirrorInv'
    BY <1>4, MirrorAppend
  <2>2. phase' \in {"append", "attend"}
    BY <1>4 DEF AppendRow
  <2> QED
    BY <2>1, <2>2 DEF ReadyInv, AtWork
<1>5. CASE Attend
  BY <1>5, MirrorReady
<1>6. CASE LayerOver
  <2>1. /\ phase \in {"taken", "cpu"} /\ row' = 0 /\ head' = 0
        /\ UNCHANGED <<open, kv, kbuf, vbuf, filled, dirty>>
        /\ \/ layer' = layer + 1 /\ phase' = "append" /\ pos' = pos
           \/ layer' = layer /\ phase' = "idle"
    BY <1>6 DEF LayerOver, NextLayer, ChunkOver, ladderVars
  <2>2. ASSUME NEW l \in 0..(Layers - 1), NEW kh \in 0..(NKv - 1)
        PROVE  Done(l, kh)' = Done(l, kh)
    <3>1. Done(l, kh) = filled[l]
      BY <2>1 DEF Done
    <3>2. CASE phase' = "append" /\ l = layer'
      <4>1. l > layer /\ pos + row' = pos
        BY <2>1, <3>2 DEF NoticedInv, Kinds
      <4>2. filled[l] = pos
        BY <2>1, <4>1 DEF RowsInv
      <4> QED
        BY <2>1, <3>1, <3>2, <4>1, <4>2 DEF Done
    <3>3. CASE ~(phase' = "append" /\ l = layer')
      BY <2>1, <3>1, <3>3 DEF Done
    <3> QED
      BY <3>2, <3>3
  <2>3. SurfacesInv' /\ MirrorInv'
    BY <2>1, <2>2, MirrorStays
  <2>4. phase' \in {"append", "idle"}
    BY <2>1
  <2> QED
    BY <2>3, <2>4 DEF ReadyInv, AtWork
<1>7. CASE \/ SubmitScores \/ SubmitAhead \/ CollectScores \/ SubmitValues
           \/ CollectBehind \/ CollectLast
  <2>1. UNCHANGED <<open, kv, kbuf, vbuf, filled, dirty, pos, rows, layer>>
    BY <1>7 DEF SubmitScores, SubmitAhead, CollectScores, SubmitValues, CollectBehind,
                CollectLast, ladderVars
  <2>2. AtWork
    BY <1>7 DEF SubmitScores, SubmitAhead, CollectScores, SubmitValues, CollectBehind,
                CollectLast, AtWork
  <2>3. phase' \notin {"append", "attend"}
    <3>1. CASE SubmitScores
      BY <3>1 DEF SubmitScores, Submit, FallBack
    <3>2. CASE SubmitAhead
      BY <3>2 DEF SubmitAhead, Submit, FallBack
    <3>3. CASE CollectScores
      BY <3>3 DEF CollectScores, Wait
    <3>4. CASE SubmitValues
      BY <3>4 DEF SubmitValues, FallBack
    <3>5. CASE CollectBehind
      BY <3>5 DEF CollectBehind, Wait
    <3>6. CASE CollectLast
      BY <3>6 DEF CollectLast, Wait
    <3> QED
      BY <1>7, <3>1, <3>2, <3>3, <3>4, <3>5, <3>6
  <2>4. phase # "append"
    BY <2>2 DEF AtWork
  <2>5. ASSUME NEW l \in 0..(Layers - 1), NEW kh \in 0..(NKv - 1)
        PROVE  Done(l, kh)' = Done(l, kh)
    BY <2>1, <2>3, <2>4 DEF Done
  <2>6. SurfacesInv' /\ MirrorInv'
    BY <2>1, <2>3, <2>5, MirrorStays
  <2> QED
    BY <1>1, <2>1, <2>2, <2>6
<1>8. CASE Hardware \/ MemoryFreed \/ UNCHANGED vars
  <2>1. UNCHANGED <<open, kv, kbuf, vbuf, filled, dirty, pos, rows, layer, row, head, phase>>
    BY <1>8 DEF Hardware, MemoryFreed, vars, ladderVars, threadVars
  <2>2. ASSUME NEW l \in 0..(Layers - 1), NEW kh \in 0..(NKv - 1)
        PROVE  Done(l, kh)' = Done(l, kh)
    BY <2>1 DEF Done
  <2>3. SurfacesInv' /\ MirrorInv'
    BY <2>1, <2>2, MirrorStays
  <2>4. AtWork' => AtWork
    BY <2>1 DEF AtWork
  <2> QED
    BY <1>1, <2>1, <2>3, <2>4
<1> QED
  BY <1>2, <1>3, <1>4, <1>5, <1>6, <1>7, <1>8 DEF Next, Thread

-----------------------------------------------------------------------------
(* The jobs of a layer.                                                    *)

\* The job of group g of the scores, and of the values, as it should be.
JobIs(f, g, shape) ==
    /\ f.inflight = TRUE /\ f.shape = shape /\ f.sig = shape
    /\ DOMAIN f.out = 1..Count(g) /\ DOMAIN f.ops = 1..Count(g)
    /\ \A i \in 1..Count(g) :
          /\ f.out[i] \in {"poison", "right"} /\ f.in[i] = TRUE
          /\ f.ops[i].is = Owns(First(g) + i - 1) /\ f.ops[i].reach = Reach
ScoresOf(f, g) == /\ JobIs(f, g, ScoreShape)
                  /\ \A i \in 1..Count(g) : f.wt[i] = f.ops[i].is
ValuesOf(f, g) == /\ JobIs(f, g, ValueShape)
                  /\ \A i \in 1..Count(g) : f.wt[i] = vbuf[f.ops[i].is].addr
Answered(f, g) == DOMAIN f.out = 1..Count(g) /\ \A i \in 1..Count(g) : f.out[i] = "right"

\* The groups whose jobs are in, by where the thread is.
ScoresDue(g) == \/ phase \in {"ahead", "collect"} /\ g = head
                \/ phase \in {"collect", "values", "behind"} /\ g = head + 1
ValuesDue(g) == \/ phase \in {"ahead", "collect", "values", "behind"} /\ g = head - 1
                \/ phase = "behind" /\ g = head
                \/ phase = "last" /\ g = G - 1

\* The thread waits for the jobs it submitted, and takes their answers only.
Flow ==
    /\ \A g \in 0..(G - 1) :
          /\ ScoresDue(g) => ScoresOf(unit[S(g)], g)
          /\ ValuesDue(g) => ValuesOf(unit[V(g)], g)
          /\ phase = "values" /\ g = head => Answered(unit[S(g)], g)
    /\ phase \in {"ahead", "collect", "values", "behind"} => head < G
    /\ AtWork => got \subseteq {"right"}
    /\ phase = "taken" => got = {"right"}

\* The heads of a group, and the kv head of each.
LEMMA GroupHeads ==
  ASSUME Kinds, NEW g \in 0..(G - 1)
  PROVE  /\ Count(g) \in Nat \ {0} /\ First(g) \in Nat
         /\ \A i \in 1..Count(g) : KvHead(First(g) + i - 1) \in 0..(NKv - 1)
<1>1. PICK h \in Nat \ {0}, n \in {1, 2} : h = Heads /\ n = G /\ (n = 2 => h >= 2)
  BY ShapeKinds, AttentionAssumption
<1>2. PICK q \in Nat : q = (h + n - 1) \div n /\ q <= h /\ q >= 1 /\ (n = 2 => q <= h - 1)
                       /\ (n = 1 => q = h) /\ (n = 2 => h <= q + q)
  <2>1. CASE n = 1
    BY <2>1
  <2>2. CASE n = 2
    BY <1>1, <2>2
  <2> QED
    BY <2>1, <2>2
<1>3. q = PerGroup
  BY <1>1, <1>2 DEF PerGroup
<1>4. (g = 0 \/ (g = 1 /\ n = 2))
  BY <1>1
<1>5. PICK f \in Nat : f = First(g) /\ f <= h - 1
  BY <1>1, <1>2, <1>3, <1>4 DEF First
<1>6. PICK c \in Nat \ {0} : c = Count(g) /\ f + c <= h
  BY <1>1, <1>2, <1>3, <1>5 DEF Count
<1>7. ASSUME NEW i \in 1..c
      PROVE  KvHead(f + i - 1) \in 0..(NKv - 1)
  <2>1. PICK k \in Nat \ {0}, d \in Int : k = NKv /\ d = h \div k /\ h % k = 0
    BY <1>1, LadderAssumption, AttentionAssumption
  <2>2. h = k * d
    BY <2>1
  <2>3. d \in Nat \ {0}
    <3>1. CASE d <= 0
      <4>1. k * d <= 0
        BY <3>1
      <4> QED
        BY <2>2, <4>1
    <3> QED
      BY <3>1
  <2>4. PICK x \in Nat : x = f + i - 1 /\ x < k * d
    BY <1>5, <1>6, <2>2
  <2>5. PICK y \in Int : y = x \div d /\ y >= 0 /\ y * d <= x
    BY <2>3
  <2>6. y < k
    <3>1. CASE y >= k
      <4>1. y * d >= k * d
        BY <2>3, <3>1
      <4> QED
        BY <2>4, <2>5, <4>1
    <3> QED
      BY <3>1
  <2>7. KvHead(x) = y
    BY <1>1, <2>1, <2>5 DEF KvHead
  <2> QED
    BY <2>1, <2>4, <2>5, <2>6, <2>7
<1> QED
  BY <1>5, <1>6, <1>7

\* The rows of a group attend to no more than the layer has, and its shape covers it.
LEMMA Reaches ==
  ASSUME Kinds
  PROVE  Reach \in Int /\ Reach <= T /\ Reach <= CausalN
<1>1. PICK b \in Nat \ {0}, a \in Int : b = Pair /\ b % 2 = 0 /\ a = b \div 2
  BY LadderAssumption
<1>2. a \in Nat \ {0} /\ a = Atom
  BY <1>1 DEF Atom
<1>3. PICK ps \in Int, rs \in Int, r \in Int, mm \in Int :
         ps = pos /\ rs = rows /\ r = row /\ mm = mmax
  BY DEF Kinds
<1>4. PICK m \in Int : m = M /\ m <= rs - r
  BY <1>3 DEF M
<1>5. PICK t \in Int : t = T /\ t = ps + rs
  BY <1>3 DEF T
<1>6. PICK re \in Int : re = Reach /\ re <= t
  BY <1>3, <1>4, <1>5 DEF Reach
<1>7. PICK np \in Int : np = NPad /\ t <= np
  <2>1. AlignUp(t, a) \in Int /\ t <= AlignUp(t, a)
    BY <1>2, Aligned
  <2> QED
    BY <1>2, <1>5, <2>1 DEF NPad
<1>8. PICK cn \in Int : cn = AlignUp(Reach, Atom) /\ re <= cn
  <2>1. AlignUp(re, a) \in Int /\ re <= AlignUp(re, a)
    BY <1>2, Aligned
  <2> QED
    BY <1>2, <1>6, <2>1
<1>9. CausalN = LET up == IF cn < b THEN b ELSE cn
                IN  IF up > np THEN np ELSE up
  BY <1>1, <1>7, <1>8 DEF CausalN
<1>10. re <= CausalN
  BY <1>6, <1>7, <1>8, <1>9
<1> QED
  BY <1>5, <1>6, <1>10

\* What the jobs should be depends on the chunk, the layer and the mirror.
LEMMA SameJobs ==
  ASSUME UNCHANGED <<rows, row, mmax, pos, layer, kv, vbuf>>
  PROVE  /\ G' = G
         /\ \A g : /\ \A f : /\ ScoresOf(f, g)' = ScoresOf(f, g)
                             /\ ValuesOf(f, g)' = ValuesOf(f, g)
                             /\ Answered(f, g)' = Answered(f, g)
<1>1. M' = M
  BY DEF M
<1>2. G' = G
  BY <1>1 DEF G
<1>3. PerGroup' = PerGroup
  BY <1>2 DEF PerGroup
<1>4. ASSUME NEW g PROVE Count(g)' = Count(g) /\ First(g)' = First(g)
  <2>1. First(g)' = First(g)
    BY <1>3 DEF First
  <2> QED
    BY <1>3, <2>1 DEF Count
<1>5. Reach' = Reach /\ T' = T
  BY <1>1 DEF Reach, T
<1>6. NPad' = NPad
  BY <1>5 DEF NPad
<1>7. CausalN' = CausalN
  BY <1>5, <1>6 DEF CausalN
<1>8. ScoreShape' = ScoreShape /\ ValueShape' = ValueShape
  BY <1>1, <1>7 DEF ScoreShape, ValueShape
<1>9. ASSUME NEW h PROVE Owns(h)' = Owns(h)
  BY DEF Owns, SurfaceOf, KvHead
<1>10. ASSUME NEW g, NEW f
       PROVE  /\ ScoresOf(f, g)' = ScoresOf(f, g)
              /\ ValuesOf(f, g)' = ValuesOf(f, g)
              /\ Answered(f, g)' = Answered(f, g)
  <2>1. PICK c, h : c = Count(g) /\ c = Count(g)' /\ h = First(g) /\ h = First(g)'
    BY <1>4
  <2>2. PICK a, b, r : /\ a = ScoreShape /\ a = ScoreShape' /\ b = ValueShape /\ b = ValueShape'
                       /\ r = Reach /\ r = Reach'
    BY <1>5, <1>8
  <2>3. \A i : Owns(h + i - 1)' = Owns(h + i - 1)
    BY <1>9
  <2> QED
    BY <2>1, <2>2, <2>3 DEF ScoresOf, ValuesOf, Answered, JobIs
<1> QED
  BY <1>2, <1>10

\* What a submit asks of the hardware.
AskedOf(s, shape, ops) ==
    /\ s.inflight = TRUE /\ s.shape = shape /\ s.sig = shape /\ s.ops = ops
    /\ DOMAIN s.out = DOMAIN ops
    /\ \A i \in DOMAIN ops : /\ s.out[i] \in {"poison", "other"}
                             /\ s.in[i] = ops[i].good /\ s.wt[i] = ops[i].addr

LEMMA Asked ==
  ASSUME NEW f, DOMAIN f = Fields, f.inflight \in BOOLEAN, NEW shape, NEW ops
  PROVE  AskedOf(Submitted(f, shape, ops), shape, ops)
<1>1. PICK d : d = Drained(f)
  OBVIOUS
<1>a. DOMAIN d = Fields
  BY <1>1 DEF Drained, Fields
<1>2. PICK r : r = Released(d)
  OBVIOUS
<1>b. DOMAIN r = Fields
  BY <1>2, <1>a DEF Released, Fields
<1>3. PICK w : w = Wanted(r, Needs(shape, Len(ops)))
  OBVIOUS
<1>c. DOMAIN w = Fields
  BY <1>3, <1>b DEF Wanted, Fields
<1>4. PICK a : a = [i \in DOMAIN ops |-> ops[i].addr]
  OBVIOUS
<1>5. PICK s : s = [w EXCEPT !.sig = shape, !.wt = a]
  OBVIOUS
<1>d. s = Streams(w, shape, ops) /\ DOMAIN s = Fields /\ s.sig = shape /\ s.wt = a
  BY <1>4, <1>5, <1>c DEF Streams, Fields
<1>6. PICK p : p = Poisoned(w, shape, ops)
  OBVIOUS
<1>e. DOMAIN p = DOMAIN ops /\ \A i \in DOMAIN ops : p[i] \in {"poison", "other"}
  BY <1>6 DEF Poisoned, All
<1>7. PICK n : n = [i \in DOMAIN ops |-> ops[i].good]
  OBVIOUS
<1>8. PICK t : t = [s EXCEPT !.prepoisoned = FALSE, !.in = n, !.out = p]
  OBVIOUS
<1>f. /\ t = Staged(f, shape, ops) /\ DOMAIN t = Fields
      /\ t.sig = shape /\ t.wt = a /\ t.in = n /\ t.out = p
  <2>1. t = Staged(f, shape, ops)
    BY <1>1, <1>2, <1>3, <1>6, <1>7, <1>8, <1>d DEF Staged
  <2> QED
    BY <1>8, <1>d, <2>1 DEF Fields
<1>9. PICK x : x = [t EXCEPT !.ops = ops, !.shape = shape, !.inflight = TRUE]
  OBVIOUS
<1>g. /\ x = Submitted(f, shape, ops)
      /\ x.inflight = TRUE /\ x.shape = shape /\ x.sig = shape /\ x.ops = ops
      /\ x.wt = a /\ x.in = n /\ x.out = p
  <2>1. x = Submitted(f, shape, ops)
    BY <1>9, <1>f DEF Submitted
  <2> QED
    BY <1>9, <1>f, <2>1 DEF Fields
<1>10. \A i \in DOMAIN ops : a[i] = ops[i].addr /\ n[i] = ops[i].good
  BY <1>4, <1>7
<1> QED
  BY <1>10, <1>e, <1>g DEF AskedOf

\* A group of scores that goes in is the one that is due.
LEMMA ScoresIn ==
  ASSUME NoticedInv, NEW g \in 0..(G - 1), NEW u \in Units, u = S(g),
         unit'[u] = Submitted(unit[u], ScoreShape, ScoreOps(g)), HandlesRight'
  PROVE  ScoresOf(unit'[u], g)
<1>1. PICK f : f = unit[u] /\ DOMAIN f = Fields /\ f.inflight \in BOOLEAN
  BY DEF NoticedInv, BuffersInv, QueueInv
<1>2. PICK shape, ops : shape = ScoreShape /\ ops = ScoreOps(g)
  OBVIOUS
<1>3. PICK s : s = unit'[u] /\ AskedOf(s, shape, ops)
  BY <1>1, <1>2, Asked
<1>4. \A i \in DOMAIN s.out : s.out[i] # "other"
  BY <1>3 DEF HandlesRight, HandleRight
<1>5. PICK c \in Nat : c = Count(g)
  BY GroupHeads DEF NoticedInv
<1>6. /\ DOMAIN ops = 1..c
      /\ \A i \in 1..c : /\ ops[i].is = Owns(First(g) + i - 1) /\ ops[i].addr = ops[i].is
                         /\ ops[i].reach = Reach /\ ops[i].good = TRUE
  BY <1>2, <1>5 DEF ScoreOps, Owns, Operand
<1>7. \A i \in 1..c : s.out[i] = "poison"
  BY <1>3, <1>4, <1>6 DEF AskedOf
<1>a. \A i \in 1..c : s.in[i] = ops[i].good /\ s.wt[i] = ops[i].addr
  BY <1>3, <1>6 DEF AskedOf
<1>8. \A i \in 1..c : s.in[i] = TRUE /\ s.wt[i] = ops[i].is
  BY <1>6, <1>a
<1>9. JobIs(s, g, shape)
  BY <1>3, <1>5, <1>6, <1>7, <1>8 DEF AskedOf, JobIs
<1>10. s.ops = ops
  BY <1>3 DEF AskedOf
<1> QED
  BY <1>2, <1>3, <1>5, <1>8, <1>9, <1>10 DEF ScoresOf

\* A group of values too, if the scores it is made of are right.
LEMMA ValuesIn ==
  ASSUME NoticedInv, NEW g \in 0..(G - 1), NEW u \in Units, u = V(g),
         Answered(unit[S(g)], g),
         unit'[u] = Submitted(unit[u], ValueShape, ValueOps(g)), HandlesRight'
  PROVE  ValuesOf(unit'[u], g)
<1>1. PICK f : f = unit[u] /\ DOMAIN f = Fields /\ f.inflight \in BOOLEAN
  BY DEF NoticedInv, BuffersInv, QueueInv
<1>2. PICK shape, ops : shape = ValueShape /\ ops = ValueOps(g)
  OBVIOUS
<1>3. PICK s : s = unit'[u] /\ AskedOf(s, shape, ops)
  BY <1>1, <1>2, Asked
<1>4. \A i \in DOMAIN s.out : s.out[i] # "other"
  BY <1>3 DEF HandlesRight, HandleRight
<1>5. PICK c \in Nat : c = Count(g)
  BY GroupHeads DEF NoticedInv
<1>6. /\ DOMAIN ops = 1..c
      /\ \A i \in 1..c : /\ ops[i].is = Owns(First(g) + i - 1)
                         /\ ops[i].addr = vbuf[ops[i].is].addr
                         /\ ops[i].reach = Reach /\ ops[i].good = TRUE
  <2>1. \A i \in 1..c : unit[S(g)].out[i] = "right"
    BY <1>5 DEF Answered
  <2> QED
    BY <1>2, <1>5, <2>1 DEF ValueOps, Owns, Operand
<1>7. \A i \in 1..c : s.out[i] = "poison"
  BY <1>3, <1>4, <1>6 DEF AskedOf
<1>a. \A i \in 1..c : s.in[i] = ops[i].good /\ s.wt[i] = ops[i].addr
  BY <1>3, <1>6 DEF AskedOf
<1>8. \A i \in 1..c : s.in[i] = TRUE /\ s.wt[i] = vbuf[ops[i].is].addr
  BY <1>6, <1>a
<1>9. JobIs(s, g, shape)
  BY <1>3, <1>5, <1>6, <1>7, <1>8 DEF AskedOf, JobIs
<1>10. s.ops = ops
  BY <1>3 DEF AskedOf
<1> QED
  BY <1>2, <1>3, <1>5, <1>8, <1>9, <1>10 DEF ValuesOf

\* What a job that is due computes is right.
LEMMA ComputesRight ==
  ASSUME NoticedInv, ReadyInv, AtWork, NEW g \in 0..(G - 1), NEW i \in 1..Count(g)
  PROVE  /\ \A u \in {"f", "f2"} : ScoresOf(unit[u], g) => Computes(u, i)
         /\ \A u \in {"fv", "fv2"} : ValuesOf(unit[u], g) => Computes(u, i)
<1>1. PICK kh \in 0..(NKv - 1) : kh = KvHead(First(g) + i - 1)
  BY GroupHeads DEF NoticedInv
<1>2. PICK s : s = Owns(First(g) + i - 1) /\ s = SurfaceOf(layer, kh)
  BY <1>1 DEF Owns
<1>3. /\ KRight(s, T) /\ VRight(s, kv, T)
  BY <1>1, <1>2 DEF ReadyInv
<1>4. PICK re \in Int : re = Reach /\ re <= T /\ re <= CausalN
  BY Reaches DEF NoticedInv
<1>5. T \in Int /\ kv \in Int
  BY Extents DEF NoticedInv, Kinds, T
<1>6. KRight(s, re)
  BY <1>3, <1>4, <1>5 DEF KRight
<1>7. VRight(s, kv, re)
  BY <1>3, <1>4, <1>5 DEF VRight
<1>8. ASSUME NEW u \in {"f", "f2"}, ScoresOf(unit[u], g)
      PROVE  Computes(u, i)
  <2>1. PICK f, op : f = unit[u] /\ op = f.ops[i]
    OBVIOUS
  <2>2. /\ f.sig = f.shape /\ f.shape.n = CausalN /\ f.in[i] = TRUE /\ f.wt[i] = op.is
        /\ op.is = s /\ op.reach = re
    BY <1>2, <1>4, <1>8, <2>1 DEF ScoresOf, JobIs, ScoreShape
  <2> QED
    BY <1>4, <1>6, <2>1, <2>2 DEF Computes
<1>9. ASSUME NEW u \in {"fv", "fv2"}, ValuesOf(unit[u], g)
      PROVE  Computes(u, i)
  <2>1. PICK f, op : f = unit[u] /\ op = f.ops[i]
    OBVIOUS
  <2>2. /\ f.sig = f.shape /\ f.shape.k = kv /\ f.in[i] = TRUE /\ f.wt[i] = vbuf[op.is].addr
        /\ op.is = s /\ op.reach = re
    BY <1>2, <1>4, <1>9, <2>1 DEF ValuesOf, JobIs, ValueShape
  <2>3. u \notin {"f", "f2"}
    OBVIOUS
  <2> QED
    BY <1>4, <1>7, <2>1, <2>2, <2>3 DEF Computes
<1> QED
  BY <1>8, <1>9

\* Groups that are in at the same time have different handles.
LEMMA Apart ==
  ASSUME Kinds
  PROVE  /\ G \in {1, 2} /\ 0 \in 0..(G - 1)
         /\ \A g, h \in 0..(G - 1) : g # h => S(g) # S(h) /\ V(g) # V(h)
<1>1. G \in {1, 2}
  BY ShapeKinds
<1>2. S(0) = "f" /\ S(1) = "f2" /\ V(0) = "fv" /\ V(1) = "fv2"
  BY DEF S, V
<1>3. \A g \in 0..(G - 1) : g = 0 \/ g = 1
  BY <1>1
<1> QED
  BY <1>1, <1>2, <1>3

\* Flow after a step that leaves the chunk, the layer and the mirror alone.
LEMMA FlowNext ==
  ASSUME UNCHANGED <<rows, row, mmax, pos, layer, kv, vbuf>>,
         \A g \in 0..(G - 1) : /\ ScoresDue(g)' => ScoresOf(unit'[S(g)], g)
                               /\ ValuesDue(g)' => ValuesOf(unit'[V(g)], g)
                               /\ phase' = "values" /\ g = head' => Answered(unit'[S(g)], g),
         phase' \in {"ahead", "collect", "values", "behind"} => head' < G,
         got' \subseteq {"right"}, phase' # "taken"
  PROVE  Flow'
<1>1. G' = G
  BY SameJobs
<1>2. ASSUME NEW g \in 0..(G - 1)
      PROVE  (/\ ScoresDue(g) => ScoresOf(unit[S(g)], g)
              /\ ValuesDue(g) => ValuesOf(unit[V(g)], g)
              /\ phase = "values" /\ g = head => Answered(unit[S(g)], g))'
  <2>1. PICK a, b : a = unit'[S(g)] /\ b = unit'[V(g)]
    OBVIOUS
  <2>2. /\ ScoresOf(a, g)' = ScoresOf(a, g) /\ ValuesOf(b, g)' = ValuesOf(b, g)
        /\ Answered(a, g)' = Answered(a, g)
    BY SameJobs
  <2>3. /\ ScoresDue(g)' => ScoresOf(a, g)
        /\ ValuesDue(g)' => ValuesOf(b, g)
        /\ phase' = "values" /\ g = head' => Answered(a, g)
    BY <2>1
  <2>4. S(g)' = S(g) /\ V(g)' = V(g)
    BY DEF S, V
  <2>5. unit[S(g)]' = a /\ unit[V(g)]' = b
    BY <2>1, <2>4
  <2>6. /\ ScoresDue(g)' => ScoresOf(a, g)'
        /\ ValuesDue(g)' => ValuesOf(b, g)'
        /\ phase' = "values" /\ g = head' => Answered(a, g)'
    BY <2>2, <2>3
  <2> QED
    BY <2>5, <2>6 DEF ScoresOf, ValuesOf, Answered, JobIs
<1> QED
  BY <1>1, <1>2 DEF Flow

\* Where nothing is due.
LEMMA FlowIdle ==
  ASSUME phase' \notin {"ahead", "collect", "values", "behind", "last"},
         phase' = "scores" => got' \subseteq {"right"},
         phase' = "taken" => got' = {"right"}
  PROVE  Flow'
BY DEF Flow, ScoresDue, ValuesDue, AtWork

LEMMA FlowSubmitScores ==
  ASSUME Alike, NoticedInv, Flow, SubmitScores
  PROVE  Flow'
<1>1. /\ Submit(S(0), ScoreShape, ScoreOps(0), "ahead") /\ head' = 0
      /\ phase = "scores" /\ UNCHANGED <<rows, row, mmax, pos, layer, kv, vbuf, got>>
  BY DEF SubmitScores, ladderVars
<1>2. Kinds /\ G \in {1, 2} /\ 0 \in 0..(G - 1)
  BY Apart DEF NoticedInv
<1>3. HandlesRight' /\ phase' \in {"ahead", "cpu"}
  BY <1>1, <1>2, ScoresAsked
<1>4. CASE phase' = "cpu"
  BY <1>4, FlowIdle
<1>5. CASE phase' = "ahead"
  <2>1. PICK u \in Units : u = S(0)
    BY Handles
  <2>2. unit'[u] = Submitted(unit[u], ScoreShape, ScoreOps(0))
    BY <1>1, <1>5, <2>1 DEF Submit, FallBack, NoticedInv, BuffersInv, QueueInv
  <2>3. ScoresOf(unit'[S(0)], 0)
    BY <1>2, <1>3, <2>1, <2>2, ScoresIn
  <2>4. got' \subseteq {"right"}
    BY <1>1 DEF Flow, AtWork
  <2>5. ASSUME NEW g \in 0..(G - 1)
        PROVE  /\ ScoresDue(g)' => g = 0
               /\ ~ValuesDue(g)'
    BY <1>1, <1>2, <1>5 DEF ScoresDue, ValuesDue
  <2> QED
    BY <1>1, <1>2, <1>5, <2>3, <2>4, <2>5, FlowNext
<1> QED
  BY <1>3, <1>4, <1>5

LEMMA FlowSubmitAhead ==
  ASSUME Alike, NoticedInv, Flow, SubmitAhead
  PROVE  Flow'
<1>1. phase = "ahead" /\ UNCHANGED <<rows, row, mmax, pos, layer, kv, vbuf, got, head>>
  BY DEF SubmitAhead, ladderVars
<1>2. Kinds /\ G \in {1, 2} /\ head \in Nat /\ head < G
  BY <1>1, Apart DEF NoticedInv, Kinds, Flow
<1>3. got' \subseteq {"right"}
  BY <1>1 DEF Flow, AtWork
<1>4. CASE head + 1 < G
  <2>1. PICK x \in 0..(G - 1) : x = head + 1 /\ x # head /\ x \in Nat /\ x < G
    BY <1>2, <1>4
  <2>2. PICK u \in Units : u = S(x)
    BY Handles
  <2>3. Submit(S(x), ScoreShape, ScoreOps(x), "collect")
    BY <1>4, <2>1 DEF SubmitAhead
  <2>4. /\ HandlesRight' /\ phase' \in {"collect", "cpu"}
        /\ \A y \in Units : y # S(x) => unit'[y] = unit[y]
    BY <2>1, <2>3, ScoresAsked
  <2>5. CASE phase' = "cpu"
    BY <2>5, FlowIdle
  <2>6. CASE phase' = "collect"
    <3>1. unit'[u] = Submitted(unit[u], ScoreShape, ScoreOps(x))
      BY <2>2, <2>3, <2>6 DEF Submit, FallBack, NoticedInv, BuffersInv, QueueInv
    <3>2. ScoresOf(unit'[S(x)], x)
      BY <2>1, <2>2, <2>4, <3>1, ScoresIn
    <3>3. ASSUME NEW g \in 0..(G - 1)
          PROVE  /\ ScoresDue(g)' => ScoresOf(unit'[S(g)], g)
                 /\ ValuesDue(g)' => ValuesOf(unit'[V(g)], g)
      <4>1. ScoresDue(g)' => g = x \/ g = head
        BY <1>1, <2>1, <2>6 DEF ScoresDue
      <4>2. ValuesDue(g)' => ValuesDue(g)
        BY <1>1, <2>6 DEF ValuesDue
      <4>3. g = head => ScoresOf(unit[S(g)], g) /\ S(g) # S(x)
        BY <1>1, <1>2, <2>1, Apart DEF Flow, ScoresDue
      <4>4. ValuesDue(g) => ValuesOf(unit[V(g)], g)
        BY DEF Flow
      <4>5. S(g) \in Units /\ V(g) \in Units /\ V(g) # S(x)
        BY Handles
      <4> QED
        BY <2>4, <3>2, <4>1, <4>2, <4>3, <4>4, <4>5
    <3> QED
      BY <1>1, <1>2, <1>3, <2>6, <3>3, FlowNext
  <2> QED
    BY <2>4, <2>5, <2>6
<1>5. CASE ~(head + 1 < G)
  <2>1. phase' = "collect" /\ unit' = unit
    BY <1>5 DEF SubmitAhead, unitVars
  <2>2. ASSUME NEW g \in 0..(G - 1)
        PROVE  /\ ScoresDue(g)' => ScoresDue(g)
               /\ ValuesDue(g)' => ValuesDue(g)
    BY <1>1, <1>2, <1>5, <2>1 DEF ScoresDue, ValuesDue
  <2>3. ASSUME NEW g \in 0..(G - 1)
        PROVE  /\ ScoresDue(g)' => ScoresOf(unit'[S(g)], g)
               /\ ValuesDue(g)' => ValuesOf(unit'[V(g)], g)
    BY <2>1, <2>2 DEF Flow
  <2> QED
    BY <1>1, <1>2, <1>3, <2>1, <2>3, FlowNext
<1> QED
  BY <1>4, <1>5

\* A wait changes its handle only, and keeps what the job wrote.
LEMMA WaitKeeps ==
  ASSUME NoticedInv, NEW u \in Units, NEW borrow, NEW next, Wait(u, borrow, next)
  PROVE  /\ unit'[u].out = unit[u].out
         /\ \A y \in Units : y # u => unit'[y] = unit[y]
         /\ phase' = IF Bad(unit[u]) THEN "cpu" ELSE next
<1>1. PICK f : f = unit[u] /\ DOMAIN f = Fields
  BY DEF NoticedInv, BuffersInv, QueueInv
<1>a. PICK w : w = Waited(f, borrow)
  OBVIOUS
<1>2. w.out = f.out
  BY <1>1, <1>a DEF Waited, Fields
<1>3. unit' = [unit EXCEPT ![u] = w]
  BY <1>1, <1>a DEF Wait
<1>4. unit'[u] = w /\ \A y \in Units : y # u => unit'[y] = unit[y]
  BY <1>3 DEF NoticedInv, BuffersInv, QueueInv
<1> QED
  BY <1>1, <1>2, <1>4 DEF Wait

\* A job that left no sentinel has written every answer.
LEMMA NotBad ==
  ASSUME NEW f, NEW g, NEW shape, JobIs(f, g, shape), ~Bad(f)
  PROVE  Answered(f, g)
BY DEF JobIs, Bad, Answered

LEMMA FlowCollectScores ==
  ASSUME NoticedInv, Flow, CollectScores
  PROVE  Flow'
<1>1. /\ phase = "collect" /\ Wait(S(head), TRUE, "values")
      /\ UNCHANGED <<rows, row, mmax, pos, layer, kv, vbuf, got, head>>
  BY DEF CollectScores, ladderVars
<1>2. Kinds /\ G \in {1, 2} /\ head \in Nat /\ head < G /\ head \in 0..(G - 1)
  BY <1>1, Apart DEF NoticedInv, Kinds, Flow
<1>3. PICK u \in Units : u = S(head)
  BY Handles
<1>4. /\ unit'[u].out = unit[u].out
      /\ \A y \in Units : y # u => unit'[y] = unit[y]
      /\ phase' = IF Bad(unit[u]) THEN "cpu" ELSE "values"
  BY <1>1, <1>3, WaitKeeps
<1>5. CASE phase' = "cpu"
  BY <1>5, FlowIdle
<1>6. CASE phase' = "values"
  <2>1. ~Bad(unit[u])
    BY <1>4, <1>6
  <2>2. JobIs(unit[u], head, ScoreShape)
    BY <1>1, <1>2, <1>3 DEF Flow, ScoresDue, ScoresOf
  <2>3. Answered(unit'[u], head)
    BY <1>4, <2>1, <2>2, NotBad DEF Answered
  <2>4. ASSUME NEW g \in 0..(G - 1)
        PROVE  /\ ScoresDue(g)' => ScoresOf(unit'[S(g)], g)
               /\ ValuesDue(g)' => ValuesOf(unit'[V(g)], g)
               /\ phase' = "values" /\ g = head' => Answered(unit'[S(g)], g)
    <3>1. ScoresDue(g)' => g = head + 1 /\ ScoresDue(g)
      BY <1>1, <1>6 DEF ScoresDue
    <3>2. ValuesDue(g)' => ValuesDue(g)
      BY <1>1, <1>6 DEF ValuesDue
    <3>3. g = head + 1 => S(g) # S(head)
      BY <1>2, Apart
    <3>4. S(g) \in Units /\ V(g) \in Units /\ V(g) # S(head)
      BY Handles
    <3>5. /\ ScoresDue(g) => ScoresOf(unit[S(g)], g)
          /\ ValuesDue(g) => ValuesOf(unit[V(g)], g)
      BY DEF Flow
    <3>6. ScoresDue(g)' => unit'[S(g)] = unit[S(g)]
      BY <1>3, <1>4, <3>1, <3>3, <3>4
    <3>7. unit'[V(g)] = unit[V(g)]
      BY <1>3, <1>4, <3>4
    <3>8. g = head' => Answered(unit'[S(g)], g)
      BY <1>1, <1>3, <2>3
    <3> QED
      BY <3>1, <3>2, <3>5, <3>6, <3>7, <3>8
  <2>5. got' \subseteq {"right"}
    BY <1>1 DEF Flow, AtWork
  <2> QED
    BY <1>1, <1>2, <1>6, <2>4, <2>5, FlowNext
<1> QED
  BY <1>4, <1>5, <1>6

LEMMA FlowSubmitValues ==
  ASSUME NoticedInv, Flow, SubmitValues, HandlesRight'
  PROVE  Flow'
<1>1. phase = "values" /\ UNCHANGED <<rows, row, mmax, pos, layer, kv, vbuf, got, head>>
  BY DEF SubmitValues, ladderVars
<1>2. Kinds /\ G \in {1, 2} /\ head \in Nat /\ head < G /\ head \in 0..(G - 1)
  BY <1>1, Apart DEF NoticedInv, Kinds, Flow
<1>3. PICK v \in Units, u \in Units : v = V(head) /\ u = S(head) /\ v # u
  BY Handles
<1>4. phase' \in {"behind", "cpu"}
  BY DEF SubmitValues, FallBack
<1>5. CASE phase' = "cpu"
  BY <1>5, FlowIdle
<1>6. CASE phase' = "behind"
  <2>1. unit' = [unit EXCEPT ![v] = Submitted(@, ValueShape, ValueOps(head)),
                             ![u] = PoisonReleased(@)]
    BY <1>3, <1>6 DEF SubmitValues, FallBack
  <2>2. /\ unit'[v] = Submitted(unit[v], ValueShape, ValueOps(head))
        /\ \A y \in Units : y # v /\ y # u => unit'[y] = unit[y]
    BY <1>3, <2>1 DEF NoticedInv, BuffersInv, QueueInv
  <2>3. Answered(unit[S(head)], head)
    BY <1>1, <1>2 DEF Flow
  <2>4. ValuesOf(unit'[V(head)], head)
    BY <1>2, <1>3, <2>2, <2>3, ValuesIn
  <2>5. ASSUME NEW g \in 0..(G - 1)
        PROVE  /\ ScoresDue(g)' => ScoresOf(unit'[S(g)], g)
               /\ ValuesDue(g)' => ValuesOf(unit'[V(g)], g)
    <3>1. ScoresDue(g)' => g = head + 1 /\ ScoresDue(g)
      BY <1>1, <1>6 DEF ScoresDue
    <3>2. ValuesDue(g)' => g = head \/ (g = head - 1 /\ ValuesDue(g))
      BY <1>1, <1>6 DEF ValuesDue
    <3>3. /\ g = head + 1 => S(g) # S(head)
          /\ g = head - 1 => V(g) # V(head)
      BY <1>2, Apart
    <3>4. S(g) \in Units /\ V(g) \in Units /\ V(g) # S(head) /\ S(g) # V(head)
      BY Handles
    <3>5. /\ ScoresDue(g) => ScoresOf(unit[S(g)], g)
          /\ ValuesDue(g) => ValuesOf(unit[V(g)], g)
      BY DEF Flow
    <3>6. g = head + 1 => unit'[S(g)] = unit[S(g)]
      BY <1>3, <2>2, <3>3, <3>4
    <3>7. g = head - 1 => unit'[V(g)] = unit[V(g)]
      BY <1>3, <2>2, <3>3, <3>4
    <3> QED
      BY <2>4, <3>1, <3>2, <3>5, <3>6, <3>7
  <2>6. got' \subseteq {"right"}
    BY <1>1 DEF Flow, AtWork
  <2> QED
    BY <1>1, <1>2, <1>6, <2>5, <2>6, FlowNext
<1> QED
  BY <1>4, <1>5, <1>6

\* The answers taken are those of a job that is due.
LEMMA TakenRight ==
  ASSUME NoticedInv, NEW g \in 0..(G - 1), ValuesOf(unit[V(g)], g), got \subseteq {"right"},
         TakeAnswers(V(g))
  PROVE  /\ got' \subseteq {"right"}
         /\ ~Bad(unit[V(g)]) => got' = {"right"}
<1>1. PICK f : f = unit[V(g)] /\ JobIs(f, g, ValueShape)
  BY DEF ValuesOf
<1>2. PICK c \in Nat \ {0} : c = Count(g)
  BY GroupHeads DEF NoticedInv
<1>3. got' = got \cup ({f.out[i] : i \in DOMAIN f.out} \ {"poison"})
  BY <1>1 DEF TakeAnswers
<1>4. DOMAIN f.out = 1..c /\ 1 \in 1..c /\ \A i \in 1..c : f.out[i] \in {"poison", "right"}
  BY <1>1, <1>2 DEF JobIs
<1>5. got' \subseteq {"right"}
  BY <1>3, <1>4
<1>6. ~Bad(f) => f.out[1] = "right"
  BY <1>4 DEF Bad
<1> QED
  BY <1>1, <1>3, <1>4, <1>5, <1>6

LEMMA FlowCollectBehind ==
  ASSUME NoticedInv, Flow, CollectBehind
  PROVE  Flow'
<1>1. phase = "behind" /\ UNCHANGED <<rows, row, mmax, pos, layer, kv, vbuf>>
  BY DEF CollectBehind, ladderVars
<1>2. Kinds /\ G \in {1, 2} /\ head \in Nat /\ head < G /\ head \in 0..(G - 1)
  BY <1>1, Apart DEF NoticedInv, Kinds, Flow
<1>3. PICK next : next = IF head + 1 < G THEN "ahead" ELSE "last"
  OBVIOUS
<1>4. /\ got' \subseteq {"right"} /\ phase' \in {next, "cpu"}
      /\ \A y \in Units : (head > 0 /\ y = V(head - 1)) \/ unit'[y] = unit[y]
  <2>0. got \subseteq {"right"}
    BY <1>1 DEF Flow, AtWork
  <2>1. CASE head > 0
    <3>1. PICK x \in 0..(G - 1) : x = head - 1
      BY <1>2, <2>1
    <3>2. Wait(V(x), FALSE, next) /\ TakeAnswers(V(x))
      BY <1>3, <2>1, <3>1 DEF CollectBehind
    <3>3. ValuesOf(unit[V(x)], x)
      BY <1>1, <3>1 DEF Flow, ValuesDue
    <3>4. V(x) \in Units
      BY Handles
    <3>5. got' \subseteq {"right"}
      BY <2>0, <3>2, <3>3, TakenRight
    <3>6. /\ \A y \in Units : y # V(x) => unit'[y] = unit[y]
          /\ phase' = IF Bad(unit[V(x)]) THEN "cpu" ELSE next
      BY <3>2, <3>4, WaitKeeps
    <3> QED
      BY <2>1, <3>1, <3>5, <3>6
  <2>2. CASE ~(head > 0)
    BY <1>3, <2>0, <2>2 DEF CollectBehind, unitVars
  <2> QED
    BY <2>1, <2>2
<1>5. CASE phase' = "cpu"
  BY <1>5, FlowIdle
<1>6. CASE phase' = next /\ head + 1 < G
  <2>1. phase' = "ahead" /\ head' = head + 1
    BY <1>3, <1>6 DEF CollectBehind
  <2>2. ASSUME NEW g \in 0..(G - 1)
        PROVE  /\ ScoresDue(g)' => ScoresOf(unit'[S(g)], g)
               /\ ValuesDue(g)' => ValuesOf(unit'[V(g)], g)
    <3>1. ScoresDue(g)' => ScoresDue(g)
      BY <1>1, <2>1 DEF ScoresDue
    <3>2. ValuesDue(g)' => g = head /\ ValuesDue(g)
      BY <1>1, <1>2, <2>1 DEF ValuesDue
    <3>3. /\ ScoresDue(g) => ScoresOf(unit[S(g)], g)
          /\ ValuesDue(g) => ValuesOf(unit[V(g)], g)
      BY DEF Flow
    <3>4. S(g) \in Units /\ V(g) \in Units /\ S(g) # V(head - 1)
      BY Handles
    <3>5. g = head /\ head > 0 => V(g) # V(head - 1)
      BY <1>2, Apart
    <3>6. unit'[S(g)] = unit[S(g)] /\ (g = head => unit'[V(g)] = unit[V(g)])
      BY <1>4, <3>4, <3>5
    <3> QED
      BY <3>1, <3>2, <3>3, <3>6
  <2> QED
    BY <1>1, <1>4, <1>6, <2>1, <2>2, FlowNext
<1>7. CASE phase' = next /\ ~(head + 1 < G)
  <2>1. phase' = "last"
    BY <1>3, <1>7
  <2>2. ASSUME NEW g \in 0..(G - 1)
        PROVE  /\ ~ScoresDue(g)'
               /\ ValuesDue(g)' => ValuesOf(unit'[V(g)], g)
    <3>0. G' = G
      BY <1>1, SameJobs
    <3>1. ~ScoresDue(g)'
      BY <2>1 DEF ScoresDue
    <3>2. ValuesDue(g)' => g = head /\ ValuesDue(g)
      BY <1>1, <1>2, <1>7, <2>1, <3>0 DEF ValuesDue
    <3>3. ValuesDue(g) => ValuesOf(unit[V(g)], g)
      BY DEF Flow
    <3>5. g = head /\ head > 0 => V(g) # V(head - 1)
      BY <1>2, Apart
    <3>6. g = head => unit'[V(g)] = unit[V(g)]
      BY <1>4, <3>5, Handles
    <3> QED
      BY <3>1, <3>2, <3>3, <3>6
  <2> QED
    BY <1>1, <1>4, <2>1, <2>2, FlowNext
<1> QED
  BY <1>4, <1>5, <1>6, <1>7

LEMMA FlowCollectLast ==
  ASSUME NoticedInv, Flow, CollectLast
  PROVE  Flow'
<1>1. PICK x \in 0..(G - 1) : x = G - 1
  BY Apart DEF NoticedInv
<1>2. PICK next : next = IF row + M < rows THEN "scores" ELSE "taken"
  OBVIOUS
<1>3. Wait(V(x), FALSE, next) /\ TakeAnswers(V(x)) /\ phase = "last"
  BY <1>1, <1>2 DEF CollectLast
<1>4. ValuesOf(unit[V(x)], x) /\ got \subseteq {"right"}
  BY <1>1, <1>3 DEF Flow, ValuesDue, AtWork
<1>5. /\ got' \subseteq {"right"}
      /\ ~Bad(unit[V(x)]) => got' = {"right"}
  BY <1>3, <1>4, TakenRight
<1>6. phase' = IF Bad(unit[V(x)]) THEN "cpu" ELSE next
  BY <1>3 DEF Wait
<1>7. phase' \in {"cpu", "scores", "taken"} /\ (phase' = "taken" => got' = {"right"})
  BY <1>2, <1>5, <1>6
<1> QED
  BY <1>5, <1>7, FlowIdle

\* The hardware's part: it writes what the oldest job asks for.
LEMMA HardwareWrites ==
  ASSUME NoticedInv, Hardware
  PROVE  \E u \in Units : \E o :
            /\ unit[u].inflight
            /\ \E upto : o = Answers(u, Computes, upto)
            /\ unit' = [unit EXCEPT ![u].out = o]
<1>1. PICK q \in Seq(Units) : q = queue /\ q # <<>> /\ \A i \in DOMAIN q : unit[q[i]].inflight
  BY DEF NoticedInv, BuffersInv, QueueInv, Hardware, Run
<1>2. PICK u : u = Head(q) /\ u \in Units /\ unit[u].inflight
  <2>1. Head(q) = q[1] /\ 1 \in DOMAIN q /\ q[1] \in Units
    BY <1>1
  <2> QED
    BY <1>1, <2>1
<1>3. PICK upto : unit' = [unit EXCEPT ![u].out = Answers(u, Computes, upto)]
  BY <1>1, <1>2 DEF Hardware, Run
<1> QED
  BY <1>2, <1>3

\* A job that is due still is one when the hardware has written its answers.
LEMMA WrittenRight ==
  ASSUME NoticedInv, ReadyInv, AtWork, NEW u \in Units, NEW o, NEW upto,
         o = Answers(u, Computes, upto), NEW g \in 0..(G - 1),
         NEW f, NEW h, f = unit[u], DOMAIN f = Fields, h = [f EXCEPT !.out = o]
  PROVE  /\ u \in {"f", "f2"} /\ ScoresOf(f, g) => ScoresOf(h, g)
         /\ u \in {"fv", "fv2"} /\ ValuesOf(f, g) => ValuesOf(h, g)
<1>1. /\ h.out = o /\ h.inflight = f.inflight /\ h.shape = f.shape /\ h.sig = f.sig
      /\ h.ops = f.ops /\ h.in = f.in /\ h.wt = f.wt
  BY DEF Fields
<1>2. /\ DOMAIN o = DOMAIN f.out
      /\ \A i \in DOMAIN f.out : o[i] = f.out[i] \/ o[i] = (IF Computes(u, i) THEN "right" ELSE "wrong")
  BY DEF Answers
<1>3. ASSUME NEW shape, JobIs(f, g, shape), \A i \in 1..Count(g) : Computes(u, i)
      PROVE  JobIs(h, g, shape)
  <2>1. \A i \in 1..Count(g) : o[i] \in {"poison", "right"}
    BY <1>2, <1>3 DEF JobIs
  <2> QED
    BY <1>1, <1>2, <1>3, <2>1 DEF JobIs
<1>4. u \in {"f", "f2"} /\ ScoresOf(f, g) => ScoresOf(h, g)
  <2> SUFFICES ASSUME u \in {"f", "f2"}, ScoresOf(f, g) PROVE ScoresOf(h, g)
    OBVIOUS
  <2>1. \A i \in 1..Count(g) : Computes(u, i)
    BY ComputesRight
  <2>2. JobIs(h, g, ScoreShape)
    BY <1>3, <2>1 DEF ScoresOf
  <2> QED
    BY <1>1, <2>2 DEF ScoresOf
<1>5. u \in {"fv", "fv2"} /\ ValuesOf(f, g) => ValuesOf(h, g)
  <2> SUFFICES ASSUME u \in {"fv", "fv2"}, ValuesOf(f, g) PROVE ValuesOf(h, g)
    OBVIOUS
  <2>1. \A i \in 1..Count(g) : Computes(u, i)
    BY ComputesRight
  <2>2. JobIs(h, g, ValueShape)
    BY <1>3, <2>1 DEF ValuesOf
  <2> QED
    BY <1>1, <2>2 DEF ValuesOf
<1> QED
  BY <1>4, <1>5

LEMMA FlowHardware ==
  ASSUME NoticedInv, ReadyInv, Flow, Hardware
  PROVE  Flow'
<1>1. UNCHANGED <<rows, row, mmax, pos, layer, kv, vbuf, got, head, phase>>
  BY DEF Hardware, ladderVars, threadVars
<1>2. CASE ~AtWork
  BY <1>1, <1>2, FlowIdle DEF AtWork, Flow
<1>3. CASE AtWork
  <2>1. PICK u \in Units : \E o : /\ unit[u].inflight
                                  /\ \E upto : o = Answers(u, Computes, upto)
                                  /\ unit' = [unit EXCEPT ![u].out = o]
    BY HardwareWrites
  <2>2. PICK o : /\ unit[u].inflight
                 /\ \E upto : o = Answers(u, Computes, upto)
                 /\ unit' = [unit EXCEPT ![u].out = o]
    BY <2>1
  <2>3. PICK upto : o = Answers(u, Computes, upto)
    BY <2>2
  <2>4. PICK f, h : f = unit[u] /\ DOMAIN f = Fields /\ h = [f EXCEPT !.out = o]
    BY DEF NoticedInv, BuffersInv, QueueInv
  <2>5. unit'[u] = h /\ \A y \in Units : y # u => unit'[y] = unit[y]
    BY <2>2, <2>4 DEF NoticedInv, BuffersInv, QueueInv
  <2>6. ASSUME NEW g \in 0..(G - 1)
        PROVE  /\ ScoresDue(g)' => ScoresOf(unit'[S(g)], g)
               /\ ValuesDue(g)' => ValuesOf(unit'[V(g)], g)
               /\ phase' = "values" /\ g = head' => Answered(unit'[S(g)], g)
    <3>1. /\ ScoresDue(g)' => ScoresOf(unit[S(g)], g)
          /\ ValuesDue(g)' => ValuesOf(unit[V(g)], g)
          /\ phase' = "values" /\ g = head' => Answered(unit[S(g)], g)
      <4>1. G' = G
        BY <1>1, SameJobs
      <4> QED
        BY <1>1, <4>1 DEF Flow, ScoresDue, ValuesDue
    <3>2. S(g) \in {"f", "f2"} /\ V(g) \in {"fv", "fv2"} /\ S(g) \in Units /\ V(g) \in Units
      BY Handles
    <3>3. /\ u \in {"f", "f2"} /\ ScoresOf(f, g) => ScoresOf(h, g)
          /\ u \in {"fv", "fv2"} /\ ValuesOf(f, g) => ValuesOf(h, g)
      BY <1>3, <2>3, <2>4, WrittenRight
    <3>4. ScoresOf(unit[S(g)], g) => ScoresOf(unit'[S(g)], g)
      BY <2>4, <2>5, <3>2, <3>3
    <3>5. ValuesOf(unit[V(g)], g) => ValuesOf(unit'[V(g)], g)
      BY <2>4, <2>5, <3>2, <3>3
    <3>6. phase' = "values" /\ g = head' => unit'[S(g)] = unit[S(g)]
      <4>1. phase' = "values" /\ g = head' => ~unit[S(g)].inflight
        BY <1>1 DEF NoticedInv, BuffersInv
      <4> QED
        BY <2>2, <2>5, <3>2, <4>1
    <3> QED
      BY <3>1, <3>4, <3>5, <3>6
  <2>7. got' \subseteq {"right"} /\ phase' # "taken"
    BY <1>1, <1>3 DEF Flow, AtWork
  <2>8. phase' \in {"ahead", "collect", "values", "behind"} => head' < G
    BY <1>1 DEF Flow
  <2> QED
    BY <1>1, <2>6, <2>7, <2>8, FlowNext
<1> QED
  BY <1>2, <1>3

\* What every step keeps.
RightInv == NoticedInv /\ RowsInv /\ SurfacesInv /\ MirrorInv /\ ReadyInv /\ Flow

LEMMA FlowStep ==
  ASSUME Alike, NoticedInv, ReadyInv, Flow, [Next]_vars
  PROVE  Flow'
<1>1. CASE \/ \E len \in Lens : NewTurn(len)
           \/ NewChunk \/ AppendRow \/ Attend \/ LayerOver
  <2>1. phase' \in {"idle", "append", "attend", "cpu"} \/ (phase' = "scores" /\ got' = {})
    <3>1. CASE \E len \in Lens : NewTurn(len)
      BY <3>1 DEF NewTurn
    <3>2. CASE NewChunk \/ AppendRow
      BY <3>2 DEF NewChunk, AppendRow
    <3>3. CASE Attend
      BY <3>3 DEF Attend
    <3>4. CASE LayerOver
      BY <3>4 DEF LayerOver, NextLayer, ChunkOver
    <3> QED
      BY <1>1, <3>1, <3>2, <3>3, <3>4
  <2> QED
    BY <2>1, FlowIdle
<1>2. CASE MemoryFreed \/ UNCHANGED vars
  <2>1. UNCHANGED <<rows, row, mmax, pos, layer, kv, vbuf, got, head, phase, unit>>
    BY <1>2 DEF MemoryFreed, vars, unitVars, ladderVars, threadVars
  <2>2. CASE AtWork
    <3>1. G' = G
      BY <2>1, SameJobs
    <3>2. \A g \in 0..(G - 1) :
             /\ ScoresDue(g)' => ScoresOf(unit'[S(g)], g)
             /\ ValuesDue(g)' => ValuesOf(unit'[V(g)], g)
             /\ phase' = "values" /\ g = head' => Answered(unit'[S(g)], g)
      BY <2>1, <3>1 DEF Flow, ScoresDue, ValuesDue
    <3>3. /\ got' \subseteq {"right"} /\ phase' # "taken"
          /\ phase' \in {"ahead", "collect", "values", "behind"} => head' < G
      BY <2>1, <2>2 DEF Flow, AtWork
    <3> QED
      BY <2>1, <3>2, <3>3, FlowNext
  <2>3. CASE ~AtWork
    BY <2>1, <2>3, FlowIdle DEF AtWork, Flow
  <2> QED
    BY <2>2, <2>3
<1>3. CASE SubmitScores
  BY <1>3, FlowSubmitScores
<1>4. CASE SubmitAhead
  BY <1>4, FlowSubmitAhead
<1>5. CASE CollectScores
  BY <1>5, FlowCollectScores
<1>6. CASE SubmitValues
  <2>1. HandlesRight'
    BY <1>6, ValuesAsked
  <2> QED
    BY <1>6, <2>1, FlowSubmitValues
<1>7. CASE CollectBehind
  BY <1>7, FlowCollectBehind
<1>8. CASE CollectLast
  BY <1>8, FlowCollectLast
<1>9. CASE Hardware
  BY <1>9, FlowHardware
<1> QED
  BY <1>1, <1>2, <1>3, <1>4, <1>5, <1>6, <1>7, <1>8, <1>9 DEF Next, Thread

-----------------------------------------------------------------------------
(* AttentionRight when memory comes back only between the turns.           *)

\* A sum over the surfaces, as it is folded: of any set of them.
Adds(g, f) ==
    g = [s \in SUBSET Surfaces |->
           IF s = {} THEN 0
           ELSE f[CHOOSE x \in s : TRUE] + g[s \ {CHOOSE x \in s : TRUE}]]
Small(n) == {s \in SUBSET Surfaces : Cardinality(s) <= n}
AddsSmall(g, f, n) ==
    g = [s \in Small(n) |->
           IF s = {} THEN 0
           ELSE f[CHOOSE x \in s : TRUE] + g[s \ {CHOOSE x \in s : TRUE}]]

\* A set without one of its surfaces is smaller.
LEMMA Smaller ==
  ASSUME NEW s \in SUBSET Surfaces
  PROVE  /\ IsFiniteSet(s) /\ Cardinality(s) \in Nat /\ Cardinality(s) <= Cardinality(Surfaces)
         /\ Cardinality(Surfaces) \in Nat
         /\ Cardinality(s) = 0 <=> s = {}
         /\ s # {} => /\ (CHOOSE x \in s : TRUE) \in s
                      /\ s \ {CHOOSE x \in s : TRUE} \in SUBSET Surfaces
                      /\ Cardinality(s \ {CHOOSE x \in s : TRUE}) = Cardinality(s) - 1
<1>1. PICK last \in Int : last = Layers * NKv - 1
  <2>1. PICK a \in Nat, b \in Nat : a = Layers /\ b = NKv
    BY LadderAssumption
  <2> QED
    BY <2>1
<1>2. IsFiniteSet(Surfaces)
  BY <1>1, FS_Interval DEF Surfaces
<1>3. IsFiniteSet(s) /\ Cardinality(s) <= Cardinality(Surfaces)
  BY <1>2, FS_Subset
<1>4. Cardinality(s) \in Nat /\ Cardinality(Surfaces) \in Nat
  BY <1>2, <1>3, FS_CardinalityType
<1>5. Cardinality(s) = 0 <=> s = {}
  BY <1>3, FS_EmptySet
<1>6. ASSUME s # {}
      PROVE  /\ (CHOOSE x \in s : TRUE) \in s
             /\ s \ {CHOOSE x \in s : TRUE} \in SUBSET Surfaces
             /\ Cardinality(s \ {CHOOSE x \in s : TRUE}) = Cardinality(s) - 1
  <2>1. PICK c : c = CHOOSE x \in s : TRUE
    OBVIOUS
  <2>2. c \in s
    BY <1>6, <2>1
  <2>3. Cardinality(s \ {c}) = Cardinality(s) - 1
    BY <1>3, <2>2, FS_RemoveElement
  <2> QED
    BY <2>1, <2>2, <2>3
<1> QED
  BY <1>3, <1>4, <1>5, <1>6

\* There is such a fold: one of small sets, and of sets one surface larger.
LEMMA AddsExist ==
  ASSUME NEW f
  PROVE  \E g : Adds(g, f)
<1>1. PICK last \in Nat : last = Cardinality(Surfaces)
  BY Smaller
<1>2. PICK Ds : Ds = {d \in 0..last : \E g : AddsSmall(g, f, last - d)}
  OBVIOUS
<1>3. last \in Ds
  <2>1. PICK g : g = [s \in Small(0) |-> 0]
    OBVIOUS
  <2>2. ASSUME NEW s \in Small(0)
        PROVE  s = {}
    <3>1. s \in SUBSET Surfaces /\ Cardinality(s) <= 0
      BY DEF Small
    <3>2. PICK n \in Nat : n = Cardinality(s) /\ (n = 0 => s = {})
      BY <3>1, Smaller
    <3> QED
      BY <3>1, <3>2
  <2>3. AddsSmall(g, f, 0)
    <3>1. PICK h : h = [s \in Small(0) |->
                          IF s = {} THEN 0
                          ELSE f[CHOOSE x \in s : TRUE] + g[s \ {CHOOSE x \in s : TRUE}]]
      OBVIOUS
    <3>2. g = h
      BY <2>1, <2>2, <3>1
    <3> QED
      BY <3>1, <3>2 DEF AddsSmall
  <2>4. last - last = 0
    OBVIOUS
  <2> QED
    BY <1>2, <2>3, <2>4
<1>4. ASSUME NEW d \in Ds, d > 0
      PROVE  d - 1 \in Ds
  <2>1. PICK g : d \in 0..last /\ AddsSmall(g, f, last - d)
    BY <1>2
  <2>2. PICK e \in 0..last, n \in Nat : e = d - 1 /\ n = last - d /\ n + 1 = last - e
    BY <1>4, <2>1
  <2>3. PICK h : h = [s \in Small(n + 1) |->
                        IF s \in Small(n) THEN g[s]
                        ELSE f[CHOOSE x \in s : TRUE] + g[s \ {CHOOSE x \in s : TRUE}]]
    OBVIOUS
  <2>4. ASSUME NEW s \in Small(n + 1)
        PROVE  h[s] = IF s = {} THEN 0
                      ELSE f[CHOOSE x \in s : TRUE] + h[s \ {CHOOSE x \in s : TRUE}]
    <3>1. s \in SUBSET Surfaces /\ Cardinality(s) <= n + 1
      BY DEF Small
    <3>2. CASE s = {}
      <4>1. s \in Small(n)
        BY <2>2, <3>1, <3>2, Smaller DEF Small
      <4> QED
        BY <2>1, <2>2, <2>3, <3>2, <4>1 DEF AddsSmall
    <3>3. CASE s # {}
      <4>1. PICK c, r : /\ c = CHOOSE x \in s : TRUE
                        /\ r = s \ {CHOOSE x \in s : TRUE}
                        /\ r \in SUBSET Surfaces /\ Cardinality(r) = Cardinality(s) - 1
        BY <3>1, <3>3, Smaller
      <4>2. Cardinality(s) \in Nat
        BY <3>1, Smaller
      <4>3. r \in Small(n) /\ r \in Small(n + 1)
        BY <3>1, <4>1, <4>2 DEF Small
      <4>4. h[r] = g[r]
        BY <2>3, <4>3
      <4>5. h[s] = f[c] + g[r]
        BY <2>1, <2>2, <2>3, <3>3, <4>1 DEF AddsSmall
      <4> QED
        BY <3>3, <4>1, <4>4, <4>5
    <3> QED
      BY <3>2, <3>3
  <2>5. AddsSmall(h, f, last - e)
    <3>1. PICK k : k = [s \in Small(n + 1) |->
                          IF s = {} THEN 0
                          ELSE f[CHOOSE x \in s : TRUE] + h[s \ {CHOOSE x \in s : TRUE}]]
      OBVIOUS
    <3>2. \A s \in Small(n + 1) : h[s] = k[s]
      <4> SUFFICES ASSUME NEW s \in Small(n + 1) PROVE h[s] = k[s]
        OBVIOUS
      <4>1. k[s] = IF s = {} THEN 0
                   ELSE f[CHOOSE x \in s : TRUE] + h[s \ {CHOOSE x \in s : TRUE}]
        BY <3>1
      <4> QED
        BY <2>4, <4>1
    <3>3. h = k
      BY <2>3, <3>1, <3>2
    <3> QED
      BY <2>2, <3>1, <3>3 DEF AddsSmall
  <2> QED
    BY <1>2, <2>2, <2>5
<1>5. 0 \in Ds
  BY <1>2, <1>3, <1>4, Descent
<1>6. PICK g : AddsSmall(g, f, last)
  BY <1>2, <1>5
<1>7. Small(last) = SUBSET Surfaces
  BY <1>1, Smaller DEF Small
<1> QED
  BY <1>6, <1>7 DEF Adds, AddsSmall

\* Two such folds agree, and of numbers they are numbers.
LEMMA AddsAgree ==
  ASSUME NEW f \in [Surfaces -> Int], NEW g, Adds(g, f), NEW h, Adds(h, f)
  PROVE  g[Surfaces] = h[Surfaces] /\ g[Surfaces] \in Int
<1>1. PICK last \in Nat : last = Cardinality(Surfaces)
  BY Smaller
<1>2. PICK Ds : Ds = {d \in 0..last : \A s \in Small(last - d) : g[s] = h[s] /\ g[s] \in Int}
  OBVIOUS
<1>3. ASSUME NEW s \in SUBSET Surfaces
      PROVE  /\ g[s] = IF s = {} THEN 0
                       ELSE f[CHOOSE x \in s : TRUE] + g[s \ {CHOOSE x \in s : TRUE}]
             /\ h[s] = IF s = {} THEN 0
                       ELSE f[CHOOSE x \in s : TRUE] + h[s \ {CHOOSE x \in s : TRUE}]
  BY DEF Adds
<1>4. last \in Ds
  <2>1. ASSUME NEW s \in Small(0)
        PROVE  g[s] = h[s] /\ g[s] \in Int
    <3>1. s \in SUBSET Surfaces /\ Cardinality(s) <= 0
      BY DEF Small
    <3>2. PICK n \in Nat : n = Cardinality(s) /\ (n = 0 => s = {})
      BY <3>1, Smaller
    <3>3. s = {}
      BY <3>1, <3>2
    <3>4. g[s] = 0 /\ h[s] = 0
      BY <1>3, <3>1, <3>3
    <3> QED
      BY <3>4
  <2>2. last - last = 0
    OBVIOUS
  <2> QED
    BY <1>2, <2>1, <2>2
<1>5. ASSUME NEW d \in Ds, d > 0
      PROVE  d - 1 \in Ds
  <2>1. PICK e \in 0..last, n \in Nat : e = d - 1 /\ n = last - d /\ n + 1 = last - e
    BY <1>2, <1>5
  <2>2. \A s \in Small(n) : g[s] = h[s] /\ g[s] \in Int
    BY <1>2, <2>1
  <2>3. ASSUME NEW s \in Small(n + 1)
        PROVE  g[s] = h[s] /\ g[s] \in Int
    <3>1. s \in SUBSET Surfaces /\ Cardinality(s) <= n + 1
      BY DEF Small
    <3>2. CASE s = {}
      BY <1>3, <3>1, <3>2
    <3>3. CASE s # {}
      <4>1. PICK c, r : /\ c = CHOOSE x \in s : TRUE
                        /\ r = s \ {CHOOSE x \in s : TRUE} /\ c \in Surfaces
                        /\ r \in SUBSET Surfaces /\ Cardinality(r) = Cardinality(s) - 1
        BY <3>1, <3>3, Smaller
      <4>2. Cardinality(s) \in Nat
        BY <3>1, Smaller
      <4>3. r \in Small(n)
        BY <3>1, <4>1, <4>2 DEF Small
      <4>4. g[r] = h[r] /\ g[r] \in Int /\ f[c] \in Int
        BY <2>2, <4>1, <4>3
      <4>5. g[s] = f[c] + g[r] /\ h[s] = f[c] + h[r]
        BY <1>3, <3>1, <3>3, <4>1
      <4> QED
        BY <4>4, <4>5
    <3> QED
      BY <3>2, <3>3
  <2> QED
    BY <1>2, <2>1, <2>3
<1>6. 0 \in Ds
  BY <1>2, <1>4, <1>5, Descent
<1>7. Surfaces \in Small(last)
  BY <1>1 DEF Small
<1> QED
  BY <1>2, <1>6, <1>7

\* The sum of a function of the surfaces, and of an expression that is equal to it.
Sum(f) == MapThenSumSet(LAMBDA j : f[j], Surfaces)

LEMMA SumAdds ==
  ASSUME NEW f \in [Surfaces -> Int]
  PROVE  Sum(f) \in Int /\ \A g : Adds(g, f) => g[Surfaces] = Sum(f)
<1>1. PICK k : k = CHOOSE g : Adds(g, f)
  OBVIOUS
<1>2. Adds(k, f)
  BY <1>1, AddsExist
<1>3. Sum(f) = k[Surfaces]
  BY <1>1 DEF Sum, Adds, MapThenSumSet, MapThenFoldSet
<1> QED
  BY <1>2, <1>3, AddsAgree

\* What attn_npu_fit asks of the memory before it allocates surface i, by surface.
Rooms(b) == [j \in Surfaces |-> b[j].room]
Demand(b, to, copied, i) ==
    [j \in Surfaces |->
       IF j < i /\ ~(copied /\ b[j].room >= to) THEN RoomFor(to) ELSE b[j].room]
DemandSum(b, to, copied, i) ==
    MapThenSumSet(LAMBDA j : IF j < i /\ ~(copied /\ b[j].room >= to)
                             THEN RoomFor(to) ELSE b[j].room, Surfaces)

LEMMA DemandSums ==
  ASSUME NEW b, NEW to, NEW copied, NEW i,
         Demand(b, to, copied, i) \in [Surfaces -> Int]
  PROVE  DemandSum(b, to, copied, i) = Sum(Demand(b, to, copied, i))
<1>1. PICK f \in [Surfaces -> Int] : f = Demand(b, to, copied, i)
  OBVIOUS
<1> DEFINE Same(g) ==
      g = [s \in SUBSET Surfaces |->
             IF s = {} THEN 0
             ELSE (IF (CHOOSE x \in s : TRUE) < i
                      /\ ~(copied /\ b[CHOOSE x \in s : TRUE].room >= to)
                   THEN RoomFor(to) ELSE b[CHOOSE x \in s : TRUE].room)
                  + g[s \ {CHOOSE x \in s : TRUE}]]
<1>2. ASSUME NEW s \in SUBSET Surfaces, s # {}
      PROVE  f[CHOOSE x \in s : TRUE] =
               IF (CHOOSE x \in s : TRUE) < i
                  /\ ~(copied /\ b[CHOOSE x \in s : TRUE].room >= to)
               THEN RoomFor(to) ELSE b[CHOOSE x \in s : TRUE].room
  <2>1. PICK c \in Surfaces : c = CHOOSE x \in s : TRUE
    BY <1>2, Smaller
  <2>2. f[c] = IF c < i /\ ~(copied /\ b[c].room >= to) THEN RoomFor(to) ELSE b[c].room
    BY <1>1 DEF Demand
  <2> QED
    BY <2>1, <2>2
<1>3. ASSUME NEW g
      PROVE  Same(g) <=> Adds(g, f)
  <2>1. PICK h, k : /\ h = [s \in SUBSET Surfaces |->
                              IF s = {} THEN 0
                              ELSE (IF (CHOOSE x \in s : TRUE) < i
                                       /\ ~(copied /\ b[CHOOSE x \in s : TRUE].room >= to)
                                    THEN RoomFor(to) ELSE b[CHOOSE x \in s : TRUE].room)
                                   + g[s \ {CHOOSE x \in s : TRUE}]]
                    /\ k = [s \in SUBSET Surfaces |->
                              IF s = {} THEN 0
                              ELSE f[CHOOSE x \in s : TRUE] + g[s \ {CHOOSE x \in s : TRUE}]]
    OBVIOUS
  <2>2. h = k
    BY <1>2, <2>1
  <2> QED
    BY <2>1, <2>2 DEF Adds
<1>4. PICK k : k = CHOOSE g : Same(g)
  OBVIOUS
<1>5. PICK g : Adds(g, f)
  BY AddsExist
<1>6. Same(g)
  BY <1>3, <1>5
<1>7. Adds(k, f)
  <2> HIDE DEF Same
  <2>1. Same(k)
    BY <1>4, <1>6
  <2> QED
    BY <1>3, <2>1
<1>8. DemandSum(b, to, copied, i) = k[Surfaces]
  BY <1>4 DEF DemandSum, MapThenSumSet, MapThenFoldSet
<1> QED
  BY <1>1, <1>7, <1>8, SumAdds

\* The surfaces that there is no memory for when the mirror grows to hold a row.
Copied(want) == copy /\ Regrows(kv, ClimbTo(want), want - 1)
Stays(b, want, i) == Copied(want) /\ b[i].room >= ClimbTo(want)
NoRoom(b, want) ==
    {i \in Surfaces : /\ ~Stays(b, want, i)
                      /\ DemandSum(b, ClimbTo(want), Copied(want), i)
                            + RoomFor(ClimbTo(want)) > memory}

\* The rooms that a growth leaves.
LEMMA FittedRooms ==
  ASSUME NEW b, \A i \in Surfaces : VSurface(b[i]), NEW want
  PROVE  /\ Fitted(b, want).failed = (NoRoom(b, want) # {})
         /\ \A i \in Surfaces :
               Fitted(b, want).bufs[i].room =
                  IF (\E x \in NoRoom(b, want) : x <= i) \/ Stays(b, want, i)
                  THEN b[i].room ELSE RoomFor(ClimbTo(want))
<1> DEFINE to == ClimbTo(want)
           live == want - 1
           copied == copy /\ Regrows(kv, to, live)
           stays(i) == copied /\ b[i].room >= to
           used(i) == MapThenSumSet(
                        LAMBDA j : IF j < i /\ ~stays(j) THEN RoomFor(to) ELSE b[j].room,
                        Surfaces)
           fails == {i \in Surfaces : ~stays(i) /\ used(i) + RoomFor(to) > memory}
           before(i) == {j \in Surfaces : j < i /\ ~stays(j)}
           addr(i) == IF before(i) = {} THEN NewAddr(b) ELSE b[Max(before(i))].addr
           columns(i) == IF copied THEN Regrown(b[i], kv, to, live).col
                         ELSE [p \in Places |->
                                 IF fails = {} /\ p < live THEN FloatTag(LayerOf(i), p)
                                 ELSE "none"]
<1>1. Fitted(b, want) =
        [bufs |-> [i \in Surfaces |->
            IF \E f \in fails : f <= i THEN b[i]
            ELSE IF stays(i) THEN [Regrown(b[i], kv, to, live) EXCEPT !.k = to]
            ELSE [Fresh(addr(i), to, RoomFor(to)) EXCEPT !.col = columns(i)]],
         kv |-> IF fails = {} THEN to ELSE kv,
         failed |-> fails # {}]
  BY DEF Fitted
<1>2. fails = NoRoom(b, want)
  BY DEF NoRoom, Stays, Copied, DemandSum
<1>3. \A i \in Surfaces : stays(i) <=> Stays(b, want, i)
  BY DEF Stays, Copied
<1> HIDE DEF fails, addr, stays, columns
<1>4. /\ Fitted(b, want).failed = (fails # {})
      /\ \A i \in Surfaces :
            Fitted(b, want).bufs[i] =
               IF \E x \in fails : x <= i THEN b[i]
               ELSE IF stays(i) THEN [Regrown(b[i], kv, to, live) EXCEPT !.k = to]
               ELSE [Fresh(addr(i), to, RoomFor(to)) EXCEPT !.col = columns(i)]
  BY <1>1
<1> HIDE DEF to, live
<1>5. ASSUME NEW i \in Surfaces
      PROVE  Fitted(b, want).bufs[i].room =
                IF (\E x \in fails : x <= i) \/ stays(i) THEN b[i].room ELSE RoomFor(to)
  <2>1. PICK s, o : s = Fitted(b, want).bufs[i] /\ o = b[i] /\ VSurface(o)
    OBVIOUS
  <2>2. CASE \E x \in fails : x <= i
    BY <1>4, <2>2
  <2>3. CASE ~(\E x \in fails : x <= i) /\ stays(i)
    <3>1. PICK g : g = Regrown(o, kv, to, live)
      OBVIOUS
    <3>2. DOMAIN g = DOMAIN o /\ g.room = o.room
      BY <2>1, <3>1 DEF Regrown, VSurface
    <3>3. s = [g EXCEPT !.k = to]
      BY <1>4, <2>1, <2>3, <3>1
    <3>4. s.room = o.room
      BY <2>1, <3>2, <3>3 DEF VSurface
    <3> QED
      BY <2>1, <2>3, <3>4
  <2>4. CASE ~(\E x \in fails : x <= i) /\ ~stays(i)
    <3>1. PICK a, room, c : a = addr(i) /\ room = RoomFor(to) /\ c = columns(i)
      OBVIOUS
    <3>2. s = [Fresh(a, to, room) EXCEPT !.col = c]
      BY <1>4, <2>1, <2>4, <3>1
    <3>3. s.room = room
      BY <3>2 DEF Fresh
    <3> QED
      BY <2>1, <2>4, <3>1, <3>3
  <2> QED
    BY <2>2, <2>3, <2>4
<1> QED
  BY <1>2, <1>3, <1>4, <1>5 DEF to

\* Of some surfaces, the first.
LEMMA FirstOf ==
  ASSUME NEW some \in SUBSET Surfaces, some # {}
  PROVE  \E x \in some : \A y \in some : x <= y
<1>1. some \subseteq Nat
  BY DEF Surfaces
<1>2. PICK x \in some : \A y \in some : ~(<<y, x>> \in OpToRel(<, Nat))
  BY <1>1, NatLessThanWellFounded, WFMin
<1>3. ASSUME NEW y \in some
      PROVE  x <= y
  <2>1. x \in Nat /\ y \in Nat
    BY <1>1
  <2>2. ~(y < x)
    BY <1>2, <2>1 DEF OpToRel
  <2> QED
    BY <2>1, <2>2
<1> QED
  BY <1>3

\* What is short when a growth to some extent fails: the memory for one surface
\* more, when there is one that has not the room.
Wanting(b, to) ==
    /\ Sum(Rooms(b)) + RoomFor(to) > memory
    /\ \E i \in Surfaces : ~(copy /\ b[i].room >= to)
Sized(b) == \A i \in Surfaces : VSurface(b[i]) /\ b[i].room \in Int

\* Rooms are numbers before and after.
LEMMA RoomsStay ==
  ASSUME NEW b, Sized(b), NEW want, RoomFor(ClimbTo(want)) \in Int
  PROVE  /\ \A i \in Surfaces : Fitted(b, want).bufs[i].room \in Int
         /\ \A i : Demand(b, ClimbTo(want), Copied(want), i) \in [Surfaces -> Int]
         /\ Rooms(b) \in [Surfaces -> Int]
  BY FittedRooms DEF Sized, Demand, Rooms

\* The first row of a turn that is refused: every surface before the one that
\* failed has what it asked for, so the demand is what there is and one more.
LEMMA FirstRefusal ==
  ASSUME NEW b, Sized(b), NEW want, RoomFor(ClimbTo(want)) \in Int, Fitted(b, want).failed,
         Copied(want) <=> copy
  PROVE  Wanting(Fitted(b, want).bufs, ClimbTo(want))
<1>1. PICK n, to, room : n = Fitted(b, want).bufs /\ to = ClimbTo(want) /\ room = RoomFor(to)
  OBVIOUS
<1>2. PICK rs : rs = NoRoom(b, want) /\ rs # {} /\ rs \subseteq Surfaces
  BY FittedRooms DEF Sized, NoRoom
<1>3. PICK x \in rs : \A y \in rs : x <= y
  BY <1>2, FirstOf
<1>4. x \in Surfaces /\ ~Stays(b, want, x) /\ DemandSum(b, to, Copied(want), x) + room > memory
  BY <1>1, <1>2 DEF NoRoom
<1>5. Surfaces \subseteq Int
  BY DEF Surfaces
<1>6. ASSUME NEW j \in Surfaces
      PROVE  n[j].room = IF j < x /\ ~Stays(b, want, j) THEN room ELSE b[j].room
  <2>1. n[j].room = IF (\E y \in rs : y <= j) \/ Stays(b, want, j) THEN b[j].room ELSE room
    BY <1>1, <1>2, FittedRooms DEF Sized
  <2>2. (\E y \in rs : y <= j) <=> ~(j < x)
    BY <1>2, <1>3, <1>5
  <2> QED
    BY <2>1, <2>2
<1>7. Rooms(n) = Demand(b, to, Copied(want), x)
  BY <1>1, <1>6 DEF Rooms, Demand, Stays
<1>8. Sum(Rooms(n)) = DemandSum(b, to, Copied(want), x)
  BY <1>1, <1>7, RoomsStay, DemandSums
<1>9. n[x].room = b[x].room
  BY <1>4, <1>5, <1>6
<1>10. ~(copy /\ n[x].room >= to)
  BY <1>1, <1>4, <1>9 DEF Stays
<1> QED
  BY <1>1, <1>4, <1>8, <1>10 DEF Wanting

\* Another that wants as much or more is refused at once, and moves nothing.
LEMMA RefusedAgain ==
  ASSUME NEW b, Sized(b), NEW want, RoomFor(ClimbTo(want)) \in Int, memory \in Int,
         NEW to \in Int, Wanting(b, to), RoomFor(to) \in Int,
         ClimbTo(want) \in Int, to <= ClimbTo(want), RoomFor(to) <= RoomFor(ClimbTo(want))
  PROVE  Fitted(b, want).failed /\ Rooms(Fitted(b, want).bufs) = Rooms(b)
<1>1. PICK goers : goers = {i \in Surfaces : ~Stays(b, want, i)} /\ goers \subseteq Surfaces
  OBVIOUS
<1>2. goers # {}
  <2>1. PICK i \in Surfaces : ~(copy /\ b[i].room >= to)
    BY DEF Wanting
  <2>2. ~Stays(b, want, i)
    BY <2>1 DEF Stays, Copied, Sized
  <2> QED
    BY <1>1, <2>2
<1>3. PICK x \in goers : \A y \in goers : x <= y
  BY <1>1, <1>2, FirstOf
<1>4. Surfaces \subseteq Int /\ x \in Surfaces /\ ~Stays(b, want, x)
  BY <1>1 DEF Surfaces
<1>5. \A j \in Surfaces : j < x => Stays(b, want, j)
  BY <1>1, <1>3, <1>4
<1>6. Demand(b, ClimbTo(want), Copied(want), x) = Rooms(b)
  BY <1>5 DEF Demand, Rooms, Stays
<1>7. PICK total0 \in Int : total0 = Sum(Rooms(b))
  BY RoomsStay, SumAdds
<1>8. DemandSum(b, ClimbTo(want), Copied(want), x) = total0
  BY <1>6, <1>7, RoomsStay, DemandSums
<1>9. total0 + RoomFor(to) > memory
  BY <1>7 DEF Wanting
<1>10. total0 + RoomFor(ClimbTo(want)) > memory
  BY <1>7, <1>9
<1>11. x \in NoRoom(b, want)
  BY <1>4, <1>8, <1>10 DEF NoRoom
<1>12. ASSUME NEW j \in Surfaces
       PROVE  Fitted(b, want).bufs[j].room = b[j].room
  <2>1. j < x \/ x <= j
    BY <1>4
  <2> QED
    BY <1>5, <1>11, <2>1, FittedRooms DEF Sized
<1> QED
  BY <1>11, <1>12, FittedRooms DEF Rooms, Sized

\* A higher extent takes as much room or more.
LEMMA RoomGrows ==
  ASSUME total \in Int, NEW a \in Int, NEW b \in Int, a <= b
  PROVE  RoomFor(a) \in Int /\ RoomFor(b) \in Int /\ RoomFor(a) <= RoomFor(b)
<1>1. PICK c \in Int : c = Ceiling
  <2>1. PICK x \in Int : x = AlignUp(total, Pair)
    BY Aligned, LadderAssumption
  <2> QED
    BY <2>1, Extents DEF Ceiling
<1>2. PICK r \in Int : r = KvRoom
  BY <1>1 DEF KvRoom
<1> QED
  BY <1>2 DEF RoomFor

\* A later row is climbed for as far or further.
LEMMA RungsGrow ==
  ASSUME NEW near \in Int, NEW far \in Int, near <= far, far <= KvMax, NEW k0 \in 1..KvMax
  PROVE  Rung(near)[k0] <= Rung(far)[k0]
<1>1. PICK m \in Nat : m = KvMax
  BY Extents
<1>2. PICK g, h : g = Rung(near) /\ h = Rung(far)
  OBVIOUS
<1>3. \A k \in 0..m : /\ g[k] = IF k >= near THEN k ELSE g[NextRung(k)]
                      /\ h[k] = IF k >= far THEN k ELSE h[NextRung(k)]
  <2>1. \A k \in 0..m : k \in 0..(KvMax * Step)
    <3>1. PICK b \in Nat : b = Step /\ b >= 1
      BY LadderAssumption
    <3>2. m * b >= m /\ m * b \in Nat
      BY <3>1
    <3> QED
      BY <1>1, <3>1, <3>2
  <2>2. near <= KvMax
    BY <1>1
  <2> QED
    BY <1>2, <2>1, <2>2, RungExists
<1>4. PICK Ds : Ds = {d \in 0..m : \A k \in d..m : k >= 1 => g[k] <= h[k]}
  OBVIOUS
<1>5. m \in Ds
  <2>1. g[m] = m /\ h[m] = m
    BY <1>1, <1>3
  <2>2. \A k \in m..m : k = m
    OBVIOUS
  <2> QED
    BY <1>4, <2>1, <2>2
<1>6. ASSUME NEW d \in Ds, d > 0
      PROVE  d - 1 \in Ds
  <2>1. d \in 0..m /\ \A k \in d..m : k >= 1 => g[k] <= h[k]
    BY <1>4
  <2>2. PICK e \in 0..m : e = d - 1 /\ d = e + 1
    BY <1>6, <2>1
  <2>3. ASSUME e >= 1
        PROVE  g[e] <= h[e]
    <3>1. CASE e >= far
      <4>1. g[e] = e /\ h[e] = e
        BY <1>3, <3>1
      <4> QED
        BY <4>1
    <3>2. CASE e >= near /\ ~(e >= far)
      <4>1. e \in 1..KvMax
        BY <1>1, <2>3
      <4>2. h[e] \in e..KvMax
        BY <1>2, <4>1, RungsEnd
      <4>3. g[e] = e
        BY <1>3, <3>2
      <4> QED
        BY <4>2, <4>3
    <3>3. CASE ~(e >= near) /\ ~(e >= far)
      <4>1. e \in Nat /\ e < KvMax
        BY <1>1, <3>3
      <4>2. PICK n : n = NextRung(e) /\ n \in (e + 1)..m
        BY <1>1, <4>1, RungsClimb
      <4>3. n \in d..m /\ n >= 1
        BY <2>2, <4>2
      <4>4. g[e] = g[n] /\ h[e] = h[n]
        BY <1>3, <3>3, <4>2
      <4> QED
        BY <2>1, <4>3, <4>4
    <3> QED
      BY <3>1, <3>2, <3>3
  <2>4. \A k \in e..m : k = e \/ k \in d..m
    BY <2>2
  <2> QED
    BY <1>4, <2>1, <2>2, <2>3, <2>4
<1>7. 0 \in Ds
  BY <1>4, <1>5, <1>6, Descent
<1> QED
  BY <1>1, <1>2, <1>4, <1>7

LEMMA ClimbGrows ==
  ASSUME NEW near \in Int, NEW far \in Int, near <= far, far <= total,
         total \in Int, total <= NCtx, kv \in 1..KvMax
  PROVE  /\ ClimbTo(near) \in Int /\ ClimbTo(far) \in Int
         /\ ClimbTo(near) <= ClimbTo(far)
<1>1. PICK c \in Int : c = Ceiling /\ total <= c
  <2>1. PICK x \in Int : x = AlignUp(total, Pair) /\ total <= x
    BY Aligned, LadderAssumption
  <2>2. NCtx \in Int /\ NCtx <= KvMax
    BY Aligned, LadderAssumption DEF KvMax
  <2> QED
    BY <2>1, <2>2, Extents DEF Ceiling
<1>2. NCtx \in Int /\ NCtx <= KvMax
  BY Aligned, LadderAssumption DEF KvMax
<1>3. near <= KvMax /\ far <= KvMax
  BY <1>2, Extents
<1>4. PICK r, q : r = Rung(near)[kv] /\ q = Rung(far)[kv] /\ r \in Int /\ q \in Int /\ r <= q
  <2>1. Rung(near)[kv] \in kv..KvMax /\ Rung(far)[kv] \in kv..KvMax
    BY <1>3, RungsEnd
  <2> QED
    BY <1>3, <2>1, RungsGrow
<1>5. /\ ClimbTo(near) = IF c > 0 /\ near <= c /\ r > c THEN c ELSE r
      /\ ClimbTo(far) = IF c > 0 /\ far <= c /\ q > c THEN c ELSE q
  BY <1>1, <1>4 DEF ClimbTo, Rung
<1>6. near <= c /\ far <= c
  BY <1>1
<1> QED
  BY <1>1, <1>4, <1>5, <1>6

\* While a row of the turn has been refused there is not the memory for one that
\* wants as much as the next: every later row is refused too, whatever the rooms.
ShortInv ==
    /\ memory \in Memories
    /\ open = "open" => \A i \in Surfaces : vbuf[i].room \in Int
    /\ open = "open" /\ ~Whole /\ (phase # "idle" \/ pos < total)
          => Wanting(vbuf, ClimbTo(kv + 1))

\* What is wanted next, and whether there is memory for it, stand while the
\* extents and the rooms do.
LEMMA WantingStays ==
  ASSUME UNCHANGED <<copy, memory, total, kv>>,
         NEW b, Wanting(b, ClimbTo(kv + 1)), Rooms(vbuf') = Rooms(b)
  PROVE  Wanting(vbuf, ClimbTo(kv + 1))'
<1>1. PICK to, r : to = ClimbTo(kv + 1) /\ r = RoomFor(to)
  OBVIOUS
<1>2. ClimbTo(kv + 1)' = to /\ RoomFor(to)' = r
  BY <1>1 DEF ClimbTo, Ceiling, RoomFor, KvRoom
<1>3. PICK f : f = Rooms(b) /\ f = Rooms(vbuf')
  OBVIOUS
<1>4. Sum(f) + r > memory'
  BY <1>1, <1>3 DEF Wanting
<1>5. PICK i \in Surfaces : ~(copy /\ b[i].room >= to)
  BY <1>1 DEF Wanting
<1>6. b[i].room = f[i] /\ vbuf'[i].room = f[i]
  BY <1>3 DEF Rooms
<1>7. ~(copy' /\ vbuf'[i].room >= to)
  BY <1>5, <1>6
<1>8. (Sum(Rooms(vbuf)) + RoomFor(ClimbTo(kv + 1)) > memory)'
  BY <1>2, <1>3, <1>4
<1>9. (\E x \in Surfaces : ~(copy /\ vbuf[x].room >= ClimbTo(kv + 1)))'
  BY <1>2, <1>7
<1> QED
  BY <1>8, <1>9 DEF Wanting

LEMMA ShortStays ==
  ASSUME ShortInv, UNCHANGED <<open, copy, memory, total, kv, filled>>,
         open = "open" => \A i \in Surfaces : vbuf'[i].room = vbuf[i].room,
         (phase # "idle" \/ pos < total)' => (phase # "idle" \/ pos < total)
  PROVE  ShortInv'
<1>1. ASSUME open' = "open", ~Whole', (phase # "idle" \/ pos < total)'
      PROVE  Wanting(vbuf, ClimbTo(kv + 1))'
  <2>1. open = "open" /\ ~Whole
    BY <1>1 DEF Whole
  <2>2. Wanting(vbuf, ClimbTo(kv + 1))
    BY <1>1, <2>1 DEF ShortInv
  <2>3. Rooms(vbuf') = Rooms(vbuf)
    BY <2>1 DEF Rooms
  <2> QED
    BY <2>2, <2>3, WantingStays
<1>2. open' = "open" => \A i \in Surfaces : vbuf'[i].room \in Int
  BY DEF ShortInv
<1> QED
  BY <1>1, <1>2 DEF ShortInv

\* Every layer's rows, counted against the extent.
LEMMA WholeGrows ==
  ASSUME NoticedInv, RowsInv, AppendRow, kv' \in Int, Whole, kv <= kv', pos + row + 1 <= kv'
  PROVE  Whole'
<1>1. layer \in 0..(Layers - 1) /\ filled'[layer] = pos + row + 1
  BY RowPlace, DoneGrows DEF AppendRow
<1>2. ASSUME NEW l \in 0..(Layers - 1)
      PROVE  filled'[l] <= kv'
  <2>1. CASE l = layer
    BY <1>1, <2>1
  <2>2. CASE l # layer
    <3>1. PICK kh \in 0..(NKv - 1) : TRUE
      BY LadderAssumption
    <3>2. filled[l] \in Int /\ kv \in Int
      BY <3>1, DoneGrows, Extents DEF NoticedInv, Kinds
    <3>3. filled'[l] = filled[l]
      BY <2>2 DEF AppendRow
    <3>4. filled[l] <= kv
      BY DEF Whole
    <3> QED
      BY <3>2, <3>3, <3>4
  <2> QED
    BY <2>1, <2>2
<1> QED
  BY <1>2 DEF Whole

\* The row that is refused first is the one behind the extent.
LEMMA FirstShort ==
  ASSUME NoticedInv, RowsInv, AppendRow, Whole, pos + row >= kv
  PROVE  pos + row = kv
<1>1. layer \in 0..(Layers - 1) /\ pos + row \in Int /\ kv \in Int
  BY RowPlace, Extents DEF AppendRow, NoticedInv, Kinds
<1>2. filled[layer] <= kv
  BY <1>1 DEF Whole
<1>3. filled[layer] = IF head > 0 THEN pos + row + 1 ELSE pos + row
  BY DoneGrows
<1> QED
  BY <1>1, <1>2, <1>3

\* PackCol leaves a surface its room.
LEMMA PackedRoom ==
  ASSUME NEW s, VSurface(s), NEW to, NEW p
  PROVE  PackCol(s, to, p, "now").room = s.room
<1>1. CASE s.at = to
  <2>1. PICK c : c = [s.col EXCEPT ![p] = "now"]
    OBVIOUS
  <2>2. PackCol(s, to, p, "now") = [s EXCEPT !.col = c]
    BY <1>1, <2>1 DEF PackCol
  <2> QED
    BY <2>2 DEF VSurface
<1>2. CASE s.at # to
  <2>1. PICK c : c = [q \in Places |-> IF q = p THEN "now" ELSE "garbage"]
    OBVIOUS
  <2>2. PackCol(s, to, p, "now") = [s EXCEPT !.at = to, !.col = c]
    BY <1>2, <2>1 DEF PackCol
  <2> QED
    BY <2>2 DEF VSurface
<1> QED
  BY <1>1, <1>2

\* attn_npu_append.
LEMMA ShortAppend ==
  ASSUME NoticedInv, RowsInv, SurfacesInv, ShortInv, AppendRow
  PROVE  ShortInv' /\ (kv' # kv => Whole)
<1>1. PICK l0 \in 0..(Layers - 1), h0 \in 0..(NKv - 1), p0 \in Places :
         l0 = layer /\ h0 = head /\ p0 = pos + row /\ p0 < NK /\ p0 \in Int
  BY RowPlace, Extents DEF AppendRow, Places
<1>2. PICK i0 \in Surfaces : i0 = SurfaceOf(l0, h0)
  BY SurfacePlaces
<1>3. /\ AppendHead(l0, h0, p0) /\ open' = Opened /\ UNCHANGED <<copy, memory, total, pos>>
      /\ phase = "append" /\ pos < total
  <2>1. AppendHead(l0, h0, p0) /\ UNCHANGED pos /\ phase = "append"
    BY <1>1 DEF AppendRow
  <2>2. pos < total
    BY <2>1 DEF RowsInv, NoticedInv, Kinds
  <2> QED
    BY <2>1, <2>2 DEF AppendHead
<1>4. kv \in 1..KvMax /\ kv \in Int /\ total \in Int /\ total <= NCtx /\ p0 + 1 <= total
  <2>1. row < rows /\ pos + rows <= total /\ total <= NCtx
    BY <1>3 DEF RowsInv
  <2>2. {total, pos, rows, row} \subseteq Int /\ kv \in 1..KvMax
    BY DEF NoticedInv, Kinds
  <2> QED
    BY <1>1, <2>1, <2>2, Extents
<1>5. memory \in Memories /\ memory \in Int
  BY LadderAssumption DEF ShortInv
<1>6. ASSUME Opened # "open"
      PROVE  ShortInv' /\ kv' = kv
  <2>1. kv' = kv /\ open' # "open"
    BY <1>3, <1>6 DEF AppendHead
  <2> QED
    BY <1>3, <1>5, <2>1 DEF ShortInv
<1>7. ASSUME open = "none"
      PROVE  Whole /\ p0 < kv
  <2>1. pos = 0 /\ row = 0 /\ head = 0 /\ layer = 0
    BY <1>3, <1>7 DEF RowsInv
  <2>2. ASSUME NEW l \in 0..(Layers - 1)
        PROVE  filled[l] = 0
    BY <1>3, <2>1 DEF RowsInv
  <2> QED
    BY <1>1, <1>4, <2>1, <2>2, Extents DEF Whole
<1>8. ASSUME Opened = "open"
      PROVE  Sized(Surfs) /\ DOMAIN Surfs = Surfaces
  <2>1. DOMAIN Surfs = Surfaces /\ \A i \in Surfaces : VSurface(Surfs[i])
    BY <1>8, FoundSurfaces
  <2>2. ASSUME NEW i \in Surfaces
        PROVE  Surfs[i].room \in Int
    <3>1. CASE open = "none"
      <4>1. PICK room \in Int : room = RoomFor(kv)
        BY <1>4, RoomGrows
      <4>2. Surfs[i] = Fresh(i, kv, room)
        BY <1>8, <3>1, <4>1 DEF Surfs
      <4> QED
        BY <4>1, <4>2 DEF Fresh
    <3>2. CASE open = "open"
      BY <3>2 DEF Surfs, ShortInv
    <3> QED
      BY <1>8, <3>1, <3>2 DEF Opened
  <2> QED
    BY <2>1, <2>2 DEF Sized
<1>9. CASE Opened = "open" /\ p0 < kv
  <2>1. PICK b : b = Surfs /\ Sized(b) /\ DOMAIN b = Surfaces
    BY <1>8, <1>9
  <2>2. kv' = kv /\ vbuf' = [b EXCEPT ![i0] = PackCol(@, kv, p0, "now")]
    <3>1. PICK fit : fit = [bufs |-> b, kv |-> kv, failed |-> FALSE]
      OBVIOUS
    <3>2. fit.bufs = b /\ fit.kv = kv /\ fit.failed = FALSE
      BY <3>1
    <3>3. ~(p0 >= kv) /\ ~(p0 >= NK) /\ ~(Opened # "open")
      BY <1>1, <1>4, <1>9, Extents
    <3>4. AppendHead(l0, h0, p0) =>
             /\ kv' = fit.kv
             /\ vbuf' = [fit.bufs EXCEPT ![i0] = PackCol(@, fit.kv, p0, "now")]
      BY <1>1, <1>2, <2>1, <3>1, <3>2, <3>3 DEF AppendHead
    <3> QED
      BY <1>3, <3>2, <3>4
  <2>3. ASSUME NEW i \in Surfaces
        PROVE  vbuf'[i].room = b[i].room
    <3>1. PICK t : t = PackCol(b[i0], kv, p0, "now") /\ t.room = b[i0].room
      BY <2>1, PackedRoom DEF Sized
    <3> QED
      BY <2>1, <2>2, <3>1
  <2>4. Whole => Whole'
    <3>1. kv' \in Int /\ kv <= kv' /\ pos + row + 1 <= kv'
      BY <1>1, <1>4, <1>9, <2>2
    <3> QED
      BY <3>1, WholeGrows
  <2>5. ASSUME ~Whole
        PROVE  Wanting(vbuf, ClimbTo(kv + 1))'
    <3>1. open = "open"
      BY <1>7, <1>9, <2>5 DEF Opened
    <3>2. Wanting(vbuf, ClimbTo(kv + 1)) /\ b = vbuf
      BY <1>3, <2>1, <2>5, <3>1 DEF ShortInv, Surfs
    <3>3. Rooms(vbuf') = Rooms(b)
      BY <2>3 DEF Rooms
    <3> QED
      BY <1>3, <2>2, <3>2, <3>3, WantingStays
  <2> QED
    BY <1>3, <1>5, <2>1, <2>2, <2>3, <2>4, <2>5 DEF ShortInv, Sized
<1>10. CASE Opened = "open" /\ ~(p0 < kv)
  <2>1. open = "open" /\ Surfs = vbuf
    BY <1>7, <1>10 DEF Opened, Surfs
  <2>2. PICK b : b = vbuf /\ Sized(b) /\ DOMAIN b = Surfaces
    BY <1>8, <1>10, <2>1
  <2>3. PICK want \in Int : want = p0 + 1 /\ want <= KvMax /\ want - 1 = p0 /\ kv + 1 <= want
    BY <1>1, <1>4, <1>10, Extents DEF Places
  <2>4. PICK to \in Int : to = ClimbTo(want) /\ to \in 1..KvMax /\ to >= want
    BY <1>4, <2>3, ClimbStays, ClimbsFar, Extents
  <2>5. PICK f : f = Fitted(b, want) /\ FittedRight(b, to, p0, f)
    BY <2>2, <2>3, <2>4, GrowthCarries DEF Sized
  <2>6. /\ kv' = f.kv
        /\ f.failed => vbuf' = f.bufs
        /\ ~f.failed => vbuf' = [f.bufs EXCEPT ![i0] = PackCol(@, f.kv, p0, "now")]
    <3>1. p0 >= kv /\ ~(p0 >= NK) /\ ~(Opened # "open")
      BY <1>1, <1>4, <1>10, Extents
    <3>2. f = Fitted(Surfs, p0 + 1)
      BY <2>1, <2>2, <2>3, <2>5
    <3>3. f.failed \in BOOLEAN
      BY <2>5 DEF FittedRight
    <3> QED
      BY <1>1, <1>2, <1>3, <3>1, <3>2, <3>3 DEF AppendHead
  <2>7. PICK room \in Int : room = RoomFor(to)
    BY <1>4, RoomGrows
  <2>8. \A i \in Surfaces : f.bufs[i].room \in Int
    BY <2>2, <2>4, <2>5, <2>7, RoomsStay
  <2>9. CASE ~Whole
    <3>1. PICK near \in Int : near = ClimbTo(kv + 1) /\ near <= to
      BY <1>4, <2>3, <2>4, ClimbGrows
    <3>2. RoomFor(near) \in Int /\ RoomFor(near) <= RoomFor(to)
      BY <1>4, <3>1, <2>7, RoomGrows
    <3>3. Wanting(b, near)
      BY <1>3, <2>1, <2>2, <2>9, <3>1 DEF ShortInv
    <3>4. f.failed /\ Rooms(f.bufs) = Rooms(b)
      BY <1>5, <2>2, <2>4, <2>5, <2>7, <3>1, <3>2, <3>3, RefusedAgain
    <3>5. kv' = kv /\ vbuf' = f.bufs
      BY <2>5, <2>6, <3>4 DEF FittedRight
    <3>6. Wanting(vbuf, ClimbTo(kv + 1))'
      BY <1>3, <3>1, <3>3, <3>4, <3>5, WantingStays
    <3> QED
      BY <1>3, <1>5, <2>8, <3>5, <3>6 DEF ShortInv
  <2>10. CASE Whole /\ f.failed
    <3>1. p0 = kv /\ want = kv + 1
      BY <1>1, <1>4, <1>10, <2>3, <2>10, FirstShort
    <3>2. Copied(want) <=> copy
      <4>1. want - 1 > 0 /\ ClimbTo(want) >= kv /\ want - 1 <= kv
        BY <1>4, <2>3, <2>4, <3>1, Extents
      <4> QED
        BY <4>1 DEF Copied, Regrows
    <3>3. Wanting(f.bufs, ClimbTo(kv + 1))
      BY <2>2, <2>4, <2>5, <2>7, <2>10, <3>1, <3>2, FirstRefusal
    <3>4. kv' = kv /\ vbuf' = f.bufs
      BY <2>5, <2>6, <2>10 DEF FittedRight
    <3>5. Rooms(vbuf') = Rooms(f.bufs)
      BY <3>4
    <3>6. Wanting(vbuf, ClimbTo(kv + 1))'
      BY <1>3, <3>3, <3>4, <3>5, WantingStays
    <3> QED
      BY <1>3, <1>5, <2>8, <2>10, <3>4, <3>6 DEF ShortInv
  <2>11. CASE Whole /\ ~f.failed
    <3>1. kv' = to /\ f.kv = to
      BY <2>5, <2>6, <2>11 DEF FittedRight
    <3>2. pos + row + 1 <= kv' /\ kv <= kv' /\ kv' \in Int
      BY <1>1, <1>4, <2>3, <2>4, <3>1
    <3>3. Whole'
      BY <2>11, <3>2, WholeGrows
    <3>4. PICK g : g = f.bufs /\ DOMAIN g = Surfaces /\ \A i \in Surfaces : VSurface(g[i])
      BY <2>5, <2>11 DEF FittedRight, Moved
    <3>5. PICK t : t = PackCol(g[i0], to, p0, "now") /\ t.room = g[i0].room
      BY <3>4, PackedRoom
    <3>6. vbuf' = [g EXCEPT ![i0] = t]
      BY <2>6, <2>11, <3>1, <3>4, <3>5
    <3>7. \A i \in Surfaces : vbuf'[i].room \in Int
      BY <2>8, <3>4, <3>5, <3>6
    <3> QED
      BY <1>3, <1>5, <2>11, <3>3, <3>7 DEF ShortInv
  <2> QED
    BY <2>5, <2>9, <2>10, <2>11 DEF FittedRight
<1> QED
  BY <1>6, <1>9, <1>10, <1>4, <1>1

\* attn_npu_catchup and the flush leave a surface its room, and so does a new turn.
LEMMA ReadyRooms ==
  ASSUME SurfacesInv, Attend, open = "open", NEW i \in Surfaces
  PROVE  vbuf'[i].room = vbuf[i].room
<1>1. CASE ~Takes
  BY <1>1 DEF Attend
<1>2. CASE Takes
  <2> DEFINE late == Late(layer, T)
             flush == dirty[layer] \/ late # {}
             fill(col) == [p \in Places |-> IF p \in late THEN FloatTag(layer, p) ELSE col[p]]
             caught(s) == IF late = {} THEN s
                          ELSE [s EXCEPT !.at = kv,
                                  !.col = IF s.at = kv THEN fill(@)
                                          ELSE fill([p \in Places |-> "garbage"])]
  <2>1. vbuf' = [j \in Surfaces |->
            IF flush /\ LayerOf(j) = layer
            THEN LET s == caught(vbuf[j])
                 IN  [s EXCEPT !.dev = [at |-> s.at, col |-> s.col]]
            ELSE vbuf[j]]
    BY <1>2 DEF Attend, Ready
  <2> HIDE DEF late
  <2>2. PICK s : s = vbuf[i] /\ VSurface(s)
    BY DEF SurfacesInv
  <2>3. PICK t, u : t = caught(s) /\ u = [t EXCEPT !.dev = [at |-> t.at, col |-> t.col]]
    OBVIOUS
  <2>4. DOMAIN t = DOMAIN s /\ t.room = s.room
    BY <2>2, <2>3 DEF VSurface
  <2>5. u.room = s.room
    BY <2>2, <2>3, <2>4 DEF VSurface
  <2>6. vbuf'[i] = u \/ vbuf'[i] = s
    BY <2>1, <2>2, <2>3
  <2> QED
    BY <2>2, <2>5, <2>6
<1> QED
  BY <1>1, <1>2

LEMMA TurnRooms ==
  ASSUME SurfacesInv, NEW len, NewTurn(len), open = "open", NEW i \in Surfaces
  PROVE  vbuf'[i].room = vbuf[i].room
<1>1. PICK s, a, t : /\ s = vbuf[i] /\ a = Aged(s.col)
                     /\ t = [s EXCEPT !.col = a, !.dev.col = Aged(s.dev.col)]
  OBVIOUS
<1>2. DOMAIN vbuf = Surfaces /\ VSurface(s)
  BY <1>1 DEF SurfacesInv
<1>3. vbuf'[i] = t
  BY <1>1, <1>2 DEF NewTurn, Restarted
<1>4. t.room = s.room
  BY <1>1, <1>2 DEF VSurface
<1> QED
  BY <1>1, <1>3, <1>4

\* No memory comes back while rows of the turn are still to be appended.
LEMMA ShortStep ==
  ASSUME ~Transient, NoticedInv, RowsInv, SurfacesInv, ShortInv, [Next]_vars
  PROVE  ShortInv' /\ (kv' # kv => Whole)
<1>1. CASE AppendRow
  BY <1>1, ShortAppend
<1>2. ASSUME NEW len \in Lens, NewTurn(len)
      PROVE  ShortInv' /\ kv' = kv
  <2>1. /\ UNCHANGED <<open, memory, kv>> /\ filled' = [l \in DOMAIN filled |-> 0]
    BY <1>2 DEF NewTurn, Restarted
  <2>2. kv \in Int /\ kv >= 1
    BY Extents DEF NoticedInv, Kinds
  <2>3. Whole'
    BY <2>1, <2>2 DEF Whole, RowsInv
  <2>4. open = "open" => \A i \in Surfaces : vbuf'[i].room = vbuf[i].room
    BY <1>2, TurnRooms
  <2> QED
    BY <2>1, <2>3, <2>4 DEF ShortInv
<1>3. CASE Attend
  <2>1. UNCHANGED <<open, copy, memory, total, kv, filled, pos>> /\ phase = "attend"
    BY <1>3 DEF Attend
  <2>2. open = "open" => \A i \in Surfaces : vbuf'[i].room = vbuf[i].room
    BY <1>3, ReadyRooms
  <2> QED
    BY <2>1, <2>2, ShortStays
<1>4. CASE NewChunk
  <2>1. UNCHANGED <<open, copy, memory, total, kv, vbuf, filled>> /\ pos < total
    BY <1>4 DEF NewChunk, ladderVars
  <2> QED
    BY <2>1, ShortStays
<1>5. CASE \/ SubmitScores \/ SubmitAhead \/ CollectScores \/ SubmitValues
           \/ CollectBehind \/ CollectLast \/ LayerOver
  <2>1. UNCHANGED <<open, copy, memory, total, kv, vbuf, filled>>
    BY <1>5 DEF SubmitScores, SubmitAhead, CollectScores, SubmitValues, CollectBehind,
                CollectLast, LayerOver, ladderVars
  <2>2. phase # "idle"
    BY <1>5 DEF SubmitScores, SubmitAhead, CollectScores, SubmitValues, CollectBehind,
                CollectLast, LayerOver
  <2> QED
    BY <2>1, <2>2, ShortStays
<1>6. CASE Hardware \/ UNCHANGED vars
  <2>1. UNCHANGED <<open, copy, memory, total, kv, vbuf, filled, phase, pos>>
    BY <1>6 DEF Hardware, vars, ladderVars, threadVars
  <2> QED
    BY <2>1, ShortStays
<1>7. CASE MemoryFreed
  <2>1. /\ UNCHANGED <<open, total, kv, vbuf, filled, phase, pos>>
        /\ phase = "idle" /\ pos = total /\ memory' = Max(Memories)
    BY <1>7 DEF MemoryFreed, threadVars
  <2>2. Max(Memories) \in Memories
    BY LadderAssumption DEF Max
  <2>3. ~(pos < total)
    BY <2>1 DEF NoticedInv, Kinds
  <2> QED
    BY <2>1, <2>2, <2>3 DEF ShortInv
<1> QED
  BY <1>1, <1>2, <1>3, <1>4, <1>5, <1>6, <1>7 DEF Next, Thread

\* At first the float cache is empty and there is no mirror.
LEMMA RightBegins ==
  ASSUME Init
  PROVE  RightInv
<1>1. /\ phase = "idle" /\ pos = 0 /\ rows = 0 /\ row = 0 /\ head = 0 /\ layer = 0
      /\ got = {} /\ open = "none" /\ total = 0
      /\ filled = [l \in 0..(Layers - 1) |-> 0] /\ dirty = [l \in 0..(Layers - 1) |-> FALSE]
      /\ kbuf = [i \in Surfaces |-> [col |-> Nothing, dev |-> Nothing]]
  BY DEF Init, LadderInit
<1>2. RowsInv
  BY <1>1, LadderAssumption DEF RowsInv
<1>3. SurfacesInv
  BY <1>1 DEF SurfacesInv, KSurface, Nothing
<1>4. MirrorInv /\ ReadyInv
  BY <1>1 DEF MirrorInv, ReadyInv, AtWork
<1>5. Flow
  BY <1>1 DEF Flow, ScoresDue, ValuesDue, AtWork
<1> QED
  BY <1>2, <1>3, <1>4, <1>5, NoticedBegins DEF RightInv

LEMMA RightStep ==
  ASSUME Alike, RightInv, [Next]_vars, kv' # kv => Whole
  PROVE  RightInv'
<1>1. NoticedInv'
  BY NoticedStep DEF RightInv
<1>2. RowsInv'
  BY RowsStep DEF RightInv
<1>3. SurfacesInv' /\ MirrorInv' /\ ReadyInv'
  BY MirrorStep DEF RightInv
<1>4. Flow'
  BY FlowStep DEF RightInv
<1> QED
  BY <1>1, <1>2, <1>3, <1>4 DEF RightInv

\* Whatever the memory does, AttentionRight holds while the mirror grows only
\* when it has every row of the turn.
THEOREM RightWhileWhole ==
  ASSUME Alike
  PROVE  Spec /\ GrowsWhole => []AttentionRight
<1>1. Init => RightInv
  BY RightBegins
<1>2. RightInv /\ [Next]_vars /\ [kv' # kv => \A l \in 0..(Layers - 1) : filled[l] <= kv]_vars
      => RightInv'
  <2> SUFFICES ASSUME RightInv, [Next]_vars,
                      [kv' # kv => \A l \in 0..(Layers - 1) : filled[l] <= kv]_vars
               PROVE  RightInv'
    OBVIOUS
  <2>1. kv' # kv => Whole
    BY DEF Whole, vars, ladderVars
  <2> QED
    BY <2>1, RightStep
<1>3. RightInv => AttentionRight
  BY DEF RightInv, Flow, AttentionRight
<1> QED
  BY <1>1, <1>2, <1>3, PTL DEF Spec, GrowsWhole

\* Which it does when memory comes back only between the turns: a row that was
\* refused leaves too little for any later row of the turn.
LEMMA ShortBegins ==
  ASSUME Init
  PROVE  ShortInv
  BY DEF Init, LadderInit, ShortInv

THEOREM MirrorGrowsWhole ==
  ASSUME Alike, ~Transient
  PROVE  Spec => GrowsWhole
<1>1. Init => RightInv /\ ShortInv
  BY RightBegins, ShortBegins
<1>2. RightInv /\ ShortInv /\ [Next]_vars => RightInv' /\ ShortInv'
  <2> SUFFICES ASSUME RightInv, ShortInv, [Next]_vars
               PROVE  RightInv' /\ ShortInv'
    OBVIOUS
  <2>1. ShortInv' /\ (kv' # kv => Whole)
    BY ShortStep DEF RightInv
  <2> QED
    BY <2>1, RightStep
<1>3. RightInv /\ ShortInv /\ [Next]_vars
      => [kv' # kv => \A l \in 0..(Layers - 1) : filled[l] <= kv]_vars
  BY ShortStep DEF RightInv, Whole
<1> QED
  BY <1>1, <1>2, <1>3, PTL DEF Spec, GrowsWhole

\* AttentionRight: what the NPU is taken to have computed for a layer was all
\* written by the jobs asked of it, from the right scores and from the surfaces of
\* each head's own kv head as the device has them, in the layout those jobs read,
\* whatever jobs stop early, submits fail and allocations are refused: attn_npu_append,
\* attn_npu_fit, attn_npu_catchup and attn_npu_layer together.  It asks one
\* thing of the memory, that none comes back within a turn (~Transient): when some
\* does a growth may copy a surface that lacks a row, and TLC shows a layer
\* computed over a row that one kv head never had.
THEOREM AttentionIsRight ==
  ASSUME Alike, ~Transient
  PROVE  Spec => []AttentionRight
  BY RightWhileWhole, MirrorGrowsWhole, PTL
=============================================================================
