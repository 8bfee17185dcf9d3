---------------------------- MODULE NpuAttention ----------------------------
(***************************************************************************)
(* Attention on the NPU for the chunks of a prompt (src/llama.c,           *)
(* attn_npu_layer): the rows of a chunk are appended to the mirror of      *)
(* KvLadder, then a layer's heads go to the handles of Fp16Unit in one     *)
(* group or two, scores first and the values over them, one group's        *)
(* softmax and pack while the other's scores are on the hardware.          *)
(* Whatever is refused, or goes wrong on the way, leaves the layer to the  *)
(* CPU.                                                                    *)
(***************************************************************************)
EXTENDS KvLadder, Fp16Unit

CONSTANTS
    Heads,          \* n_head
    HeadDim,        \* a->lhd: the head_dim of each layer, in 32s
    Groups,         \* CHARSIU_ATTN_PIPE, 1 or 2
    Area,           \* rows times extent a values input may have (5120 * 32)
    Lens,           \* the prompts: how many tokens
    Chunk,          \* rows of a prefill chunk
    Transient,      \* memory may come back in the middle of a turn too
    MaxTurns        \* bound: turns

ASSUME AttentionAssumption ==
    /\ Units = {"f", "f2", "fv", "fv2"}
    /\ Heads \in Nat \ {0} /\ Heads % NKv = 0
    /\ HeadDim \in [0..(Layers - 1) -> Nat \ {0}]
    /\ Groups \in {1, 2}
    /\ Area \in Nat /\ Area >= KvMax
    /\ Lens \subseteq 1..NCtx
    /\ Chunk \in Nat \ {0}
    /\ Transient \in BOOLEAN
    /\ MaxTurns \in Nat

VARIABLES
    phase,   \* where the thread is, see Phases
    turns,   \* history: turns begun, for the bound
    pos,     \* s->pos: the first row of the chunk
    rows,    \* rows of the chunk
    layer,   \* the layer it is at
    row,     \* the row being appended, then rb
    head,    \* the kv head being appended, then g
    mmax,    \* a->mmax
    got      \* history: the words taken as answers for this layer's rows

threadVars == <<phase, turns, pos, rows, layer, row, head, mmax, got>>
vars == <<ladderVars, unitVars, threadVars>>

Phases == {"idle", "append", "attend", "scores", "ahead", "collect", "values",
           "behind", "last", "taken", "cpu"}

TypeOK ==
    /\ LadderTypeOK
    /\ UnitTypeOK
    /\ phase \in Phases
    /\ turns \in 0..MaxTurns
    /\ pos \in 0..NCtx /\ rows \in 0..Chunk
    /\ layer \in 0..(Layers - 1)
    /\ mmax \in 1..Area
    /\ got \subseteq Word

RowsAt(k) == Area \div k                \* a->mmax at extent k

Init ==
    /\ LadderInit
    /\ UnitInit
    /\ phase = "idle" /\ turns = 0 /\ pos = 0 /\ rows = 0
    /\ layer = 0 /\ row = 0 /\ head = 0 /\ got = {}
    /\ mmax = RowsAt(kv)

------------------------------------------------------------------------------
(* A turn with --repeat: the same state from position 0.                   *)
NewTurn(len) ==
    /\ phase = "idle" /\ pos = total /\ turns < MaxTurns
    /\ turns' = turns + 1
    /\ pos' = 0
    /\ Restarted(len)
    /\ UNCHANGED <<unitVars, phase, rows, layer, row, head, mmax, got>>

NewChunk ==
    /\ phase = "idle" /\ pos < total
    /\ rows' = IF total - pos < Chunk THEN total - pos ELSE Chunk
    /\ phase' = "append"
    /\ layer' = 0 /\ row' = 0 /\ head' = 0
    /\ UNCHANGED <<ladderVars, unitVars, turns, pos, mmax, got>>

(* One kv head of one row: the float cache, then the mirror.               *)
AppendRow ==
    /\ phase = "append"
    /\ filled' = [filled EXCEPT ![layer] = pos + row + 1]
    /\ AppendHead(layer, head, pos + row)
    /\ mmax' = IF kv' # kv THEN RowsAt(kv') ELSE mmax
    /\ IF head + 1 < NKv THEN head' = head + 1 /\ UNCHANGED <<row, phase>>
       ELSE /\ head' = 0
            /\ IF row + 1 < rows THEN row' = row + 1 /\ UNCHANGED phase
               ELSE row' = 0 /\ phase' = "attend"
    /\ UNCHANGED <<unitVars, turns, pos, rows, layer, got>>

------------------------------------------------------------------------------
T == pos + rows
Atom == Pair \div 2
NPad == AlignUp(T, Atom)

(* attn_npu_layer's refusals, and the group of rows it then begins with.   *)
Takes == open = "open" /\ NPad >= Pair /\ NPad <= NK /\ T <= kv

Attend ==
    /\ phase = "attend"
    /\ got' = {}
    /\ IF Takes
       THEN /\ phase' = "scores"
            /\ UNCHANGED filled
            /\ Ready(layer, T)
       ELSE /\ phase' = "cpu"
            /\ UNCHANGED <<filled, kbuf, vbuf, packed, dirty>>
    /\ UNCHANGED <<open, copy, memory, total, kv, unitVars, turns, pos, rows, layer,
                   row, head, mmax>>

M == IF rows - row < mmax THEN rows - row ELSE mmax
Reach == pos + row + M
CausalN == LET cn == AlignUp(Reach, Atom)
               up == IF cn < Pair THEN Pair ELSE cn
           IN  IF up > NPad THEN NPad ELSE up

(* The heads in G groups, and the handles each uses.                       *)
G == IF Groups > Heads \/ M < 2 THEN 1 ELSE Groups
PerGroup == (Heads + G - 1) \div G
First(g) == g * PerGroup
Count(g) == IF Heads - First(g) < PerGroup THEN Heads - First(g) ELSE PerGroup
S(g) == IF g % 2 = 0 THEN "f" ELSE "f2"
V(g) == IF g % 2 = 0 THEN "fv" ELSE "fv2"

KvHead(h) == h \div (Heads \div NKv)
Owns(h) == SurfaceOf(layer, KvHead(h))
OperandLocal(h, g) == SurfaceOf(layer, KvHead(h - First(g)))   \* mutant
Operand(h, g) == SurfaceOf(layer, KvHead(h))

(* The scores of group g: rows times the K surfaces' first CausalN rows.   *)
ScoreShape == [m |-> M, k |-> HeadDim[layer], n |-> CausalN]
ScoreOps(g) ==
    [i \in 1..Count(g) |->
        LET h == First(g) + i - 1
        IN  [is |-> Owns(h), addr |-> Operand(h, g), reach |-> Reach, good |-> TRUE]]

(* The values of group g: the softmaxed scores times the V surfaces, whose *)
(* layout must be the one the shape says.                                  *)
ValueShape == [m |-> M, k |-> kv, n |-> HeadDim[layer]]
ValueOps(g) ==
    [i \in 1..Count(g) |->
        LET h == First(g) + i - 1
        IN  [is |-> Owns(h), addr |-> vbuf[Operand(h, g)].addr, reach |-> Reach,
             good |-> unit[S(g)].out[i] = "right"]]
LaidOut(g) == \A i \in 1..Count(g) : vbuf[Operand(First(g) + i - 1, g)].k = kv

FallBack == phase' = "cpu"

(* A submit on u: drained, then in the queue, or refused, or failed.       *)
Submit(u, shape, ops, next) ==
    /\ CanDrain(u)
    /\ \/ /\ unit' = [unit EXCEPT ![u] = Submitted(@, shape, ops)]
          /\ queue' = Append(queue, u)
          /\ phase' = next
          /\ UNCHANGED faults
       \/ /\ faults < MaxFaults
          /\ faults' = faults + 1
          /\ unit' = [unit EXCEPT ![u] = Staged(@, shape, ops)]
          /\ FallBack
          /\ UNCHANGED queue

SubmitScores ==
    /\ phase = "scores"
    /\ Submit(S(0), ScoreShape, ScoreOps(0), "ahead")
    /\ head' = 0
    /\ UNCHANGED <<ladderVars, turns, pos, rows, layer, row, mmax, got>>

(* "The next group goes in before this one's pack."                        *)
SubmitAhead ==
    /\ phase = "ahead"
    /\ IF head + 1 < G
       THEN Submit(S(head + 1), ScoreShape, ScoreOps(head + 1), "collect")
       ELSE phase' = "collect" /\ UNCHANGED unitVars
    /\ UNCHANGED <<ladderVars, turns, pos, rows, layer, row, head, mmax, got>>

(* group_wait on u; a group one of whose operations wrote nothing is not   *)
(* used.                                                                   *)
Wait(u, borrow, next) ==
    /\ ~Queued(u)
    /\ unit' = [unit EXCEPT ![u] = Waited(@, borrow)]
    /\ phase' = IF Bad(unit[u]) THEN "cpu" ELSE next
    /\ UNCHANGED <<queue, faults>>

CollectScores ==
    /\ phase = "collect"
    /\ Wait(S(head), TRUE, "values")
    /\ UNCHANGED <<ladderVars, turns, pos, rows, layer, row, head, mmax, got>>

(* The softmax in the pack of the values group, which is submitted, and    *)
(* then the sentinels of the next scores.                                  *)
SubmitValues ==
    /\ phase = "values"
    /\ CanDrain(V(head))
    /\ IF LaidOut(head)
       THEN \/ /\ unit' = [unit EXCEPT
                    ![V(head)] = Submitted(@, ValueShape, ValueOps(head)),
                    ![S(head)] = PoisonReleased(@)]
               /\ queue' = Append(queue, V(head))
               /\ phase' = "behind"
               /\ UNCHANGED faults
            \/ /\ faults < MaxFaults
               /\ faults' = faults + 1
               /\ unit' = [unit EXCEPT
                    ![V(head)] = Staged(@, ValueShape, ValueOps(head))]
               /\ FallBack
               /\ UNCHANGED queue
       ELSE /\ unit' = [unit EXCEPT ![V(head)] = Refused(@)]
            /\ FallBack
            /\ UNCHANGED <<queue, faults>>
    /\ UNCHANGED <<ladderVars, turns, pos, rows, layer, row, head, mmax, got>>

TakeAnswers(u) ==
    got' = got \cup ({unit[u].out[i] : i \in DOMAIN unit[u].out} \ {"poison"})

(* "One group behind": the values of the group before this one.            *)
CollectBehind ==
    /\ phase = "behind"
    /\ LET next == IF head + 1 < G THEN "ahead" ELSE "last"
       IN  IF head > 0
           THEN Wait(V(head - 1), FALSE, next) /\ TakeAnswers(V(head - 1))
           ELSE phase' = next /\ UNCHANGED <<unitVars, got>>
    /\ head' = IF phase' = "ahead" THEN head + 1 ELSE head
    /\ UNCHANGED <<ladderVars, turns, pos, rows, layer, row, mmax>>

(* The last group's values, and the next rows of the chunk.                *)
CollectLast ==
    /\ phase = "last"
    /\ TakeAnswers(V(G - 1))
    /\ Wait(V(G - 1), FALSE, IF row + M < rows THEN "scores" ELSE "taken")
    /\ row' = IF phase' = "scores" THEN row + M ELSE row
    /\ UNCHANGED <<ladderVars, turns, pos, rows, layer, head, mmax>>

------------------------------------------------------------------------------
(* The layer is over, on the NPU or, from the float cache, on the CPU.     *)
NextLayer ==
    /\ layer + 1 < Layers
    /\ layer' = layer + 1
    /\ phase' = "append"
    /\ UNCHANGED pos
ChunkOver ==
    /\ layer + 1 = Layers
    /\ pos' = pos + rows
    /\ phase' = "idle"
    /\ UNCHANGED layer
LayerOverRetries ==                      \* mutant: the layer is tried again
    /\ phase \in {"taken", "cpu"}
    /\ IF phase = "cpu" THEN phase' = "attend" /\ UNCHANGED <<layer, pos>>
       ELSE NextLayer \/ ChunkOver
    /\ row' = 0 /\ head' = 0 /\ got' = {}
    /\ UNCHANGED <<ladderVars, unitVars, turns, rows, mmax>>

LayerOver ==
    /\ phase \in {"taken", "cpu"}
    /\ NextLayer \/ ChunkOver
    /\ row' = 0 /\ head' = 0 /\ got' = {}
    /\ UNCHANGED <<ladderVars, unitVars, turns, rows, mmax>>
(* What operation i of u's job computes if it is run now: the answer, when *)
(* its streams are this group's, its rows were right and the surface they  *)
(* name is the one they should and holds every position they reach.        *)
Computes(u, i) ==
    LET f == unit[u]  op == f.ops[i]
    IN  /\ f.sig = f.shape
        /\ f.in[i]
        /\ IF u \in {"f", "f2"}
           THEN /\ f.wt[i] = op.is
                /\ op.reach <= f.shape.n
                /\ KRight(op.is, op.reach)
           ELSE /\ f.wt[i] = vbuf[op.is].addr
                /\ VRight(op.is, f.shape.k, op.reach)

Hardware ==
    /\ Run(Computes)
    /\ UNCHANGED <<ladderVars, threadVars>>

(* Another process frees device memory.                                    *)
MemoryFreed ==
    /\ memory # Max(Memories)
    /\ Transient \/ (phase = "idle" /\ pos = total)
    /\ memory' = Max(Memories)
    /\ UNCHANGED <<open, copy, total, kv, kbuf, vbuf, packed, dirty, filled,
                   unitVars, threadVars>>

Thread ==
    \/ \E len \in Lens : NewTurn(len)
    \/ NewChunk \/ AppendRow \/ Attend \/ SubmitScores \/ SubmitAhead
    \/ CollectScores \/ SubmitValues \/ CollectBehind \/ CollectLast \/ LayerOver

Next == Thread \/ Hardware \/ MemoryFreed
Fairness == WF_vars(Thread) /\ WF_vars(Hardware)
Spec == Init /\ [][Next]_vars /\ Fairness

------------------------------------------------------------------------------
(* What the NPU is taken to have computed for a layer is attention over    *)
(* the rows of this turn: every word of it was written by the job it was   *)
(* asked of, from the right scores and the surfaces of the head's own kv   *)
(* head, laid out as that job reads them.                                  *)
AttentionRight == phase = "taken" => got = {"right"}

(* "Did the hardware write this output?" (sentinel.h): no answer that is   *)
(* held or taken is something an earlier group, or nobody, left there.     *)
DeadJobsNoticed ==
    /\ "other" \notin got
    /\ \A u \in Units : unit[u].held =>
          \A i \in DOMAIN unit[u].out : unit[u].out[i] # "other"

(* While a job is queued nothing touches its input, its streams or its     *)
(* output buffer, and no second job of the same handle is queued.          *)
BuffersStill ==
    [][\A u \in Units :
         (Queued(u) /\ \E i \in DOMAIN queue' : queue'[i] = u)
            => /\ unit'[u] = unit[u]
               /\ Cardinality({i \in DOMAIN queue' : queue'[i] = u}) = 1]_vars

(* Nothing a surface holds below its layer's count was read through a      *)
(* layout it was not written in, if it is in the layout the values are     *)
(* asked at: a growth "falls through to the allocating path below, which   *)
(* is always correct" (llama.c:6257).                                      *)
NothingScrambled ==
    \A i \in DOMAIN vbuf : vbuf[i].k = kv =>
        \A p \in Places : p < packed[LayerOf(i)] => vbuf[i].col[p] # "garbage"

(* A layer that is begun is finished.                                      *)
EveryLayerEnds == (phase # "idle") ~> (phase = "idle")
==============================================================================
