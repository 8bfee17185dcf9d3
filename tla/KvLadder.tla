------------------------------ MODULE KvLadder ------------------------------
(***************************************************************************)
(* The fp16 mirror of the KV cache as attention on the NPU has it          *)
(* (src/llama.c, struct attn_npu): for every layer and kv head a K surface *)
(* of fixed extent and a V surface whose extent, and with it the place of  *)
(* every element, climbs a ladder as positions arrive.                     *)
(*                                                                         *)
(* What a surface holds at a position is told as "now" (the float cache's  *)
(* row of this turn), "old" (of an earlier turn), "none" (zero) or         *)
(* "garbage" (read through a layout other than the one it was written in). *)
(* `dev` is what the device sees: the CPU's writes reach it when flushed.  *)
(***************************************************************************)
EXTENDS Integers, Sequences, FiniteSets, FiniteSetsExt

CONSTANTS
    Layers, NKv,   \* a->n_layer, a->nkv
    NCtx,          \* s->n_ctx
    Pair,          \* the 32 a ladder extent is a multiple of; half is the 16
    Step,          \* CHARSIU_ATTN_KV_STEP, percent
    Copies,        \* CHARSIU_ATTN_KV_COPY, the settings considered
    Memories       \* positions of V surface the device has memory for

AlignUp(x, a) == ((x + a - 1) \div a) * a

ASSUME LadderAssumption ==
    /\ {Layers, NKv, NCtx, Pair} \subseteq Nat \ {0}
    /\ Pair % 2 = 0
    /\ Step \in Nat /\ Step >= 110
    /\ Copies \subseteq BOOLEAN
    /\ Memories \subseteq Nat
    /\ \E most \in Memories : \A m \in Memories : most >= m

NK == AlignUp(NCtx, Pair \div 2)       \* a->nk
KvMax == AlignUp(NCtx, Pair)           \* a->kvmax
Places == 0..(KvMax - 1)
Surfaces == 0..(Layers * NKv - 1)      \* layer by layer, head by head
SurfaceOf(l, kh) == l * NKv + kh
LayerOf(i) == i \div NKv

VARIABLES
    open,      \* s->anpu: "none", "open", or "off" for good
    copy,      \* attn_npu_kv_copy(): growth copies columns, else repacks
    memory,    \* what the device has of it, of Memories
    total,     \* s->prompt_total
    kv,        \* a->kv
    kbuf,      \* a->kb: what each K surface holds, and what the device sees
    vbuf,      \* a->vb, see Fresh
    packed,    \* a->packed
    dirty,     \* a->dirty
    filled     \* rows of this turn each layer has in the float cache

ladderVars == <<open, copy, memory, total, kv, kbuf, vbuf, packed, dirty,
                filled>>

Tag == {"now", "old", "none", "garbage"}
Nothing == [p \in Places |-> "none"]

(* charsiu_fp16_w_alloc_room at a layout: zeroed, and flushed.             *)
Fresh(addr, k, room) ==
    [addr |-> addr, k |-> k, at |-> k, room |-> room,
     col |-> Nothing, dev |-> [at |-> k, col |-> Nothing]]

LadderTypeOK ==
    /\ open \in {"none", "open", "off"}
    /\ copy \in Copies /\ memory \in Memories
    /\ total \in 0..NCtx
    /\ kv \in {k \in 0..KvMax : k % Pair = 0}
    /\ \A i \in DOMAIN vbuf : /\ {vbuf[i].k, vbuf[i].at} \subseteq 0..vbuf[i].room
                              /\ vbuf[i].room <= KvMax
                              /\ \A p \in Places : vbuf[i].col[p] \in Tag
    /\ packed \in [0..(Layers - 1) -> 0..NCtx]
    /\ dirty \in [0..(Layers - 1) -> BOOLEAN]
    /\ filled \in [0..(Layers - 1) -> 0..NCtx]

LadderInit ==
    /\ open = "none"
    /\ copy \in Copies
    /\ memory \in Memories
    /\ total = 0
    /\ kv = Pair
    /\ kbuf = [i \in Surfaces |-> [col |-> Nothing, dev |-> Nothing]]
    /\ vbuf = <<>>
    /\ packed = [l \in 0..(Layers - 1) |-> 0]
    /\ dirty = [l \in 0..(Layers - 1) |-> FALSE]
    /\ filled = [l \in 0..(Layers - 1) |-> 0]

------------------------------------------------------------------------------
(* The prompt's own ceiling, and attn_npu_kv_room: what a surface that has *)
(* to be allocated is given beyond the extent it is needed at.             *)
Ceiling == LET cap == AlignUp(total, Pair) IN IF cap > KvMax THEN KvMax ELSE cap
KvRoom == IF copy THEN Ceiling ELSE 0

RoomFor(k) == IF KvRoom < k THEN k ELSE KvRoom

(* An address for a surface: one that is free, which for the next is the   *)
(* one that the surface replaced last has left.                            *)
NewAddr(bufs) ==
    CHOOSE a \in 0..Cardinality(Surfaces) : \A i \in DOMAIN bufs : bufs[i].addr # a

(* attn_npu_get: at its first call a surface a layer and head, or nothing  *)
(* for as long as the state lives.                                         *)
Opened == IF open # "none" THEN open
          ELSE IF memory >= Cardinality(Surfaces) * RoomFor(kv) THEN "open"
          ELSE "off"
Surfs == IF open = "none" /\ Opened = "open"
         THEN [i \in Surfaces |-> Fresh(i, kv, RoomFor(kv))] ELSE vbuf

------------------------------------------------------------------------------
(* charsiu_fp16_pack_vcol in a given layout.  A surface laid out otherwise *)
(* is not one that can be read any more.                                   *)
PackCol(s, layout, p, tag) ==
    IF s.at = layout THEN [s EXCEPT !.col[p] = tag]
    ELSE [s EXCEPT !.at = layout,
                   !.col = [q \in Places |-> IF q = p THEN tag ELSE "garbage"]]

(* charsiu_fp16_regrow_vcols of s from one layout to a larger one: whole   *)
(* k groups up to the last live column, and zeros behind them.             *)
Regrows(from, to, live) == live > 0 /\ to >= from /\ live <= from
Regrown(s, from, to, live) ==
    [s EXCEPT !.at = to,
       !.col = [p \in Places |->
                  IF p < AlignUp(live, Pair)
                  THEN IF s.at = from THEN s.col[p] ELSE "garbage"
                  ELSE "none"]]

(* The extent attn_npu_fit climbs to: rungs of Step percent from a->kv,    *)
(* never past the context, nor past the prompt's own ceiling if that will  *)
(* do.                                                                     *)
NextRung(k) ==
    LET nx == AlignUp((k * Step) \div 100, Pair)
        up == IF nx <= k THEN k + Pair ELSE nx
    IN  IF up > KvMax THEN KvMax ELSE up
ClimbTo(want) ==
    LET rung[k \in 0..(KvMax * Step)] ==
          IF k >= want THEN k ELSE rung[NextRung(k)]
    IN  IF Ceiling > 0 /\ want <= Ceiling /\ rung[kv] > Ceiling
        THEN Ceiling ELSE rung[kv]

(* What layer l's float cache holds at p.                                  *)
FloatTag(l, p) == IF p < filled'[l] THEN "now" ELSE "old"

(* attn_npu_fit for position want - 1, over the surfaces one by one: those *)
(* with the room are laid out again where they are, the rest are replaced  *)
(* and copied into; if the columns cannot be copied (the first surface     *)
(* tells) every one is replaced, and in the end packed again from the      *)
(* float cache.  An allocation that fails leaves what was done before it.  *)
Fitted(bufs, want) ==
    LET to == ClimbTo(want)
        live == want - 1
        copied == copy /\ Regrows(kv, to, live)
        stays(i) == copied /\ bufs[i].room >= to
        used(i) == MapThenSumSet(
                     LAMBDA j : IF j < i /\ ~stays(j) THEN RoomFor(to) ELSE bufs[j].room,
                     Surfaces)
        fails == {i \in Surfaces : ~stays(i) /\ used(i) + RoomFor(to) > memory}
        before(i) == {j \in Surfaces : j < i /\ ~stays(j)}
        addr(i) == IF before(i) = {} THEN NewAddr(bufs) ELSE bufs[Max(before(i))].addr
        columns(i) == IF copied THEN Regrown(bufs[i], kv, to, live).col
                      ELSE [p \in Places |->
                              IF fails = {} /\ p < live THEN FloatTag(LayerOf(i), p)
                              ELSE "none"]
    IN  [bufs |-> [i \in Surfaces |->
            IF \E f \in fails : f <= i THEN bufs[i]
            ELSE IF stays(i) THEN [Regrown(bufs[i], kv, to, live) EXCEPT !.k = to]
            ELSE [Fresh(addr(i), to, RoomFor(to)) EXCEPT !.col = columns(i)]],
         kv |-> IF fails = {} THEN to ELSE kv,
         failed |-> fails # {}]

DirtyAll(l) == [k \in DOMAIN dirty |-> TRUE]

------------------------------------------------------------------------------
(* attn_npu_append of position p for kv head kh of layer l, the float      *)
(* cache having been written just before.  A position that does not fit is *)
(* not mirrored.                                                           *)
AppendHead(l, kh, p) ==
    LET i == SurfaceOf(l, kh)
        fit == IF p >= kv THEN Fitted(Surfs, p + 1)
               ELSE [bufs |-> Surfs, kv |-> kv, failed |-> FALSE]
    IN  /\ open' = Opened
        /\ IF Opened # "open" \/ p >= NK
           THEN UNCHANGED <<kv, kbuf, vbuf, packed, dirty>>
           ELSE /\ kv' = fit.kv
                /\ IF fit.failed
                   THEN /\ vbuf' = fit.bufs
                        /\ UNCHANGED <<kbuf, packed, dirty>>
                   ELSE /\ kbuf' = [kbuf EXCEPT ![i].col[p] = "now"]
                        /\ vbuf' = [fit.bufs EXCEPT
                                      ![i] = PackCol(@, fit.kv, p, "now")]
                        /\ dirty' = [IF p >= kv THEN DirtyAll(l) ELSE dirty
                                       EXCEPT ![l] = TRUE]
                        /\ packed' = [packed EXCEPT
                              ![l] = IF kh = NKv - 1 /\ @ < p + 1 THEN p + 1 ELSE @]
        /\ UNCHANGED <<copy, memory, total>>

(* What attn_npu_layer does to layer l's surfaces before it reads rows     *)
(* below need: attn_npu_catchup packs what the float cache has and the     *)
(* count does not, and a dirty layer is flushed to the device.             *)
Late(l, need) == packed[l]..(need - 1)
Ready(l, need) ==
    LET late == Late(l, need)
        flush == dirty[l] \/ late # {}
        fill(col) == [p \in Places |-> IF p \in late THEN FloatTag(l, p) ELSE col[p]]
        caught(s) == IF late = {} THEN s
                     ELSE [s EXCEPT !.at = kv,
                             !.col = IF s.at = kv THEN fill(@)
                                     ELSE fill([p \in Places |-> "garbage"])]
    IN  /\ kbuf' = [i \in Surfaces |->
              IF flush /\ LayerOf(i) = l
              THEN [col |-> fill(kbuf[i].col), dev |-> fill(kbuf[i].col)]
              ELSE kbuf[i]]
        /\ vbuf' = [i \in Surfaces |->
              IF flush /\ LayerOf(i) = l
              THEN LET s == caught(vbuf[i])
                   IN  [s EXCEPT !.dev = [at |-> s.at, col |-> s.col]]
              ELSE vbuf[i]]
        /\ packed' = [packed EXCEPT ![l] = IF @ < need THEN need ELSE @]
        /\ dirty' = [dirty EXCEPT ![l] = FALSE]

(* A new turn on the same state: positions start again at 0, the mirror's  *)
(* counts and extent stay.                                                 *)
Aged(col) == [p \in Places |-> IF col[p] = "now" THEN "old" ELSE col[p]]
Restarted(len) ==
    /\ total' = len
    /\ filled' = [l \in DOMAIN filled |-> 0]
    /\ kbuf' = [i \in Surfaces |-> [col |-> Aged(kbuf[i].col), dev |-> Aged(kbuf[i].dev)]]
    /\ vbuf' = [i \in DOMAIN vbuf |->
                  [vbuf[i] EXCEPT !.col = Aged(@), !.dev.col = Aged(@)]]
    /\ UNCHANGED <<open, copy, memory, kv, packed, dirty>>

------------------------------------------------------------------------------
(* What the device sees of a surface in the first n positions is this      *)
(* turn's.                                                                 *)
KRight(i, n) == \A p \in 0..(n - 1) : kbuf[i].dev[p] = "now"
VRight(i, k, n) ==
    /\ vbuf[i].dev.at = k
    /\ n <= k
    /\ \A p \in 0..(n - 1) : vbuf[i].dev.col[p] = "now"
==============================================================================
