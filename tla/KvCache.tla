------------------------------- MODULE KvCache -------------------------------
(***************************************************************************)
(* The KV cache of one conversation (src/llama.c): the float cache that    *)
(* every forward writes, the cursor s->pos, and the fp16 mirror of it      *)
(* which the batched forward keeps for attention on the NPU.               *)
(*                                                                         *)
(* A row is abstracted to the token whose keys and values it holds, and    *)
(* all the layers and heads to one: what attention reads is the sequence   *)
(* of tokens in the rows it reads, and the logits of a row are a function  *)
(* of that sequence and of nothing else.                                   *)
(***************************************************************************)
EXTENDS Integers, Sequences

CONSTANTS
    Token,         \* the vocabulary
    NoToken,       \* what a row nothing was written to holds
    Models,        \* the language models considered
    Argmax(_, _),  \* Argmax(m, s): llama_argmax of model m's logits after s
    NCtx,          \* s->n_ctx
    Slack,         \* rows beyond n_ctx, so that writing past it is visible
    MirrorMin,     \* CHARSIU_ATTN_NPU_MIN: a shorter prompt builds no mirror
    AtomRows       \* fewer positions than this are never attended on the NPU

ASSUME KvAssumption ==
    /\ NoToken \notin Token
    /\ NCtx \in Nat \ {0}
    /\ Slack \in Nat
    /\ MirrorMin \in Nat
    /\ AtomRows \in Nat

(* Every model says something, whatever it attends to.  Over all sequences *)
(* TLC cannot evaluate this, so the theorems assume it by name.            *)
ModelsAnswer ==
    \A m \in Models, s \in Seq(Token \cup {NoToken}) : Argmax(m, s) \in Token

VARIABLES
    model,     \* the model loaded
    rows,      \* s->kcache and s->vcache
    pos,       \* s->pos
    logits,    \* s->logits, as the token that has the largest of them
    mirror,    \* the K and V surfaces of s->anpu
    packed,    \* a->packed: positions the mirror is taken to hold
    mirrorIs   \* s->anpu: "none" yet, "open", or "refused" for good (a->off)

cacheVars == <<model, rows, pos, logits, mirror, packed, mirrorIs>>

Places == 0..(NCtx + Slack - 1)
Blank == [p \in Places |-> NoToken]

CacheTypeOK ==
    /\ model \in Models
    /\ rows \in [Places -> Token \cup {NoToken}]
    /\ pos \in 0..NCtx
    /\ logits \in Token
    /\ mirror \in [Places -> Token \cup {NoToken}]
    /\ packed \in 0..(NCtx + Slack)
    /\ mirrorIs \in {"none", "open", "refused"}

CacheInit ==
    /\ model \in Models
    /\ rows = Blank
    /\ pos = 0
    /\ logits \in Token
    /\ mirror = Blank
    /\ packed = 0
    /\ mirrorIs = "none"

------------------------------------------------------------------------------
(* A store after the tokens of toks have been written from row p on.       *)
Written(store, toks, p) ==
    [q \in Places |-> IF q \in p..(p + Len(toks) - 1)
                      THEN toks[q - p + 1] ELSE store[q]]

(* What a row attends to: every row of the store up to and including it,   *)
(* and the token that its logits then favour.                              *)
Attended(store, p) == [i \in 1..(p + 1) |-> store[i - 1]]
After(store, p) == Argmax(model, Attended(store, p))

(* Mutant: a decoded position is counted as mirrored.                      *)
ForwardCounts(tok) ==
    /\ pos < NCtx
    /\ rows' = [rows EXCEPT ![pos] = tok]
    /\ logits' = After(rows', pos)
    /\ pos' = pos + 1
    /\ packed' = IF packed <= pos THEN pos + 1 ELSE packed
    /\ UNCHANGED <<model, mirror, mirrorIs>>

(* llama_forward: one token at s->pos, on the float cache alone.  "The     *)
(* decode path no longer writes the mirror" (llama.c:9273).                *)
Forward(tok) ==
    /\ pos < NCtx
    /\ rows' = [rows EXCEPT ![pos] = tok]
    /\ logits' = After(rows', pos)
    /\ pos' = pos + 1
    /\ UNCHANGED <<model, mirror, packed, mirrorIs>>

------------------------------------------------------------------------------
(* attn_npu_get: the mirror is built at the first batch that wants it, or  *)
(* fails to be and is never tried again.                                   *)
Wanted(mode, total) ==
    \/ mode = "on"
    \/ mode = "auto" /\ total >= MirrorMin

MirrorGot(mode, total) ==
    mirrorIs' \in IF mirrorIs = "none" /\ Wanted(mode, total)
                  THEN {"open", "refused"} ELSE {mirrorIs}

(* attn_npu_append raises the count to the row it has just written, and    *)
(* attn_npu_catchup then fills what lies between the count and the rows    *)
(* this layer is about to read.                                            *)
Raised(to) == IF packed < to THEN to ELSE packed
CaughtUp(store, from, to) ==
    [q \in Places |-> IF q \in from..(to - 1) THEN rows'[q] ELSE store[q]]

Appended(toks) ==
    IF mirrorIs' = "open"
    THEN /\ packed' = Raised(pos + Len(toks))
         /\ mirror' = CaughtUp(Written(mirror, toks, pos),
                               packed', pos + Len(toks))
    ELSE UNCHANGED <<packed, mirror>>

(* batch_layers over toks at s->pos, for a prompt of `total` tokens (0     *)
(* when no prompt is being served): every row goes to the float cache and  *)
(* to the mirror.  s->pos is the caller's to advance.                      *)
BatchLayers(toks, mode, total) ==
    /\ rows' = Written(rows, toks, pos)
    /\ MirrorGot(mode, total)
    /\ Appended(toks)
    /\ UNCHANGED model

(* The store a batch that ends before row `to` attends over: the mirror    *)
(* where the NPU takes the layer, the float cache where it does not (no    *)
(* mirror, too few rows, a refused group: attn_block falls back).          *)
Read(to) ==
    {rows'} \cup IF mirrorIs' = "open" /\ to >= AtomRows THEN {mirror'} ELSE {}

(* llama_prefill_batch.                                                    *)
PrefillBatch(toks, mode, total) ==
    /\ BatchLayers(toks, mode, total)
    /\ pos' = pos + Len(toks)
    /\ \E store \in Read(pos') : logits' = After(store, pos' - 1)

(* The batched forward gives up: before it touches anything, or when the   *)
(* attention of some layer cannot have its scratch and rows are written.   *)
BatchRefused(toks, mode, total) ==
    /\ \/ UNCHANGED cacheVars
       \/ BatchLayers(toks, mode, total) /\ UNCHANGED <<pos, logits>>

------------------------------------------------------------------------------
(* No forward ever writes past the end of the cache: the allocation is     *)
(* n_ctx rows a head, and a padded speculative pass writes up to k + 2 of  *)
(* them at once (llama.c:9657).                                            *)
RowsFit == \A p \in Places : p >= NCtx => rows[p] = NoToken /\ mirror[p] = NoToken

(* Every row below the mirror's count has been mirrored, and holds what    *)
(* the float cache holds there: "how many positions each layer's mirror    *)
(* actually holds" (llama.c:5216).  What attention on the NPU reads is     *)
(* right exactly when this is.                                             *)
MirrorFilled ==
    mirrorIs = "open" =>
        \A p \in Places : p < packed /\ p < pos => mirror[p] = rows[p]
==============================================================================
