---------------------------- MODULE ForwardPass ----------------------------
(***************************************************************************)
(* The two ways src/llama.c computes a model's layers: a token at a time   *)
(* (llama_forward) and a chunk of the prompt at once (batch_layers), over  *)
(* one KV cache.                                                           *)
(*                                                                         *)
(* A vector is one number, and what a kernel makes of its operands a       *)
(* number mixed from theirs, so two computations agree where they apply    *)
(* the same kernels to the same operands in the same order; a head's rows  *)
(* are a number each.  A sum is ordered too, as the float sums are: the    *)
(* comments of attn_heads and attn_block_heads promise its order.  Neither *)
(* the NPU (its own modules) nor CHARSIU_KV_BITS, which rounds what the    *)
(* cache keeps, is here.                                                   *)
(***************************************************************************)
EXTENDS ModelLoad, SequencesExt

CONSTANTS
    Quad,   \* how many positions attn_dot4 takes at once: 4
    Octet    \* how many attn_axpy8 takes: 8

Prime == 40009
Mix(a, b, c) == (a * a + 31 * (b % Prime) + c) % Prime
Junk == 40008               \* what memory nothing has written holds

\* Every element is computed here and now.
Eager(f) == SubSeq(f, 1, Len(f))

-----------------------------------------------------------------------------
(* The kernels.  A vector of heads is a sequence.                          *)

MatVec(W, x) == Mix(x, W, 1)
HeadsOf(W, x, n) == Eager([h \in 1..n |-> Mix(x, W, 1 + h)])
AsVector(heads) == FoldLeft(LAMBDA a, h : Mix(a, h, 2), 3, heads)
RmsNorm(x, g) == Mix(x, g, 4)
AddBias(heads, b) == Eager([h \in DOMAIN heads |-> (heads[h] + Mix(b, h, 5)) % Prime])
QkNorm(heads, g) == Eager([h \in DOMAIN heads |-> Mix(heads[h], g, 6)])
RopeTable(hd, pos, base, freqs) == Mix(Mix(hd, pos, base), freqs, 7)
Rope(heads, hd, cs, neox) ==
    Eager([h \in DOMAIN heads |-> Mix(Mix(heads[h], hd, neox), cs, 8)])
ActMul(a, b, nff, gelu) == Mix(Mix(a, b, nff), IF gelu THEN 1 ELSE 0, 9)
GeluMul(a, b, np) == Mix(a, b, np)
Add(x, o) == (x + o) % Prime
AddNormed(x, o, g) == Add(x, IF g = Null THEN o ELSE RmsNorm(o, g))
Scaled(x, sc) == Mix(x, sc, 10)
Softcap(x, c) == IF c = 0 THEN x ELSE Mix(x, c, 11)
Embedding(m, tok) ==
    LET row == Mix(tok, m.tok_embd, 12)
    IN IF m.embd_scale # 1 THEN Scaled(row, m.embd_scale) ELSE row

\* A per-layer input: the projection of the scaled embedding, its norm taken
\* a layer at a time, and the token's row of a second table.
PerLayerInput(m, projected, tok, l) ==
    Mix(RmsNorm(Mix(projected, l, 13), m.pl_proj_norm), Mix(tok, m.pl_tok_embd, l), 14)

Logits(m, x) == Softcap(MatVec(m.output, RmsNorm(x, m.out_norm)), m.softcap)

\* The softmax of scores[lo..hi], and its product with the values at ts.
Soft(scores, lo, hi) ==
    LET total == FoldLeft(LAMBDA a, i : Mix(a, scores[lo + i - 1], 15), 0,
                         [i \in 1..(hi - lo + 1) |-> i])
    IN [t \in lo..hi |-> Mix(scores[t], total, 16)]
Axpy(soft, values, ts) ==
    FoldLeft(LAMBDA out, t : Mix(out, soft[t], values[t]), 0, ts)
Score(q, k, scale) == Mix(Mix(q, k, 17), scale, 18)

Max0(n) == IF n > 0 THEN n ELSE 0
Oldest(m, swa, pos) == IF swa THEN Max0(pos + 1 - m.n_swa) ELSE 0

\* A window layer turns at its own base, and without frequency factors, where
\* its base or its head is not the full layers'.
OwnSwaTable(m) ==
    /\ m.swa_pattern # 0 \/ m.swa_arr
    /\ m.rope_base_swa # m.rope_base \/ m.head_dim_swa # m.head_dim
TableFor(m, own, pos) ==
    IF own THEN RopeTable(m.head_dim_swa, pos, m.rope_base_swa, Null)
    ELSE RopeTable(m.head_dim, pos, m.rope_base, m.rope_freqs)

Source(L, l) == IF L.kv_from >= 0 THEN L.kv_from + 1 ELSE l

-----------------------------------------------------------------------------
(* The state: the cache, kc[l][t] and vc[l][t] a sequence of kv heads, and *)
(* what batch_layers keeps between its calls -- row buffers for bx_n rows, *)
(* the rope tables with the ones that have been made, and the score        *)
(* scratch.                                                                *)

NoEmbd == -1

\* knobs: CHARSIU_ATTN_BLOCK's rows a pass, CHARSIU_ATTN_HR and CHARSIU_ATTN_AXPY8

NewState(m, n_ctx, knobs) ==
    LET cold == [l \in 1..m.n_layer |->
                    [t \in 0..(n_ctx - 1) |-> [h \in 1..m.n_head_kv |-> Junk]]]
    IN [n_ctx |-> n_ctx, knobs |-> knobs, kc |-> cold, vc |-> cold,
        embd_in |-> NoEmbd, logits |-> <<>>,
        bx_n |-> 0, table |-> <<>>, have |-> <<>>,
        batt |-> [rows |-> 0, units |-> 0, cells |-> 0]]

\* Heads h*gqa .. of a group read kv head h.
KvHead(m, h) == (h - 1) \div (m.n_head \div m.n_head_kv) + 1
Column(cache, l, kvh) == [t \in DOMAIN cache[l] |-> cache[l][t][kvh]]

-----------------------------------------------------------------------------
(* A token at a time.                                                      *)

\* attn_heads: all positions a row may look at, oldest first
AttnHeads(m, kc, vc, src, q, pos, lo) ==
    Eager([h \in 1..m.n_head |->
        LET k == Column(kc, src, KvHead(m, h))
            v == Column(vc, src, KvHead(m, h))
            scores == [t \in lo..pos |-> Score(q[h], k[t], m.attn_scale)]
        IN Axpy(Soft(scores, lo, pos), v, [i \in 1..(pos - lo + 1) |-> lo + i - 1])])

\* The three projections of one row, where a layer has them; V is K where it
\* has none, before any bias or norm.
Projected(m, L, xb) ==
    LET k == HeadsOf(L.wk, xb, m.n_head_kv)
    IN [q |-> HeadsOf(L.wq, xb, m.n_head), k |-> k,
        v |-> IF L.wv = Null THEN k ELSE HeadsOf(L.wv, xb, m.n_head_kv)]

\* Biases, norms and rotation of one row.
Turned(m, L, p, cs) ==
    LET biased(y, b) == IF L.bq # Null THEN AddBias(y, b) ELSE y
        normed(y, g) == IF L.q_norm # Null THEN QkNorm(y, g) ELSE y
        turned(y) == Rope(y, L.head_dim, cs, m.rope_neox)
        v == biased(p.v, L.bv)
    IN [q |-> turned(normed(biased(p.q, L.bq), L.q_norm)),
        k |-> turned(normed(biased(p.k, L.bk), L.k_norm)),
        v |-> IF m.v_norm THEN QkNorm(v, Null) ELSE v]

\* The row's K and V into the cache, and its attention; acc is [x, kc, vc].
TokenAttention(m, L, acc, l, pos) ==
    LET cs == TableFor(m, L.swa /\ OwnSwaTable(m), pos)
        row == Turned(m, L, Projected(m, L, RmsNorm(acc.x, L.attn_norm)), cs)
        kc == IF L.wk = Null THEN acc.kc ELSE [acc.kc EXCEPT ![l][pos] = row.k]
        vc == IF L.wk = Null THEN acc.vc ELSE [acc.vc EXCEPT ![l][pos] = row.v]
        att == AttnHeads(m, kc, vc, Source(L, l), row.q, pos, Oldest(m, L.swa, pos))
    IN [x |-> AddNormed(acc.x, MatVec(L.wo, AsVector(att)), L.attn_post_norm),
        kc |-> kc, vc |-> vc]

\* The feed forward, and what gemma4 adds behind it.
TokenFeed(m, L, x, pl) ==
    LET xb == RmsNorm(x, L.ffn_norm)
        hb == ActMul(MatVec(L.gate, xb), MatVec(L.up, xb), L.n_ff, m.ffn_gelu)
        x2 == AddNormed(x, MatVec(L.down, hb), L.ffn_post_norm)
        g == GeluMul(MatVec(L.pl_inp_gate, x2), pl, m.n_embd_pl)
        x3 == IF L.pl_inp_gate = Null THEN x2
              ELSE AddNormed(x2, MatVec(L.pl_proj, g), L.pl_post_norm)
    IN IF L.out_scale = Null THEN x3 ELSE Scaled(x3, L.out_scale)

ThenFeed(m, L, after, pl) == [after EXCEPT !.x = TokenFeed(m, L, @, pl)]
TokenLayer(m, acc, l, pos, pl) ==
    ThenFeed(m, m.layers[l], TokenAttention(m, m.layers[l], acc, l, pos), pl[l])

TokenLayers(m, s, x0, tok, pos) ==
    LET projected == MatVec(m.pl_model_proj, x0)
        pl == [l \in 1..m.n_layer |-> PerLayerInput(m, projected, tok, l)]
    IN FoldLeft(LAMBDA acc, l : TokenLayer(m, acc, l, pos, pl),
               [x |-> x0, kc |-> s.kc, vc |-> s.vc], [l \in 1..m.n_layer |-> l])
AfterToken(m, s, end) ==
    [s EXCEPT !.kc = end.kc, !.vc = end.vc, !.embd_in = NoEmbd,
              !.logits = <<Logits(m, end.x)>>]

\* llama_forward.  A full context is refused before anything is read.
Forward(m, s, tok, pos) ==
    IF pos >= s.n_ctx THEN [s EXCEPT !.logits = <<>>]
    ELSE LET x0 == IF s.embd_in # NoEmbd THEN s.embd_in ELSE Embedding(m, tok)
         IN AfterToken(m, s, TokenLayers(m, s, x0, tok, pos))

ForwardEmbd(m, s, embd, pos) == Forward(m, [s EXCEPT !.embd_in = embd], 0, pos)

-----------------------------------------------------------------------------
(* A chunk at a time.  A chunk's rows are numbered from 0, as in the code, *)
(* and kept in sequences: row r is rows[r + 1].                            *)

RowsOf(n) == 0..(n - 1)
EachRow(n, Op(_)) == Eager([i \in 1..n |-> Op(i - 1)])
CeilDiv(a, b) == (a + b - 1) \div b
Lesser(a, b) == IF a < b THEN a ELSE b

\* As if the tables were cleared with the allocation and not with the chunk.
BatchBuffersKept(s, n) ==
    IF s.bx_n >= n THEN s
    ELSE [s EXCEPT !.bx_n = n, !.table = [i \in 0..(2 * n - 1) |-> Junk],
                   !.have = [i \in 0..(2 * n - 1) |-> FALSE]]

\* The row buffers grow to the longest chunk, and the tables are then new.
BatchBuffers(s, n) ==
    LET grown == IF s.bx_n >= n THEN s
                 ELSE [s EXCEPT !.bx_n = n,
                                !.table = [i \in 0..(2 * n - 1) |-> Junk],
                                !.have = [i \in 0..(2 * n - 1) |-> TRUE]]
    IN [grown EXCEPT !.have = [i \in DOMAIN grown.have |-> i >= 2 * n /\ grown.have[i]]]

\* rope_rows' table of one row of one layer: made once a position and variant
TableSlot(m, L, n, r) == (IF L.swa /\ OwnSwaTable(m) THEN n ELSE 0) + r
MakeTables(m, s, L, n, pos0) ==
    LET made == {TableSlot(m, L, n, r) : r \in RowsOf(n)}
        own == L.swa /\ OwnSwaTable(m)
    IN [s EXCEPT
          !.table = [i \in DOMAIN s.table |->
                        IF i \in made /\ ~s.have[i]
                        THEN TableFor(m, own, pos0 + (i % n)) ELSE s.table[i]],
          !.have = [i \in DOMAIN s.have |-> s.have[i] \/ i \in made]]

\* rope_rows on one row: biases, norms and rotation, of K and V where there
\* is a K
RopeRow(m, L, cs, q0, k0, v0) ==
    LET biased(y, b) == IF L.bq # Null THEN AddBias(y, b) ELSE y
        normed(y, g) == IF L.q_norm # Null THEN QkNorm(y, g) ELSE y
        own == L.wk # Null
    IN [q |-> Rope(normed(biased(q0, L.bq), L.q_norm), L.head_dim, cs, m.rope_neox),
        k |-> IF own THEN Rope(normed(biased(k0, L.bk), L.k_norm), L.head_dim, cs, m.rope_neox)
              ELSE k0,
        v |-> IF ~own THEN v0
              ELSE IF m.v_norm THEN QkNorm(biased(v0, L.bv), Null) ELSE biased(v0, L.bv)]

\* attn_block_heads' walk over the positions lo..hi of a block of rows, in
\* steps of `step`: what it visits for a row that sees tlo..pos.
Visits(lo, hi, step, tlo, pos) ==
    LET starts == {t \in lo..hi : (t - lo) % step = 0}
        of(t) == IF t + step - 1 <= hi /\ t >= tlo /\ t + step - 1 <= pos
                 THEN [i \in 1..step |-> t + i - 1]
                 ELSE SelectSeq([i \in 1..step |-> t + i - 1],
                                LAMBDA u : u <= hi /\ u >= tlo /\ u <= pos)
    IN FoldLeft(LAMBDA all, i : all \o of(lo + (i - 1) * step), <<>>,
               [i \in 1..Cardinality(starts) |-> i])

\* One head of the rows rb..re-1 of a chunk.
BlockHead(m, s, L, src, q, pos0, rb, re, h, u, R) ==
    LET k == Column(s.kc, src, KvHead(m, h))
        v == Column(s.vc, src, KvHead(m, h))
        lo == Oldest(m, L.swa, pos0 + rb)
        hi == pos0 + re - 1
        fits == (u + 1) * R * s.n_ctx <= s.batt.cells
        row(r) ==
            LET pos == pos0 + r
                tlo == Oldest(m, L.swa, pos)
                seen == LET vs == Visits(lo, hi, Quad, tlo, pos)
                        IN {vs[i] : i \in DOMAIN vs}
                scores == [t \in tlo..pos |->
                              IF fits /\ t \in seen
                              THEN Score(q[r + 1][h], k[t], m.attn_scale)
                              ELSE Junk]
                step == IF s.knobs.axpy8 THEN Octet ELSE Quad
            IN Axpy(Soft(scores, tlo, pos), v, Visits(lo, hi, step, tlo, pos))
    IN [r \in rb..(re - 1) |-> row(r)]

\* attn_block_cpu: the score scratch, then every unit -- a head and a block of
\* rows, or with CHARSIU_ATTN_HR=0 a head and all of them.
BlockRows(s, n) == Lesser(s.knobs.block, n)
Blocks(s, n) == IF s.knobs.hr THEN CeilDiv(n, BlockRows(s, n)) ELSE 1
FitScratch(m, s, n) ==
    LET R == BlockRows(s, n)
        units == m.n_head * Blocks(s, n)
    IN IF s.batt.cells # 0 /\ s.batt.rows >= R /\ s.batt.units >= units THEN s
       ELSE [s EXCEPT !.batt = [rows |-> R, units |-> units,
                                cells |-> units * R * s.n_ctx]]

AttnBlock(m, s, L, src, q, n, pos0) ==
    LET R == BlockRows(s, n)
        nblk == Blocks(s, n)
        unit(h, b) == (h - 1) * nblk + b
        blockOf(r) == IF s.knobs.hr THEN r \div R ELSE 0
        head(h, r) ==
            LET rb == R * (r \div R)
            IN BlockHead(m, s, L, src, q, pos0, rb, Lesser(rb + R, n), h,
                         unit(h, blockOf(r)), R)[r]
    IN EachRow(n, LAMBDA r : Eager([h \in 1..m.n_head |-> head(h, r)]))

\* The K and V of the chunk into the cache, row by row; with no block the
\* attention of a row is between its append and the next.
AppendRows(cache, l, pos0, rows) ==
    [cache EXCEPT ![l] = [t \in DOMAIN cache[l] |->
        IF t - pos0 + 1 \in DOMAIN rows THEN rows[t - pos0 + 1] ELSE cache[l][t]]]

\* norm1_rows, the matmuls over all rows, and rope_rows
BatchRows(m, L, x, tables, n) ==
    LET xb == EachRow(n, LAMBDA r : RmsNorm(x[r + 1], L.attn_norm))
        q == EachRow(n, LAMBDA r : HeadsOf(L.wq, xb[r + 1], m.n_head))
        k == EachRow(n, LAMBDA r : HeadsOf(L.wk, xb[r + 1], m.n_head_kv))
        v == IF L.wv = Null THEN k
             ELSE EachRow(n, LAMBDA r : HeadsOf(L.wv, xb[r + 1], m.n_head_kv))
    IN EachRow(n, LAMBDA r : RopeRow(m, L, tables[TableSlot(m, L, n, r)],
                                     q[r + 1], k[r + 1], v[r + 1]))

\* A layer without a K stores nothing; with no block nothing needs scratch.
Stored(s, L, l, n, pos0, rows) ==
    IF L.wk = Null THEN s
    ELSE [s EXCEPT !.kc = AppendRows(@, l, pos0, [i \in 1..n |-> rows[i].k]),
                   !.vc = AppendRows(@, l, pos0, [i \in 1..n |-> rows[i].v])]
Fitted(m, s, n) == IF s.knobs.block > 0 THEN FitScratch(m, s, n) ELSE s
AttnRows(m, s, L, src, q, n, pos0) ==
    IF s.knobs.block > 0 THEN AttnBlock(m, s, L, src, q, n, pos0)
    ELSE EachRow(n, LAMBDA r : AttnHeads(m, s.kc, s.vc, src, q[r + 1], pos0 + r,
                                         Oldest(m, L.swa, pos0 + r)))

\* wo and res1_rows
AfterAttention(m, L, x, att, s, n) ==
    [x |-> EachRow(n, LAMBDA r :
              AddNormed(x[r + 1], MatVec(L.wo, AsVector(att[r + 1])), L.attn_post_norm)),
     s |-> s]
AttendStored(m, L, l, n, pos0, x, q, s) ==
    AfterAttention(m, L, x, AttnRows(m, s, L, Source(L, l), q, n, pos0), s, n)

\* The chunk's K and V into the cache, then its attention; acc is [x, s], x
\* the rows.
AttendRows(m, L, l, n, pos0, x, rows, s) ==
    AttendStored(m, L, l, n, pos0, x, Eager([i \in 1..n |-> rows[i].q]),
                 Fitted(m, Stored(s, L, l, n, pos0, rows), n))
BatchAttention(m, L, acc, l, n, pos0) ==
    LET s == MakeTables(m, acc.s, L, n, pos0)
    IN AttendRows(m, L, l, n, pos0, acc.x, BatchRows(m, L, acc.x, s.table, n), s)

\* gate and up, silu_rows, down, res2_rows, and what gemma4 adds
BatchFeed(m, L, x, l, n, pl) ==
    LET xb == EachRow(n, LAMBDA r : RmsNorm(x[r + 1], L.ffn_norm))
        hb == EachRow(n, LAMBDA r : ActMul(MatVec(L.gate, xb[r + 1]), MatVec(L.up, xb[r + 1]),
                                           L.n_ff, m.ffn_gelu))
        x2 == EachRow(n, LAMBDA r : AddNormed(x[r + 1], MatVec(L.down, hb[r + 1]),
                                              L.ffn_post_norm))
        g(r) == GeluMul(MatVec(L.pl_inp_gate, x2[r + 1]), pl[r + 1][l], m.n_embd_pl)
        x3 == IF L.pl_inp_gate = Null THEN x2
              ELSE EachRow(n, LAMBDA r : AddNormed(x2[r + 1], MatVec(L.pl_proj, g(r)),
                                                   L.pl_post_norm))
    IN IF L.out_scale = Null THEN x3 ELSE EachRow(n, LAMBDA r : Scaled(x3[r + 1], L.out_scale))

ThenBatchFeed(m, L, after, l, n, pl) == [after EXCEPT !.x = BatchFeed(m, L, @, l, n, pl)]
BatchLayer(m, acc, l, n, pos0, pl) ==
    ThenBatchFeed(m, m.layers[l], BatchAttention(m, m.layers[l], acc, l, n, pos0), l, n, pl)

\* batch_layers; the per-layer inputs are each row's own.
BatchLayers(m, s, toks, pos0) ==
    LET n == Len(toks)
        x0 == EachRow(n, LAMBDA r : Embedding(m, toks[r + 1]))
        pl == EachRow(n, LAMBDA r :
                 LET projected == MatVec(m.pl_model_proj, x0[r + 1])
                 IN [l \in 1..m.n_layer |-> PerLayerInput(m, projected, toks[r + 1], l)])
    IN FoldLeft(LAMBDA acc, l : BatchLayer(m, acc, l, n, pos0, pl),
               [x |-> x0, s |-> BatchBuffers(s, n)], [l \in 1..m.n_layer |-> l])

\* llama_prefill_batch, and llama_verify_batch, which answers for every row
AfterRows(m, end, rows) ==
    [end.s EXCEPT !.logits = Eager([i \in 1..Len(rows) |-> Logits(m, end.x[rows[i]])])]
PrefillBatch(m, s, toks, pos0) ==
    AfterRows(m, BatchLayers(m, s, toks, pos0), <<Len(toks)>>)
VerifyBatch(m, s, toks, pos0) ==
    AfterRows(m, BatchLayers(m, s, toks, pos0), [r \in DOMAIN toks |-> r])
=============================================================================
