----------------------------- MODULE ModelLoad -----------------------------
(***************************************************************************)
(* llama_load: what a gguf file's keys and tensors make of a model, and    *)
(* which files are refused.                                                *)
(*                                                                         *)
(* A file is [arch, meta, tensors, unreadable, rows, env]: the keys it     *)
(* has (an array under a name of its own, since gguf_get_u32 does not read *)
(* one), the tensors <<name, layer>> this build can read, those of a type  *)
(* it cannot, the rows of the fused ones, and the variables of the         *)
(* environment that override a key.  The tokenizer is another module's.    *)
(***************************************************************************)
EXTENDS Integers, Sequences, FiniteSets

Arches == {"llama", "qwen2", "qwen3", "gemma3", "gemma4", "phi3", "smollm3"}

Names ==
    << "token_embd", "output_norm", "output", "rope_freqs", "rope_factors_short",
       "per_layer_token_embd", "per_layer_model_proj", "per_layer_proj_norm",
       "attn_norm", "attn_q", "attn_k", "attn_v", "attn_qkv", "attn_output",
       "attn_q.bias", "attn_k.bias", "attn_v.bias", "attn_q_norm", "attn_k_norm",
       "post_attention_norm", "post_ffw_norm", "inp_gate", "proj", "post_norm",
       "layer_output_scale", "ffn_gate_inp", "ffn_norm", "ffn_gate", "ffn_up",
       "ffn_down" >>

Top == 0                    \* the layer of a tensor that belongs to none
Null == 0
Tensor(f, name, l) ==
    IF <<name, l>> \in f.tensors
    THEN 100 * (l + 1) + CHOOSE i \in DOMAIN Names : Names[i] = name
    ELSE Null
Has(f, name, l) == <<name, l>> \in f.tensors \cup f.unreadable

\* GETU and GETF, and getenv
Key(f, key, default) == IF key \in DOMAIN f.meta THEN f.meta[key] ELSE default
Env(f, name, default) == IF name \in DOMAIN f.env THEN f.env[name] ELSE default

Refused == [loaded |-> FALSE]

Largest(S) == CHOOSE x \in S : \A y \in S : y <= x

-----------------------------------------------------------------------------
(* The shape.                                                              *)

HasArray(f, key, n) == key \in DOMAIN f.meta /\ Len(f.meta[key]) >= n

\* feed_forward_length, or the widest of an array of them
FeedForward(f, n_layer) ==
    LET widest == Largest({f.meta["feed_forward_length[]"][i] : i \in 1..n_layer})
    IN IF HasArray(f, "feed_forward_length[]", n_layer) /\ widest # 0 THEN widest
       ELSE Key(f, "feed_forward_length", 0)

Even(n) == n % 2 = 0

\* rope.dimension_count, unless the file says how long a key is
HeadDim(f, embd, heads) ==
    LET dims == Key(f, "rope.dimension_count", IF heads = 0 THEN 0 ELSE embd \div heads)
        keys == Key(f, "attention.key_length", 0)
    IN [declared |-> dims, used |-> IF keys # 0 /\ Even(keys) THEN keys ELSE dims]

\* The window and every how many layers one is full.
Swa(f) ==
    LET keyed == Key(f, "attention.sliding_window", 0)
        pattern == IF keyed = 0 THEN 0 ELSE Key(f, "attention.sliding_window_pattern", 6)
        n == Env(f, "CHARSIU_SWA", keyed)
        forced == IF "CHARSIU_SWA" \notin DOMAIN f.env THEN pattern
                  ELSE IF n = 0 THEN 0
                  ELSE IF pattern = 0 THEN 6 ELSE pattern
    IN [n |-> n,
        pattern |-> IF n # 0 THEN Env(f, "CHARSIU_SWA_PATTERN", forced) ELSE forced]

Neox == {"qwen2", "qwen3", "gemma3", "gemma4", "phi3"}

Shape(f) ==
    LET embd == Key(f, "embedding_length", 0)
        n_layer == Key(f, "block_count", 0)
        heads == Key(f, "attention.head_count", 0)
        hd == HeadDim(f, embd, heads)
        swa == Swa(f)
        gemma4 == f.arch = "gemma4"
        short == Key(f, "attention.key_length_swa", 0)
    IN [ok |-> /\ f.arch \in Arches
               /\ embd # 0 /\ n_layer # 0 /\ heads # 0 /\ FeedForward(f, n_layer) # 0
               /\ Even(hd.declared),
        n_layer |-> n_layer, n_head |-> heads,
        n_head_kv |-> Key(f, "attention.head_count_kv", heads),
        n_ff |-> FeedForward(f, n_layer), head_dim |-> hd.used,
        head_dim_swa |-> IF gemma4 /\ short # 0 /\ Even(short) THEN short ELSE hd.used,
        attn_scale |-> IF gemma4 THEN 1 ELSE hd.used,
        rope_neox |-> Env(f, "CHARSIU_ROPE_NEOX", IF f.arch \in Neox THEN 1 ELSE 0),
        rope_base |-> Key(f, "rope.freq_base", 10),
        rope_base_swa |-> Key(f, "rope.freq_base_swa", 10),
        n_swa |-> swa.n, swa_pattern |-> swa.pattern,
        swa_arr |-> HasArray(f, "attention.sliding_window_pattern[]", n_layer),
        softcap |-> Key(f, "final_logit_softcapping", 0),
        embd_scale |-> IF f.arch \in {"gemma3", "gemma4"} THEN embd ELSE 1,
        ffn_gelu |-> f.arch \in {"gemma3", "gemma4"},
        n_embd_pl |-> IF gemma4 THEN Key(f, "embedding_length_per_layer_input", 0) ELSE 0,
        v_norm |-> gemma4]

-----------------------------------------------------------------------------
(* The tensors.                                                            *)

Needed(f, m) ==
    {"token_embd", "output_norm"} \cup
    (IF m.n_embd_pl = 0 THEN {}
     ELSE {"per_layer_token_embd", "per_layer_model_proj", "per_layer_proj_norm"})

RopeFreqs(f) ==
    IF Has(f, "rope_freqs", Top) THEN Tensor(f, "rope_freqs", Top)
    ELSE Tensor(f, "rope_factors_short", Top)

NeededOfLayer(f) ==
    {"attn_norm", "attn_output", "ffn_norm", "ffn_down", "ffn_up"} \cup
    (CASE f.arch = "phi3" -> {"attn_qkv"}
       [] f.arch = "gemma4" -> {"attn_q", "ffn_gate"}
       [] OTHER -> {"attn_q", "attn_k", "attn_v", "ffn_gate"})

\* What phi3's fused weights are cut into: q, then k, then v; gate, then up.
Slice(of, row0, nrows) == [of |-> of, row0 |-> row0, nrows |-> nrows]
KeyRow(m) == m.n_head * m.head_dim
KeyRows(m) == m.n_head_kv * m.head_dim
\* As if V were cut where K is.
ValueRowOfKey(m) == KeyRow(m)
ValueRow(m) == KeyRow(m) + KeyRows(m)
Splits(f, m) ==
    IF f.arch # "phi3" THEN <<>>
    ELSE << Slice("attn_qkv", 0, KeyRow(m)), Slice("attn_qkv", KeyRow(m), KeyRows(m)),
            Slice("attn_qkv", ValueRow(m), KeyRows(m)),
            Slice("ffn_up", 0, m.n_ff), Slice("ffn_up", m.n_ff, m.n_ff) >>

\* subtensor: a slice as a tensor of its own
Part(f, l, i, slice) ==
    IF Tensor(f, slice.of, l) = Null \/ slice.row0 + slice.nrows > f.rows[slice.of] THEN Null
    ELSE 100 * (l + 1) + Len(Names) + i

Projections(f, m, l) ==
    LET part(i) == Part(f, l, i, Splits(f, m)[i])
    IN IF f.arch = "phi3"
       THEN [wq |-> part(1), wk |-> part(2), wv |-> part(3), gate |-> part(4), up |-> part(5)]
       ELSE [wq |-> Tensor(f, "attn_q", l), wk |-> Tensor(f, "attn_k", l),
             wv |-> Tensor(f, "attn_v", l), gate |-> Tensor(f, "ffn_gate", l),
             up |-> Tensor(f, "ffn_up", l)]

IsWindow(f, m, l) ==
    IF m.swa_arr
    THEN m.n_swa # 0 /\ f.meta["attention.sliding_window_pattern[]"][l + 1]
    ELSE m.swa_pattern # 0 /\ l % m.swa_pattern < m.swa_pattern - 1

\* The width of one layer: its own entry of the array, where that is not zero.
FfOfLayer(f, m, l) ==
    IF HasArray(f, "feed_forward_length[]", m.n_layer)
       /\ f.meta["feed_forward_length[]"][l + 1] # 0
    THEN f.meta["feed_forward_length[]"][l + 1]
    ELSE m.n_ff

\* lastKv[w]: the last layer, window or full, that has a K of its own
Layer(f, m, l, lastKv) ==
    LET p == Projections(f, m, l)
        t(name) == Tensor(f, name, l)
        swa == IsWindow(f, m, l)
    IN [wq |-> p.wq, wk |-> p.wk, wv |-> p.wv, gate |-> p.gate, up |-> p.up,
        split |-> Splits(f, m), swa |-> swa,
        head_dim |-> IF swa THEN m.head_dim_swa ELSE m.head_dim,
        n_ff |-> FfOfLayer(f, m, l),
        kv_from |-> IF p.wk = Null THEN lastKv[swa] ELSE -1,
        attn_norm |-> t("attn_norm"), wo |-> t("attn_output"),
        bq |-> t("attn_q.bias"), bk |-> t("attn_k.bias"), bv |-> t("attn_v.bias"),
        q_norm |-> t("attn_q_norm"), k_norm |-> t("attn_k_norm"),
        attn_post_norm |-> t("post_attention_norm"), ffn_post_norm |-> t("post_ffw_norm"),
        pl_inp_gate |-> t("inp_gate"), pl_proj |-> t("proj"),
        pl_post_norm |-> t("post_norm"), out_scale |-> t("layer_output_scale"),
        ffn_norm |-> t("ffn_norm"), down |-> t("ffn_down")]

LayerOk(f, L, l) ==
    /\ \A name \in NeededOfLayer(f) : Tensor(f, name, l) # Null
    /\ Null \notin {L.wq, L.gate, L.up}
    /\ L.wk = Null => f.arch = "gemma4" /\ L.kv_from >= 0
    /\ L.wv = Null => f.arch = "gemma4"
    /\ L.wk # Null => (L.q_norm = Null <=> L.k_norm = Null)
    /\ ~Has(f, "ffn_gate_inp", l)

WithLayer(before, L, l) ==
    [layers |-> Append(before.layers, L),
     last |-> IF L.wk = Null THEN before.last ELSE [before.last EXCEPT ![L.swa] = l]]

Layers(f, m) ==
    LET upto[n \in 0..m.n_layer] ==
          IF n = 0 THEN [layers |-> <<>>, last |-> [w \in BOOLEAN |-> -1]]
          ELSE LET before == upto[n - 1]
               IN WithLayer(before, Layer(f, m, n - 1, before.last), n - 1)
    IN upto[m.n_layer].layers

Together(a, b) == [x \in DOMAIN a \cup DOMAIN b |-> IF x \in DOMAIN a THEN a[x] ELSE b[x]]

\* Of the shape m.
LoadAs(f, m) ==
    IF ~m.ok \/ \E name \in Needed(f, m) : Tensor(f, name, Top) = Null THEN Refused
    ELSE LET layers == Layers(f, m)
         IN IF \E n \in DOMAIN layers : ~LayerOk(f, layers[n], n - 1) THEN Refused
            ELSE Together(m,
                 [loaded |-> TRUE, layers |-> layers,
                  tok_embd |-> Tensor(f, "token_embd", Top),
                  out_norm |-> Tensor(f, "output_norm", Top),
                  output |-> IF Tensor(f, "output", Top) = Null
                             THEN Tensor(f, "token_embd", Top) ELSE Tensor(f, "output", Top),
                  rope_freqs |-> RopeFreqs(f),
                  pl_tok_embd |-> Tensor(f, "per_layer_token_embd", Top),
                  pl_model_proj |-> Tensor(f, "per_layer_model_proj", Top),
                  pl_proj_norm |-> Tensor(f, "per_layer_proj_norm", Top)])

Load(f) == LoadAs(f, Shape(f))
=============================================================================
