---------------------------- MODULE MCAlgorithms ----------------------------
(***************************************************************************)
(* The inputs.  Shapes reach past one tile in each direction and stop on,  *)
(* short of and past an edge of it.                                        *)
(***************************************************************************)
EXTENDS Algorithms

TextsOver(S, n) == UNION {[1..i -> S] : i \in 1..n}

MCCorpora == {<<"a">> \o t : t \in [1..5 -> {"a", "b"}]}
MCWords == TextsOver({"a", "b"}, 6)
MCTexts == TextsOver({"s", "e", "r", "1", "'", ".", " ", "n"}, 4)
             \cup TextsOver({"x", ".", " ", "n"}, 6)

(* A text may hold the pieces of the special "<s>" and of "<s>s".          *)
MCTurns == TextsOver({"s", " ", "<"}, 5)

TurnChars == {"s", " ", "<", Mark}
Plain(spm) ==
    [spm |-> spm, merges |-> <<<<<<"s">>, <<"s">>>>, <<<<Mark>>, <<"s">>>>,
                               <<<<" ">>, <<"s">>>>>>,
     score |-> (<<"s", "s">> :> 2) @@ (<<Mark, "s">> :> 1),
     vocab |-> {<<"s", "s">>, <<Mark, "s">>, <<" ", "s">>} \cup {<<c>> : c \in TurnChars},
     bytes |-> {}, special |-> {}, bos |-> <<>>]
MCTokenizers ==
    {Plain(FALSE), Plain(TRUE),
     [Plain(TRUE) EXCEPT !.special = {<<"<", "s">>, <<"<", "s", "s">>},
                         !.bos = <<<<"<", "s">>>>],
     [Plain(FALSE) EXCEPT !.special = {<<"<", "s">>}],
     [Plain(TRUE) EXCEPT !.vocab = @ \ {<<"<">>}, !.bytes = {"<"}]}

Mat(m, k, n, w) == [m |-> m, k |-> k, n |-> n, w |-> w, a |-> w]
MCShapes == {Mat(m, k, n, w) : m \in {1, 2, 4, 6}, k \in {8, 31, 32, 33, 64, 96},
                               n \in {1, 15, 16, 17, 32, 48, 64},
                               w \in {"fp16", "int8", "int4"}}
MCPackShapes == {Mat(m, k, 32, w) : m \in 1..4, k \in {1, 7, 8, 15, 16, 17, 31, 32, 40},
                                    w \in {"fp16", "int8", "int4"}}

MCRegrows == {[old |-> o, new |-> n, hd |-> h, live |-> l] :
                 o \in {32, 64}, n \in {64, 96}, h \in {2, 16, 18, 34},
                 l \in {1, 31, 32, 33, 64}}

MCJobs == {[mm |-> Mat(m, k, 32, w), window |-> win, axis |-> ax, in |-> 1,
            weight |-> 2, out |-> 3, coef |-> 4, accOut |-> acc] :
              m \in {1, 2, 8, 32, 64, 80, 128}, k \in {32, 64, 1024, 2048},
              w \in {"fp16", "int8", "int4"}, win \in {0, 1},
              ax \in {"unset", "w", "h"}, acc \in BOOLEAN}
MCCaptures == {<<>>, <<<<"CNA", "1040", "theirs">>, <<"CNA", "1088", "theirs">>>>,
               <<<<"CNA", "1050", "theirs">>, <<"DPU", "4018", "theirs">>>>,
               <<<<"CNA", "1038", "theirs">>, <<"CNA", "1050", "first">>,
                 <<"CNA", "1050", "theirs">>, <<"CNA", "1040", "theirs">>>>}

-----------------------------------------------------------------------------
(* Files of each architecture, in three layers.                            *)

Layered(names) == {<<n, l>> : n \in names, l \in 0..2}
Tops(names) == {<<n, Top>> : n \in names}
Common == Tops({"token_embd", "output_norm"}) \cup
          Layered({"attn_norm", "attn_q", "attn_k", "attn_v", "attn_output",
                   "ffn_norm", "ffn_gate", "ffn_up", "ffn_down"})
QkNorms == Layered({"attn_q_norm", "attn_k_norm"})
PostNorms == Layered({"post_attention_norm", "post_ffw_norm"})
Biases == Layered({"attn_q.bias", "attn_k.bias", "attn_v.bias"})

Meta == ("embedding_length" :> 8) @@ ("block_count" :> 3) @@ ("attention.head_count" :> 2)
        @@ ("feed_forward_length" :> 4)
Grouped == "attention.head_count_kv" :> 1
File(arch, meta, tensors) ==
    [arch |-> arch, meta |-> meta @@ Meta, tensors |-> tensors, unreadable |-> {},
     rows |-> ("attn_qkv" :> 24) @@ ("ffn_up" :> 8), env |-> <<>>]

Window(n, pattern) ==
    ("attention.sliding_window" :> n) @@ ("attention.sliding_window_pattern" :> pattern)
WindowArray(n, arr) ==
    ("attention.sliding_window" :> n) @@ ("attention.sliding_window_pattern[]" :> arr)

Llama == File("llama", <<>>, Common \cup Tops({"output", "rope_freqs"}))
Qwen2 == File("qwen2", Grouped, Common \cup Biases)
Qwen3 == File("qwen3", Grouped @@ ("attention.key_length" :> 6), Common \cup QkNorms)
Gemma3(n, pattern) ==
    File("gemma3", Grouped @@ Window(n, pattern) @@ ("rope.freq_base" :> 1000),
         Common \cup QkNorms \cup PostNorms)
Phi3 == File("phi3", <<>>,
             (Common \ Layered({"attn_q", "attn_k", "attn_v", "ffn_gate"}))
             \cup Layered({"attn_qkv"}) \cup Tops({"rope_factors_short"}))

\* gemma4: short window heads, a width a layer, inputs a layer, the layers
\* in `shared` without a K and V and those in `nov` with V a copy of K
Gemma4(arr, shared, nov) ==
    File("gemma4",
         Grouped @@ WindowArray(2, arr) @@ ("attention.key_length_swa" :> 2)
         @@ ("embedding_length_per_layer_input" :> 2) @@ ("rope.freq_base" :> 1000)
         @@ ("feed_forward_length[]" :> <<4, 6, 0>>) @@ ("final_logit_softcapping" :> 30),
         (Common \cup QkNorms \cup PostNorms
          \cup Layered({"inp_gate", "proj", "post_norm", "layer_output_scale"})
          \cup Tops({"rope_freqs", "per_layer_token_embd", "per_layer_model_proj",
                     "per_layer_proj_norm"}))
         \ (({"attn_k", "attn_v", "attn_k_norm"} \X shared) \cup ({"attn_v"} \X nov)))

Plain6 == {Llama, Qwen2, Qwen3, Gemma3(2, 2), Phi3, Gemma4(<<TRUE, FALSE, TRUE>>, {2}, {0})}

Without(f, t) == [f EXCEPT !.tensors = @ \ {t}]
Broken(f, t) == [f EXCEPT !.tensors = @ \ {t}, !.unreadable = {t}]
MCFiles ==
    Plain6
    \cup UNION {{Without(f, t), Broken(f, t)} : <<f, t>> \in
                   UNION {{f} \X f.tensors : f \in Plain6}}
    \cup {Gemma4(arr, shared, {0}) : arr \in [1..3 -> BOOLEAN], shared \in SUBSET (0..2)}
    \cup {Gemma3(n, pattern) : n \in {0, 2}, pattern \in 0..3}
    \cup {[Phi3 EXCEPT !.rows = [attn_qkv |-> q, ffn_up |-> u]] : q \in 22..25, u \in 7..9}
    \cup {[Phi3 EXCEPT !.meta = Grouped @@ @, !.rows["attn_qkv"] = q] : q \in 15..17}
    \cup {[Gemma3(n, 2) EXCEPT !.env = e] : n \in {0, 2}, e \in
             {[CHARSIU_SWA |-> 0], [CHARSIU_SWA |-> 3],
              [CHARSIU_SWA |-> 3, CHARSIU_SWA_PATTERN |-> 3], [CHARSIU_ROPE_NEOX |-> 0]}}

\* gguf files of one tensor or two, behind keys of each kind.
Kv(key, type, value, of, lens) ==
    [key |-> key, klen |-> 3, type |-> type, value |-> value, of |-> of, lens |-> lens]
KeyLists ==
    {<<>>, <<Kv("a", "u8", 1, "", <<>>), Kv("b", "f64", 1, "", <<>>)>>,
     <<Kv("s", "string", 0, "", <<5>>)>>, <<Kv("l", "array", 0, "i32", <<3>>)>>,
     <<Kv("l", "array", 0, "string", <<2, 0, 3>>), Kv("n", "u16", 1, "", <<>>)>>}
    \cup {<<Kv("general.alignment", type, v, "", <<>>), Kv("general.alignment", "u32", 8, "", <<>>)>> :
              type \in {"u32", "u64"}, v \in {0, 16, 64}}
Ten(dims, type, offset) == [nlen |-> 4, dims |-> dims, type |-> type, offset |-> offset]
TensorLists ==
    {<<Ten(<<32, 2>>, "Q8_0", 0)>>, <<Ten(<<6>>, "F32", 0)>>,
     <<Ten(<<3, 2, 2>>, "F16", 0), Ten(<<64>>, "Q4_0", 64)>>,
     <<Ten(<<64>>, "Q4_0", 32), Ten(<<5, 1>>, "BF16", 0)>>,
     <<Ten(<<32>>, "Q4_1", 0), Ten(<<7>>, "unknown", 32), Ten(<<1, 1, 1, 2>>, "F32", 64)>>}
WriterSize(f) ==
    LET opened == Open([f EXCEPT !.size = 4000])
    IN CHOOSE s \in 0..4000 : /\ \A i \in DOMAIN f.tensors : EndOf(f, opened, i) <= s
                              /\ \E i \in DOMAIN f.tensors : EndOf(f, opened, i) = s
MCWritten ==
    {[f EXCEPT !.size = WriterSize(f)] :
        f \in {[size |-> 4000, magic |-> "GGUF", version |-> 3, kvs |-> kvs, tensors |-> ts] :
                  kvs \in KeyLists, ts \in TensorLists}}

Call(call, at, n) == [call |-> call, at |-> at, n |-> n]
FirstCalls == {Call("batch", 0, n) : n \in {2, 3, 5}}
              \cup {Call("token", 0, 1), Call("embd", 0, 1)}
CallsAt(at) == {c \in {Call("batch", at, n) : n \in 2..4} \cup
                      {Call("verify", at, 2), Call("token", at, 1)} : at + c.n <= 6}
TwoCalls == UNION {{<<a, b>> : b \in UNION {CallsAt(at) : at \in 0..a.n}} : a \in FirstCalls}
ThreeCalls ==
    {<<Call("batch", 0, a), Call("batch", 1, b), Call("batch", c, 3)>> :
        a \in {2, 5}, b \in {2, 4}, c \in {0, 2, 3}}
Knobs(block, hr, axpy8) == [block |-> block, hr |-> hr, axpy8 |-> axpy8]
MCSessions ==
    [file : Plain6, calls : TwoCalls, knobs : {Knobs(2, TRUE, TRUE), Knobs(0, TRUE, TRUE)}]
    \cup
    [file : Plain6, calls : ThreeCalls,
     knobs : {Knobs(2, TRUE, TRUE), Knobs(3, FALSE, TRUE), Knobs(3, TRUE, FALSE)}]

-----------------------------------------------------------------------------
(* Weights of arbitrary bytes, and activations on a grid that quantising   *)
(* in blocks or as one keeps.                                              *)

Scatter(i, seed) == ((i * i) % 251) * 37 + i * 91 + seed * 57
Bytes(n, seed) == [i \in 0..(n - 1) |-> Scatter(i, seed) % 256]
Weight(type, ne, rows, seed) ==
    [type |-> type, ne |-> ne,
     data |-> Bytes(rows * (ne \div Traits[type].blck) * Traits[type].size, seed)]

\* step s of block b differs where steps do
Vector(n, seed, steps) ==
    [i \in 0..(n - 1) |->
        (IF steps THEN 1 + (((i \div 32) + seed) % 3) ELSE 2)
        * (IF i % 32 = seed THEN 127 ELSE (Scatter(i, seed) % 255) - 127)]
Act(n, seed, blocks) ==
    [older |-> Vector(n, seed + 5, TRUE), x |-> Vector(n, seed, TRUE), blocks |-> blocks]

Widths(type) == IF type = "Q6_K" THEN {256} ELSE IF type \in Plains THEN {5, 8, 19} ELSE {32, 96}
MCMultiplies ==
    UNION {{[w |-> Weight(type, ne, 3, 1), rows |-> 3, neon |-> neon,
             acts |-> [j \in 1..m |-> Act(ne, j, blocks)]] :
              neon \in BOOLEAN, blocks \in BOOLEAN, m \in 1..(IF type = "Q6_K" THEN 2 ELSE 4)}
           : <<type, ne>> \in UNION {{type} \X Widths(type) : type \in DOMAIN Traits}}

MCTiles == [neon : BOOLEAN, nq : 0..9, nk : 0..4, hd : {4, 8, 16, 20, 24, 32, 37}]

QuantKnobs(bits, group, fit, sym, midrise) ==
    [bits |-> bits, group |-> group, groupfit |-> fit, sym |-> sym, midrise |-> midrise,
     clip |-> FALSE]
KnobSets ==
    {QuantKnobs(4, g, fit, sym, mid) : g \in {0, 3, 8, 17, 33}, fit \in BOOLEAN,
                                       sym \in BOOLEAN, mid \in BOOLEAN}
    \cup {QuantKnobs(8, 8, FALSE, FALSE, FALSE)}

\* A row whose every group reaches the end of its grid.
GridRow(knobs, k, seed) ==
    LET grp == GroupWidth(knobs, k)
        low == IF knobs.bits = 8 THEN -127 ELSE IF knobs.sym /\ ~knobs.midrise THEN -7 ELSE -8
        code(i) == IF i % grp = seed % grp THEN low
                   ELSE IF knobs.bits = 8 THEN (Scatter(i, seed) % 255) - 127
                   ELSE (Scatter(i, seed) % 15) - 7
        step(i) == 1 + (((i \div grp) + seed) % 3)
    IN [i \in 0..(k - 1) |->
          IF knobs.bits = 4 /\ knobs.midrise THEN step(i) * (2 * code(i) + 1)
          ELSE 2 * step(i) * code(i) * (IF seed % 2 = 0 /\ ~knobs.sym /\ knobs.bits = 4
                                        THEN -1 ELSE 1)]
\* Without factors, and with factors of 1 and 2.
Quantised(kn, k, neon, awq) ==
    LET factor(i) == IF awq /\ i % 3 # 1 THEN 2 ELSE 1
        x == [Vector(k, 3, FALSE) EXCEPT ![k - 1] = 254]
    IN [knobs |-> kn, k |-> k, neon |-> neon,
        kscale |-> IF awq THEN [i \in 0..(k - 1) |-> factor(i)] ELSE <<>>,
        x |-> [i \in 0..(k - 1) |-> x[i] \div factor(i)],
        rows |-> [r \in 0..1 |-> [i \in 0..(k - 1) |-> GridRow(kn, k, r + 1)[i] * factor(i)]]]
MCQuantisings ==
    {Quantised(kn, k, neon, FALSE) : kn \in KnobSets, k \in {7, 16, 24, 34, 66}, neon \in BOOLEAN}
    \cup {Quantised(kn, k, TRUE, TRUE) : kn \in {kn \in KnobSets : kn.bits = 4}, k \in {16, 34}}

-----------------------------------------------------------------------------
(* Runs over a weight cache: two models of one shape under one name.       *)

Named(name, n, k) == [name |-> name, n |-> n, k |-> k]
TensorA == Named("a", 2, 8)
TensorB == Named("b", 2, 16)
TensorC == Named("c", 4, 24)
RunOf(model, knobs, builds) ==
    [stamp |-> model, model |-> model, knobs |-> knobs, mixed |-> FALSE, builds |-> builds,
     awq |-> [name \in {"a", "b", "c"} |-> "off"], full |-> 0, kept |-> Whole]
CacheKnobs ==
    {QuantKnobs(4, 0, FALSE, FALSE, FALSE), QuantKnobs(4, 8, FALSE, FALSE, FALSE),
     QuantKnobs(4, 16, FALSE, FALSE, FALSE), QuantKnobs(4, 16, TRUE, FALSE, FALSE),
     QuantKnobs(4, 8, FALSE, FALSE, TRUE), QuantKnobs(8, 0, FALSE, FALSE, FALSE)}
Arithmetics == {[sym |-> FALSE, clip |-> FALSE], [sym |-> TRUE, clip |-> FALSE],
                [sym |-> FALSE, clip |-> TRUE]}
WithArithmetic(run, a) == [run EXCEPT !.knobs.sym = a.sym, !.knobs.clip = a.clip]
CleanRuns ==
    {RunOf(model, kn, builds) : model \in {1, 2}, kn \in CacheKnobs,
        builds \in {<<TensorA, TensorB, TensorC>>, <<TensorB, TensorC>>, <<TensorA, TensorC>>}}
RunsThatEnd ==
    UNION {{[run EXCEPT !.full = 2]} \cup {[run EXCEPT !.kept = kept] : kept \in {Headless, 0, 1, 2}}
           : run \in {r \in CleanRuns : Len(r.builds) = 3}}
    \cup {[r EXCEPT !.mixed = TRUE] : r \in {r \in CleanRuns : r.model = 1 /\ Len(r.builds) = 3}}
AwqRuns ==
    {[RunOf(1, kn, <<TensorA, TensorB, TensorC>>) EXCEPT !.awq = awq] :
        kn \in {QuantKnobs(4, 8, FALSE, FALSE, FALSE)},
        awq \in [{"a", "b", "c"} -> {"off", "on", "declined"}]}
MCHistories ==
    {<<a, b>> : a \in CleanRuns \cup RunsThatEnd, b \in CleanRuns}
    \cup (AwqRuns \X AwqRuns)
    \cup {<<a, b, c>> : a \in {r \in RunsThatEnd : r.model = 1}, b \in RunsThatEnd,
                        c \in {r \in CleanRuns : r.model = 1 /\ r.knobs.bits = 4
                                                 /\ ~r.knobs.midrise /\ Len(r.builds) = 3}}
    \cup {<<WithArithmetic(a, s), WithArithmetic(b, s)>> :
              a \in CleanRuns, b \in CleanRuns, s \in Arithmetics}

\* One model, all its tensors; the arithmetic of the second run may be another.
MCArithmeticChanged ==
    LET runs == {r \in CleanRuns : r.model = 1 /\ Len(r.builds) = 3}
    IN {<<WithArithmetic(a, s), WithArithmetic(a, u)>> :
            a \in runs, s \in Arithmetics, u \in Arithmetics}
=============================================================================
