----------------------------- MODULE Algorithms -----------------------------
(***************************************************************************)
(* The algorithms of this runtime that keep no state, each asked about     *)
(* bounded inputs: what they answer is compared with a reference, or with  *)
(* what another part of the program needs of it.  A behaviour asks one     *)
(* question.                                                               *)
(***************************************************************************)
EXTENDS TokenizerSpec, RegStream, ForwardPass, NpuQuant, GgufFile

CONSTANTS
    Corpora,       \* texts a merge table is trained on
    Merges,        \* how many merges a table has
    Words,         \* words to segment
    Texts,         \* texts to cut into words
    Turns,         \* texts to encode and decode
    Tokenizers,    \* what they are encoded with
    Shapes,        \* matmuls whose operands are laid out
    PackShapes,    \* matmuls whose input is packed by several threads
    Regrows,       \* [old, new, hd, live]: value surfaces that grow
    Jobs,          \* jobs whose register stream is emitted
    Captures,      \* captured streams merged over them
    Files,         \* model files to load
    Written,       \* gguf files, of the size their writer gave them
    NCtx,          \* positions a session's cache has
    Sessions,      \* [file, knobs, calls]: calls made on one state
    Multiplies,    \* [w, rows, acts, neon]: products with a weight of a file
    Tiles,         \* [neon, nq, nk, hd]: blocks of an attention
    Quantisings,   \* [knobs, k, rows, x, neon]: weights quantised and used
    Histories      \* runs of the program, one after the other, over one cache

(* A matmul has rows, a reduction and channels, and every format may be    *)
(* asked of its weights and of its activations.  The coefficient buffer    *)
(* has room for the scales of so many channels (npudev.c cuts a weight at  *)
(* 8192 unless it is told otherwise).                                      *)
Formats == {"int4", "int8", "fp16"}
Matmuls == [m : Nat \ {0}, k : Nat \ {0}, n : Nat \ {0}, w : Formats, a : Formats]
CoefChannels == 131192
ASSUME MatmulAssumption ==
    /\ Shapes \subseteq Matmuls /\ \A mm \in Shapes : mm.n <= CoefChannels
    /\ PackShapes \subseteq Matmuls

(* The surfaces of a cache grow from one rung to a higher one; 32 is their *)
(* grain (attn_npu_fit).                                                   *)
Rungs == {n \in Nat : n > 0 /\ n % 32 = 0}
Regrowths == [old : Rungs, new : Rungs, hd : Nat, live : Nat]
ASSUME RegrowAssumption == Regrows \subseteq Regrowths

(* A job of any matmul; a capture's stream enables no unit (job.c: it       *)
(* "carries no 0x1d trailer of its own").                                  *)
Registers(s) == {s[i][2] : i \in DOMAIN s}
StreamJobs ==
    [mm : Matmuls, window : {0, 1}, axis : {"unset", "w", "h"}, accOut : BOOLEAN,
     in : Nat, weight : Nat, out : Nat, coef : Nat]
ASSUME StreamAssumption ==
    /\ Jobs \subseteq StreamJobs
    /\ \A c \in Captures : c \in Seq(STRING \X (STRING \ Registers(Enable)) \X STRING)

(* Each kind of character the pre-tokeniser tells apart.                   *)
ASSUME TextAssumption == Texts \subseteq Seq(Chars)

(* What a model's keys hold.  The heads of its window layers are no wider  *)
(* than the others: llama_load means to size its buffers for the wider     *)
(* ("EVERY BUFFER TAKES THE WIDER HEAD"), and looks before it reads theirs.*)
Counts ==
    {"embedding_length", "block_count", "feed_forward_length", "attention.head_count",
     "attention.head_count_kv", "attention.key_length", "attention.key_length_swa",
     "rope.dimension_count", "attention.sliding_window", "attention.sliding_window_pattern"}
ModelFile(f) ==
    /\ \A key \in Counts : Key(f, key, 0) \in Nat
    /\ \A name \in {"CHARSIU_SWA", "CHARSIU_SWA_PATTERN"} : Env(f, name, 0) \in Nat
    /\ \A name \in {"attn_qkv", "ffn_up"} : f.rows[name] \in Nat
    /\ Key(f, "feed_forward_length[]", <<>>) \in Seq(Nat)
    /\ Key(f, "attention.sliding_window_pattern[]", <<>>) \in Seq(BOOLEAN)
    /\ Shape(f).head_dim_swa <= Shape(f).head_dim
ASSUME FileAssumption == \A f \in Files : ModelFile(f)

(* A file as its writer left it: its fields have a length, a longer copy   *)
(* opens, and the file ends no earlier than its last tensor's last row.    *)
KeyValues == [key : STRING, klen : Nat, type : STRING, value : Nat, of : STRING, lens : Seq(Nat)]
TensorInfos == [nlen : Nat, dims : Seq(Nat \ {0}) \ {<<>>}, type : STRING, offset : Nat]
GgufFiles ==
    [size : Nat, magic : STRING, version : Nat, kvs : Seq(KeyValues),
     tensors : Seq(TensorInfos) \ {<<>>}]

\* What its writer lays out: a tensor's rows, from its first byte in the file.
EndOf(f, opened, i) ==
    LET t == f.tensors[i]
        row == [type |-> t.type, ne |-> t.dims[1]]
        rows == Elements(t) \div t.dims[1]
    IN opened.at[i] + IF Known(t) THEN Address(row, rows) ELSE 0
WrittenOut(f) ==
    LET longer == Open([f EXCEPT !.size = @ + 1])
    IN longer.ok /\ \A i \in DOMAIN f.tensors : EndOf(f, longer, i) <= f.size
ASSUME WrittenAssumption ==
    \A f \in Written :
        /\ f \in GgufFiles /\ WrittenOut(f)
        /\ \A i \in DOMAIN f.kvs : f.kvs[i].type = "array" /\ f.kvs[i].of \in DOMAIN Width
                                      => f.kvs[i].lens # <<>>

VARIABLE asked

Nothing == [kind |-> "nothing"]

(* A behaviour chooses what it asks about, then asks.                      *)
Kinds == {"segment", "cut", "encode", "layout", "pack", "regrow", "stream",
          "load", "open", "forward", "multiply", "tile", "quantise", "runs"}
About(kind) == asked = [kind |-> "choose", of |-> kind]

TrainedTables == UNION {Trained(Singles(c), Merges) : c \in Corpora}

Init == asked = Nothing

Choose ==
    /\ asked = Nothing
    /\ \E kind \in Kinds : asked' = [kind |-> "choose", of |-> kind]

AskSegment ==
    /\ About("segment")
    /\ \E table \in TrainedTables, w \in Words :
          asked' = [kind |-> "segment", table |-> table, word |-> w]

AskCut ==
    /\ About("cut")
    /\ \E t \in Texts : asked' = [kind |-> "cut", text |-> t]

AskEncode ==
    /\ About("encode")
    /\ \E tk \in Tokenizers, t \in Turns, room \in {2, 4, 99} :
          asked' = [kind |-> "encode", tk |-> tk, text |-> t, room |-> room]

AskLayout ==
    /\ About("layout")
    /\ \E mm \in Shapes : asked' = [kind |-> "layout", mm |-> mm]

AskPack ==
    /\ About("pack")
    /\ \E mm \in PackShapes : asked' = [kind |-> "pack", mm |-> mm]

AskRegrow ==
    /\ About("regrow")
    /\ \E r \in Regrows : asked' = [kind |-> "regrow", r |-> r]

AskStream ==
    /\ About("stream")
    /\ \E job \in Jobs, capture \in Captures :
          asked' = [kind |-> "stream", job |-> job, capture |-> capture]

AskLoad ==
    /\ About("load")
    /\ \E f \in Files : asked' = [kind |-> "load", file |-> f]

AskOpen ==
    /\ About("open")
    /\ \E f \in Written : asked' = [kind |-> "open", file |-> f]

AskForward ==
    /\ About("forward")
    /\ \E s \in Sessions : asked' = [kind |-> "forward", session |-> s]

\* An activation that held another vector before, in blocks or not.
Activated(a) ==
    LET cold == [f |-> a.older, quantised |-> FALSE, q |-> <<>>, d |-> <<>>, bs |-> <<>>,
                 q1_valid |-> FALSE, q1 |-> <<>>, d1 |-> 0]
        set == ActSet(ActQ1(ActBlocks(cold)), a.x)
    IN IF a.blocks THEN ActBlocks(set) ELSE set

AskMultiply ==
    /\ About("multiply")
    /\ \E q \in Multiplies :
          asked' = [kind |-> "multiply", w |-> q.w, rows |-> q.rows, neon |-> q.neon,
                    acts |-> [j \in DOMAIN q.acts |-> Activated(q.acts[j])]]

AskTile ==
    /\ About("tile")
    /\ \E q \in Tiles : asked' = [kind |-> "tile", q |-> q]

AskQuantise ==
    /\ About("quantise")
    /\ \E q \in Quantisings :
          asked' = [kind |-> "quantise", q |-> q, t |-> TensorBuild(q.knobs, q.rows, q.k, q.kscale),
                    a |-> ActQ1(Activated([older |-> q.x, x |-> q.x, blocks |-> FALSE]))]

AskRuns ==
    /\ About("runs")
    /\ \E h \in Histories : asked' = [kind |-> "runs", history |-> h]

Next ==
    \/ Choose \/ AskLoad \/ AskOpen \/ AskForward
    \/ AskMultiply \/ AskTile \/ AskQuantise \/ AskRuns
    \/ AskSegment \/ AskCut \/ AskEncode
    \/ AskLayout \/ AskPack \/ AskRegrow \/ AskStream

Spec == Init /\ [][Next]_asked

-----------------------------------------------------------------------------
(* The heap of src/tokenizer.c's merge loop, with its stale pairs skipped  *)
(* when they come up, cuts a word as sweeping the table over it would, and *)
(* the SentencePiece loop does the same with the table's order as scores.  *)
SegmentationAgrees ==
    asked.kind = "segment" =>
        LET chars == {asked.word[i] : i \in DOMAIN asked.word}
            best == Segmentation(asked.table, asked.word)
        IN /\ Pieces(BpeOf(asked.table, chars), asked.word) = best
           /\ Pieces(SpmOf(asked.table, chars), asked.word) = best

(* pretok_next takes what the regular expression over it takes, wherever   *)
(* in a text it stands.                                                    *)
PretokLikeRegex ==
    asked.kind = "cut" =>
        \A i \in DOMAIN asked.text : PretokNext(asked.text, i) = RegexNext(asked.text, i)

\* What the text gives when there is room for all of it, full, says what it
\* gives in less.
Recovered(tk, t, room, full) ==
    LET opens == IF tk.spm /\ t # <<>> /\ SpecialAt(tk, t, 1) = <<>>
                 THEN <<Space>> ELSE <<>>
    IN /\ Decode(tk, full) = FlattenSeq(tk.bos) \o opens \o t
       /\ Encode(tk, t, room) = IF Len(full) <= room THEN full ELSE Failed

(* tools/tokenizer_roundtrip.c: encoding and decoding gives the text back, *)
(* behind what opens it and, for SentencePiece, the space it puts before a *)
(* text that does not open with a special piece.  A buffer that is short   *)
(* makes the encoder fail and never cut the text off.                      *)
RoundTrip ==
    asked.kind = "encode" =>
        Recovered(asked.tk, asked.text, asked.room, Encode(asked.tk, asked.text, 999))

Apart(Place(_), S, size) ==
    /\ Cardinality({Place(x) : x \in S}) = Cardinality(S)
    /\ \A x \in S : Place(x) \in 0..(size - 1)

WeightsOf(mm) == (0..(mm.n - 1)) \X (0..(mm.k - 1))
WeightsWhole(mm) == mm.w = "int4" => mm.n % 16 = 0 /\ mm.k % 32 = 0

WeightsApart(mm) ==
    /\ Apart(LAMBDA x : WeightPlace(mm, x[1], x[2]), WeightsOf(mm), WeightElements(mm))
    /\ mm.w = "fp16" =>
         \A layout \in {"dense", "atom", "group"} :
            Apart(LAMBDA x : W16Offset(mm, x[1], x[2], layout), WeightsOf(mm),
                  WeightElements(mm))
    /\ Cardinality(UNION {{<<n, b>> : b \in RowsBytes(mm, n, 1)} : n \in 0..(mm.n - 1)})
         = Cardinality(RowsBytes(mm, 0, mm.n))

AccumulatorApart(mm) ==
    \A wide \in BOOLEAN :
        mm.m > 1 /\ AccWidthOk(mm.m) /\ mm.n % 32 = 0 =>
            LET all == (0..(mm.m - 1)) \X (0..(mm.n - 1))
                at(x) == AccIndex(x[1], x[2], mm.m, wide)
            IN /\ {at(x) : x \in all} = 0..(mm.m * mm.n - 1)
               /\ \A x \in all : at(x) = at(<<x[1], x[2] - (x[2] % 4)>>) + (x[2] % 4)

BytesOf(f) == f.at..(f.at + f.bytes - 1)

CoefApart(mm) ==
    /\ Cardinality(UNION {BytesOf(f) : f \in CoefFields(mm)})
         = AlignUp(mm.n, 8) * 10 + 4
    /\ \A f \in CoefFields(mm) : f.at + f.bytes <= CoefBytes(mm)

(* No two elements of an operand share a place, and every place is inside  *)
(* its buffer: weights in each of their layouts, the rows two threads pack *)
(* (not a byte in common, so they may pack at once), the accumulator that  *)
(* is gathered by charsiu_acc_index, and the coefficient records.          *)
PlacesApart ==
    asked.kind = "layout" =>
        /\ WeightsWhole(asked.mm) => WeightsApart(asked.mm)
        /\ AccumulatorApart(asked.mm)
        /\ CoefApart(asked.mm)

(* The input packer that is split over the threads -- the edges first,     *)
(* then ranges of whole groups, over a buffer that holds an older and      *)
(* longer input -- leaves what packing it all into a clear buffer leaves,  *)
(* wherever the split falls; so does the packer of a single row.           *)
SplitPackIsWhole ==
    asked.kind = "pack" =>
        LET mm == asked.mm
            g == FeatureAtom(EffectiveAtype(mm))
            size == KEff(mm) * mm.m
            whole == PackWhole(mm, g, size)
        IN /\ mm.m > 1 =>
                \A cut \in 0..NGroups(mm, g) : PackSplit(mm, g, size, cut) = whole
           /\ mm.m = 1 => PackOneRow(mm, size) = whole

(* A surface of values grown in place is the surface packed afresh at the  *)
(* longer extent, and a row of keys does not move when the keys grow.      *)
RegrowIsRepack ==
    asked.kind = "regrow" =>
        LET r == asked.r
            size == KEff(VMat(r.new, r.hd)) * AlignUp(r.hd, 2)
            oldsize == KEff(VMat(r.old, r.hd)) * AlignUp(r.hd, 2)
            fresh == FreshValues(r.old, r.hd, r.live, oldsize)
            old == [p \in 0..(size - 1) |-> IF p \in DOMAIN fresh THEN fresh[p] ELSE Leftover]
        IN /\ r.old < r.new /\ ~RegrowRefused(r.old, r.new, r.hd, r.live) =>
                RegrowInPlace(old, r.old, r.new, r.hd, r.live)
                    = FreshValues(r.new, r.hd, r.live, size)
           /\ r.live <= r.old /\ r.old < r.new =>
                KRow(r.hd, r.old, r.live - 1) = KRow(r.hd, r.new, r.live - 1)

\* What a register holds once a stream has run: the last that is written to it.
LastAt(s, reg) == CHOOSE i \in At(s, reg) : \A j \in At(s, reg) : i >= j
ValueOf(s, reg) == s[LastAt(s, reg)][3]

Patched(job, addr) ==
    PatchWeightAddr(Stream(job), addr) =
        [stream |-> Stream([job EXCEPT !.weight = addr]), hits |-> 1]

(* An admitted job's data ends where its weights begin, and its weights    *)
(* where the other window may begin.                                       *)
WindowsApart(job) ==
    LET s == Stream(job)
        ends == ValueOf(s, "1040")[1]
        data == ValueOf(s, "1028")[1]
    IN /\ Start(job) + data <= ends
       /\ ValueOf(s, "1018") * Bank = ends
       /\ ends < EndBank(job) * Bank
       /\ job.window = 0 => EndBank(job) * Bank <= Start([job EXCEPT !.window = 1])
       /\ EndBank(job) <= Banks

(* What a capture may and may not change in a stream.  0x1038 is written   *)
(* twice, and only the first of the two is captured.                       *)
Merged(job, capture) ==
    LET s == Stream(job)
        t == MergeVendor(s, capture)
        kept == OurAddresses \cup {"1038"}
    IN /\ \A reg \in kept : ValueOf(t, reg) = ValueOf(s, reg)
       /\ \A reg \in Registers(capture) \ kept : ValueOf(t, reg) = ValueOf(capture, reg)
       /\ \A reg \in Registers(s) \ (kept \cup Registers(capture)) :
             ValueOf(t, reg) = ValueOf(s, reg)
       /\ SubSeq(t, Len(t) - 3, Len(t)) = Enable

(* The second window is one of the two that do not overlap the first, and  *)
(* the reduction is whole blocks, as the guard counts it.                  *)
WindowsMeant(job) == W1Bank \in {7, 8} /\ job.mm.k % 32 = 0

(* Patching the weight address into a stream gives the stream of that      *)
(* address, by the one word tests/patch_waddr.c counts; the CBUF windows   *)
(* of a job that npudev.c admits do not overlap; and a capture merged over *)
(* a stream keeps our addresses, gives every other register its value, and *)
(* leaves the enables last.                                                *)
StreamsRight ==
    asked.kind = "stream" =>
        LET job == asked.job
        IN /\ Patched(job, 9)
           /\ SurfaceAdmitted(job) /\ Wide(job) /\ WindowsMeant(job) => WindowsApart(job)
           /\ Merged(job, asked.capture)

\* A file opens when the last row of its last tensor is in it, and not before;
\* a longer one opens in the same places.
OpensWhole(f) ==
    LET whole == Open(f)
        needed == {EndOf(f, whole, i) : i \in DOMAIN f.tensors}
    IN /\ whole.ok
       /\ \A size \in 0..(f.size + 8) :
            Open([f EXCEPT !.size = size]) =
                IF \A end \in needed : end <= size THEN whole ELSE NotOpened

\* The slices of a fused weight have no row in common and leave none out.
SliceRows(slice) == slice.row0..(slice.row0 + slice.nrows - 1)
SlicesTile(f, slices, name) ==
    LET of == {i \in DOMAIN slices : slices[i].of = name}
    IN /\ \A i, j \in of : i # j => SliceRows(slices[i]) \cap SliceRows(slices[j]) = {}
       /\ UNION {SliceRows(slices[i]) : i \in of} = 0..(f.rows[name] - 1)

LayerWeights(L) == <<L.wq, L.wk, L.wv, L.wo, L.gate, L.up, L.down>>
LayerRuns(f, m, n, L) ==
    /\ L.wk = Null =>
         LET src == m.layers[L.kv_from + 1]
         IN /\ L.kv_from \in 0..(n - 2)
            /\ src.wk # Null /\ src.swa = L.swa
            /\ src.head_dim = L.head_dim
    /\ L.wk # Null => L.kv_from = -1 /\ (L.q_norm = Null <=> L.k_norm = Null)
    /\ L.head_dim <= m.head_dim /\ L.n_ff <= m.n_ff
    /\ \A i, j \in DOMAIN LayerWeights(L) :
         i # j /\ LayerWeights(L)[i] # Null => LayerWeights(L)[i] # LayerWeights(L)[j]
    /\ \A name \in {L.split[i].of : i \in DOMAIN L.split} : SlicesTile(f, L.split, name)
    /\ Null \notin {L.attn_norm, L.wq, L.wo, L.ffn_norm, L.gate, L.up, L.down}
    /\ L.bq # Null => Null \notin {L.bk, L.bv}
    /\ L.pl_inp_gate # Null => L.pl_proj # Null /\ m.n_embd_pl # 0
    /\ L.swa => m.n_swa > 0

(* What the loader does not ask of a file and the forward pass takes for   *)
(* granted: no rows of a fused weight beyond the slices, no bias of q      *)
(* without those of k and v, no gate of a layer's own input without the    *)
(* projection behind it in a model that has such inputs.                   *)
Complete(f, m) ==
    /\ f.arch = "phi3" =>
         /\ f.rows["attn_qkv"] <= m.n_head * m.head_dim + 2 * (m.n_head_kv * m.head_dim)
         /\ f.rows["ffn_up"] <= 2 * m.n_ff
    /\ \A l \in 0..(m.n_layer - 1) :
         /\ Tensor(f, "attn_q.bias", l) # Null =>
              Null \notin {Tensor(f, "attn_k.bias", l), Tensor(f, "attn_v.bias", l)}
         /\ Tensor(f, "inp_gate", l) # Null => Tensor(f, "proj", l) # Null /\ m.n_embd_pl # 0
Runs(f, m) == \A n \in DOMAIN m.layers : LayerRuns(f, m, n, m.layers[n])

(* A model that loads from a complete file can be run: a layer without a K *)
(* of its own attends to an earlier layer of its kind, with its head, that *)
(* has one; one with a K has what norms it, no layer is wider than the     *)
(* buffers, no two products of a layer are with one weight, and the slices *)
(* of a fused weight tile it.  (The loader does not ask whether a file is  *)
(* complete.)  And of a file that was cut off, by a download that stopped, *)
(* none is opened that lacks a row of a tensor.                            *)
LoadedModelRuns ==
    /\ asked.kind = "open" => OpensWhole(asked.file)
    /\ asked.kind = "load" =>
         LET f == asked.file
         IN Load(f).loaded /\ Complete(f, Shape(f)) => Runs(f, Load(f))

\* What a session's calls are made with: the tokens of a call, or a picture's row.
InputsOf(nth, c) ==
    [i \in 1..c.n |->
        IF c.call = "embd" THEN [tok |-> 0, embd |-> 500 + nth]
        ELSE [tok |-> 1 + ((3 * nth + c.at + i) % 7), embd |-> NoEmbd]]
Called(m, s, c, ins) ==
    LET toks == [i \in DOMAIN ins |-> ins[i].tok]
    IN CASE c.call = "batch" -> PrefillBatch(m, s, toks, c.at)
         [] c.call = "verify" -> VerifyBatch(m, s, toks, c.at)
         [] c.call = "token" -> Forward(m, s, toks[1], c.at)
         [] c.call = "embd" -> ForwardEmbd(m, s, ins[1].embd, c.at)
AfterCalls(m, knobs, calls) ==
    FoldLeft(LAMBDA acc, i :
                LET ins == InputsOf(i, calls[i])
                IN [s |-> Called(m, acc.s, calls[i], ins),
                    text |-> SubSeq(acc.text, 1, calls[i].at) \o ins],
            [s |-> NewState(m, NCtx, knobs), text |-> <<>>],
            [i \in DOMAIN calls |-> i])

\* The token loop over the same text, and what it said at each position.
Fed(m, s, in, pos) ==
    IF in.embd = NoEmbd THEN Forward(m, s, in.tok, pos) ELSE ForwardEmbd(m, s, in.embd, pos)
Heard(acc, s) == [s |-> s, said |-> acc.said \o s.logits]
TokenLoop(m, knobs, text) ==
    FoldLeft(LAMBDA acc, i : Heard(acc, Fed(m, acc.s, text[i], i - 1)),
            [s |-> NewState(m, NCtx, knobs), said |-> <<>>],
            [i \in DOMAIN text |-> i])

SaysAs(m, fed, plain) ==
    LET n == Len(fed.text)
        answers == Len(fed.s.logits)
    IN /\ fed.s.logits = SubSeq(plain.said, n - answers + 1, n) /\ answers > 0
       /\ \A l \in 1..m.n_layer : \A t \in 0..(n - 1) :
             /\ fed.s.kc[l][t] = plain.s.kc[l][t]
             /\ fed.s.vc[l][t] = plain.s.vc[l][t]
Tokenwise(m, knobs, fed) == SaysAs(m, fed, TokenLoop(m, knobs, fed.text))
Conversed(m, session) ==
    m.loaded /\ Tokenwise(m, session.knobs, AfterCalls(m, session.knobs, session.calls))

(* Whatever chunks, verifications, single tokens and pictures a text was   *)
(* fed in, and whatever was fed before it and rolled back, the cache and   *)
(* the logits are those of the token loop over that text alone: the        *)
(* batched path's claim, row for row, for every architecture it takes.     *)
BatchIsTokenwise ==
    asked.kind = "forward" => Conversed(Load(asked.session.file), asked.session)

Exact(n, term(_)) ==
    LET upto[i \in 0..n] == IF i = 0 THEN 0 ELSE upto[i - 1] + term(i - 1)
    IN upto[n]

\* A product with a weight of a file, made whole or in two parts, is the
\* product with its rows, and nothing else is written.
ProductIsOfRows(w, rows, acts, neon) ==
    LET m == Len(acts)
        stride == rows + 1
        blank == [i \in 0..(m * stride - 1) |-> -1]
        of(row0, n, y) == Matmul(neon, w, acts, y, stride, row0, n)
        whole == of(0, rows, blank)
        dot(j, r) == LET row == RowF32(w, r)
                     IN Total(w.ne, LAMBDA i : Times(row[i], acts[j + 1].f[i]))
    IN /\ \A j \in 0..(m - 1), r \in 0..(rows - 1) : whole[j * stride + r] = dot(j, r)
       /\ \A j \in 0..(m - 1) : whole[j * stride + rows] = -1
       /\ of(1, rows - 1, of(0, 1, blank)) = whole

\* The blocked kernels of attention sum what the plain ones sum, in their order.
TileIsPlain(q) ==
    LET blocked == QkScores(q.neon, FALSE, q.nq, q.nk, q.hd)
    IN /\ blocked = QkScores(q.neon, TRUE, q.nq, q.nk, q.hd)
       /\ Cardinality({s.at : s \in blocked}) = q.nq * q.nk
       /\ \A s \in blocked : s.at = <<s.sum.q, s.sum.k>>
       /\ PvSums(q.neon, FALSE, q.nq, q.nk, q.hd) = PvSums(q.neon, TRUE, q.nq, q.nk, q.hd)

\* The stand-in for the NPU over a quantised copy is the product with what was
\* quantised, and the sum kept of each row is the sum of its codes; so it is
\* with the codes of a file laid over the copy.
QuantisedIsExact(q, t, a) ==
    LET steps == [r \in DOMAIN q.rows |-> 2]
        taken == FromW4File(t, [r \in DOMAIN q.rows |->
                                    [i \in 0..(q.k - 1) |-> ((7 * i + r) % 16) - 8]], steps)
        sumOf(tt, r) == Exact(q.k, LAMBDA i : CodeAt(tt.rows[r].q, i, tt.packed))
        grid == q.knobs.bits = 4 /\ q.knobs.midrise
        worth(i, r) == 2 * (2 * (((7 * i + r) % 16) - 8) + IF grid THEN 1 ELSE 0)
        scaled(i) == IF q.kscale = <<>> THEN q.x[i] ELSE q.x[i] * q.kscale[i]
    IN \A r \in DOMAIN q.rows :
          /\ \A a16 \in BOOLEAN :
                /\ NpuMatvec(q.neon, grid, a16, t, a, r) = Exact(q.k, LAMBDA i : q.rows[r][i] * q.x[i])
                /\ NpuMatvec(q.neon, grid, a16, taken, a, r)
                     = Exact(q.k, LAMBDA i : worth(i, r) * scaled(i))
          /\ t.rows[r].wsum = sumOf(t, r) % Modulus
          /\ taken.rows[r].wsum = sumOf(taken, r) % Modulus

(* Every kernel that multiplies by a weight -- in floats or in quantised   *)
(* blocks, one activation at a time or many, with vectors or without, over *)
(* the file's blocks or the NPU's copy, by as many threads as there are -- *)
(* multiplies by the row that gguf_row_f32 reads; and the blocked kernels  *)
(* of attention are the plain ones to the bit, as their comments promise.  *)
KernelsAgree ==
    /\ asked.kind = "multiply" => ProductIsOfRows(asked.w, asked.rows, asked.acts, asked.neon)
    /\ asked.kind = "tile" => TileIsPlain(asked.q)
    /\ asked.kind = "quantise" => QuantisedIsExact(asked.q, asked.t, asked.a)

\* What the runs of a history build, each over the file the last one left.
BuiltBy(history) ==
    LET after[i \in 0..Len(history)] ==
          IF i = 0 THEN [file |-> NoFile, built |-> <<>>]
          ELSE LET run == RunOver(after[i - 1].file, history[i])
               IN [file |-> run.file, built |-> Append(after[i - 1].built, run.built)]
    IN after[Len(history)].built

\* The quantiser's arithmetic is set one way in every run: the header of the
\* cache has no word for these two knobs.
ArithmeticKept(history) ==
    \A i, j \in DOMAIN history : /\ history[i].knobs.sym = history[j].knobs.sym
                                 /\ history[i].knobs.clip = history[j].knobs.clip

CachedIsQuantised(history) ==
    BuiltBy(history) = [i \in DOMAIN history |-> Unasked(history[i])]

(* Over any history of runs -- of models replaced under one name, each     *)
(* with its own stamp, the width, the grid, the group and its fit changed, *)
(* other tensors asked for, disks that fill up and programs that are       *)
(* killed while they write -- a weight taken from the cache is the one the *)
(* quantiser would make, as long as no run changes CHARSIU_NPU_W4_SYM or   *)
(* CHARSIU_NPU_W4_CLIP.                                                    *)
CacheIsQuantiser ==
    asked.kind = "runs" /\ ArithmeticKept(asked.history) => CachedIsQuantised(asked.history)

(* "It must never silently disagree with the code" (npuquant.c, of the     *)
(* weight cache): the same of every history, whatever knob is changed.     *)
NeverSilentlyDisagrees ==
    asked.kind = "runs" => CachedIsQuantised(asked.history)
=============================================================================
