# charsiu in TLA+

charsiu runs language models on the NPU of the RK3576: a C runtime that loads a
GGUF file, stages its weights as slices on two NPU cores, and decodes with what
the cores cannot do on a pool of CPU threads. This directory models it: the parts
whose correctness is a matter of order -- which thread, device, call or client
does what when -- as state machines, and the pure algorithms they rest on as
operators compared with a definition. TLC checks the models, and TLAPS proves
what matters most.

Paths below are relative to the repository.

## 1. Inventory

| component | state it keeps | operations | what it talks to |
|---|---|---|---|
| Worker pool (`src/llama.c:310-900`) | `g_pool`: mutex, two condition variables, generation, done count, one job description | `pool_start`, `charsiu_parallel_for[_grain]`, the tail of `matvec_again`, `worker` | every kernel of the runtime hands it ranges of rows; the batched gather runs on it too |
| Batched NPU matmul (`src/npudev.c:4300-7472`, `src/reusekey.h`) | per-device input objects and reuse keys, a pool of output buffers, one deferred gather, first-write flags and row scales | `charsiu_npu_matmul`, `_same`, `_defer`, `_same_defer`, `charsiu_npu_flush` | called by `batch_layers`; submits to two device queues of the rocket driver |
| KV cache (`src/llama.c`) | float cache, `s->pos`, an fp16 mirror of it (`s->anpu`) with a high-water mark per layer | `llama_forward`, `batch_layers`, `attn_npu_append/catchup` | filled by both forwards, read by CPU attention and by attention on the NPU |
| Mirror growth ladder (`src/llama.c`, `attn_npu_get/fit`, `kv_ladder`) | the V surfaces' extent, K and V surfaces per layer and kv head | allocate, regrow in place, repack into a new buffer | climbed by appends; its surfaces are operands of the fp16 groups |
| fp16 groups (`npufp16.c`, `fp16plan.h`, `sentinel.h`, `overlap.h`) | a group of up to 64 operations, poisoned output words, regrown buffers, patched streams | `charsiu_fp16_matmul_group_submit/wait/release` | attention on the NPU (`attn_npu_layer`), four handles |
| NPU staging and dealing (`npudev.c`, `npupool.c`) | entries, slots, per-device load and IOVA, the memo of refused tensors | `charsiu_npu_add`, `deal_pick`, `charsiu_pool_get` | fills what the matmuls read |
| Slicing arithmetic (`kslice.h`, `npupool.c`, `npuquant.c`) | none | groups, K slices, even widths, row chunks | staging and prefill |
| Row matvec on the NPU (`npudev.c`, `device.c`) | strikes, `dead`, per-slot buffers | `charsiu_npu_matvec`, `_group`, `charsiu_bo_prep` | decode; two-second fences; `matvec_pair` and `matvec_again` fall back to the CPU |
| Turn loop and speculation (`tools/charsiu_run.c`, `llama_spec_*`) | the turn, the tokens committed and not printed, the drafter's history | prompt in chunks, token loop, `llama_spec_step` | drives the cache; `-i` and `--repeat` carry it over turns |
| Server (`tools/charsiu_serve.c`) | `CACHED`, `CACHED_N`, the state, the QoS hold | accept, parse, chat, count, stream | one thread over `llama_forward` |
| Tokenizer (`src/tokenizer.c`) | vocabulary, merge table | encode (BPE, SPM), pre-tokeniser, decode | turn loop and server |
| Loading (`src/gguf.c`, `llama_load`) | the mapped file, the model | `gguf_open`, `llama_load` | everything after it trusts what it accepted |
| Forward pass (`llama_forward`, `batch_layers`) | the run state: cache, per-layer inputs, `embd_in`, capture ring | one token, or a chunk of a prompt | kernels, pool, cache |
| Kernels (`src/gguf.c`, `src/llama.c`) | the quantised activation | row decode, dot products by format, batched kernels, blocked attention | forward pass |
| Quantisation and its cache (`src/npuquant.c`) | codes, group scales; a file between runs | `npu_quant`, the CPU stand-in, `wcache_*` | staging |
| Layouts and register streams (`src/job.c`, `src/regcmd.c`) | none | pack, unpack, split pack, emit, patch, merge | whoever submits a job |
| Vision, CLIP and Whisper graphs; command scripts; benchmarks | -- | -- | -- |

What is hard to test here, and so what the models are for:

* **Threads.** A worker reads the job description *after* it has let the mutex
  go, and the two entries of the pool fill that description in different ways.
* **Two devices and one CPU.** A batched matmul skips its pack on the word of a
  key an earlier call wrote, shares output buffers between tensors, and may
  leave its answer in a device buffer to be gathered inside another tensor's
  call. Every allocation, stream and submit can fail between any two of these
  steps, and the fallback is always "redo this tensor on the CPU".
* **Devices that stop.** A fence is believed after two seconds; a job may be
  late, run half, or never run, and the buffers it reads and writes are reused.
* **Caches and the ways of filling them.** The token loop fills one, the batched
  forward both, speculation rolls the cursor back, a server cuts it to a prefix,
  and the mirror's surfaces change their layout under what they hold.
* **Files.** A file that ends early, a tensor of a type this build cannot read,
  a cache of weights left half written by a run that was killed.
* **Several ways of computing one thing.** Heap or sweep, token or chunk, row or
  batch of rows, one thread or several, float or blocks: comments promise that
  each pair agrees, sometimes to the bit.
* **Limits.** The padding row of a speculative pass at the end of the context,
  ranges with fewer rows than threads, an odd last token, a last slice narrower
  than the rest.

`PROJECT.json` lists these one by one as hazards, each at its line, with the
property that would catch it or the reason none does.

What makes each component correct, in one line: the pool runs every row of a
call once and inside it; a group of batched matmuls gives `batch_layers` whole
products of *this* input whatever failed on the way; the cache below `s->pos` is
exactly the conversation, and the mirror exactly the cache; what is printed is
what the plain greedy loop prints; staging tiles a tensor and never points two
tensors at one place; what is summed under fences that were met is right and a
device that stopped is retired; no answer of a job that did not run is taken for
one; the server's prefix is what is in the cache, and its replies are those of a
server that forgets everything; a file that loads has every tensor the forward
pass will read; a chunk is computed as its tokens would be one by one; the
weight cache is what the quantiser would make.

## 2. The modules

| module | what it is |
|---|---|
| `ParallelFor` | abstract: what `charsiu_parallel_for` promises |
| `WorkerPool` | the pool, thread by thread; refines `ParallelFor` |
| `WorkerPoolInv`, `WorkerPoolProofs` | its inductive invariant in named parts, and the proofs |
| `NpuBatch` | the batched matmul, the devices and the groups of `batch_layers` |
| `NpuBatchProofs` | its inductive invariant, and the proofs |
| `Slices` | how a weight is cut for the NPU (operators) |
| `NpuStage` | staging and dealing, over `Slices` |
| `NpuRow` | a token's matvecs on the NPU, over `NpuStage` |
| `NpuRowProofs` | proofs about the three, and `NpuRow`'s inductive invariant |
| `KvCache` | the two caches of a conversation, and the operations on them |
| `GreedyDecode` | abstract: a conversation answered greedily |
| `SpecDecode` | the turn loop and `llama_spec_step` over `KvCache`; refines `GreedyDecode` |
| `Endpoint` | abstract: what the server promises each client |
| `Serve` | the server over `KvCache`; refines `Endpoint` |
| `KvCacheProofs`, `ServeProofs`, `SpecProofs` | lemmas about the cache, and the proofs about the server, its refinement and the turn loop |
| `Fp16Unit` | handles, groups, sentinels and one job queue |
| `KvLadder` | the mirror's surfaces, their growth and their layouts |
| `NpuAttention` | attention on the NPU: composes `KvLadder` and `Fp16Unit` |
| `NpuAttentionProofs` | proofs about the three, with the inductive invariants of the handles, the mirror and a layer's jobs |
| `Tokenizer`, `TokenizerSpec` | the tokenizer, and what the formats say it computes |
| `Layouts`, `RegStream` | operand layouts; the register stream of a job |
| `GgufFile`, `ModelLoad` | `gguf_open`; `llama_load` |
| `ForwardPass` | `llama_forward` and `batch_layers`, over `ModelLoad` |
| `Kernels`, `NpuQuant` | the kernels; quantisation and the weight cache |
| `Algorithms` | asks the nine modules above about bounded inputs |
| `AlgorithmsProofs` | proofs about `Layouts`, for every shape; about the pre-tokeniser, for every text; about `RegStream`, for every job and capture; about `GgufFile` and `ModelLoad`, for every file |
| `MC*` | the instances for TLC |

`PROJECT.json` maps each definition to the lines it stands for.


### WorkerPool

`pc[w]` is where worker `w` is, `cpc` where the one thread that calls the pool is
(nothing in the runtime calls it from two threads, nor from a callback). A
critical section that touches `g_pool` in one go is one action. The caller's is
three, `CallPool`, `Arm`, `Publish`, because the workers look at the fields with
no lock and the order of the writes is the point. `call.id` and `did[w]` say
which call's callback a worker picked up; they are names the code does not have,
and alternate between two values, which is enough to tell a call from the one
before it. The memory orderings of the cursor's `fetch_add` are not modelled:
the job is published under the mutex, and only `next` is touched outside it.
`stop` is never set in the code and is left out. `PoolStart` may find any of its
threads not created, because the code does not look.

### NpuBatch

Numbers are left out. A buffer's bytes are a record of what they were made from:
which write of which of the caller's buffers, under which AWQ factor, which
tensor's weights, whose row scales. Then `AnswersRight` is a comparison of
names, and *every* way of computing something else -- a stale input, a slice
counted twice, the wrong call's scales, a missing tail -- is a different value.
`pc` walks through `npu_matmul_inner` from its refusals to its tail with a place
for each of the five positions the deferred gather may be flushed from
(`CHARSIU_NPU_DEFER_READ`), and a device takes its jobs off its own queue
whenever it likes (`Complete`). A register stream is read when it is run, so a
job whose stream was overwritten by a later call may run either; the model has
both. `Fails(what)` is each allocation or kernel call that may fail, `MaxFaults`
of them in a behaviour. A few of these the code gets wrong: it goes on as if the
answer were there, or as if the keys were dropped. `FailsIf` marks them by setting
`unhandled`, and the properties speak of behaviours up to the first; the marks
are exactly disagreements 1 and 2 of the list below -- a flags' copy that cannot be
allocated at `charsiu_npu_flush` or under `CHARSIU_NPU_DEFER_READ=2`, a read order
given up for an earlier call, row scales of a deferred int8 gather for which there
is no room, a leader that fails at its output buffer or its first-write flags. Every
other failure of these same calls is one the properties must survive.

### Slices, NpuStage, NpuRow

`Slices` is the arithmetic alone: the group a quantiser gives a tensor, the cuts
along K and N with their remainder. `NpuStage` adds the state: which tensors are
in the table, their slices with device, input region and output region, each
device's load, and the memo of what was refused. One action per way out of
`charsiu_pool_get`, an allocation failing at each place (`Fails`). `NpuRow` is a
token's matvecs over it: pack, a submit per device, the fences, the sum, strikes
and retirement, `matvec_pair` and `matvec_again` around them. A fence that has
run out counts as slow and is believed, so a job may still be in its device's
queue when the next call packs; a device has one queue and takes jobs in order.
`Judged` names what was summed: right, wrong, late (behind a fence that ran out), or
"unscaled", the CPU's rows of a split tensor with an AWQ factor (disagreement 19).
Left out: the driver's own job timeout, the `4 * max_slices` limit of a group,
and the failed allocation of a cut queue (`npudev.c:3723`).

### KvCache, SpecDecode

A cache row is the token whose keys and values it holds; the layers and heads
are one. What attention reads is then a sequence of tokens, and a language model
is a function from such a sequence to its likeliest next token -- the only thing
the turn loop looks at, at temperature 0. `MCSpecDecode`'s models look at every
token and at its place, so a wrong row anywhere can change what is said.
The batched forward attends over the mirror where the NPU may take the layer and
over the float cache where it may not, nondeterministically, since a refused
group falls back in mid-prompt. The bounds `Slack` (rows past the end of the
cache, so that writing there is visible), `MaxTurns` and `MaxRefusals` are the
model's; everything else is a parameter of the code. `Width` is `prefill_width` under the limit a turn sets for itself: the chunk asked
for, cut to the model's ceiling, widened to the whole prompt where that fits it in
one, and without the widths 8 and 10 on a board off the voltage envelope (`rail`).
`CHARSIU_SPEC_JUNK`'s
pseudo-random drafts are any tokens at all. A prompt is one of a set; a turn
begins only with room for it and a whole reply, as in the code.

Two things the code does that the model keeps and a reader may not expect: a
refused pass pushes its token into the history twice (the retry is a recursive
call), which nothing reads any more because speculation is then off; and the
`st->pos >= st->n_ctx` break of the reply loop is dead, since a turn is begun
only with room for all of it.

### Serve

One thread and any number of clients over the same `KvCache`. A client connects,
sends a request or goes; the thread accepts in order, reads, routes, and for a
conversation keeps the common prefix of `CACHED` and the new prompt (`Keep`),
feeds the rest, and says until the model ends, the tokens asked for are out, or
the context is full. `Endpoint` is what a client may expect: the greedy
continuation of its own conversation, cut where it asked -- nothing of a cache, of
other clients or of a prefix. The warm-up, a state that cannot be allocated, and
a connection lost at any point are actions; sampling, the text of a request and
the 64 KB limit on a reply's text are not.

### Fp16Unit, KvLadder, NpuAttention

`KvLadder` gives each layer and kv head a K surface and a V surface. What a
surface holds at a position is one of four words (this turn's row, an older
turn's, nothing, garbage read through another extent), and `dev` is the copy the
device sees, since the CPU's writes reach it when they are flushed. `Fp16Unit`
gives each of the four handles its group, its buffers and its sentinels, and the
file descriptor its queue; a job that dies stops at any operation of a group (an
operation is written whole or not at all). `NpuAttention` drives both as
`attn_npu_layer` does. Extents are scaled (`Pair` is the code's 32, the context
five positions), so that the ladder has three rungs.

### Tokenizer, Layouts and RegStream, GgufFile and ModelLoad, ForwardPass, Kernels, NpuQuant

These are functions, not state machines, and `Algorithms` asks each of them about
every input of a bounded kind, one question a behaviour; the answer is compared
with a definition written another way.

* `Tokenizer` follows the code's heap, its hand-written pre-tokeniser and its
  decoder; `TokenizerSpec` has merging as sweeps over a word and the
  pre-tokeniser as the backtracking match of the regular expression the code
  quotes.
* `Layouts` says where each element goes, with the hardware's own constants;
  `RegStream` the registers `charsiu_emit_job` writes for a shape.
* `GgufFile` walks a file as the cursor does, with its sticky `bad`, for every
  length the file may have been cut to. `ModelLoad` turns keys and tensors into a
  model or refuses them; a slice of a fused weight is its tensor, first row and
  number of rows.
* `ForwardPass` has the two forwards over a loaded model. A vector is one number
  and a kernel a mix of its operands, so two computations agree where the same
  kernels meet the same operands in the same order.
* `Kernels` computes with residues modulo a prime on arbitrary bytes: kernels
  agree when they sum the same products. `NpuQuant` has weights on the
  quantiser's own grid, so that its rounding is exact, and the weight cache file
  as the records it is, over runs that end, fail or are killed.

## 3. The runs

| run | configuration | shows |
|---|---|---|
| `worker_pool` | 3 threads, 4 rows, grains 1 and 2, generations modulo 2 | the pool's type, `NoWorkerOutlivesItsCall`, `RangesDisjoint`, `RowsRunOnce`, that it implements `ParallelFor`, and that a call returns |
| `npu_batch` | a layer on 2 devices, int8, 3 writes of a buffer, 4 flush positions, 2 failures among all eleven, `k` refused at the wider batch | `AnswersRight`: what `batch_layers` reads is whole products of this input; `KeyTruthful`: a reuse key never names what the object does not hold; `OneJobPerBuffer`, `NoGatherReplaced`; `EveryGroupAnswered` |
| `spec_decode` | 5 sets of options, 9 models, 3 prompts, 2 turns, 13 positions | nothing is written past the end, the cache is the text, the mirror is the cache, what is printed is greedy, every turn ends |
| `npu_row` | 4 tensors, 5 ways to start the device, 1 failure, 2 calls | `FencedAnswersRight`: what is summed under fences that were met is right; `SlicesTile`, `OutputsApart`, `MemoTruthful`; every call is answered |
| `server` | 2 clients, 3 connections, 8 requests, 1 failure | `RememberedIsHeld`: `CACHED` is what is in the cache; `HoldOnlyWhileServing`; the server implements `Endpoint`; every client is answered |
| `attention` | 2 layers, 2 kv heads, 4 heads in 2 groups, 3 turns, 1 fault | `AttentionRight`, `DeadJobsNoticed`, `BuffersStill`, `EveryLayerEnds` |
| `algorithms` | bounded inputs of ten algorithms | merging agrees with the sweeps and the cutting with the regex; decoding undoes encoding; places are apart, the split pack is whole, the regrow is the repack, the stream fits its units; a complete file that loads can be run; a chunk is its tokens one by one; the kernels of a format agree; the weight cache is the quantiser's while no knob changes that its header has no word for |
| `algorithms_cache_knobs` | two runs on one cache file, under any arithmetic each | *violation* of `NeverSilentlyDisagrees`: the second takes the first's weights, which are not its quantiser's |
| `spec_decode_mirror_hole` | `-i`, default options | *violation* of `MirrorFilled`: the mirror has a hole where a reply was |
| `spec_decode_overhang` | `-i --spec` | *violation* of `ImplementsGreedy`: the second turn answers to tokens nobody saw |
| `attention_partial_regrow` | memory that comes back | *violation* of `NothingScrambled`: a surface is regrown twice |
| `attention_lost_sentinels` | two head widths | *violation* of `DeadJobsNoticed`: a job that never ran is read as zeros |

Every property of a passing run has a mutant of the code in `PROJECT.json` that
violates it; the mutants stand next to the definitions they change.

### Bounds

* `worker_pool` (220,000 states): three workers are one more than is needed for
  one to be late while another takes two chunks; four rows give shares that are
  empty, full and short, and chunks with a remainder; two generations make the
  counter wrap on every other call.
* `npu_batch` (714,000): two devices is all the hardware has. The layer has tensors
  dealt to one device, to the other and to both, of one and two output ranges,
  with one AWQ factor of its own, and three groups, two of which reuse an input;
  three writes of the shared buffer are a layer and the first group of the next, so
  that keys and entries of the first meet the second. Two failures cover a failure
  inside the recovery from another. Of the five flush positions, 1 is the default,
  2 flushes in the same call, 3 before a call has anything in hand and 5 as late as
  the pack; 4 lies between 3 and 5 with nothing of the gather's touched in between,
  and 0 defers nothing, which `o`'s call has. The theorems are of all six.
* `spec_decode` (41,000): thirteen positions hold a nine-token prompt with a reply,
  so that passes meet the end of the context; a chunk of four under a ceiling of
  nine and a mirror from three tokens on give prompts with no chunk, with one, with
  one and an odd rest, and the nine tokens in a single chunk of eight, or, off the
  envelope, in two of four.
* `npu_row` (519,000): two tensors share an input of six columns, three slices when
  grouped and two when not; one is wide and narrow, one carries a factor. The
  five configurations are grouped, ungrouped, two ways of fitting a group to a
  slice, of which the second gives rows of `q` and of the tensor with the factor to
  the CPU, and a single device with a table of two entries. Two calls let a late
  job of the first meet the second.
* `server` (193,000): conversations that begin alike, that differ at once, that
  fill the context and that do not fit; `CACHED` holds four tokens where the code
  has room for 16384, so that it fills up; `Headroom` 1 for 8. Three connections
  let either client meet what the other left, twice.
* `attention` (65,000): the context is climbed in three extents, prompts of two
  and of five tokens, chunks of three; memory for every surface, and memory that
  ends at the second surface of a growth. One fault is a submit that fails or a
  job that stops anywhere; two or more would let the CPU redo what it redoes.
* `algorithms` (60,000): texts up to six characters, shapes that stop on, short of
  and past each tile edge, every file of six architectures with any one tensor
  missing or unreadable, files cut at every byte, two or three calls on one state
  with a context of six and chunks of two to five, batches up to three rows for
  the code's sixteen, blocks of two and four for its four and eight, histories
  of up to three runs on one cache file. `WeightsApart` is asked of the shapes
  the hardware is given: int4 with whole tiles; `WindowsApart` of the wide jobs
  `npudev.c` admits. `LoadedModelRuns` is asked of files whose windowed heads are
  no wider than the others, and speaks of the complete ones (`Complete`; see
  disagreement 13). `CacheIsQuantiser` speaks of histories in which
  `CHARSIU_NPU_W4_SYM` and `_CLIP` stay as they are, whichever way that is; every
  other knob of the quantiser may change from run to run. `algorithms_cache_knobs`
  is those in which they change.

**`CHECK_DEADLOCK FALSE`** everywhere: every model stops where its bound on turns,
writes, calls or connections is reached, and the pool where a thread was never
created.

### Fairness

Every thread of the pool that can run does (`WF` per worker and for the caller); a
callback returns; no wake that nobody sent is owed. The turn loop,
`npu_matmul_inner`, the row path, the attention of a layer and the server are one
thread each and keep going (`WF` of their steps). In the batched model a device
finishes the jobs on its queue, which the code itself only believes for two
seconds: a fence that times out is ignored by `fence_bo`, and that path is not
modelled. In `NpuRow` devices owe nothing: `EveryCallAnswered` holds with devices
that stop, because the fence is bounded. In `NpuAttention` the hardware goes on
or a job dies; either way the wait ends. `EveryCallReturns` assumes every thread
was created: without it the property is false, because `pool_run` waits for
threads that `pthread_create` may not have made. `EveryClientAnswered` assumes
that a client that has connected sends something or hangs up, since the server
reads with no time limit. Nothing is fair about beginning a turn, a call or a
layer, or about connecting.

### What the passing runs leave to the violations

`spec_decode` starts the program in the ways in which the mirror serves one
prompt at a time and speculation one turn at a time; the two ways it leaves out,
a conversation with the mirror and a conversation with speculation, are two of
the violations. `attention` has memory that does not come back and heads of one
width; the other two are those. `algorithms` keeps the quantiser's arithmetic over a
history; the last violation changes it. `npu_batch` refuses no leader, because of
disagreement 1 of the next section's list, and asks nothing of a behaviour after a
failure that 1 or 2 names.

### What the violations say

The findings are in `PROJECT.json`, with the lines they quote. In short:

1. The mirror's mark is raised over a hole before the catch-up looks for one.
2. A turn that ends with committed tokens unprinted leaves them in the cache.
3. A growth of the mirror that fails part of the way is done twice to the
   surfaces it had reached.
4. New output buffers are taken to be poisoned because the old ones were.
5. A weight cache written under other `CHARSIU_NPU_W4_SYM` or `_CLIP` is taken as it is.

### Disagreements with no run

Met while reading and modelling; each is left out of what the runs check, or makes
no difference to it.

The batched matmul and the pool:

1. A leader that the batched path refuses does not drop the reuse keys
   (`npudev.c:6807`); a follower may trust one of earlier contents. The same if
   the leader fails before it gets there: no output buffer, no first-write flags,
   or a flush that cannot save them.
2. A flush whose read-order table cannot be allocated forgets the gather it owed
   (`npudev.c:6298`). An int8 gather whose snapshot of the row scales could not be
   allocated (`npudev.c:7282`) is flushed under the scales of whichever call packed
   last: the snapshot is marked absent and the flush skips the swap. If `batch_bufs`
   could not allocate the live row scales while such a gather is owed, the swap is
   skipped as well (`npudev.c:6286`) and the read goes through a null pointer. Under
   `CHARSIU_NPU_DEFER_READ=2` a flush that cannot save the flags leaves the call's
   own gather owed, and the next call that defers replaces it.
3. The static split ignores the grain (`llama.c:394` against
   `charsiu_llm.h:258`). No caller relies on it there.
4. The line `g->bin_key[d].valid = 0` (`npudev.c:6846`) repeats for one device what
   the leader's drop has done for all; position 5 of `flush_at` is described as
   "after the pack and the emit" and is before the pack; "ONE TENSOR IS IN FLIGHT
   AT A TIME" (`npudev.c:6704`) is not so after an early return, which
   `batch_outbuf` knows and `breg` does not; the note that int8 may not defer its
   gather (`npudev.c:6476`) precedes the code that snapshots its scales and defers.

Staging and the row path:

5. `npudev.c:1589` says there are always enough input regions; with slices of 4
   and a group of 2 a device may need one more. The tensor is then refused.
6. A cut queue that cannot be allocated (`npudev.c:3723`) leaves the rows of the
   tail uncomputed. Left out of the model.
7. "Three slow submits" (`npudev.c:1118`) retire the pool only on the path of one
   tensor, not of a group; the deal's comment has 36.8 where `DEAL_US_TASK` is
   4.81; `rows_next` is said never to leave a tail of one row (`npupool.c:286`) and
   does for a chunk of 2 with 3 left; the midrise correction indexes its sums by
   `k0 / kmax`, which is not the group where groups are narrower than a slice.

Attention and the mirror:

8. `want()` records the sizes before it allocates (`npufp16.c:174`).
9. An append that fails, followed by one that succeeds, raises `packed` over a row
   that was not written.

The server:

10. The key finder also matches a string *value* equal to the key
    (`charsiu_serve.c:78`).
11. The header says a server that listens has its weights staged
    (`charsiu_serve.c:20`); on the default path a token alone does not stage them
    all.

Files, tokens and weights:

12. `gguf_open` checks the number of elements, not the row, against the block
    (`gguf.c:436`), and a file with no tensors whose last number is cut off opens.
13. The check for the wider head (`llama.c:3186`) comes before gemma-4's
    `key_length_swa` is read (`llama.c:3323`). A bias for `q` with none for `k`, or
    `inp_gate` with no `proj`, loads, and the forward would read what is not there;
    a fused weight with more rows than its slices have (`llama.c:3481`) loads too,
    and the rest is not read.
    `rope_freqs` of a layer is loaded and never used.
14. `llama_forward_embd` at a full context returns with `embd_in` still set
    (`llama.c:8981`), and the next forward would take that row.
15. The BPE path spells a byte token as the text `<0xNN>`
    (`tokenizer.c:864` against `tools/tokenizer_roundtrip.c:4`).
16. `merge_vendor_values` writes only the first entry of a register that is
    emitted twice; int4 with `k` off a multiple of 32 drops blocks past the cap
    (`regcmd.c:1045`).
17. `gguf_matmul` picks the batched kernel by the first activation alone
    (`gguf.c:1846`); `kv_round_chan`'s running maximum is of the process and is
    never reset.
18. The weight cache (`npuquant.c:222`), besides finding 5: a partial or
    out-of-step file is never rewritten though its header matches; tensors AWQ
    declines are written and never looked up, which puts the rest out of step;
    towers are keyed by dimensions and basename alone; and a tower whose write
    fails removes the language model's file (483). `quant_rows` says nothing when
    its scratch cannot be allocated (532).
19. The CPU's rows of a tensor split under `CHARSIU_NPU_CPU_FRAC` are multiplied by
    `cpu_rows` (`npudev.c:1421-1504`) from the plain activation, but an AWQ tensor's
    codes are of scaled weights, and only the hardware's input is divided by the
    factor (`npudev.c:3894`, `7645`). The gate of the split (3541-3550) lets such a
    tensor pass, so those rows are wrong. The split is off by default.
    `FencedAnswersRight` says "but for" these; the run has such a tensor.

## 4. What is proved

### The pool

`WorkerPoolProofs`, for every number of threads, rows, grains and generations
(`PoolAssumption`: they are positive where the code needs it):

* `Invariance`: `Spec => []IInv`;
* `TypeCorrect`, `NoStragglers`, `DisjointRanges`, `OnceEach`: the four
  invariants TLC checks;
* `Refinement`: `Spec => ImplementsParallelFor`.

`NoWorkerOutlivesItsCall` is not inductive: a caller may return only because
`done` reached `n`, so what is needed is that `done` *counts* something.
`CountInv` says what: the threads that are in no job and have seen the current
generation. A thread is in that set from its report until the next `Publish`,
which empties it; so `done = n` means all of them are, and all are out of the job
(`QuietInv`). This uses that `gen` moves by one modulo `GenLimit > 1`, so that
every worker that has seen the last generation has not seen this one, which is
why it holds even with a counter of one bit. `JobInv` says that from `Arm` on the
fields describe this call, and that `Dispatch` would run its work. Given that no
worker is ever late, `CursorInv` and `ShareInv` are arguments about one call: the
cursor's ranges lie below `next`, disjoint, and cover it together with the rows
that have run; the shares of a static split are apart by arithmetic
(`SharesApart`). When all have reported, every worker has seen the cursor past
the end or run its share, so no row is left (`NothingLeft`): that is the
refinement's `PFReturn`.

### The server

`ServeProofs`, for every set of clients, requests and models, every context,
headroom and room of `CACHED` (`ServeAssumption`, `KvAssumption`, and
`ModelsAnswer`: a model's likeliest token is a token):

* `ServeInvariance`: `Spec => []ServeInv`;
* `CacheIsRemembered`: what `CACHED` says is in the cache is in the cache;
* `HoldIsReturned`: the latency hold is never kept without a connection.

`RememberedIsHeld` is not inductive. A token appended to `CACHED` lands at
`Len(cached)` and is written to the cache at `pos`: these are the same place only
because, while tokens are fed, `CACHED` is full or exactly as long as `pos`
(`PrefixInv`), which `BeginChat` establishes by cutting both to the prefix it
keeps, and which a full `CACHED` gives up for good. The prefix kept is a maximum
over a set of lengths, so that it exists has to be proved (`MaxOfBounded` of
`KvCacheProofs`, from well-founded induction). The warm-up writes the cache behind `CACHED`'s back and
is safe because nothing is remembered yet. For the hold: `serve_one` lets it go
only if there is a state, and without one nobody has taken it (`HoldInv`).

`ServedAsIfAlone` says, from the same assumptions, that `Serve`
implements `Endpoint`, so a client hears the model's continuation of its own
conversation whoever was served before it. A request counts as asked while its
client still listens or has been answered (`Heard`), and on the routes of the
endpoint only. The refinement needs a second invariant, `EndInv`, on top of
`ServeInv`:

* `LineInv`: a connection is in the line once, or served, or neither, so that a
  step of the server touches one client;
* `RouteInv`: what is served is what that client has asked, and it fits;
* `ClientInv`: nobody has words of a reply but the client served, and an answer
  ends its connection;
* `ReplyInv`: while the prompt is fed, the rows below the cursor are the prompt's;
  while tokens are said to a client that listens, they are the prompt and the
  reply, and the logits are the model's after that line and no other.

`ReplyInv` is where the kept prefix matters: at `BeginChat` the rows that are kept
come from another client's conversation, and `RememberedIsHeld` with the
comparison in `Shared` makes them the beginning of this one (`KeptAgrees`).
`EndInv` was checked by TLC over the states of the run `serve` first.

### The turn loop

`SpecProofs`, for every model, set of prompts, context, chunk width, n-gram,
number of drafts and of turns (`SpecAssumption`, `KvAssumption`, `ModelsAnswer`),
and for every program started in one of the ways of `StartsSafely`: speculation
answers one turn at a time (`--repeat`), and the mirror serves one repeated prompt
and no speculation. The configurations of the run `spec_decode` are of that kind;
`MCChat` and `MCSpecChat`, which two violation runs start with, are not, and there
`MirrorFilled` and `ImplementsGreedy` fail.

* `SpecInvariance`: `Spec => []SpecInv`;
* `NothingPastTheEnd`: no write past the context (`RowsFit`);
* `CacheHoldsText`: the cache is the conversation (`CacheIsText`);
* `MirrorIsCache`: the mirror is the cache (`MirrorFilled`);
* `Greediness`: `Spec => ImplementsGreedy`.

None of the properties is inductive. A draft is compared with what the model says
after the row before it, which is the model's next token only if every row below
holds the text and the drafts accepted before it: `HeldInv` says in each phase
where `pos` is, and that the row below place `i` holds the `i`-th token of the
text followed by what is committed (`Nth`). `GreedyInv` says that each committed
token is the model's own after the line before it (`Line`). A printed token moves
from the second part of the line to the first and changes neither (`PrintMoves`);
rolling back leaves in the line just what was accepted (`PassHeld`,
`SpecPassGreedy`). Room for the padding row comes from `Fitting` (`PassRoom`), for
a chunk from the test a turn begins with (`PromptInv`). The mirror is read before
the float cache is: `MirrorInv` says that it is a beginning of the prompt, which
with `--repeat` is the text's. It has no hole because a width that was too small
once stays so: whatever a turn makes of the chunk it was asked for, its limit is two
or more (`LimitFacts`), so a chunk is due exactly while two tokens are left
(`WidthFacts`), and none follows a token of the prompt.

### The batched matmul

`NpuBatchProofs`, for every set of devices, input regions, tensors, deal of slices,
layer of groups, width, output buffers, faults and settings (`DealAssumption`: a
tensor is cut along K and N alike; `LayerAssumption`: a group's calls multiply one
buffer and it flushes what it defers):

* `TypeCorrect`;
* `OneJob`: no device has two jobs that write one output buffer;
* `GatherKept`: no owed gather is replaced (`NoGatherReplaced`);
* `KeysTruthful`: a key a follower reads says what its device's regions hold
  (`LeadersTaken`);
* `AnswersWhole`: every `Y` is the whole product when its group is done
  (`LeadersTaken`, `FactorsInRow`).

They hold of any number of failures at any of the eleven points, in any order; the
last three up to the first that the code gets wrong (`unhandled`, section 2), and
`GatherKept` needs even that only under `DEFER_READ=2`. Of the constants, two
need what the code does not see to itself: `LeadersTaken`, that the batched path
refuses no leader (disagreement 1), and `FactorsInRow`, that in an int8 pool the
tensors of one AWQ factor stand together in a group. The code takes no AWQ factor
with int8 weights (`npuquant.c:1136`), so there is one factor and the second is
true of every such pool. TLC finds the counterexample when either is dropped. The
instance of the run `npu_batch` satisfies both.

`OneJobPerBuffer` is not inductive: a call may submit because `batch_outbuf` has
fenced the entry's busy devices, so what is needed is that busy marks cover the
queues (`JobsMarked`, over calls that were left between submit and mark), and that
the entry in hand is free until its call submits (`EntryInHand`). `GatherKept` rests
on where in a call a gather may still be owed, by the position at which
`CHARSIU_NPU_DEFER_READ` flushes (`OwedSomewhere`): never at the one place where a
new one is noted. `KeyInv` has three cases: the keys are dead, the group's leader
has not reached its drop, or a valid key names bytes that were packed from this
version of the activation.

For the answers, follow one call's product. `StreamsOfJobs` says that the newest
job of a device runs the stream its entry's registers hold, and `Computing` what a
submitted device will have written. While a gather is deferred, other calls pack,
submit and finish; `Owed` and `OwedRight` say that nothing still queued writes the
owed entry except the owed job, and that what that job leaves there is the
product. The row scales are shared by all calls: `ScaleInv` says that the scales in
force or saved are those of the owed call's factor. `SavedRoom` says that the room for saved scales, once a gather is owed, is no less
than what is in force, so that the flush does swap them. `Reading` says that the devices
read so far have added their shares to `Y`, and `Answered` that what `batch_layers`
will hand on is whole. A skipped pack enters this chain through `KeyTruthful`: the
region holds what packing would have put there.

`AnswerIInv` is their conjunction, with `unhandled` as the way out. It was checked by TLC
as an invariant of `npu_batch` before it was proved.

### Staging and the row path

`NpuRowProofs`, for every set of tensors with at least a row and a column each,
every set of ways to start the device with one or two devices and slices of at
least one row and one column (`StageAssumption`), every set of calls of one or
more of these tensors (`RowAssumption`), and any faults:

* `StageTiles`: the slices of a staged tensor are disjoint, cover the hardware's
  part of it and fit their buffers;
* `RegionsOwn`: each slice has an output region of its own, within its buffer;
* `MemoTrue`: the pool's numbers and the device's entries agree;
* `FencedRight`: what is summed behind fences that were met is the product, but for
  the CPU's rows of a tensor with an AWQ factor that is split, which are unscaled
  (disagreement 19).

The first is arithmetic. `CutsApart` and `CutsCover` say it of any cut in steps with
a remainder in the last piece; the rest is that each of `Slices`' ways to choose a
step is such a cut (`EvenSteps`, `StepFits`), that the pieces are no wider than
`KmaxWide` (with groups, than the group), and that the grid names each pair of a K
and an N slice once (`GridPlaces`). The deal is a `CHOOSE` of the owners that
satisfy `DealtBy`; that there are some is shown by taking the least prefix that has
none (`EverySliceDealt`), as a slice's owner looks only at the slices before it.

`StageInv` is the memo and the entries, each entry being one that `AddOk` can make
from some deal (`Entries`). `SlicesTile` and `OutputsApart` follow from that alone, for
every entry and not only the newest, and any load the deal may have started from.

`FencedAnswersRight` is not inductive. `RowInv` adds, for a call on the hardware:
its entries are of one factor and one K (`OfOneInput`, which is what
`charsiu_npu_matvec_group` refuses otherwise); every region of the first entry
holds this call's input on every device (`Packed`); jobs write regions of their own
device (`JobsAtHome`); a device that was given work has it as its newest job or has
emptied its queue and left the product (`Computing`); and an entry whose fence was
met is written by nothing queued (`FencesMet`). Then a late job of an earlier call
does no harm to an answer behind fences that were met: it stands before this
call's job in the queue of its device, so it has been overwritten. That the region
packed for the first entry serves all of them is `RegionIs`: equal K means equal
slices. Only a fence that ran out leaves this argument, and the answer is then
called late.

`StageInv` and each part of `RowInv` were checked by TLC as invariants of `npu_row`
before they were proved.

### Attention on the NPU

`NpuAttentionProofs`, for any number of layers, heads and groups, any extents,
memories and lengths of prompt, and any faults (`LadderAssumption`,
`UnitAssumption`, `AttentionAssumption`):

* `QueuedIsStill`: a queued job's handle is left alone (`BuffersStill`);
* `LostJobsNoticed`: a job that did not run is noticed (`DeadJobsNoticed`), if all
  layers have one `head_dim` (`Alike`);
* `AttentionIsRight`: what the NPU is taken to have computed for a layer is
  attention over the rows of this turn (`AttentionRight`), if besides no memory
  comes back in the middle of a turn (`~Transient`).

`BuffersStill` needs that no handle is queued twice and that a queued one is in
flight (`QueueInv`): then a submit, which drains a handle that is in flight, and a
wait find it out of the queue. The one place that writes a buffer with no such
test is `charsiu_fp16_poison_and_release` in the loop over groups; the group it
writes over has been waited for (`BuffersInv`).

`LostJobsNoticed` says that no buffer of answers ever holds an older group's word
(`HandlesRight`), not only a held one. Sentinels that were written ahead are used
by the next group if it is of the same number, rows and columns. `ScoreHandle` says
that then they cover the group (`last` is what the buffer was laid out for) and
that the buffers are not replaced, since they were enough for a group that needed
exactly as much (`Fits`). This is where `Alike` is needed: the size of the input is
of the `head_dim` too, which `charsiu_poison_matches` does not compare; for gemma-4,
whose layers differ, the run `attention_lost_sentinels` has the counterexample, and
for every other model `Alike` is true. That a wait is of the group submitted last,
so that `last` tells of it, is `Pending`. The comparison of sizes is one of
integers, so the extent has to be one: `ClimbStays` bounds the climb of
`attn_npu_fit` by the context. It is a recursion that looks ahead; that it has a
value is shown by descent from the last extent (`RungExists`), and that it ends
within the context in the same way (`RungsEnd`).

`NoticedInv`, the conjunction, was checked by TLC over the states of the instance
with memory that comes back, before it was proved.

`AttentionRight` is about what is in the surfaces, so its invariant (`RightInv`) adds
what is there. `RowsInv` says how many rows of this turn each layer has in the float
cache in each phase. `MirrorInv` says that while no row has been refused (`Whole`:
every layer's count is within the extent) each head's two surfaces hold as many,
in the layout of the extent; a growth, at the row behind the extent, carries them
over or packs them again (`CarriedRight`). `ReadyInv` says that when a layer is
computed the device sees all its rows: by then `attn_npu_catchup` has packed what
the count lacks and the layer was flushed, which the dirty mark guarantees. Once a
row is refused nothing is known of the mirror, and nothing need be: the count of
rows is beyond the extent from then on, so the layer's test `T <= kv` leaves it to
the CPU until the next turn. `Flow` follows the jobs: which handles have the group's
scores and values outstanding in each phase, with the streams, operands and
surfaces of the right heads, and words that are right or still sentinels. A wait
lets a group through only if none is a sentinel.

One thing could break this: the extent growing over rows that were refused. It does
when memory comes back in the middle of a turn, after one kv head of a row was
refused and before the next is appended: the next grows the mirror and counts the
row, which the first never got. This is disagreement 9 of the list above; with
`Transient = TRUE` in `Attention.cfg` TLC finds `AttentionRight` violated by it, 32
steps in. `RightWhileWhole` is the theorem without the
assumption on the memory, for behaviours in which the mirror grows only while it is
whole (`GrowsWhole`), and `MirrorGrowsWhole` says that without `Transient` all do.
That is arithmetic over the ladder (`ShortInv`): the attempt that fails first leaves
the surfaces before the failing one with the rooms it asked for, so the demand it
failed with is the sum of the rooms that are now there and one more
(`FirstRefusal`); a later row climbs at least as far (`ClimbGrows`), asks for at
least as much for a surface (`RoomGrows`), and the first surface without the room is
refused the same way (`RefusedAgain`). The sum is the community modules' fold over a set in an order
that `CHOOSE` picks; that it has a value, a number and the same one for equal
terms, is shown by the number of surfaces (`AddsExist`, `AddsAgree`). The proof needs
the largest of `Memories` to exist, which `LadderAssumption` says.

All parts of `RightInv` and `ShortInv` were checked by TLC as invariants of `attention`
before they were proved, those of `RightInv` with `Transient` and `GrowsWhole` too.

### The layouts

The first part of `AlgorithmsProofs`, for every matmul of any format with a row, a
column and a channel (`MatmulAssumption`), and all pairs of extents of the mirror
(`RegrowAssumption`: they are multiples of 32, as `attn_npu_fit` picks them):

* `PlacesNeverShared`: no two elements of an operand share a place
  (`PlacesApart`);
* `SplitPackAlwaysWhole`: an input packed in two parts is packed whole
  (`SplitPackIsWhole`);
* `RegrowAlwaysRepacks`: a value surface grown in place is the one packed afresh
  (`RegrowIsRepack`).

A place is read back digit by digit. In a weight tile cut short by an edge the
digits are of the tile's own extents (`TileInjective`), and a tile lies behind all
earlier ones (`LaterTile`). An accumulator's place has six digits, of which the
two layouts are different orders (`AccDigits`, `AccIndexIs`); that they fill the
buffer is then counting. The coefficient buffer is allocated for a number of
elements that `CHARSIU_COEF_ELEMS` defaults to 65536; `CoefApart` needs room for
the scales as well, which that default leaves up to 131192 channels
(`CoefChannels`), and a staged slice has 8192 at most.

A packer is a function of places, and what it leaves is described by what each
place should hold: `WholeStored`, `SplitStored` and `OneRowStored` say it of the
three, and `PackersAgree` that these are the same. In a surface of values the places of a
column do not depend on how long the surface is, only where its block begins
(`ColumnPlace`). `charsiu_fp16_regrow_vcols` moves the last block first;
`Growing(f, ..., b)` is its loop invariant: the blocks from `b` on stand where the
longer extent has them, and those below where the shorter had them. It is kept
because a block moves up, over places that only moved blocks had
(`BlockMoved`). That what lies behind the live rows is cleared is the part a
shorter history would show: the old block's padding reaches to the next multiple
of 32 rows, and what is moved with it is zeros (`OffsetInFront`, `ValueNone`). The
loops are recursive functions; that they have values is shown by least counterexample
(`Ascent`).

### The pre-tokeniser

`PretokAlwaysLikeRegex`: in any text over the kinds of character the cutter tells
apart (`TextAssumption`), wherever a word begins, `PretokNext` cuts what the
backtracking match of the regular expression takes (`PretokLikeRegex`). The match is
of sets of ends: what a pattern may match from a place, all its backtracking taken
(`EndsOf`), of which the greedy one is the longest. One lemma per alternative of the
expression says that its branch of the code applies when it has a match and takes as
much; `PretokIsRegex` takes them in the order both try them. The one
branch that is not a plain run of a class is white space before a word, of which the
expression gives back the last character: there the code's own step back is compared
with the look-ahead.

### The register streams

`StreamsAlwaysRight`, for every matmul, window, axis and addresses, and every captured
stream that has none of the four enables in it (`StreamAssumption`; "the vendor
stream carries no 0x1d trailer of its own", `job.c:913`):

* patching the weight address gives, by one word, the stream of that address. A stream is ten
  parts one after the other, and what each register is written by is its part
  (`Stacked`, `WrittenOnce`): no register is written twice but 0x1038;
* the CBUF windows of an admitted job on the width axis do not overlap
  (`WindowsAreApart`). The hypotheses are `WindowsMeant`, which the code's comments
  give: window 1 begins at bank 7 or 8 (6 overlaps by a bank, a control; with 9
  and more the window has no room), and K is a multiple of 32. The guard in
  `npudev.c` counts `kw / 32` blocks where the stream's surface takes a part of a block for a whole,
  so for another K one more block per row could be admitted than there is room for.
  Rows of quantised blocks are multiples of 32; a float tensor, `CHARSIU_NPU_W4_GROUP` or
  `CHARSIU_NPU_KMAX` could give a slice another width;
* a capture merged over a stream keeps our addresses, gives every other register the
  last value it captured, leaves the rest as they were and the enables last. `Merging` is the
  loop's invariant: the words before the enables are ours or registers the
  capture named, each once; where one of ours stays, it stays to the letter (`Stays`); and
  the last word captured of each register stands somewhere (`Taken1`). 0x1038 is the
  one register that is written in two places (`job.c:1180` and `1276`). The merge
  stops at the first, so the later of the two writes stands and the captured value
  does not; `job.c:916` says that every register the vendor also writes takes the
  vendor's value. `Merged` states what the code does.

### Files and models

`LoadedModelsRun` says two things, each of every file:

* A model that loads can be run (`LoadedRun`), for every file whose keys are numbers
  and arrays of numbers and whose window heads are no wider than the others
  (`FileAssumption`; disagreement 13 says why the loader does not see to it). The
  layers are a recursive function; `Loading` is what holds of the layers read so
  far: the last layer noted of each kind, window or full, has a K of its own and is of that
  kind (`Own`), so a layer that shares one finds what it needs behind it. The seven
  weights of a layer are seven tensors, or slices that differ (`WeightsDiffer`), `wk` and `wv`
  among them; and the slices of `attn_qkv` and of `ffn_up` are disjoint and cover their
  tensor (`SlicesTileIt`): each begins where the one before it ends, the loader refuses a tensor with
  fewer rows than the last slice needs, and `Complete` says that there are no more.
  `Complete` is what the loader does not ask and the forward takes for granted (the
  end of disagreement 13).
* A file cut off anywhere opens only if no row of a tensor is missing, and in the
  places it had (`WrittenOpensWhole`). The hypotheses are a writer's: there is a tensor
  (disagreement 12 has a file without one), the fields have lengths, a file one byte
  longer opens, and the file ends no earlier than its last tensor's last row
  (`WrittenAssumption`). A cursor has "come to" a place of the fields if it
  stands there or the file ends before it and it is bad (`ComeTo`). Taking a field
  keeps this, and so does each key, value and tensor (`ValueComes`, `KeysCome`,
  `TensorsCome`), for all lengths of the file at once: either no length gets past a
  type that is not read, or there is one place where the data begins, and a file
  opens exactly if it reaches behind each tensor's bytes (`OpensOnce`). That a
  number's value is taken without looking whether it fits is harmless for this
  reason: a bad cursor moves nothing, and whoever reads next refuses the file.

### Only model-checked

Liveness under fairness is beyond the prover (`EveryCallReturns`,
`EveryGroupAnswered`, `EveryTurnEnds`, `EveryCallAnswered`, `EveryClientAnswered`,
`EveryLayerEnds`). Of the properties of `algorithms`, these are TLC's alone:

* `SegmentationAgrees`, `RoundTrip`: what merging computes for every word is induction over the
  word and over the heap's history; the definitions they are compared with are recursive too;
* `BatchIsTokenwise`: two folds over all layers and positions, with the state of a model as the accumulator;
* `KernelsAgree`: sums modulo a prime over the bytes of blocks of a dozen formats;
* `CacheIsQuantiser`: over histories of runs and their files. It is stated of histories
  that keep `CHARSIU_NPU_W4_SYM` and `_CLIP`, which the header of the file leaves out
  (`npuquant.c:346-378`); without that it is false, which is finding 5.

Every safety and refinement property of the other passing runs is also a theorem,
under the hypotheses named above.

## 5. What is left

Worth proving next: the refinements in the other direction of detail, `NpuBatch` and
`NpuRow` each against a group of products computed at once, and the rest of
`Algorithms`. Worth modelling next: a fence that times out in the batched
path, failing allocations of a group's own buffers, and the
replacement of files in `charsiu-get` and `charsiu-update`.

## 6. Not modelled

Vision, CLIP and Whisper (straight-line graphs over the same pool and matmuls);
the command scripts; benchmarks and board tests; statistics and tracing; probes of
the hardware. Rounding: where numbers are compared they are exact. Mixture-of-experts
files (the loader refuses them). Within the modelled parts: `NpuBatch` leaves out
the row split with the CPU (off by default), the deferral's shadow check, and the
flush at `charsiu_npu_close`; `SpecDecode` sampling and images; `ForwardPass`
`CHARSIU_KV_BITS` and the position-major cache; `NpuQuant` the search of
`CHARSIU_NPU_W4_CLIP`, the statistics behind AWQ, and two processes writing one
cache file at once (a reader may then see holes as zeros); `Serve` JSON, HTTP text
and sampling; `GgufFile` names longer than a tensor's 63 bytes and running out of
memory. `PROJECT.json` says this component by component.

## 7. Running

    tlc -config WorkerPool.cfg MCWorkerPool
    tlc -config NpuBatch.cfg MCNpuBatch
    tlc -config SpecDecode.cfg MCSpecDecode
    tlc -config NpuRow.cfg MCNpuRow
    tlc -config Serve.cfg MCServe
    tlc -config Attention.cfg MCNpuAttention
    tlc -config Algorithms.cfg MCAlgorithms
    tlapm WorkerPoolProofs.tla
    tlapm KvCacheProofs.tla
    tlapm ServeProofs.tla
    tlapm SpecProofs.tla
    tlapm NpuBatchProofs.tla
    tlapm NpuRowProofs.tla
    tlapm NpuAttentionProofs.tla
    tlapm AlgorithmsProofs.tla

The runs take from a few seconds to three and a half minutes each; most of
`Algorithms`' time is evaluating the algorithms, most of the others' with a
refinement the check of liveness.
