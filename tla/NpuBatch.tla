------------------------------- MODULE NpuBatch -------------------------------
(***************************************************************************)
(* The batched matmul of src/npudev.c, the two devices under it, and the   *)
(* part of src/llama.c's batch_layers that calls it: who holds which bytes *)
(* between the pack of an input and the gather of an answer.               *)
(*                                                                         *)
(* Numbers are left out.  A buffer's bytes are named by what they were     *)
(* made from: an input by the write of the caller's buffer it came from    *)
(* and the AWQ factor it was scaled by, an answer by its terms, one for    *)
(* each K slice of each range of output channels.  The caller has one      *)
(* thread; the devices run their queues on their own.                      *)
(***************************************************************************)
EXTENDS Integers, FiniteSets, Sequences

CONSTANTS
    Devs,       \* the open device files: 0 .. ndev - 1
    Tensors,    \* staged or not, what batch_layers multiplies by
    Deal,       \* Deal[t][<<ki, ni>>]: the device slot <<ki, ni>> of t is on
    Wide,       \* Wide[t]: the widest n of t's slots
    Factor,     \* Factor[t]: the hash of t's AWQ factor
    Staged,     \* the tensors that have an id: charsiu_npu_add took them
    Taken,      \* Taken[m]: of those, what the batched path does not refuse m rows
    Int8,       \* the pool was opened for int8, so a row has a scale: bd1
    Layer,      \* the groups of calls batch_layers makes, in order
    Rows,       \* the widths m of a batch
    DeferReads, \* the settings of CHARSIU_NPU_DEFER_READ
    SerialRows, \* the widths batch_serial_for serialises the devices for
    Faults,     \* what may fail
    MaxFaults,  \* how many failures a behaviour has
    MaxWrites   \* how often a behaviour writes one buffer

KSlices(t) == {s[1] : s \in DOMAIN Deal[t]}
NKs(t) == Cardinality(KSlices(t))
Ranges(t) == {s[2] : s \in DOMAIN Deal[t]}
K == UNION {KSlices(t) : t \in Tensors}
N == UNION {Ranges(t) : t \in Tensors}
Calls == UNION {{Layer[i].calls[j] : j \in DOMAIN Layer[i].calls} : i \in DOMAIN Layer}
Buffers == {c.x : c \in Calls}
Places == UNION {DOMAIN Layer[i].calls : i \in DOMAIN Layer}

FaultPoints == {"bufs", "scratch", "bd1", "outbuf", "seen", "emit", "submit",
                "save", "order", "snapshot", "scales"}

ASSUME BatchAssumption ==
    /\ Devs \subseteq Nat /\ Devs # {}
    /\ Staged \subseteq Tensors /\ Taken \in [Rows -> SUBSET Staged]
    /\ Int8 \in BOOLEAN
    /\ Rows \subseteq Nat \ {0, 1} /\ SerialRows \subseteq Rows
    /\ DeferReads \subseteq 0 .. 5 /\ DeferReads # {}
    /\ Faults \subseteq FaultPoints /\ MaxFaults \in Nat
    /\ MaxWrites \in Nat

\* charsiu_npu_add cuts a tensor along K and N alike: every K slice of every
\* range is a slot of some device.
ASSUME DealAssumption ==
    \A t \in Tensors :
        /\ Deal[t] \in [KSlices(t) \X Ranges(t) -> Devs]
        /\ IsFiniteSet(KSlices(t)) /\ KSlices(t) # {}
        /\ Wide[t] \in Nat

\* A group's calls multiply one buffer, and so are cut into as many K slices;
\* only the first may find it written since, and a group that defers a gather
\* asks for it before its Y are read.
ASSUME LayerAssumption ==
    /\ Layer \in Seq([calls : Seq([t : Tensors, x : Buffers,
                                   same : BOOLEAN, defer : BOOLEAN]),
                      flush : BOOLEAN])
    /\ Layer # <<>>
    /\ \A i \in DOMAIN Layer :
          /\ Layer[i].calls # <<>> /\ ~Layer[i].calls[1].same
          /\ \A j \in DOMAIN Layer[i].calls :
                /\ Layer[i].calls[j].x = Layer[i].calls[1].x
                /\ NKs(Layer[i].calls[j].t) = NKs(Layer[i].calls[1].t)
                /\ Layer[i].calls[j].defer => Layer[i].flush

VARIABLES
    \* batch_layers
    at, nth, pc, m,
    wrote,      \* wrote[x]: which write of buffer x its contents are
    y,          \* y[j]: the answer of call j of the group
    \* struct charsiu_npu
    deferRead,  \* defer_read_on()'s memo
    dead, bm, bnks, bnslots, key, ob, seen, bd1, obuf, pend,
    bd1n,       \* bd1_n, and 0 when there is no bd1
    savedn,     \* pend.bd1_n: the scales a deferred gather has room for
    left,       \* the devices the loop in progress has not reached
    failed,     \* how many calls to the kernel or the allocator have failed
    unhandled,  \* one of them was a failure the code gets wrong: see FailsIf
    \* the devices
    bin,        \* bin[d][k]: the bytes of the input object of slice k
    regs,       \* regs[d]: what the register stream of d computes, and where
    queue       \* queue[d]: the jobs submitted to d and not finished

caller == <<at, nth, m, wrote, deferRead>>
sizes == <<bm, bnks, bnslots, bd1n, savedn>>
pool == <<dead, sizes, obuf>>
devices == <<bin, regs, queue>>
failures == <<failed, unhandled>>
vars == <<failures, caller, pc, y, pool, key, ob, seen, bd1, pend, left, devices>>
------------------------------------------------------------------------------
(* What bytes are. *)

NoData == [x |-> "none", v |-> 0, f |-> "none"]
Input(t, x) == [x |-> x, v |-> wrote[x], f |-> Factor[t]]

\* one K slice's share of a range: whose weights, which input, which row scales
Term(t, in, d1) == [w |-> t, in |-> in, d1 |-> d1]
NoTerm == Term("none", NoData, NoData)
Junk == Term("junk", NoData, NoData)
Plus(old, term) == IF old = NoTerm THEN term ELSE Junk

\* Y: for every range its sum over K and how often tail_scale_apply scaled it
Unwritten == [ni \in N |-> [sum |-> [k \in K |-> Junk], tail |-> 0]]
Product(t, x) ==
    [ni \in N |->
        [sum |-> [k \in K |-> IF k \in KSlices(t)
                              THEN Term(t, Input(t, x), Input(t, x)) ELSE NoTerm],
         tail |-> 1]]
IsProduct(out, t, x) == \A ni \in Ranges(t) : out[ni] = Product(t, x)[ni]

Need(t, d) == {s[1] : s \in {q \in DOMAIN Deal[t] : Deal[t][q] = d}}
SlotsOn(t, d) == Cardinality({q \in DOMAIN Deal[t] : Deal[t][q] = d})
Most(t) == CHOOSE z \in {SlotsOn(t, d) : d \in Devs} :
               \A d \in Devs : SlotsOn(t, d) <= z

NoResult == [t |-> "none", in |-> [k \in K |-> NoData]]
NoKey == [valid |-> FALSE, x |-> "none", m |-> 0, f |-> "none", ks |-> {}]
NoPend == [live |-> FALSE]
ClearScales == [k \in K |-> NoData]

group == Layer[at]
call == group.calls[nth]
Serially == m \in SerialRows
Deferring == call.defer /\ deferRead # 0
------------------------------------------------------------------------------
Init ==
    /\ at = 0 /\ nth = 1 /\ pc = "idle" /\ m = 2
    /\ wrote = [x \in Buffers |-> 0]
    /\ y = [j \in Places |-> Unwritten]
    /\ deferRead \in DeferReads
    /\ dead = FALSE /\ bm = 0 /\ bnks = 0 /\ bnslots = 0 /\ bd1n = 0 /\ savedn = 0
    /\ key = [d \in Devs |-> NoKey]
    /\ ob = 0 /\ seen = {} /\ bd1 = ClearScales
    /\ obuf = <<>> /\ pend = NoPend /\ left = {} /\ failed = 0 /\ unhandled = FALSE
    /\ bin = [d \in Devs |-> ClearScales]
    /\ regs = [d \in Devs |-> [t |-> "none", ob |-> 0]]
    /\ queue = [d \in Devs |-> <<>>]

Goto(where) == pc' = where
Works == UNCHANGED failures

\* A call to the kernel or the allocator fails, which the code handles unless
\* `bad`: it goes on as if the answer were there, or the keys were dropped.
FailsIf(what, bad) ==
    /\ what \in Faults /\ failed < MaxFaults /\ failed' = failed + 1
    /\ unhandled' = IF bad THEN TRUE ELSE unhandled
Fails(what) == FailsIf(what, FALSE)
FailBoth(one, other) ==
    /\ {one, other} \subseteq Faults /\ failed + 2 <= MaxFaults /\ failed' = failed + 2
    /\ unhandled' = unhandled

\* batch_layers reaches the next group: its input is written -- a norm, the
\* attention, silu -- over whatever the buffer held, and its Y are new.
BeginGroup ==
    /\ pc = "idle"
    /\ IF at = 0 \/ at = Len(Layer)
       THEN at' = 1 /\ m' \in Rows
       ELSE at' = at + 1 /\ m' = m
    /\ LET xs == {Layer[at'].calls[j].x : j \in DOMAIN Layer[at'].calls}
       IN /\ \A x \in xs : wrote[x] < MaxWrites
          /\ wrote' = [x \in Buffers |-> IF x \in xs THEN wrote[x] + 1 ELSE wrote[x]]
    /\ nth' = 1
    /\ y' = [j \in Places |-> Unwritten]
    /\ Goto("enter")
    /\ UNCHANGED <<failures, deferRead, pool, key, ob, seen, bd1, pend, left, devices>>

\* matmul_rows_x and npu_matmul_inner down to its first flush: a dead pool and
\* a tensor with no id go to the CPU.
Enter ==
    /\ pc = "enter"
    /\ Goto(IF dead \/ call.t \notin Staged THEN "rows" ELSE "flush3")
    /\ UNCHANGED <<failures, caller, y, pool, key, ob, seen, bd1, pend, left, devices>>

\* The CPU's rows, after a refusal or a failure.
MatvecRows ==
    /\ pc = "rows"
    /\ y' = [y EXCEPT ![nth] = Product(call.t, call.x)]
    /\ Goto("return")
    /\ UNCHANGED <<failures, caller, pool, key, ob, seen, bd1, pend, left, devices>>

Return ==
    /\ pc = "return"
    /\ IF nth < Len(group.calls)
       THEN nth' = nth + 1 /\ Goto("enter")
       ELSE nth' = nth /\ Goto(IF group.flush THEN "flush" ELSE "use")
    /\ UNCHANGED <<failures, at, m, wrote, deferRead, y, pool, key, ob, seen, bd1, pend,
                   left, devices>>

\* batch_layers reads the group's Y.
Use ==
    /\ pc = "use"
    /\ Goto("idle")
    /\ UNCHANGED <<failures, caller, y, pool, key, ob, seen, bd1, pend, left, devices>>
------------------------------------------------------------------------------
(* The gather: batch_read_device, tail_scale_apply, npu_flush_pending. *)

\* The devices ds' parts of t's answer, which entry o holds, added into `out`:
\* the first write of a range in this call assigns, those after it accumulate,
\* so it is all one whether the devices are read in turn or at once.
ReadDevices(ds, out, first, t, o, scales) ==
    [ni \in N |->
        LET ks == {k \in KSlices(t) : <<k, ni>> \in DOMAIN Deal[t]
                                        /\ Deal[t][<<k, ni>>] \in ds}
            old == IF ni \in first THEN out[ni].sum ELSE [k \in K |-> NoTerm]
            in(k) == o.data[Deal[t][<<k, ni>>]].in[k]
            new(k) == Term(o.data[Deal[t][<<k, ni>>]].t, in(k),
                           IF Int8 THEN scales[k] ELSE in(k))
        IN IF ks = {} THEN out[ni]
           ELSE [sum |-> [k \in K |-> IF k \in ks THEN Plus(old[k], new(k)) ELSE old[k]],
                 tail |-> IF ni \in first THEN out[ni].tail ELSE 0]]
SeenAfter(first, t, d) ==
    first \cup {s[2] : s \in {q \in DOMAIN Deal[t] : Deal[t][q] = d}}
ReadAll(out, first, t, o, scales) == ReadDevices(Devs, out, first, t, o, scales)

TailScale(out, t) ==
    [ni \in N |-> IF ni \in Ranges(t) THEN [out[ni] EXCEPT !.tail = @ + 1] ELSE out[ni]]

\* npu_flush_pending's gather: under the flags and scales of the call that
\* deferred it, put back afterwards; the scales only if they were saved and
\* are no fewer than bd1 has room for now.
\* Mutant of PendScales: the scales of whichever call packed last.
ScalesAsTheyAre == bd1
PendScales == IF savedn # 0 /\ bd1n # 0 /\ savedn >= bd1n THEN pend.bd1 ELSE bd1
Gathered == TailScale(ReadAll(y[pend.nth], pend.seen, pend.t, obuf[pend.ob], PendScales),
                      pend.t)
SeenRestored == seen

Settled == [obuf EXCEPT ![pend.ob].pending = FALSE]

\* Every outcome of npu_flush_pending: it has run, its scratch would not
\* allocate and it is still owed, or the read order table would not allocate
\* and the gather is given up.  What fails is the call that flushes: the CPU
\* redoes that one, which is the one whose gather was given up only if it
\* flushes its own; and nobody looks at what charsiu_npu_flush returns.
FlushPending(done, otherwise) ==
    \/ /\ y' = [y EXCEPT ![pend.nth] = Gathered]
       /\ seen' = SeenRestored /\ obuf' = Settled /\ pend' = NoPend
       /\ Goto(done) /\ Works
    \/ /\ FailsIf("save", pc \in {"flush", "flush2"})
       /\ Goto(otherwise)
       /\ UNCHANGED <<y, seen, obuf, pend>>
    \/ /\ FailsIf("order", pc # "flush2")
       /\ y' = [y EXCEPT ![pend.nth] = TailScale(@, pend.t)]
       /\ obuf' = Settled /\ pend' = NoPend
       /\ Goto(otherwise)
       /\ UNCHANGED seen

\* flush_at(g, pos) at the place `here` of npu_matmul_inner
FlushAt(here, pos, done) ==
    /\ pc = here
    /\ IF pend.live /\ deferRead = pos
       THEN FlushPending(done, "rows")
       ELSE Goto(done) /\ Works /\ UNCHANGED <<y, seen, obuf, pend>>
    /\ UNCHANGED <<caller, dead, sizes, key, ob, bd1, devices>>

\* then npu_matmul_inner's own refusals, of this tensor at this width
FlushOnEntry ==
    FlushAt("flush3", 3, IF call.t \in Taken[m] THEN "bufs" ELSE "rows") /\ UNCHANGED left
FlushAfterOutbuf == FlushAt("flush4", 4, "reset") /\ UNCHANGED left
FlushBeforePack == FlushAt("flush5", 5, "pack") /\ left' = Devs
\* Mutant of FlushAfterSubmit: the gather is not flushed under this submit.
FlushForgotten ==
    /\ pc = "flush1" /\ Goto("fence") /\ left' = Devs
    /\ UNCHANGED <<failures, caller, y, pool, key, ob, seen, bd1, pend, devices>>
FlushAfterSubmit == FlushAt("flush1", 1, "fence") /\ left' = Devs
\* DEFER_READ=2: the deferring call flushes its own gather; a save that fails
\* leaves it owing, and the next call to defer takes no notice
FlushAtOnce == FlushAt("flush2", 2, "return") /\ UNCHANGED left

\* charsiu_npu_flush, whose result batch_layers does not look at
Flush ==
    /\ pc = "flush"
    /\ IF pend.live THEN FlushPending("use", "use")
       ELSE Goto("use") /\ Works /\ UNCHANGED <<y, seen, obuf, pend>>
    /\ UNCHANGED <<caller, dead, sizes, key, ob, bd1, left, devices>>
------------------------------------------------------------------------------
(* npu_matmul_inner, from batch_bufs to the tail. *)

Larger(a, b) == IF a > b THEN a ELSE b
Dropped(ks) == [d \in Devs |-> [ks[d] EXCEPT !.valid = FALSE]]

\* batch_bufs: nothing to do, or every input object and then the scratch
\* replaced by a larger one.  bd1 is freed after the objects are there and
\* before the scratch is: an int8 gather still owed when there is no bd1 is
\* read through it all the same.
Roomy == bm >= m /\ bnks >= NKs(call.t) /\ bnslots >= Most(call.t)
BatchBufs ==
    /\ pc = "bufs"
    /\ \/ Roomy /\ Goto("outbuf") /\ Works /\ UNCHANGED <<bm, bnks, bnslots, bd1n, key, bd1, bin>>
       \/ /\ ~Roomy
          /\ key' = Dropped(key)
          /\ bnks' = Larger(bnks, NKs(call.t))
          /\ bnslots' = Larger(bnslots, Most(call.t))
          /\ bin' = [d \in Devs |-> ClearScales]
          /\ LET room == bnks' * Larger(bm, m)
             IN \/ /\ bm' = Larger(bm, m) /\ bd1' = ClearScales /\ bd1n' = room
                   /\ Goto("outbuf") /\ Works
                \/ /\ bm' = 0 /\ Goto("rows")
                   /\ \/ Fails("bufs") /\ UNCHANGED <<bd1, bd1n>>
                      \/ Fails("scratch") /\ bd1' = ClearScales /\ bd1n' = room
                      \/ /\ FailsIf("bd1", Int8 /\ pend.live)
                         /\ bd1' = ClearScales /\ bd1n' = 0
    /\ UNCHANGED <<caller, y, dead, savedn, obuf, ob, seen, pend, left, regs, queue>>

\* An entry of the output pool: the first of the shape that owes no gather.
Same(o, t) == o.wide = Wide[t] /\ o.slots = Most(t)
Free(t) == {i \in DOMAIN obuf : Same(obuf[i], t) /\ ~obuf[i].pending}
FreshEntry(t) == [wide |-> Wide[t], slots |-> Most(t), m |-> 0, busy |-> {},
                  pending |-> FALSE, data |-> [d \in Devs |-> NoResult]]
FoundEntry(t) == IF Free(t) = {} THEN Len(obuf) + 1
                 ELSE CHOOSE i \in Free(t) : \A j \in Free(t) : i <= j
Entries(t) == IF Free(t) = {} THEN Append(obuf, FreshEntry(t)) ELSE obuf

\* No job still on the queue of d writes entry i: the prep of its buffer returns.
Drained(d, i) == \A j \in DOMAIN queue[d] : queue[d][j].ob # i
\* Mutant of HandedOutIdle: the entry is handed out as it is.
HandedOutAtOnce(i) == TRUE
\* batch_outbuf waits for whatever an early return left writing the entry.
HandedOutIdle(i) == i \in DOMAIN obuf => \A d \in obuf[i].busy : Drained(d, i)

BatchOutbuf ==
    /\ pc = "outbuf"
    /\ LET i == FoundEntry(call.t)
           o == Entries(call.t)[i]
       IN /\ HandedOutIdle(i)
          /\ \/ /\ obuf' = [Entries(call.t) EXCEPT ![i] =
                              IF o.m >= m THEN [o EXCEPT !.busy = {}]
                              ELSE [FreshEntry(call.t) EXCEPT !.m = m]]
                /\ ob' = i /\ Goto("flush4") /\ Works
             \/ /\ FailsIf("outbuf", ~call.same) /\ o.m < m
                /\ obuf' = [Entries(call.t) EXCEPT ![i] = FreshEntry(call.t)]
                /\ ob' = ob /\ Goto("rows")
    /\ UNCHANGED <<caller, y, dead, sizes, key, seen, bd1, pend, left, devices>>

\* The first-write flags, then the keys a leader drops: one that fails before
\* that leaves the keys of the group before to its followers.
\* Mutant of LeaderDrops: a leader touches the keys of the devices it reaches.
LeaderKeeps(c) == key
LeaderDrops(c) == IF c.same THEN key ELSE Dropped(key)
StartCall ==
    /\ pc = "reset"
    /\ \/ seen' = {} /\ key' = LeaderDrops(call) /\ Goto("flush5") /\ Works
       \/ FailsIf("seen", ~call.same) /\ Goto("rows") /\ UNCHANGED <<seen, key>>
    /\ UNCHANGED <<caller, y, pool, ob, bd1, pend, left, devices>>

\* reuse_key_hit, asked for only by a call that says its input is unchanged
Hit(d) ==
    /\ call.same /\ key[d].valid
    /\ key[d].x = call.x /\ key[d].m = m /\ key[d].f = Factor[call.t]
    /\ Need(call.t, d) \subseteq key[d].ks

\* One turn of the loop over the devices: pack the slices d needs unless d
\* holds them, emit, submit.
Packed(d) == [k \in K |-> IF ~Hit(d) /\ k \in Need(call.t, d)
                          THEN Input(call.t, call.x) ELSE bin[d][k]]
PackedScales(d) == [k \in K |-> IF ~Hit(d) /\ k \in Need(call.t, d) /\ Int8
                                THEN Input(call.t, call.x) ELSE bd1[k]]
KeyAfter(d) == IF Hit(d) THEN key[d]
               ELSE IF Need(call.t, d) = {} THEN [key[d] EXCEPT !.valid = FALSE]
               ELSE [valid |-> TRUE, x |-> call.x, m |-> m,
                     f |-> Factor[call.t], ks |-> Need(call.t, d)]
Turn(d) == d \in left /\ (Serially => obuf[ob].busy = {})

SkipDevice(d) ==
    /\ pc = "pack" /\ Turn(d) /\ Need(call.t, d) = {}
    /\ key' = [key EXCEPT ![d] = KeyAfter(d)]
    /\ left' = left \ {d}
    /\ UNCHANGED <<failures, caller, pc, y, pool, ob, seen, bd1, pend, devices>>

PackAndSubmit(d) ==
    /\ pc = "pack" /\ Turn(d) /\ Need(call.t, d) # {}
    /\ bin' = [bin EXCEPT ![d] = Packed(d)]
    /\ bd1' = PackedScales(d)
    /\ key' = [key EXCEPT ![d] = KeyAfter(d)]
    /\ regs' = [regs EXCEPT ![d] = [t |-> call.t, ob |-> ob]]
    /\ \/ /\ queue' = [queue EXCEPT ![d] = Append(@, [t |-> call.t, ob |-> ob])]
          /\ obuf' = [obuf EXCEPT ![ob].busy = @ \cup {d}]
          /\ left' = left \ {d}
          /\ Works /\ UNCHANGED <<dead, pc>>
       \/ /\ Fails("submit")
          /\ dead' = TRUE /\ Goto("rows")
          /\ UNCHANGED <<queue, obuf, left>>
    /\ UNCHANGED <<caller, y, sizes, ob, seen, pend>>

\* an empty register stream: the pack is done and its key is not set; the
\* streams of the slots before it are written over those of the last job
EmitFails(d) ==
    /\ pc = "pack" /\ Turn(d) /\ Need(call.t, d) # {} /\ Fails("emit")
    /\ bin' = [bin EXCEPT ![d] = Packed(d)]
    /\ bd1' = PackedScales(d)
    /\ key' = [key EXCEPT ![d].valid = @ /\ Hit(d)]
    /\ \E stream \in {regs[d], [t |-> call.t, ob |-> ob]} :
          regs' = [regs EXCEPT ![d] = stream]
    /\ Goto("rows")
    /\ UNCHANGED <<caller, y, pool, ob, seen, pend, left, queue>>

\* Mutant of Fenced: the device stays marked busy.
FencedStillBusy(d) == obuf
Fenced(d) == [obuf EXCEPT ![ob].busy = @ \ {d}]

\* two devices serialised: each job is fenced before the next device's turn
SerialFence(d) ==
    /\ pc = "pack" /\ Serially /\ d \in obuf[ob].busy /\ Drained(d, ob)
    /\ obuf' = Fenced(d)
    /\ UNCHANGED <<failures, caller, pc, y, dead, sizes, key, ob, seen, bd1, pend, left,
                   devices>>

AllSubmitted ==
    /\ pc = "pack" /\ left = {} /\ (Serially => obuf[ob].busy = {})
    /\ Goto("flush1")
    /\ UNCHANGED <<failures, caller, y, pool, key, ob, seen, bd1, pend, left, devices>>

\* The second loop: fence each device in turn and, unless the gather is
\* deferred, read it.
FenceAndRead(d) ==
    /\ pc = "fence" /\ d \in left /\ (\A e \in left : d <= e) /\ Drained(d, ob)
    /\ obuf' = Fenced(d)
    /\ left' = left \ {d}
    /\ \/ /\ ~Deferring
          /\ y' = [y EXCEPT ![nth] =
                      ReadDevices({d}, @, seen, call.t, obuf[ob], bd1)]
          /\ seen' = SeenAfter(seen, call.t, d)
          /\ pc' = pc /\ Works
       \/ Deferring /\ Works /\ UNCHANGED <<y, seen, pc>>
       \/ ~Deferring /\ Fails("order") /\ Goto("rows") /\ UNCHANGED <<y, seen>>
    /\ UNCHANGED <<caller, dead, sizes, key, ob, bd1, pend, devices>>

FinishNow ==
    /\ pc = "fence" /\ left = {} /\ ~Deferring
    /\ y' = [y EXCEPT ![nth] = TailScale(@, call.t)]
    /\ Goto("return")
    /\ UNCHANGED <<failures, caller, pool, key, ob, seen, bd1, pend, left, devices>>

\* The gather is left owing, with the flags and the scales it will need; data
\* is a history of the answer it is owed, which the code does not copy.
Snapshot == [live |-> TRUE, nth |-> nth, t |-> call.t, ob |-> ob, seen |-> seen,
             bd1 |-> bd1, data |-> obuf[ob].data]
FinishDeferred ==
    /\ pc = "fence" /\ left = {} /\ Deferring
    /\ pend' = Snapshot
    /\ \/ savedn' = Larger(savedn, bd1n) /\ Works
       \/ savedn < bd1n /\ FailsIf("scales", Int8) /\ savedn' = 0
    /\ obuf' = [obuf EXCEPT ![ob].pending = TRUE]
    /\ Goto("flush2")
    /\ UNCHANGED <<caller, y, dead, bm, bnks, bnslots, bd1n, key, ob, seen, bd1, left,
                   devices>>

\* the flags could not be saved: read every device now
FinishUnsaved ==
    /\ pc = "fence" /\ left = {} /\ Deferring
    /\ \/ /\ Fails("snapshot")
          /\ y' = [y EXCEPT ![nth] =
                      TailScale(ReadAll(@, seen, call.t, obuf[ob], bd1), call.t)]
          /\ seen' = seen \cup Ranges(call.t)
          /\ Goto("return")
       \/ FailBoth("snapshot", "order") /\ Goto("rows") /\ UNCHANGED <<y, seen>>
    /\ UNCHANGED <<caller, pool, key, ob, bd1, pend, left, devices>>

\* A device finishes its oldest job.  The stream it runs is read as it runs,
\* so if a later call has overwritten it either one may be what runs.
Complete(d) ==
    /\ queue[d] # <<>>
    /\ \E r \in {Head(queue[d]), regs[d]} :
          obuf' = [obuf EXCEPT ![r.ob].data[d] =
                      [t |-> r.t, in |-> [k \in K |-> IF k \in Need(r.t, d)
                                                      THEN bin[d][k] ELSE NoData]]]
    /\ queue' = [queue EXCEPT ![d] = Tail(@)]
    /\ UNCHANGED <<failures, caller, pc, y, dead, sizes, key, ob, seen, bd1, pend, left, bin,
                   regs>>
------------------------------------------------------------------------------
Matmul ==
    \/ Enter \/ FlushOnEntry \/ BatchBufs \/ BatchOutbuf \/ FlushAfterOutbuf
    \/ StartCall \/ FlushBeforePack \/ AllSubmitted \/ FlushAfterSubmit
    \/ FinishNow \/ FinishDeferred \/ FinishUnsaved \/ FlushAtOnce
    \/ \E d \in Devs : \/ SkipDevice(d) \/ PackAndSubmit(d) \/ EmitFails(d)
                       \/ SerialFence(d) \/ FenceAndRead(d)
BatchLayers == BeginGroup \/ MatvecRows \/ Return \/ Flush \/ Use

Next == Matmul \/ BatchLayers \/ \E d \in Devs : Complete(d)

Spec == Init /\ [][Next]_vars
FairSpec ==
    /\ Spec
    /\ WF_vars(Matmul \/ BatchLayers)
    /\ \A d \in Devs : WF_vars(Complete(d))
------------------------------------------------------------------------------
(* Properties. *)

\* When batch_layers reads a group's Y, each is the whole product of its tensor
\* with what the input buffer holds: every K slice once, multiplied by this
\* call's input and scaled by this call's scales, and the tail scaled once --
\* whichever device computed it, whether the pack was skipped, the gather
\* deferred or the call redone by the CPU, and whatever has failed, up to the
\* first failure the code gets wrong.
AnswersRight ==
    pc = "use" /\ ~unhandled =>
        \A j \in DOMAIN group.calls : IsProduct(y[j], group.calls[j].t, group.calls[j].x)

\* While a call that declares its input unchanged is in npu_matmul_inner, every
\* valid reuse key says what its device's input object holds: those K slices
\* of what the buffer contains now.
KeyTruthful ==
    /\ pc \in {"flush3", "bufs", "outbuf", "flush4", "reset", "flush5", "pack"}
    /\ call.same /\ ~unhandled
    => \A d \in Devs : key[d].valid =>
            \A k \in key[d].ks :
                bin[d][k] = [x |-> key[d].x, v |-> wrote[key[d].x], f |-> key[d].f]

\* A device never has two jobs that write the same output buffer, however the
\* call that submitted the first one ended.
OneJobPerBuffer ==
    \A d \in Devs : \A i, j \in DOMAIN queue[d] :
        queue[d][i].ob = queue[d][j].ob => i = j

\* A gather that is owed is never forgotten for another: a call that defers
\* one finds the last one done, but where a call flushes its own gather and
\* could not save the flags for it.
NoGatherReplaced ==
    [][pend.live /\ pend'.live => pend' = pend \/ (deferRead = 2 /\ unhandled')]_vars

\* batch_layers gets through every group, whichever allocation, stream or
\* submit fails under it, as long as the devices finish their jobs.
EveryGroupAnswered == (pc # "idle") ~> (pc = "idle")
==============================================================================
