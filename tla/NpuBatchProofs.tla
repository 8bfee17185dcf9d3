---------------------------- MODULE NpuBatchProofs ----------------------------
(***************************************************************************)
(* Proofs about NpuBatch, for any devices, deal, layer, fault and number   *)
(* of writes: what its variables hold, who writes an output buffer, that   *)
(* an owed gather is never replaced, and, for a layer whose leaders are    *)
(* taken, that keys are truthful and answers whole up to the first failure *)
(* the code gets wrong.                                                    *)
(***************************************************************************)
EXTENDS NpuBatch, FiniteSetTheorems, SequenceTheorems, WellFoundedInduction, TLAPS

(***************************************************************************)
(* What the variables hold.                                                *)
(***************************************************************************)

Names == Buffers \cup {"none"}
Factors == {Factor[t] : t \in Tensors} \cup {"none"}
Bytes == [x : Names, v : Nat, f : Factors]
Results == [t : Tensors \cup {"none"}, in : [K -> Bytes]]
Answers == [N -> [sum : [K -> [w : Tensors \cup {"none", "junk"}, in : Bytes, d1 : Bytes]],
                  tail : Nat]]
Keys == [valid : BOOLEAN, x : Names, m : Nat, f : Factors, ks : SUBSET K]
Job == [t : Tensors, ob : Nat]
Stream == [t : Tensors \cup {"none"}, ob : Nat]
Entry == [wide : Nat, slots : {Most(t) : t \in Tensors}, m : Nat,
          busy : SUBSET Devs, pending : BOOLEAN, data : [Devs -> Results]]
Pend == [live : {TRUE}, nth : Places, t : Tensors, ob : Nat, seen : SUBSET N,
         bd1 : [K -> Bytes], data : [Devs -> Results]]
Inside == {"enter", "rows", "return", "use", "flush", "flush3", "bufs", "outbuf",
           "flush4", "reset", "flush5", "pack", "flush1", "fence", "flush2"}

\* Where npu_matmul_inner has an entry of the output pool in hand.
InHand == {"flush4", "reset", "flush5", "pack", "flush1", "fence"}

\* Where the caller is: between groups, or at a call of one.
CallerKinds ==
    /\ at \in 0..Len(Layer) /\ nth \in Nat /\ m \in Nat /\ (at # 0 => m \in Rows)
    /\ pc \in {"idle"} \cup Inside
    /\ pc \in Inside => at \in DOMAIN Layer /\ nth \in DOMAIN group.calls
    /\ wrote \in [Buffers -> Nat]
    /\ deferRead \in DeferReads
    /\ dead \in BOOLEAN
\* What the structure of the pool holds.
PoolKinds ==
    /\ y \in [Places -> Answers]
    /\ key \in [Devs -> Keys]
    /\ ob \in Nat /\ seen \subseteq N /\ bd1 \in [K -> Bytes]
    /\ obuf \in Seq(Entry)
    /\ pend \in {NoPend} \cup Pend
    /\ pc \in InHand => ob \in DOMAIN obuf
    /\ pend.live => pend.ob \in DOMAIN obuf
    /\ left \subseteq Devs
\* What the devices hold.
DeviceKinds ==
    /\ bin \in [Devs -> [K -> Bytes]]
    /\ regs \in [Devs -> Stream]
    /\ queue \in [Devs -> Seq(Job)]
\* How much has failed, and whether the code got one of those wrong.
FailureKinds == failed \in Nat /\ unhandled \in BOOLEAN
\* The sizes are those of the buffers there are, which have room for the call
\* in progress once batch_bufs has seen to it.
SizeKinds ==
    /\ bm \in Nat /\ bnks \in Nat /\ bd1n \in Nat /\ savedn \in Nat
    /\ bm # 0 => bd1n = bnks * bm
    /\ pc \in {"outbuf"} \cup InHand => bm >= m /\ bnks >= NKs(call.t)
Kinds == CallerKinds /\ PoolKinds /\ DeviceKinds
TypeOK == CallerKinds /\ PoolKinds /\ DeviceKinds /\ FailureKinds /\ SizeKinds
(***************************************************************************)
(* The invariants.                                                         *)
(***************************************************************************)

\* Every job on a device's queue writes an entry that is marked busy with it.
JobsMarked ==
    \A d \in Devs : \A j \in DOMAIN queue[d] :
        /\ queue[d][j].ob \in DOMAIN obuf
        /\ d \in obuf[queue[d][j].ob].busy
\* The entry in hand is idle when it is handed out, and a device that has not
\* been reached owes it nothing.
EntryInHand ==
    /\ pc \in {"flush4", "reset", "flush5"} => obuf[ob].busy = {}
    /\ pc = "pack" => obuf[ob].busy \cap left = {}
    /\ pc = "fence" => obuf[ob].busy \subseteq left
BufferInv == JobsMarked /\ OneJobPerBuffer /\ EntryInHand

\* Where a gather may still be owed, by the place at which it is flushed: never
\* while a call fences, whatever the place is.
OwedAt(pos) ==
    CASE pos = 1 -> {"idle"} \cup (Inside \ {"fence"})
      [] pos = 2 -> {"flush2"}
      [] pos = 3 -> {"idle", "enter", "rows", "return", "flush", "use", "flush3", "flush2"}
      [] pos = 4 -> {"idle", "enter", "rows", "return", "flush", "use", "flush3", "bufs",
                     "outbuf", "flush4", "flush2"}
      [] pos = 5 -> {"idle"} \cup (Inside \ {"pack", "flush1", "fence"})
      [] OTHER -> {}
OwedSomewhere == pend.live => pc \in OwedAt(deferRead)
\* Where each call flushes its own gather, it must be able to save the flags.
OwedInv == (deferRead = 2 /\ unhandled) \/ OwedSomewhere

\* Before the leader of a group has dropped the keys of the group before it.
BeforeDrop ==
    \/ pc = "idle"
    \/ nth = 1 /\ pc \in {"enter", "flush3", "bufs", "outbuf", "flush4", "reset"}
\* A valid key says what its device's input object holds.
Fresh ==
    \A d \in Devs : key[d].valid =>
        \A k \in key[d].ks :
            bin[d][k] = [x |-> key[d].x, v |-> wrote[key[d].x], f |-> key[d].f]
PackPlaces == {"flush3", "bufs", "outbuf", "flush4", "reset", "flush5", "pack"}
KeyInv ==
    /\ pc \in PackPlaces => ~dead
    /\ dead \/ BeforeDrop \/ Fresh

\* A gather is owed within its group, by a call the caller has gone past.
OwedInGroup ==
    pend.live =>
        /\ pc # "idle" /\ pc # "use" /\ group.flush
        /\ pend.nth \in 1..nth
        /\ pend.nth = nth => pc \in {"flush2", "return", "flush"}
        /\ pc = "flush2" => pend.nth = nth
\* The answer device d owes for t times x.
Result(t, x, d) ==
    [t |-> t, in |-> [k \in K |-> IF k \in Need(t, d) THEN Input(t, x) ELSE NoData]]
\* With int8 the rows of the slices ks have the scales of t times x.
Scaled(scales, ks, t, x) == Int8 => \A k \in ks : scales[k] = Input(t, x)

\* A dead pool is given no more work.
Alive == pc \in PackPlaces \cup {"flush1", "fence"} => ~dead

\* A gather that is owed: its call, and that nothing still to run writes its
\* entry, so what is there stays what it is owed.
Owed ==
    pend.live =>
        /\ pend.t = group.calls[pend.nth].t
        /\ pend.seen = {}
        /\ obuf[pend.ob].pending /\ obuf[pend.ob].busy = {}
        /\ pc \in InHand => ob # pend.ob
        /\ \A d \in Devs : Need(pend.t, d) # {} /\ queue[d] # <<>> => regs[d].ob # pend.ob
OwedRight ==
    pend.live =>
        LET x == group.calls[pend.nth].x
        IN /\ \A d \in Devs : Need(pend.t, d) # {} =>
                 obuf[pend.ob].data[d] = Result(pend.t, x, d)
           /\ Scaled(pend.bd1, KSlices(pend.t), pend.t, x)
\* With int8 the scales of an owed gather are saved, as many as bd1 has room
\* for now or will have later in the group.
SavedRoom ==
    pend.live /\ Int8 =>
        /\ savedn # 0 /\ bd1n # 0 /\ bd1n <= savedn
        /\ bnks * Larger(bm, m) <= savedn
        /\ NKs(group.calls[1].t) <= bnks

\* What a device that the call has submitted to computes, and from what.
Submitted(d) ==
    /\ pc \in {"pack", "flush1", "fence"} /\ Need(call.t, d) # {}
    /\ pc = "pack" => d \notin left
Computes(d) ==
    /\ \A k \in Need(call.t, d) : bin[d][k] = Input(call.t, call.x)
    /\ Scaled(bd1, Need(call.t, d), call.t, call.x)
    /\ regs[d] = [t |-> call.t, ob |-> ob]
    /\ \A j \in DOMAIN queue[d] : queue[d][j].ob = ob => queue[d][j].t = call.t
    /\ queue[d] # <<>> => queue[d][Len(queue[d])].ob = ob
    /\ \/ obuf[ob].data[d] = Result(call.t, call.x, d)
       \/ \E j \in DOMAIN queue[d] : queue[d][j].ob = ob
Computing == \A d \in Devs : Submitted(d) => Computes(d)

\* The row scales of an input a valid key names, for calls of that factor; a
\* key is of this group, so no call to come has the factor of an older one.
KeysOfGroup ==
    \A d \in Devs : key[d].valid =>
        /\ key[d].x = group.calls[1].x
        /\ \E j \in 1..nth : key[d].f = Factor[group.calls[j].t]
        /\ Int8 /\ key[d].f = Factor[call.t] =>
              \A k \in key[d].ks : bd1[k] = Input(call.t, call.x)
ScaleInv == dead \/ BeforeDrop \/ KeysOfGroup

\* What of a range has been read out of the devices not left.
ReadOf(t, x, ni) ==
    [sum |-> [k \in K |-> IF k \in KSlices(t) /\ Deal[t][<<k, ni>>] \notin left
                          THEN Term(t, Input(t, x), Input(t, x)) ELSE NoTerm],
     tail |-> 0]
Reading ==
    /\ pc \in {"flush5", "pack", "flush1"} => seen = {}
    /\ pc = "fence" /\ Deferring => seen = {}
    /\ pc = "fence" /\ ~Deferring =>
          /\ seen = {ni \in Ranges(call.t) :
                        \E k \in KSlices(call.t) : Deal[call.t][<<k, ni>>] \notin left}
          /\ \A ni \in seen : y[nth][ni] = ReadOf(call.t, call.x, ni)

\* Call j of the group has its answer, or is owed it; and every call that has
\* returned is one of those.
Has(j) == \/ IsProduct(y[j], group.calls[j].t, group.calls[j].x)
          \/ pend.live /\ pend.nth = j
After == {"return", "flush2", "flush", "use"}
Answered ==
    pc \in Inside =>
        \A j \in DOMAIN group.calls : j < nth \/ (j = nth /\ pc \in After) => Has(j)
AllReturned == pc \in {"flush", "use"} => nth = Len(group.calls)
AnswerInv ==
    /\ Alive /\ Owed /\ OwedRight /\ SavedRoom /\ Computing /\ ScaleInv /\ Reading
    /\ Answered /\ AllReturned
-----------------------------------------------------------------------------
(* The layer and the deal.                                                 *)

\* A group is a sequence of calls.
LEMMA GroupSeq ==
  ASSUME NEW i \in DOMAIN Layer
  PROVE  /\ Layer[i].calls \in Seq([t : Tensors, x : Buffers, same : BOOLEAN, defer : BOOLEAN])
         /\ Layer[i].flush \in BOOLEAN
<1> DEFINE C == [t : Tensors, x : Buffers, same : BOOLEAN, defer : BOOLEAN]
           G == [calls : Seq(C), flush : BOOLEAN]
<1>1. Layer \in Seq(G)
  BY LayerAssumption
<1>2. Layer[i] \in G
  <2> HIDE DEF G
  <2>1. i \in 1..Len(Layer)
    BY <1>1
  <2> QED
    BY <1>1, <2>1, ElementOfSeq
<1> HIDE DEF C
<1>3. Layer[i].calls \in Seq(C) /\ Layer[i].flush \in BOOLEAN
  BY <1>2
<1> QED
  BY <1>3 DEF C

\* A group and a call of it, from the assumption about the layer.
LEMMA GroupKinds ==
  ASSUME NEW i \in DOMAIN Layer, NEW j \in DOMAIN Layer[i].calls
  PROVE  /\ Layer[i].calls[j] \in [t : Tensors, x : Buffers, same : BOOLEAN, defer : BOOLEAN]
         /\ Layer[i].flush \in BOOLEAN
         /\ Layer[i].calls[j].x = Layer[i].calls[1].x
         /\ Layer[i].calls[j].defer => Layer[i].flush
         /\ 1 \in DOMAIN Layer[i].calls
         /\ ~Layer[i].calls[1].same
         /\ DOMAIN Layer[i].calls = 1..Len(Layer[i].calls)
         /\ Len(Layer[i].calls) \in Nat \ {0}
         /\ j \in Places
<1> DEFINE C == [t : Tensors, x : Buffers, same : BOOLEAN, defer : BOOLEAN]
<1>2. Layer[i].calls \in Seq(C) /\ Layer[i].flush \in BOOLEAN /\ Layer[i].calls # <<>>
  BY GroupSeq, LayerAssumption
<1>3. /\ DOMAIN Layer[i].calls = 1..Len(Layer[i].calls)
      /\ Len(Layer[i].calls) \in Nat \ {0} /\ 1 \in DOMAIN Layer[i].calls
  BY <1>2
<1>4. Layer[i].calls[j] \in C
  <2> HIDE DEF C
  <2> QED
    BY <1>2, <1>3, ElementOfSeq
<1>5. j \in Places
  BY DEF Places
<1> QED
  BY <1>2, <1>3, <1>4, <1>5, LayerAssumption

\* The call in progress, wherever there is one.
LEMMA CallKinds ==
  ASSUME CallerKinds, pc \in Inside
  PROVE  /\ call.t \in Tensors /\ call.x \in Buffers
         /\ call.same \in BOOLEAN /\ call.defer \in BOOLEAN /\ group.flush \in BOOLEAN
         /\ nth \in Places
         /\ nth \in 1..Len(group.calls) /\ Len(group.calls) \in Nat
         /\ DOMAIN group.calls = 1..Len(group.calls)
         /\ nth = 1 => ~call.same
         /\ call.x = group.calls[1].x
<1>1. at \in DOMAIN Layer /\ nth \in DOMAIN Layer[at].calls
  BY DEF CallerKinds, group
<1> QED
  BY <1>1, GroupKinds DEF group, call

\* A group can be entered by its first call.
LEMMA GroupEntry ==
  ASSUME CallerKinds, pc = "idle",
         IF at = 0 \/ at = Len(Layer) THEN at' = 1 /\ m' \in Rows ELSE at' = at + 1 /\ m' = m
  PROVE  at' \in DOMAIN Layer /\ 1 \in DOMAIN Layer[at'].calls /\ m' \in Nat
<1>1. Layer # <<>> /\ DOMAIN Layer = 1..Len(Layer) /\ Len(Layer) \in Nat \ {0}
  BY LayerAssumption
<1>2. at \in 0..Len(Layer) /\ m \in Nat
  BY DEF CallerKinds
<1>3. at' \in DOMAIN Layer
  <2>1. CASE at = 0 \/ at = Len(Layer)
    BY <1>1, <2>1
  <2>2. CASE ~(at = 0 \/ at = Len(Layer))
    <3>1. at' = at + 1
      BY <2>2
    <3>2. at + 1 \in 1..Len(Layer)
      <4>1. at # Len(Layer)
        BY <2>2
      <4>2. PICK l \in Nat : l = Len(Layer)
        BY <1>1
      <4>3. at \in 0..l /\ at # l
        BY <4>1, <4>2, <1>2
      <4>4. at + 1 \in 1..l
        BY <4>3
      <4> QED
        BY <4>2, <4>4
    <3> QED
      BY <3>1, <3>2, <1>1
  <2> QED
    BY <2>1, <2>2
<1>4. m' \in Nat
  BY <1>2, BatchAssumption
<1>5. Layer[at'].calls # <<>>
  BY <1>3, LayerAssumption
<1>6. PICK i \in DOMAIN Layer : i = at'
  BY <1>3
<1>7. Layer[i].calls \in Seq([t : Tensors, x : Buffers, same : BOOLEAN, defer : BOOLEAN])
  BY GroupSeq
<1>8. 1 \in DOMAIN Layer[i].calls
  BY <1>5, <1>6, <1>7
<1> QED
  BY <1>3, <1>4, <1>6, <1>8

\* The slots of a tensor are the K slices of each of its ranges.
LEMMA DealKinds ==
  ASSUME NEW t \in Tensors
  PROVE  /\ DOMAIN Deal[t] = KSlices(t) \X Ranges(t)
         /\ \A s \in DOMAIN Deal[t] : Deal[t][s] \in Devs
         /\ KSlices(t) \subseteq K /\ Ranges(t) \subseteq N
         /\ Wide[t] \in Nat
         /\ \A d : Need(t, d) \subseteq KSlices(t)
<1>1. Deal[t] \in [KSlices(t) \X Ranges(t) -> Devs] /\ Wide[t] \in Nat
  BY DealAssumption
<1>2. KSlices(t) \subseteq K /\ Ranges(t) \subseteq N
  BY DEF K, N
<1>3. \A d : Need(t, d) \subseteq KSlices(t)
  BY DEF Need, KSlices
<1> QED
  BY <1>1, <1>2, <1>3

-----------------------------------------------------------------------------
(* The kinds of what the operators of the model make.                      *)

\* The values things start from.
LEMMA ConstantKinds ==
  /\ NoData \in Bytes /\ ClearScales \in [K -> Bytes]
  /\ NoTerm \in [w : Tensors \cup {"none", "junk"}, in : Bytes, d1 : Bytes]
  /\ Junk \in [w : Tensors \cup {"none", "junk"}, in : Bytes, d1 : Bytes]
  /\ Unwritten \in Answers
  /\ NoResult \in Results
  /\ NoKey \in Keys
<1>1. NoData \in Bytes
  BY DEF NoData, Bytes, Names, Factors
<1>2. /\ NoTerm \in [w : Tensors \cup {"none", "junk"}, in : Bytes, d1 : Bytes]
      /\ Junk \in [w : Tensors \cup {"none", "junk"}, in : Bytes, d1 : Bytes]
  BY <1>1 DEF NoTerm, Junk, Term
<1>3. Unwritten \in Answers
  BY <1>2 DEF Unwritten, Answers
<1>4. NoResult \in Results
  BY <1>1 DEF NoResult, Results
<1>5. NoKey \in Keys
  BY DEF NoKey, Keys, Names, Factors
<1> QED
  BY <1>1, <1>2, <1>3, <1>4, <1>5 DEF ClearScales

\* An input's bytes are bytes.
LEMMA InputKind ==
  ASSUME wrote \in [Buffers -> Nat], NEW t \in Tensors, NEW x \in Buffers
  PROVE  Input(t, x) \in Bytes
BY DEF Input, Bytes, Names, Factors

\* A term is a term.
LEMMA TermKind ==
  ASSUME NEW t \in Tensors \cup {"none", "junk"}, NEW b \in Bytes, NEW c \in Bytes
  PROVE  Term(t, b, c) \in [w : Tensors \cup {"none", "junk"}, in : Bytes, d1 : Bytes]
BY DEF Term

\* The CPU's rows are an answer.
LEMMA ProductKind ==
  ASSUME wrote \in [Buffers -> Nat], NEW t \in Tensors, NEW x \in Buffers
  PROVE  Product(t, x) \in Answers
BY InputKind, TermKind, ConstantKinds DEF Product, Answers

\* Reading devices into an answer makes an answer.
LEMMA ReadKind ==
  ASSUME NEW ds, NEW out \in Answers, NEW first, NEW t \in Tensors,
         NEW o \in Entry, NEW scales \in [K -> Bytes]
  PROVE  ReadDevices(ds, out, first, t, o, scales) \in Answers
<1> DEFINE T == [w : Tensors \cup {"none", "junk"}, in : Bytes, d1 : Bytes]
<1>1. o.data \in [Devs -> [t : Tensors \cup {"none"}, in : [K -> Bytes]]]
  BY DEF Entry, Results
<1> SUFFICES ASSUME NEW ni \in N
             PROVE  ReadDevices(ds, out, first, t, o, scales)[ni]
                        \in [sum : [K -> T], tail : Nat]
  BY DEF ReadDevices, Answers
<1> DEFINE ks == {k \in KSlices(t) : /\ <<k, ni>> \in DOMAIN Deal[t]
                                     /\ Deal[t][<<k, ni>>] \in ds}
           old == IF ni \in first THEN out[ni].sum ELSE [k \in K |-> NoTerm]
           in(k) == o.data[Deal[t][<<k, ni>>]].in[k]
           new(k) == Term(o.data[Deal[t][<<k, ni>>]].t, in(k),
                          IF Int8 THEN scales[k] ELSE in(k))
<1>2. out[ni] \in [sum : [K -> T], tail : Nat]
  BY DEF Answers
<1>3. old \in [K -> T]
  BY <1>2, ConstantKinds
<1>4. ASSUME NEW k \in K, k \in ks
      PROVE  Plus(old[k], new(k)) \in T
  <2>1. Deal[t][<<k, ni>>] \in Devs
    BY <1>4, DealKinds
  <2>2. /\ o.data[Deal[t][<<k, ni>>]].t \in Tensors \cup {"none"}
        /\ in(k) \in Bytes
    BY <2>1, <1>1
  <2>3. (IF Int8 THEN scales[k] ELSE in(k)) \in Bytes
    BY <2>2
  <2>4. new(k) \in T
    BY <2>2, <2>3, TermKind
  <2> HIDE DEF new, old
  <2> QED
    BY <2>4, ConstantKinds DEF Plus
<1>5. ReadDevices(ds, out, first, t, o, scales)[ni]
        = IF ks = {} THEN out[ni]
          ELSE [sum |-> [k \in K |-> IF k \in ks THEN Plus(old[k], new(k)) ELSE old[k]],
                tail |-> IF ni \in first THEN out[ni].tail ELSE 0]
  BY DEF ReadDevices
<1> DEFINE total == [k \in K |-> IF k \in ks THEN Plus(old[k], new(k)) ELSE old[k]]
           times == IF ni \in first THEN out[ni].tail ELSE 0
<1> HIDE DEF ks, old, new
<1>6. [k \in K |-> IF k \in ks THEN Plus(old[k], new(k)) ELSE old[k]] \in [K -> T]
  BY <1>3, <1>4
<1>7. (IF ni \in first THEN out[ni].tail ELSE 0) \in Nat
  BY <1>2
<1>8. total \in [K -> T] /\ times \in Nat
  BY <1>6, <1>7
<1>9. ReadDevices(ds, out, first, t, o, scales)[ni]
        = IF ks = {} THEN out[ni] ELSE [sum |-> total, tail |-> times]
  BY <1>5
<1> HIDE DEF total, times, T, ks
<1>10. CASE ks = {}
  BY <1>2, <1>9, <1>10
<1>11. CASE ks # {}
  BY <1>8, <1>9, <1>11
<1> QED
  BY <1>10, <1>11

\* So does scaling its tail.
LEMMA TailScaleKind ==
  ASSUME NEW out \in Answers, NEW t
  PROVE  TailScale(out, t) \in Answers
<1> DEFINE T == [w : Tensors \cup {"none", "junk"}, in : Bytes, d1 : Bytes]
           A == [sum : [K -> T], tail : Nat]
<1>1. ASSUME NEW a \in A
      PROVE  [a EXCEPT !.tail = @ + 1] \in A
  <2> HIDE DEF T
  <2> QED
    OBVIOUS
<1>2. \A ni \in N : out[ni] \in A
  BY DEF Answers
<1> HIDE DEF A
<1>3. TailScale(out, t) \in [N -> A]
  BY <1>1, <1>2 DEF TailScale
<1> QED
  BY <1>3 DEF A, Answers

\* What a device's turn writes: its input object, the row scales, its key.
LEMMA PackKinds ==
  ASSUME TypeOK, pc \in Inside, NEW d \in Devs
  PROVE  /\ Packed(d) \in [K -> Bytes] /\ PackedScales(d) \in [K -> Bytes]
         /\ KeyAfter(d) \in Keys
<1>1. Input(call.t, call.x) \in Bytes
  BY CallKinds, InputKind DEF TypeOK, CallerKinds
<1>2. bin[d] \in [K -> Bytes] /\ bd1 \in [K -> Bytes] /\ key[d] \in Keys
  BY DEF TypeOK, DeviceKinds, PoolKinds
<1>3. KeyAfter(d) \in Keys
  <2>1. Need(call.t, d) \subseteq K /\ call.t \in Tensors /\ call.x \in Names
    BY CallKinds, DealKinds DEF TypeOK, Names
  <2>2. Factor[call.t] \in Factors
    BY <2>1 DEF Factors
  <2>3. m \in Nat
    BY DEF TypeOK, CallerKinds
  <2>4. [key[d] EXCEPT !.valid = FALSE] \in Keys
    BY <1>2 DEF Keys
  <2>5. [valid |-> TRUE, x |-> call.x, m |-> m, f |-> Factor[call.t],
         ks |-> Need(call.t, d)] \in Keys
    BY <2>1, <2>2, <2>3 DEF Keys
  <2> QED
    BY <1>2, <2>4, <2>5 DEF KeyAfter
<1> QED
  BY <1>1, <1>2, <1>3 DEF Packed, PackedScales

\* Dropped keys are keys.
LEMMA DroppedKind ==
  ASSUME NEW ks \in [Devs -> Keys]
  PROVE  Dropped(ks) \in [Devs -> Keys]
<1>1. ASSUME NEW d \in Devs
      PROVE  [ks[d] EXCEPT !.valid = FALSE] \in Keys
  BY DEF Keys
<1> QED
  BY <1>1 DEF Dropped

\* The output pool with the entry batch_outbuf looks for.
LEMMA EntryKinds ==
  ASSUME obuf \in Seq(Entry), NEW t \in Tensors
  PROVE  /\ FreshEntry(t) \in Entry
         /\ Entries(t) \in Seq(Entry)
         /\ DOMAIN obuf \subseteq DOMAIN Entries(t)
         /\ \A i \in DOMAIN obuf : Entries(t)[i] = obuf[i]
         /\ FoundEntry(t) \in DOMAIN Entries(t)
         /\ FoundEntry(t) \in DOMAIN obuf => FoundEntry(t) \in Free(t)
         /\ FoundEntry(t) \notin DOMAIN obuf => Entries(t)[FoundEntry(t)] = FreshEntry(t)
         /\ DOMAIN Entries(t) \subseteq DOMAIN obuf \cup {FoundEntry(t)}
         /\ FoundEntry(t) \in Nat
<1>1. FreshEntry(t) \in Entry
  BY DealKinds, ConstantKinds DEF FreshEntry, Entry
<1>2. PICK l \in Nat : l = Len(obuf) /\ DOMAIN obuf = 1..l
  OBVIOUS
<1>3. CASE Free(t) = {}
  <2>1. Entries(t) = Append(obuf, FreshEntry(t)) /\ FoundEntry(t) = l + 1
    BY <1>2, <1>3 DEF Entries, FoundEntry
  <2> DEFINE e == FreshEntry(t)
  <2>2. Append(obuf, e) \in Seq(Entry) /\ Len(Append(obuf, e)) = l + 1
        /\ Append(obuf, e)[l + 1] = e
        /\ \A i \in 1..l : Append(obuf, e)[i] = obuf[i]
    <3> HIDE DEF e
    <3>1. e \in Entry
      BY <1>1 DEF e
    <3> QED
      BY <1>2, <3>1, AppendProperties
  <2>3. DOMAIN Append(obuf, e) = 1..(l + 1)
    BY <2>2
  <2>4. 1..l \subseteq 1..(l+1) /\ l + 1 \in 1..(l + 1) /\ l + 1 \notin 1..l /\ l + 1 \in Nat
        /\ 1..(l + 1) \subseteq (1..l) \cup {l + 1}
    OBVIOUS
  <2> HIDE DEF e
  <2> QED
    BY <1>1, <1>2, <2>1, <2>2, <2>3, <2>4 DEF e
<1>4. CASE Free(t) # {}
  <2>1. Free(t) \subseteq Nat /\ Free(t) \subseteq DOMAIN obuf
    BY <1>2 DEF Free
  <2>2. PICK i \in Free(t) : \A j \in Free(t) : ~(<<j, i>> \in OpToRel(<, Nat))
    BY <1>4, <2>1, NatLessThanWellFounded, WFMin
  <2>3. \A j \in Free(t) : i <= j
    <3>1. TAKE j \in Free(t)
    <3>2. ~(<<j, i>> \in OpToRel(<, Nat)) /\ i \in Nat /\ j \in Nat
      BY <2>1, <2>2
    <3> QED
      BY <3>2 DEF OpToRel
  <2>4. FoundEntry(t) \in Free(t)
    BY <1>4, <2>3 DEF FoundEntry
  <2>5. Entries(t) = obuf
    BY <1>4 DEF Entries
  <2> QED
    BY <1>1, <2>1, <2>4, <2>5
<1> QED
  BY <1>3, <1>4

\* An entry of the output pool replaced by another.
LEMMA EntrySet ==
  ASSUME obuf \in Seq(Entry), NEW i, NEW e, i \in DOMAIN obuf => e \in Entry
  PROVE  /\ [obuf EXCEPT ![i] = e] \in Seq(Entry)
         /\ DOMAIN [obuf EXCEPT ![i] = e] = DOMAIN obuf
         /\ \A j \in DOMAIN obuf : [obuf EXCEPT ![i] = e][j] = IF j = i THEN e ELSE obuf[j]
<1>1. DOMAIN obuf = 1..Len(obuf) /\ Len(obuf) \in Nat
  OBVIOUS
<1>2. CASE i \in DOMAIN obuf
  BY <1>1, <1>2, ExceptSeq
<1>3. CASE i \notin DOMAIN obuf
  <2>1. [obuf EXCEPT ![i] = e] = obuf
    BY <1>1, <1>3
  <2> QED
    BY <2>1, <1>3
<1> QED
  BY <1>2, <1>3

\* An owed gather has all its fields, and its entry is in the pool.
LEMMA PendKinds ==
  ASSUME TypeOK, pend.live
  PROVE  /\ pend \in Pend
         /\ pend.nth \in Places /\ pend.t \in Tensors
         /\ pend.ob \in DOMAIN obuf /\ obuf[pend.ob] \in Entry
         /\ PendScales \in [K -> Bytes]
<1>1. pend \in Pend
  BY DEF TypeOK, PoolKinds, NoPend
<1>2. pend.ob \in DOMAIN obuf /\ obuf \in Seq(Entry) /\ bd1 \in [K -> Bytes]
  BY DEF TypeOK, PoolKinds
<1>3. obuf[pend.ob] \in Entry
  BY <1>2, ElementOfSeq
<1>4. pend.bd1 \in [K -> Bytes] /\ pend.nth \in Places /\ pend.t \in Tensors
  BY <1>1 DEF Pend
<1> QED
  BY <1>1, <1>2, <1>3, <1>4 DEF PendScales

\* The entry in hand.
LEMMA EntryKind ==
  ASSUME TypeOK, pc \in InHand
  PROVE  ob \in DOMAIN obuf /\ obuf[ob] \in Entry
<1>1. ob \in DOMAIN obuf /\ obuf \in Seq(Entry)
  BY DEF TypeOK, PoolKinds
<1> QED
  BY <1>1, ElementOfSeq

\* The ways npu_flush_pending ends keep the kinds of what it changes.
LEMMA FlushKinds ==
  ASSUME TypeOK, pend.live, NEW done, NEW otherwise, FlushPending(done, otherwise)
  PROVE  /\ y' \in [Places -> Answers] /\ seen' = seen
         /\ obuf' \in Seq(Entry) /\ DOMAIN obuf' = DOMAIN obuf
         /\ pend' \in {pend, NoPend}
         /\ pc' \in {done, otherwise}
<1>1. y \in [Places -> Answers] /\ obuf \in Seq(Entry)
  BY DEF TypeOK, CallerKinds, PoolKinds
<1>2. Gathered \in Answers
  <2>1. ReadAll(y[pend.nth], pend.seen, pend.t, obuf[pend.ob], PendScales) \in Answers
    BY <1>1, PendKinds, ReadKind DEF ReadAll
  <2> QED
    BY <2>1, TailScaleKind DEF Gathered
<1>3. TailScale(y[pend.nth], pend.t) \in Answers
  BY <1>1, PendKinds, TailScaleKind
<1>4. Settled \in Seq(Entry) /\ DOMAIN Settled = DOMAIN obuf
  <2>1. [obuf[pend.ob] EXCEPT !.pending = FALSE] \in Entry
    BY PendKinds DEF Entry
  <2>2. Settled = [obuf EXCEPT ![pend.ob] = [obuf[pend.ob] EXCEPT !.pending = FALSE]]
    BY DEF Settled
  <2> QED
    BY <1>1, <2>1, <2>2, EntrySet
<1>5. CASE /\ y' = [y EXCEPT ![pend.nth] = Gathered]
           /\ seen' = SeenRestored /\ obuf' = Settled /\ pend' = NoPend
           /\ Goto(done) /\ Works
  BY <1>1, <1>2, <1>4, <1>5, PendKinds DEF Goto, SeenRestored
<1>6. CASE /\ FailsIf("save", pc \in {"flush", "flush2"}) /\ Goto(otherwise)
           /\ UNCHANGED <<y, seen, obuf, pend>>
  BY <1>1, <1>6 DEF Goto
<1>7. CASE /\ FailsIf("order", pc # "flush2")
           /\ y' = [y EXCEPT ![pend.nth] = TailScale(@, pend.t)]
           /\ obuf' = Settled /\ pend' = NoPend
           /\ Goto(otherwise) /\ UNCHANGED seen
  BY <1>1, <1>3, <1>4, <1>7, PendKinds DEF Goto
<1> QED
  BY <1>5, <1>6, <1>7 DEF FlushPending

-----------------------------------------------------------------------------
(* The kinds of the variables.                                             *)

\* The initial states are of these kinds.
LEMMA TypeInit == Init => TypeOK
<1> SUFFICES ASSUME Init PROVE TypeOK
  OBVIOUS
<1>1. CallerKinds
  <2>1. Len(Layer) \in Nat
    BY LayerAssumption
  <2>2. 0 \in 0..Len(Layer)
    BY <2>1
  <2>3. wrote \in [Buffers -> Nat]
    BY DEF Init
  <2> QED
    BY <2>2, <2>3 DEF Init, CallerKinds, Inside
<1>2. PoolKinds
  BY ConstantKinds DEF Init, PoolKinds, NoPend, InHand
<1>3. DeviceKinds
  BY ConstantKinds DEF Init, DeviceKinds, Stream
<1>4. FailureKinds /\ SizeKinds
  BY DEF Init, FailureKinds, SizeKinds, InHand
<1> QED
  BY <1>1, <1>2, <1>3, <1>4 DEF TypeOK

\* A flush on the way through npu_matmul_inner, or at the end of a group.
LEMMA TypeFlushAt ==
  ASSUME TypeOK, NEW here \in Inside, NEW pos, NEW done \in Inside,
         FlushAt(here, pos, done), here = "flush3" \/ here = "flush2" \/ here \in InHand,
         done \in InHand => here \in InHand
  PROVE  CallerKinds' /\ DeviceKinds' /\ (left' \subseteq Devs => PoolKinds')
<1>1. CASE pend.live /\ deferRead = pos
  <2>1. FlushPending(done, "rows") /\ pc = here
    BY <1>1 DEF FlushAt
  <2>2. /\ y' \in [Places -> Answers] /\ seen' = seen
        /\ obuf' \in Seq(Entry) /\ DOMAIN obuf' = DOMAIN obuf
        /\ pend' \in {pend, NoPend} /\ pc' \in {done, "rows"}
    BY <1>1, <2>1, FlushKinds
  <2>3. CallerKinds'
    BY <2>1, <2>2 DEF FlushAt, TypeOK, CallerKinds, caller, group, Inside
  <2>4. left' \subseteq Devs => PoolKinds'
    BY <2>1, <2>2 DEF FlushAt, TypeOK, PoolKinds, InHand, NoPend
  <2> QED
    BY <2>3, <2>4 DEF FlushAt, TypeOK, DeviceKinds, devices
<1>2. CASE ~(pend.live /\ deferRead = pos)
  <2>1. /\ pc = here /\ pc' = done /\ UNCHANGED <<y, seen, obuf, pend>>
    BY <1>2 DEF FlushAt, Goto
  <2>2. CallerKinds'
    BY <2>1 DEF FlushAt, TypeOK, CallerKinds, caller, group
  <2>3. left' \subseteq Devs => PoolKinds'
    BY <2>1 DEF FlushAt, TypeOK, PoolKinds
  <2> QED
    BY <2>2, <2>3 DEF FlushAt, TypeOK, DeviceKinds, devices
<1> QED
  BY <1>1, <1>2

\* The steps of batch_layers keep them.
LEMMA TypeCaller ==
  ASSUME TypeOK, BatchLayers
  PROVE  Kinds'
<1> USE DEF TypeOK, Kinds
<1>1. CASE BeginGroup
  <2>1. at' \in DOMAIN Layer /\ 1 \in DOMAIN Layer[at'].calls /\ m' \in Nat
    BY <1>1, GroupEntry DEF BeginGroup
  <2>2. wrote' \in [Buffers -> Nat]
    BY <1>1 DEF BeginGroup, CallerKinds
  <2>3. CallerKinds'
    <3>1. at' \in 0..Len(Layer)
      BY <2>1, LayerAssumption
    <3> QED
      BY <1>1, <2>1, <2>2, <3>1 DEF BeginGroup, CallerKinds, group, Goto, Inside, pool
  <2>4. PoolKinds'
    BY <1>1, ConstantKinds DEF BeginGroup, PoolKinds, pool, Goto, InHand
  <2> QED
    BY <1>1, <2>3, <2>4 DEF BeginGroup, DeviceKinds, devices
<1>2. CASE MatvecRows
  <2>1. Product(call.t, call.x) \in Answers
    BY <1>2, CallKinds, ProductKind DEF MatvecRows, CallerKinds, Inside
  <2>2. PoolKinds'
    BY <1>2, <2>1 DEF MatvecRows, PoolKinds, pool, Goto, InHand
  <2>3. CallerKinds'
    BY <1>2 DEF MatvecRows, CallerKinds, caller, pool, Goto, Inside, group
  <2> QED
    BY <1>2, <2>2, <2>3 DEF MatvecRows, DeviceKinds, devices
<1>3. CASE Return
  <2>0. pc = "return" /\ pc \in Inside
    BY <1>3 DEF Return, Inside
  <2>1. nth \in 1..Len(group.calls) /\ DOMAIN group.calls = 1..Len(group.calls)
    BY <2>0, CallKinds
  <2>2. Len(group.calls) \in Nat
    BY <2>0, CallKinds
  <2>3. nth' \in DOMAIN group.calls /\ nth' \in Nat
    <3>1. PICK l \in Nat : l = Len(group.calls)
      BY <2>2
    <3>2. nth \in 1..l /\ (nth < l => nth' = nth + 1) /\ (~(nth < l) => nth' = nth)
      BY <1>3, <2>1, <3>1 DEF Return
    <3>3. nth' \in 1..l /\ nth' \in Nat
      BY <3>2
    <3> QED
      BY <2>1, <3>1, <3>3
  <2>4. CallerKinds'
    BY <1>3, <2>0, <2>3 DEF Return, CallerKinds, pool, Goto, Inside, group
  <2>5. PoolKinds'
    BY <1>3 DEF Return, PoolKinds, pool, Goto, InHand
  <2> QED
    BY <1>3, <2>4, <2>5 DEF Return, DeviceKinds, devices
<1>4. CASE Flush
  <2>1. CASE pend.live
    <3>1. /\ y' \in [Places -> Answers] /\ seen' = seen
          /\ obuf' \in Seq(Entry) /\ DOMAIN obuf' = DOMAIN obuf
          /\ pend' \in {pend, NoPend} /\ pc' = "use"
      BY <1>4, <2>1, FlushKinds DEF Flush
    <3>2. CallerKinds'
      BY <1>4, <3>1 DEF Flush, CallerKinds, caller, group, Inside
    <3>3. PoolKinds'
      BY <1>4, <3>1 DEF Flush, PoolKinds, InHand, NoPend
    <3> QED
      BY <1>4, <3>2, <3>3 DEF Flush, DeviceKinds, devices
  <2>2. CASE ~pend.live
    <3>1. pc = "flush" /\ pc' = "use" /\ UNCHANGED <<y, seen, obuf, pend>>
      BY <1>4, <2>2 DEF Flush, Goto
    <3>2. CallerKinds'
      BY <1>4, <3>1 DEF Flush, CallerKinds, caller, group, Inside
    <3>3. PoolKinds'
      BY <1>4, <3>1 DEF Flush, PoolKinds, InHand
    <3> QED
      BY <1>4, <3>2, <3>3 DEF Flush, DeviceKinds, devices
  <2> QED
    BY <2>1, <2>2
<1>5. CASE Use
  <2>1. CallerKinds'
    BY <1>5 DEF Use, CallerKinds, caller, pool, Goto, Inside
  <2>2. PoolKinds'
    BY <1>5 DEF Use, PoolKinds, pool, Goto, InHand
  <2> QED
    BY <1>5, <2>1, <2>2 DEF Use, DeviceKinds, devices
<1> QED
  BY <1>1, <1>2, <1>3, <1>4, <1>5 DEF BatchLayers

\* The fence of a device takes it off the entry in hand.
LEMMA FencedKind ==
  ASSUME TypeOK, pc \in InHand, NEW d \in Devs
  PROVE  /\ Fenced(d) \in Seq(Entry) /\ DOMAIN Fenced(d) = DOMAIN obuf
         /\ Fenced(d)[ob] = [obuf[ob] EXCEPT !.busy = @ \ {d}]
         /\ \A i \in DOMAIN obuf : i # ob => Fenced(d)[i] = obuf[i]
<1>1. [obuf[ob] EXCEPT !.busy = @ \ {d}] \in Entry
  BY EntryKind DEF Entry
<1>2. Fenced(d) = [obuf EXCEPT ![ob] = [obuf[ob] EXCEPT !.busy = @ \ {d}]]
  BY DEF Fenced
<1> QED
  BY <1>1, <1>2, EntrySet, EntryKind DEF TypeOK, PoolKinds

\* Input buffers and output entries.
LEMMA TypeBuffers ==
  ASSUME TypeOK, BatchBufs \/ BatchOutbuf \/ StartCall
  PROVE  Kinds'
<1> USE DEF TypeOK, Kinds
<1>1. CASE BatchBufs
  <2>1. Dropped(key) \in [Devs -> Keys]
    BY DroppedKind DEF PoolKinds
  <2>2. /\ key' \in [Devs -> Keys] /\ bin' \in [Devs -> [K -> Bytes]]
        /\ bd1' \in [K -> Bytes] /\ pc' \in {"outbuf", "rows"} /\ pc = "bufs"
    <3>1. key \in [Devs -> Keys] /\ bd1 \in [K -> Bytes]
          /\ bin \in [Devs -> [K -> Bytes]]
      BY DEF CallerKinds, PoolKinds, DeviceKinds
    <3> QED
      BY <1>1, <2>1, <3>1, ConstantKinds DEF BatchBufs, Goto
  <2>3. CallerKinds'
    BY <1>1, <2>2 DEF BatchBufs, CallerKinds, caller, Inside, group
  <2>4. PoolKinds'
    BY <1>1, <2>2 DEF BatchBufs, PoolKinds, InHand
  <2> QED
    BY <1>1, <2>2, <2>3, <2>4 DEF BatchBufs, DeviceKinds
<1>2. CASE BatchOutbuf
  <2> DEFINE t == call.t
             i == FoundEntry(t)
             o == Entries(t)[i]
             u == [o EXCEPT !.busy = {}]
             n == [FreshEntry(t) EXCEPT !.m = m]
  <2>1. t \in Tensors
    BY <1>2, CallKinds DEF BatchOutbuf, Inside
  <2>2. /\ FreshEntry(t) \in Entry /\ Entries(t) \in Seq(Entry)
        /\ i \in DOMAIN Entries(t) /\ i \in Nat /\ DOMAIN obuf \subseteq DOMAIN Entries(t)
    BY <2>1, EntryKinds DEF PoolKinds
  <2>3. o \in Entry
    <3> HIDE DEF i
    <3> QED
      BY <2>2, ElementOfSeq
  <2>4. m \in Nat
    BY DEF CallerKinds
  <2>5. u \in Entry /\ n \in Entry
    BY <2>2, <2>3, <2>4 DEF Entry
  <2>6. \/ /\ obuf' = [Entries(t) EXCEPT ![i] = u] \/ obuf' = [Entries(t) EXCEPT ![i] = n]
           /\ ob' = i /\ pc' = "flush4"
        \/ /\ obuf' = [Entries(t) EXCEPT ![i] = FreshEntry(t)]
           /\ ob' = ob /\ pc' = "rows"
    BY <1>2 DEF BatchOutbuf, Goto
  <2> HIDE DEF i, u, n, o
  <2>7. ASSUME NEW e \in Entry
        PROVE  [Entries(t) EXCEPT ![i] = e] \in Seq(Entry)
               /\ DOMAIN [Entries(t) EXCEPT ![i] = e] = DOMAIN Entries(t)
    BY <2>2, ExceptSeq
  <2>8. obuf' \in Seq(Entry) /\ DOMAIN obuf' = DOMAIN Entries(t)
    BY <2>2, <2>5, <2>6, <2>7
  <2>9. pc = "outbuf" /\ UNCHANGED <<at, nth, m, wrote, deferRead, y, dead, key, seen, bd1,
                                     pend, left, bin, regs, queue>>
    BY <1>2 DEF BatchOutbuf, caller, devices
  <2>10. CallerKinds'
    BY <2>4, <2>6, <2>9 DEF CallerKinds, Inside, group
  <2>11. PoolKinds'
    BY <2>2, <2>6, <2>8, <2>9 DEF PoolKinds, InHand
  <2> QED
    BY <2>9, <2>10, <2>11 DEF DeviceKinds
<1>3. CASE StartCall
  <2>1. key' \in [Devs -> Keys] /\ seen' \subseteq N
    BY <1>3, DroppedKind DEF StartCall, LeaderDrops, PoolKinds
  <2>2. CallerKinds'
    BY <1>3 DEF StartCall, CallerKinds, caller, pool, Goto, Inside, group
  <2>3. PoolKinds'
    BY <1>3, <2>1 DEF StartCall, PoolKinds, pool, Goto, InHand
  <2> QED
    BY <1>3, <2>2, <2>3 DEF StartCall, DeviceKinds, devices
<1> QED
  BY <1>1, <1>2, <1>3

\* The loop that packs and submits.
LEMMA TypePack ==
  ASSUME TypeOK, NEW d \in Devs,
         SkipDevice(d) \/ PackAndSubmit(d) \/ EmitFails(d) \/ SerialFence(d)
  PROVE  Kinds'
<1> USE DEF TypeOK, Kinds
<1>0. pc = "pack" /\ pc \in Inside /\ pc \in InHand
  BY DEF SkipDevice, PackAndSubmit, EmitFails, SerialFence, Inside, InHand
<1>1. Packed(d) \in [K -> Bytes] /\ PackedScales(d) \in [K -> Bytes] /\ KeyAfter(d) \in Keys
  BY <1>0, PackKinds
<1>2. CASE SkipDevice(d)
  <2>1. CallerKinds'
    BY <1>2 DEF SkipDevice, CallerKinds, caller, pool, group
  <2>2. PoolKinds'
    BY <1>1, <1>2 DEF SkipDevice, PoolKinds, pool
  <2> QED
    BY <1>2, <2>1, <2>2 DEF SkipDevice, DeviceKinds, devices
<1>3. CASE PackAndSubmit(d)
  <2> DEFINE job == [t |-> call.t, ob |-> ob]
             e == [obuf[ob] EXCEPT !.busy = @ \cup {d}]
  <2>1. job \in Job /\ job \in Stream
    BY <1>0, CallKinds DEF PoolKinds, Job, Stream
  <2>2. e \in Entry
    BY <1>0, EntryKind DEF Entry
  <2>3. [obuf EXCEPT ![ob] = e] \in Seq(Entry) /\ DOMAIN [obuf EXCEPT ![ob] = e] = DOMAIN obuf
    BY <2>2, EntrySet DEF PoolKinds
  <2>4. obuf' = [obuf EXCEPT ![ob] = e] \/ obuf' = obuf
    BY <1>3 DEF PackAndSubmit
  <2>5. obuf' \in Seq(Entry) /\ DOMAIN obuf' = DOMAIN obuf
    BY <2>3, <2>4 DEF PoolKinds
  <2>6. DeviceKinds'
    <3>1. Append(queue[d], job) \in Seq(Job)
      BY <2>1, AppendProperties DEF DeviceKinds
    <3>2. queue' = [queue EXCEPT ![d] = Append(queue[d], job)] \/ queue' = queue
      BY <1>3 DEF PackAndSubmit
    <3>3. queue' \in [Devs -> Seq(Job)]
      BY <3>1, <3>2 DEF DeviceKinds
    <3>4. bin' = [bin EXCEPT ![d] = Packed(d)] /\ regs' = [regs EXCEPT ![d] = job]
      BY <1>3 DEF PackAndSubmit
    <3> QED
      BY <1>1, <2>1, <3>3, <3>4 DEF DeviceKinds
  <2>7. CallerKinds'
    <3>1. dead \in BOOLEAN
      BY DEF CallerKinds
    <3>2. dead' \in BOOLEAN /\ pc' \in {"pack", "rows"}
      <4>1. \/ dead' = dead /\ pc' = pc
            \/ dead' = TRUE /\ pc' = "rows"
        BY <1>3 DEF PackAndSubmit, Goto
      <4> QED
        BY <1>0, <3>1, <4>1, Zenon
    <3>3. UNCHANGED <<at, nth, m, wrote, deferRead>>
      BY <1>3 DEF PackAndSubmit, caller
    <3> QED
      BY <1>0, <3>2, <3>3 DEF CallerKinds, Inside, group
  <2>8. PoolKinds'
    BY <1>1, <1>3, <2>5 DEF PackAndSubmit, PoolKinds, Goto, InHand
  <2> QED
    BY <2>6, <2>7, <2>8
<1>4. CASE EmitFails(d)
  <2>1. [key EXCEPT ![d].valid = @ /\ Hit(d)] \in [Devs -> Keys]
    <3>1. key[d] \in Keys /\ (key[d].valid /\ Hit(d)) \in BOOLEAN
      BY DEF PoolKinds, Keys
    <3>2. [key[d] EXCEPT !.valid = key[d].valid /\ Hit(d)] \in Keys
      BY <3>1 DEF Keys
    <3> QED
      BY <3>2 DEF PoolKinds
  <2>2. CallerKinds'
    BY <1>4 DEF EmitFails, CallerKinds, caller, pool, Goto, Inside, group
  <2>3. PoolKinds'
    BY <1>1, <1>4, <2>1 DEF EmitFails, PoolKinds, pool, Goto, InHand
  <2>4. regs' \in [Devs -> Stream]
    <3>1. [t |-> call.t, ob |-> ob] \in Stream /\ regs[d] \in Stream
      BY <1>0, CallKinds DEF PoolKinds, DeviceKinds, Stream
    <3>2. PICK w \in {regs[d], [t |-> call.t, ob |-> ob]} : regs' = [regs EXCEPT ![d] = w]
      BY <1>4 DEF EmitFails
    <3> QED
      BY <3>1, <3>2 DEF DeviceKinds
  <2> QED
    BY <1>1, <1>4, <2>2, <2>3, <2>4 DEF EmitFails, DeviceKinds
<1>5. CASE SerialFence(d)
  <2>1. obuf' \in Seq(Entry) /\ DOMAIN obuf' = DOMAIN obuf
    BY <1>0, <1>5, FencedKind DEF SerialFence
  <2>2. CallerKinds'
    BY <1>5 DEF SerialFence, CallerKinds, caller, group
  <2>3. PoolKinds'
    BY <1>5, <2>1 DEF SerialFence, PoolKinds
  <2> QED
    BY <1>5, <2>2, <2>3 DEF SerialFence, DeviceKinds, devices
<1> QED
  BY <1>2, <1>3, <1>4, <1>5

\* The loop that fences and reads, and the ends of a call.
LEMMA TypeFence ==
  ASSUME TypeOK, \/ AllSubmitted \/ FinishNow \/ FinishDeferred \/ FinishUnsaved
                 \/ \E d \in Devs : FenceAndRead(d)
  PROVE  Kinds'
<1> USE DEF TypeOK, Kinds
<1>0. pc \in {"pack", "fence"} /\ pc \in Inside /\ pc \in InHand
  BY DEF AllSubmitted, FinishNow, FinishDeferred, FinishUnsaved, FenceAndRead, Inside, InHand
<1>1. /\ ob \in DOMAIN obuf /\ obuf[ob] \in Entry /\ call.t \in Tensors /\ nth \in Places
      /\ obuf \in Seq(Entry) /\ bd1 \in [K -> Bytes] /\ seen \subseteq N
      /\ y \in [Places -> Answers]
  BY <1>0, EntryKind, CallKinds DEF PoolKinds, CallerKinds
<1>2. CASE AllSubmitted
  <2>1. CallerKinds'
    BY <1>2 DEF AllSubmitted, CallerKinds, caller, pool, Goto, Inside, group
  <2>2. PoolKinds'
    BY <1>0, <1>2 DEF AllSubmitted, PoolKinds, pool
  <2> QED
    BY <1>2, <2>1, <2>2 DEF AllSubmitted, DeviceKinds, devices
<1>3. ASSUME NEW d \in Devs, FenceAndRead(d)
      PROVE  Kinds'
  <2>1. ReadDevices({d}, y[nth], seen, call.t, obuf[ob], bd1) \in Answers
    BY <1>1, ReadKind
  <2>2. SeenAfter(seen, call.t, d) \subseteq N
    <3>1. {s[2] : s \in {q \in DOMAIN Deal[call.t] : Deal[call.t][q] = d}} \subseteq N
      BY <1>1 DEF N, Ranges
    <3> QED
      BY <1>1, <3>1 DEF SeenAfter
  <2>3. y' \in [Places -> Answers] /\ seen' \subseteq N
    BY <1>1, <1>3, <2>1, <2>2 DEF FenceAndRead
  <2>4. pc' \in {"fence", "rows"}
    BY <1>1, <1>3 DEF FenceAndRead, Goto
  <2>5. obuf' \in Seq(Entry) /\ DOMAIN obuf' = DOMAIN obuf
    BY <1>0, <1>3, FencedKind DEF FenceAndRead
  <2>6. left' \subseteq Devs
    BY <1>3 DEF FenceAndRead, PoolKinds
  <2>7. UNCHANGED <<caller, dead, key, ob, bd1, pend, devices>>
    BY <1>3 DEF FenceAndRead
  <2>8. CallerKinds'
    BY <1>0, <2>4, <2>7 DEF CallerKinds, caller, Inside, group
  <2>9. PoolKinds'
    BY <1>0, <2>3, <2>5, <2>6, <2>7 DEF PoolKinds, InHand
  <2> QED
    BY <2>7, <2>8, <2>9 DEF DeviceKinds, devices
<1>4. CASE FinishNow
  <2>1. TailScale(y[nth], call.t) \in Answers
    BY <1>1, TailScaleKind
  <2>2. y' \in [Places -> Answers]
    BY <1>1, <1>4, <2>1 DEF FinishNow
  <2>3. CallerKinds'
    BY <1>0, <1>4 DEF FinishNow, CallerKinds, caller, pool, Goto, Inside, group
  <2>4. PoolKinds'
    BY <1>4, <2>2 DEF FinishNow, PoolKinds, pool, Goto, InHand
  <2> QED
    BY <1>4, <2>3, <2>4 DEF FinishNow, DeviceKinds, devices
<1>5. CASE FinishDeferred
  <2>1. Snapshot \in Pend /\ Snapshot.ob = ob
    <3>1. obuf[ob].data \in [Devs -> Results] /\ ob \in Nat
      BY <1>1 DEF Entry, PoolKinds
    <3> QED
      BY <1>1, <3>1 DEF Snapshot, Pend
  <2>2. pend' \in Pend /\ pend'.ob = ob
    BY <1>5, <2>1 DEF FinishDeferred
  <2>3. obuf' \in Seq(Entry) /\ DOMAIN obuf' = DOMAIN obuf
    <3>1. [obuf[ob] EXCEPT !.pending = TRUE] \in Entry
      BY <1>1 DEF Entry
    <3>2. obuf' = [obuf EXCEPT ![ob] = [obuf[ob] EXCEPT !.pending = TRUE]]
      BY <1>5 DEF FinishDeferred
    <3> QED
      BY <1>1, <3>1, <3>2, EntrySet
  <2>4. pc' = "flush2" /\ UNCHANGED <<caller, y, dead, key, ob, seen, bd1, left, devices>>
    BY <1>5 DEF FinishDeferred, Goto
  <2>5. CallerKinds'
    BY <1>0, <2>2, <2>4 DEF CallerKinds, caller, Inside, group
  <2>6. PoolKinds'
    BY <1>1, <2>2, <2>3, <2>4 DEF PoolKinds, InHand
  <2> QED
    BY <2>4, <2>5, <2>6 DEF DeviceKinds, devices
<1>6. CASE FinishUnsaved
  <2>1. TailScale(ReadAll(y[nth], seen, call.t, obuf[ob], bd1), call.t) \in Answers
    BY <1>1, ReadKind, TailScaleKind DEF ReadAll
  <2>2. y' \in [Places -> Answers] /\ seen' \subseteq N
    BY <1>1, <1>6, <2>1, DealKinds DEF FinishUnsaved
  <2>3. CallerKinds'
    BY <1>0, <1>6, <2>2 DEF FinishUnsaved, CallerKinds, caller, pool, Goto, Inside, group
  <2>4. PoolKinds'
    BY <1>6, <2>2 DEF FinishUnsaved, PoolKinds, pool, Goto, InHand
  <2> QED
    BY <1>6, <2>3, <2>4 DEF FinishUnsaved, DeviceKinds, devices
<1> QED
  BY <1>2, <1>3, <1>4, <1>5, <1>6

\* What a job leaves in the entry it writes.
LEMMA CompleteKinds ==
  ASSUME TypeOK, NEW d \in Devs, Complete(d)
  PROVE  \E r \in {Head(queue[d]), regs[d]} :
            LET z == [t |-> r.t, in |-> [k \in K |-> IF k \in Need(r.t, d)
                                                     THEN bin[d][k] ELSE NoData]]
            IN /\ obuf' = [obuf EXCEPT ![r.ob] = [obuf[r.ob] EXCEPT !.data[d] = z]]
               /\ obuf' \in Seq(Entry) /\ DOMAIN obuf' = DOMAIN obuf
               /\ \A i \in DOMAIN obuf : i # r.ob => obuf'[i] = obuf[i]
               /\ r.ob \in DOMAIN obuf =>
                     obuf'[r.ob] = [obuf[r.ob] EXCEPT !.data[d] = z]
               /\ r \in Stream
<1>1. /\ obuf \in Seq(Entry) /\ queue[d] \in Seq(Job) /\ regs[d] \in Stream
      /\ bin[d] \in [K -> Bytes] /\ queue[d] # <<>>
  BY DEF TypeOK, PoolKinds, DeviceKinds, Complete
<1>2. Head(queue[d]) \in Stream
  <2>1. Head(queue[d]) \in Job
    BY <1>1, HeadTailProperties
  <2> QED
    BY <2>1 DEF Job, Stream
<1>3. PICK r \in {Head(queue[d]), regs[d]} :
         obuf' = [obuf EXCEPT ![r.ob].data[d] =
                      [t |-> r.t, in |-> [k \in K |-> IF k \in Need(r.t, d)
                                                      THEN bin[d][k] ELSE NoData]]]
  BY DEF Complete
<1>4. r \in Stream
  BY <1>1, <1>2
<1> DEFINE z == [t |-> r.t, in |-> [k \in K |-> IF k \in Need(r.t, d)
                                                THEN bin[d][k] ELSE NoData]]
           e == [obuf[r.ob] EXCEPT !.data[d] = z]
<1>5. obuf' = [obuf EXCEPT ![r.ob] = e]
  BY <1>3
<1>6. r.ob \in DOMAIN obuf => e \in Entry
  <2>1. z \in Results
    BY <1>1, <1>4, ConstantKinds DEF Results, Stream
  <2>2. ASSUME r.ob \in DOMAIN obuf PROVE obuf[r.ob] \in Entry
    BY <1>1, <2>2, ElementOfSeq
  <2> HIDE DEF z
  <2>3. ASSUME NEW a \in Entry PROVE [a EXCEPT !.data[d] = z] \in Entry
    BY <2>1 DEF Entry
  <2> QED
    BY <2>2, <2>3
<1> HIDE DEF e
<1>7. /\ obuf' \in Seq(Entry) /\ DOMAIN obuf' = DOMAIN obuf
      /\ \A j \in DOMAIN obuf : obuf'[j] = IF j = r.ob THEN e ELSE obuf[j]
  BY <1>1, <1>5, <1>6, EntrySet
<1> QED
  BY <1>4, <1>5, <1>7 DEF e

\* Every step keeps them.
LEMMA KindsNext ==
  ASSUME TypeOK, [Next]_vars
  PROVE  Kinds'
<1> USE DEF Kinds
<1>1. CASE BatchLayers
  BY <1>1, TypeCaller
<1>2. CASE Enter
  <2>1. CallerKinds'
    BY <1>2 DEF Enter, TypeOK, CallerKinds, caller, pool, Goto, Inside, group
  <2>2. PoolKinds'
    BY <1>2 DEF Enter, TypeOK, PoolKinds, pool, Goto, InHand
  <2> QED
    BY <1>2, <2>1, <2>2 DEF Enter, TypeOK, DeviceKinds, devices
<1>3. CASE \/ FlushOnEntry \/ FlushAfterOutbuf \/ FlushBeforePack \/ FlushAfterSubmit \/ FlushAtOnce
  <2>1. left' \subseteq Devs
    BY <1>3 DEF FlushOnEntry, FlushAfterOutbuf, FlushBeforePack, FlushAfterSubmit, FlushAtOnce,
                TypeOK, PoolKinds
  <2>2. CallerKinds' /\ DeviceKinds' /\ PoolKinds'
    <3>1. CASE FlushOnEntry
      BY <2>1, <3>1, TypeFlushAt DEF FlushOnEntry, Inside, InHand
    <3>2. CASE FlushAfterOutbuf
      BY <2>1, <3>2, TypeFlushAt DEF FlushAfterOutbuf, Inside, InHand
    <3>3. CASE FlushBeforePack
      BY <2>1, <3>3, TypeFlushAt DEF FlushBeforePack, Inside, InHand
    <3>4. CASE FlushAfterSubmit
      BY <2>1, <3>4, TypeFlushAt DEF FlushAfterSubmit, Inside, InHand
    <3>5. CASE FlushAtOnce
      BY <2>1, <3>5, TypeFlushAt DEF FlushAtOnce, Inside, InHand
    <3> QED
      BY <1>3, <3>1, <3>2, <3>3, <3>4, <3>5
  <2> QED
    BY <2>2
<1>4. CASE BatchBufs \/ BatchOutbuf \/ StartCall
  BY <1>4, TypeBuffers
<1>5. ASSUME NEW d \in Devs, SkipDevice(d) \/ PackAndSubmit(d) \/ EmitFails(d) \/ SerialFence(d)
      PROVE  Kinds'
  BY <1>5, TypePack
<1>6. CASE \/ AllSubmitted \/ FinishNow \/ FinishDeferred \/ FinishUnsaved
           \/ \E d \in Devs : FenceAndRead(d)
  BY <1>6, TypeFence
<1>7. ASSUME NEW d \in Devs, Complete(d)
      PROVE  Kinds'
  <2>1. obuf' \in Seq(Entry) /\ DOMAIN obuf' = DOMAIN obuf
    BY <1>7, CompleteKinds
  <2>2. CallerKinds'
    BY <1>7 DEF Complete, TypeOK, CallerKinds, caller, group
  <2>3. PoolKinds'
    BY <1>7, <2>1 DEF Complete, TypeOK, PoolKinds
  <2>4. DeviceKinds'
    <3>1. queue[d] \in Seq(Job) /\ queue[d] # <<>>
      BY <1>7 DEF Complete, TypeOK, DeviceKinds
    <3>2. Tail(queue[d]) \in Seq(Job)
      BY <3>1, HeadTailProperties
    <3> QED
      BY <1>7, <3>2 DEF Complete, TypeOK, DeviceKinds
  <2> QED
    BY <2>2, <2>3, <2>4
<1>8. CASE UNCHANGED vars
  BY <1>8 DEF vars, caller, pool, devices, TypeOK, CallerKinds, PoolKinds, DeviceKinds, group
<1> QED
  BY <1>1, <1>2, <1>3, <1>4, <1>5, <1>6, <1>7, <1>8 DEF Next, Matmul

\* A failure is counted, and one the code gets wrong is not forgotten.
LEMMA FailureNext ==
  ASSUME TypeOK, [Next]_vars
  PROVE  FailureKinds' /\ (~unhandled' => ~unhandled)
<1> DEFINE Counted == \/ Works
                      \/ \E what, bad : FailsIf(what, bad)
                      \/ \E one, other : FailBoth(one, other)
<1>1. Counted => FailureKinds' /\ (~unhandled' => ~unhandled)
  <2>1. failed \in Nat /\ unhandled \in BOOLEAN
    BY DEF TypeOK, FailureKinds
  <2>2. Works => FailureKinds' /\ (~unhandled' => ~unhandled)
    BY <2>1 DEF Works, failures, FailureKinds
  <2>3. ASSUME NEW what, NEW bad, FailsIf(what, bad)
        PROVE  FailureKinds' /\ (~unhandled' => ~unhandled)
    <3>1. failed' = failed + 1 /\ unhandled' = IF bad THEN TRUE ELSE unhandled
      BY <2>3 DEF FailsIf
    <3>2. unhandled' = TRUE \/ unhandled' = unhandled
      BY <3>1, Zenon
    <3>3. unhandled' \in BOOLEAN /\ (~unhandled' => ~unhandled)
      BY <2>1, <3>2, Zenon
    <3>4. failed' \in Nat
      BY <2>1, <3>1
    <3> QED
      BY <3>3, <3>4 DEF FailureKinds
  <2>4. ASSUME NEW one, NEW other, FailBoth(one, other)
        PROVE  FailureKinds' /\ (~unhandled' => ~unhandled)
    BY <2>1, <2>4 DEF FailBoth, FailureKinds
  <2> QED
    BY <2>2, <2>3, <2>4
<1>2. CASE UNCHANGED vars
  BY <1>1, <1>2 DEF vars, Works
<1>3. CASE BeginGroup \/ MatvecRows \/ Return \/ Use \/ Enter \/ AllSubmitted \/ FinishNow
  BY <1>1, <1>3 DEF BeginGroup, MatvecRows, Return, Use, Enter, AllSubmitted, FinishNow, Works
<1>4. ASSUME NEW done, NEW otherwise, FlushPending(done, otherwise)
      PROVE  Counted
  BY <1>4 DEF FlushPending
<1>5. CASE Flush
  BY <1>1, <1>4, <1>5 DEF Flush
<1>6. ASSUME NEW here, NEW pos, NEW done, FlushAt(here, pos, done)
      PROVE  Counted
  BY <1>4, <1>6 DEF FlushAt
<1>7. CASE \/ FlushOnEntry \/ FlushAfterOutbuf \/ FlushBeforePack \/ FlushAfterSubmit \/ FlushAtOnce
  BY <1>1, <1>6, <1>7 DEF FlushOnEntry, FlushAfterOutbuf, FlushBeforePack, FlushAfterSubmit,
                          FlushAtOnce
<1>8. CASE BatchBufs \/ BatchOutbuf \/ StartCall \/ FinishDeferred \/ FinishUnsaved
  BY <1>1, <1>8 DEF BatchBufs, BatchOutbuf, StartCall, FinishDeferred, FinishUnsaved, Fails
<1>9. ASSUME NEW d \in Devs, \/ SkipDevice(d) \/ PackAndSubmit(d) \/ EmitFails(d)
                             \/ SerialFence(d) \/ FenceAndRead(d) \/ Complete(d)
      PROVE  Counted
  BY <1>9 DEF SkipDevice, PackAndSubmit, EmitFails, SerialFence, FenceAndRead, Complete, Works,
              Fails
<1> HIDE DEF Counted
<1> QED
  BY <1>1, <1>2, <1>3, <1>5, <1>7, <1>8, <1>9 DEF Next, Matmul, BatchLayers

\* What the sizes of a tensor are.
LEMMA SliceCount ==
  ASSUME NEW t \in Tensors
  PROVE  NKs(t) \in Nat /\ NKs(t) # 0
<1>1. IsFiniteSet(KSlices(t)) /\ KSlices(t) # {}
  BY DealAssumption
<1> QED
  BY <1>1, FS_CardinalityType, FS_EmptySet DEF NKs

\* batch_bufs makes room, and the sizes say so.
LEMMA SizesNext ==
  ASSUME TypeOK, [Next]_vars
  PROVE  SizeKinds'
<1> DEFINE Held == UNCHANGED <<sizes, at, nth, m>>
                   /\ (pc' \in {"outbuf"} \cup InHand => pc \in {"outbuf"} \cup InHand)
<1>0. SizeKinds
  BY DEF TypeOK
<1>1. Held => SizeKinds'
  BY <1>0 DEF SizeKinds, sizes, call, group
<1>2. CASE BatchBufs
  <2>1. /\ pc = "bufs" /\ UNCHANGED <<at, nth, m, savedn>> /\ pc' \in {"outbuf", "rows"}
    BY <1>2 DEF BatchBufs, Goto, caller
  <2>2. m \in Nat /\ call.t \in Tensors
    BY <2>1, CallKinds DEF TypeOK, CallerKinds, Inside
  <2>3. PICK n \in Nat : n = NKs(call.t)
    BY <2>2, SliceCount
  <2>4. call' = call
    BY <2>1 DEF call, group
  <2>5. CASE Roomy
    <3>1. UNCHANGED <<bm, bnks, bd1n>>
      BY <1>2, <2>5 DEF BatchBufs, Roomy
    <3> QED
      BY <1>0, <2>1, <2>4, <2>5, <3>1 DEF SizeKinds, Roomy
  <2>6. CASE ~Roomy
    <3>1. /\ bnks' = Larger(bnks, n)
          /\ \/ bm' = Larger(bm, m) /\ bd1n' = bnks' * Larger(bm, m)
             \/ bm' = 0 /\ pc' = "rows" /\ bd1n' \in {bd1n, bnks' * Larger(bm, m), 0}
      BY <1>2, <2>3, <2>6 DEF BatchBufs, Goto
    <3>2. bnks' \in Nat /\ bnks' >= n /\ Larger(bm, m) \in Nat /\ Larger(bm, m) >= m
      BY <1>0, <2>2, <2>3, <3>1 DEF Larger, SizeKinds
    <3>3. bnks' * Larger(bm, m) \in Nat
      BY <3>2
    <3> QED
      BY <1>0, <2>1, <2>3, <2>4, <3>1, <3>2, <3>3 DEF SizeKinds, InHand
  <2> QED
    BY <2>5, <2>6
<1>3. CASE FinishDeferred
  <2>1. /\ pc' = "flush2" /\ UNCHANGED <<bm, bnks, bd1n>>
        /\ savedn' = Larger(savedn, bd1n) \/ savedn' = 0
    BY <1>3 DEF FinishDeferred, Goto
  <2> QED
    BY <1>0, <2>1 DEF SizeKinds, Larger, InHand
<1>4. CASE BeginGroup \/ Return
  <2>1. UNCHANGED sizes /\ pc' \notin {"outbuf"} \cup InHand
    BY <1>4 DEF BeginGroup, Return, Goto, pool, InHand
  <2> QED
    BY <1>0, <2>1 DEF SizeKinds, sizes
<1>5. CASE MatvecRows \/ Use \/ Enter \/ AllSubmitted \/ FinishNow \/ FinishUnsaved
  BY <1>1, <1>5 DEF MatvecRows, Use, Enter, AllSubmitted, FinishNow, FinishUnsaved, Goto, caller,
                    pool, InHand
<1>6. CASE Flush
  <2>1. UNCHANGED <<sizes, at, nth, m>> /\ pc' = "use"
    BY <1>6 DEF Flush, FlushPending, Goto, caller
  <2> QED
    BY <1>1, <2>1 DEF InHand
<1>7. ASSUME NEW here, NEW pos, NEW done, FlushAt(here, pos, done),
             done \in {"outbuf"} \cup InHand => here \in {"outbuf"} \cup InHand
      PROVE  Held
  <2>1. UNCHANGED <<sizes, at, nth, m>> /\ pc = here /\ pc' \in {done, "rows"}
    BY <1>7 DEF FlushAt, FlushPending, Goto, caller
  <2> QED
    BY <1>7, <2>1 DEF InHand
<1>8. CASE \/ FlushOnEntry \/ FlushAfterOutbuf \/ FlushBeforePack \/ FlushAfterSubmit \/ FlushAtOnce
  <2>1. CASE FlushOnEntry
    BY <1>1, <1>7, <2>1 DEF FlushOnEntry, InHand
  <2>2. CASE FlushAfterOutbuf \/ FlushBeforePack \/ FlushAfterSubmit \/ FlushAtOnce
    BY <1>1, <1>7, <2>2 DEF FlushAfterOutbuf, FlushBeforePack, FlushAfterSubmit, FlushAtOnce,
                            InHand
  <2> QED
    BY <1>8, <2>1, <2>2
<1>9. CASE BatchOutbuf \/ StartCall
  <2>1. /\ UNCHANGED <<sizes, at, nth, m>> /\ pc \in {"outbuf", "reset"}
    BY <1>9 DEF BatchOutbuf, StartCall, caller, pool
  <2> QED
    BY <1>1, <2>1 DEF InHand
<1>10. ASSUME NEW d \in Devs, \/ SkipDevice(d) \/ PackAndSubmit(d) \/ EmitFails(d)
                              \/ SerialFence(d) \/ FenceAndRead(d)
       PROVE  Held
  <2>1. /\ UNCHANGED <<sizes, at, nth, m>> /\ pc \in {"pack", "fence"}
    BY <1>10 DEF SkipDevice, PackAndSubmit, EmitFails, SerialFence, FenceAndRead, caller, pool
  <2> QED
    BY <2>1 DEF InHand
<1>11. ASSUME NEW d \in Devs, Complete(d)
       PROVE  Held
  BY <1>11 DEF Complete, caller
<1>12. CASE UNCHANGED vars
  BY <1>1, <1>12 DEF vars, caller, pool
<1> HIDE DEF Held
<1> QED
  BY <1>1, <1>2, <1>3, <1>4, <1>5, <1>6, <1>8, <1>9, <1>10, <1>11, <1>12
     DEF Next, Matmul, BatchLayers

\* Every step keeps the kinds of them all.
LEMMA TypeNext ==
  ASSUME TypeOK, [Next]_vars
  PROVE  TypeOK'
BY KindsNext, FailureNext, SizesNext DEF Kinds, TypeOK

\* The type invariant: every variable holds what the code keeps there, the
\* entry in hand and the entry of an owed gather are in the output pool.
THEOREM TypeCorrect == Spec => []TypeOK
<1>1. Init => TypeOK
  BY TypeInit
<1>2. TypeOK /\ [Next]_vars => TypeOK'
  BY TypeNext
<1> QED
  BY <1>1, <1>2, PTL DEF Spec

-----------------------------------------------------------------------------
(* Who writes an output buffer.                                            *)

\* The entry of a gather that has been read is as it was but for its mark.
LEMMA SettledEntries ==
  ASSUME TypeOK, pend.live
  PROVE  /\ DOMAIN Settled = DOMAIN obuf
         /\ \A i \in DOMAIN obuf : i # pend.ob => Settled[i] = obuf[i]
         /\ \A i \in DOMAIN obuf : /\ Settled[i].busy = obuf[i].busy
                                   /\ Settled[i].data = obuf[i].data
<1>1. [obuf[pend.ob] EXCEPT !.pending = FALSE] \in Entry
  BY PendKinds DEF Entry
<1>2. Settled = [obuf EXCEPT ![pend.ob] = [obuf[pend.ob] EXCEPT !.pending = FALSE]]
  BY DEF Settled
<1>3. /\ DOMAIN Settled = DOMAIN obuf
      /\ \A i \in DOMAIN obuf : Settled[i] = IF i = pend.ob
                                             THEN [obuf[pend.ob] EXCEPT !.pending = FALSE]
                                             ELSE obuf[i]
  BY <1>1, <1>2, EntrySet DEF TypeOK, PoolKinds
<1>4. LET e == [obuf[pend.ob] EXCEPT !.pending = FALSE]
      IN e.busy = obuf[pend.ob].busy /\ e.data = obuf[pend.ob].data
  BY PendKinds DEF Entry
<1> QED
  BY <1>3, <1>4

\* A flush changes neither who writes an entry nor what is in it.
LEMMA FlushEntries ==
  ASSUME TypeOK, pend.live, NEW done, NEW otherwise, FlushPending(done, otherwise)
  PROVE  /\ DOMAIN obuf' = DOMAIN obuf
         /\ \A i \in DOMAIN obuf : /\ obuf'[i].busy = obuf[i].busy
                                   /\ obuf'[i].data = obuf[i].data
<1>1. obuf' = Settled \/ obuf' = obuf
  BY DEF FlushPending
<1> QED
  BY <1>1, SettledEntries

\* Nothing on a queue, nothing marked busy, changes.
LEMMA BufferFrame ==
  ASSUME BufferInv, UNCHANGED queue,
         DOMAIN obuf' = DOMAIN obuf, \A i \in DOMAIN obuf : obuf'[i].busy = obuf[i].busy
  PROVE  JobsMarked' /\ OneJobPerBuffer'
BY DEF BufferInv, JobsMarked, OneJobPerBuffer

\* Nothing is queued and nothing is in hand to begin with.
LEMMA BufferInit == Init => BufferInv
<1> SUFFICES ASSUME Init PROVE BufferInv
  OBVIOUS
<1>1. \A d \in Devs : queue[d] = <<>>
  BY DEF Init
<1>2. \A d \in Devs : DOMAIN queue[d] = {}
  BY <1>1
<1> QED
  BY <1>2 DEF Init, BufferInv, JobsMarked, OneJobPerBuffer, EntryInHand

\* A flush at a place where the entry in hand, if any, stays in hand.
LEMMA BufferFlushAt ==
  ASSUME TypeOK, BufferInv, NEW here, NEW pos, NEW done, FlushAt(here, pos, done)
  PROVE  /\ JobsMarked' /\ OneJobPerBuffer' /\ ob' = ob
         /\ DOMAIN obuf' = DOMAIN obuf
         /\ \A i \in DOMAIN obuf : obuf'[i].busy = obuf[i].busy
         /\ pc = here /\ pc' \in {done, "rows"}
<1>1. CASE pend.live /\ deferRead = pos
  <2>1. FlushPending(done, "rows")
    BY <1>1 DEF FlushAt
  <2>2. pc' \in {done, "rows"}
    BY <2>1 DEF FlushPending, Goto
  <2>3. /\ DOMAIN obuf' = DOMAIN obuf
        /\ \A i \in DOMAIN obuf : obuf'[i].busy = obuf[i].busy
    BY <1>1, <2>1, FlushEntries
  <2> QED
    BY <2>2, <2>3, BufferFrame DEF FlushAt, devices
<1>2. CASE ~(pend.live /\ deferRead = pos)
  <2>1. obuf' = obuf /\ pc' = done
    BY <1>2 DEF FlushAt, Goto
  <2> QED
    BY <2>1, BufferFrame DEF FlushAt, devices
<1> QED
  BY <1>1, <1>2

\* The flushes in npu_matmul_inner leave jobs and marks as they are.
LEMMA BufferFlushes ==
  ASSUME TypeOK, BufferInv,
         FlushOnEntry \/ FlushAfterOutbuf \/ FlushBeforePack \/ FlushAfterSubmit \/ FlushAtOnce
  PROVE  BufferInv'
<1>0. obuf \in Seq(Entry) /\ ob \in Nat /\ (pc \in InHand => ob \in DOMAIN obuf)
  BY DEF TypeOK, PoolKinds
<1>1. CASE FlushOnEntry
  BY <1>1, BufferFlushAt DEF FlushOnEntry, BufferInv, EntryInHand
<1>2. CASE FlushAfterOutbuf
  BY <1>0, <1>2, BufferFlushAt DEF FlushAfterOutbuf, BufferInv, EntryInHand, InHand
<1>3. CASE FlushBeforePack
  BY <1>0, <1>3, BufferFlushAt DEF FlushBeforePack, BufferInv, EntryInHand, InHand
<1>4. CASE FlushAfterSubmit
  <2>1. obuf[ob].busy \subseteq Devs
    BY <1>4, EntryKind DEF FlushAfterSubmit, FlushAt, InHand, Entry
  <2> QED
    BY <1>0, <1>4, <2>1, BufferFlushAt DEF FlushAfterSubmit, BufferInv, EntryInHand, InHand
<1>5. CASE FlushAtOnce
  BY <1>5, BufferFlushAt DEF FlushAtOnce, BufferInv, EntryInHand
<1> QED
  BY <1>1, <1>2, <1>3, <1>4, <1>5

\* batch_outbuf: whoever still wrote the entry has been waited for.
LEMMA BufferOutbuf ==
  ASSUME TypeOK, BufferInv, BatchOutbuf
  PROVE  BufferInv'
<1> DEFINE t == call.t
           i == FoundEntry(t)
           o == Entries(t)[i]
           u == [o EXCEPT !.busy = {}]
           n == [FreshEntry(t) EXCEPT !.m = m]
<1>1. t \in Tensors /\ m \in Nat
  BY CallKinds DEF TypeOK, CallerKinds, BatchOutbuf, Inside
<1>2. /\ FreshEntry(t) \in Entry /\ Entries(t) \in Seq(Entry)
      /\ i \in DOMAIN Entries(t) /\ i \in Nat /\ DOMAIN obuf \subseteq DOMAIN Entries(t)
      /\ \A j \in DOMAIN obuf : Entries(t)[j] = obuf[j]
  BY <1>1, EntryKinds DEF TypeOK, PoolKinds
<1>3. o \in Entry
  <2> HIDE DEF i
  <2> QED
    BY <1>2, ElementOfSeq
<1>4. u \in Entry /\ u.busy = {} /\ n \in Entry /\ n.busy = {} /\ FreshEntry(t).busy = {}
  BY <1>1, <1>2, <1>3 DEF Entry, FreshEntry
<1>5. /\ HandedOutIdle(i) /\ UNCHANGED queue
      /\ \/ /\ obuf' = [Entries(t) EXCEPT ![i] = u] \/ obuf' = [Entries(t) EXCEPT ![i] = n]
            /\ ob' = i /\ pc' = "flush4"
         \/ /\ obuf' = [Entries(t) EXCEPT ![i] = FreshEntry(t)]
            /\ ob' = ob /\ pc' = "rows"
  BY DEF BatchOutbuf, Goto, Fails, devices
<1> HIDE DEF i, u, n, o
<1>6. PICK e \in Entry : e.busy = {} /\ obuf' = [Entries(t) EXCEPT ![i] = e]
  BY <1>2, <1>4, <1>5
<1>7. /\ DOMAIN obuf' = DOMAIN Entries(t) /\ obuf'[i] = e
      /\ \A j \in DOMAIN obuf : j # i => obuf'[j] = obuf[j]
  BY <1>2, <1>6
<1>8. ASSUME NEW d \in Devs, NEW j \in DOMAIN queue[d]
      PROVE  queue[d][j].ob # i
  <2>1. queue[d][j].ob \in DOMAIN obuf /\ d \in obuf[queue[d][j].ob].busy
    BY DEF BufferInv, JobsMarked
  <2>2. ASSUME i \in DOMAIN obuf, d \in obuf[i].busy
        PROVE  Drained(d, i)
    BY <1>5, <2>2 DEF HandedOutIdle
  <2> QED
    BY <2>1, <2>2 DEF Drained
<1>9. JobsMarked'
  BY <1>2, <1>5, <1>7, <1>8 DEF BufferInv, JobsMarked
<1>10. OneJobPerBuffer'
  BY <1>5 DEF BufferInv, OneJobPerBuffer
<1>11. EntryInHand'
  BY <1>5, <1>6, <1>7 DEF EntryInHand
<1> QED
  BY <1>9, <1>10, <1>11 DEF BufferInv

\* A fence takes off the mark of a device that has no more job on the entry.
LEMMA BufferFenced ==
  ASSUME TypeOK, BufferInv, pc \in InHand, NEW d \in Devs, Drained(d, ob),
         obuf' = Fenced(d), UNCHANGED <<queue, ob>>
  PROVE  /\ JobsMarked' /\ OneJobPerBuffer' /\ DOMAIN obuf' = DOMAIN obuf
         /\ obuf'[ob].busy = obuf[ob].busy \ {d}
         /\ \A i \in DOMAIN obuf : obuf'[i].busy \subseteq obuf[i].busy
<1>1. /\ DOMAIN obuf' = DOMAIN obuf
      /\ obuf'[ob] = [obuf[ob] EXCEPT !.busy = @ \ {d}]
      /\ \A i \in DOMAIN obuf : i # ob => obuf'[i] = obuf[i]
  BY FencedKind
<1>2. obuf[ob] \in Entry
  BY EntryKind
<1>3. obuf'[ob].busy = obuf[ob].busy \ {d}
  BY <1>1, <1>2 DEF Entry
<1>4. JobsMarked'
  <2> SUFFICES ASSUME NEW e \in Devs, NEW j \in DOMAIN queue[e]
               PROVE  /\ queue[e][j].ob \in DOMAIN obuf'
                      /\ e \in obuf'[queue[e][j].ob].busy
    BY DEF JobsMarked
  <2>1. queue[e][j].ob \in DOMAIN obuf /\ e \in obuf[queue[e][j].ob].busy
    BY DEF BufferInv, JobsMarked
  <2>2. queue[e][j].ob = ob => e # d
    BY DEF Drained
  <2> QED
    BY <1>1, <1>3, <2>1, <2>2
<1>5. OneJobPerBuffer'
  BY DEF BufferInv, OneJobPerBuffer
<1> QED
  BY <1>1, <1>3, <1>4, <1>5

\* A device is submitted one job more, on an entry it is not marked on.
LEMMA BufferSubmit ==
  ASSUME TypeOK, BufferInv, NEW d \in Devs, PackAndSubmit(d)
  PROVE  BufferInv'
<1> DEFINE job == [t |-> call.t, ob |-> ob]
           e == [obuf[ob] EXCEPT !.busy = @ \cup {d}]
<1>0. pc = "pack" /\ pc \in InHand /\ d \in left
  BY DEF PackAndSubmit, InHand, Turn
<1>1. ob \in DOMAIN obuf /\ obuf[ob] \in Entry /\ obuf \in Seq(Entry)
  BY <1>0, EntryKind DEF TypeOK, PoolKinds
<1>2. e \in Entry /\ e.busy = obuf[ob].busy \cup {d}
  BY <1>1 DEF Entry
<1>3. \/ /\ queue' = [queue EXCEPT ![d] = Append(@, job)]
         /\ obuf' = [obuf EXCEPT ![ob] = e]
         /\ left' = left \ {d} /\ pc' = "pack"
      \/ pc' = "rows" /\ UNCHANGED <<queue, obuf, left>>
  BY <1>0 DEF PackAndSubmit, Goto
<1>4. ob' = ob
  BY DEF PackAndSubmit
<1>5. CASE pc' = "rows" /\ UNCHANGED <<queue, obuf, left>>
  BY <1>4, <1>5 DEF BufferInv, JobsMarked, OneJobPerBuffer, EntryInHand
<1>6. CASE /\ queue' = [queue EXCEPT ![d] = Append(@, job)]
           /\ obuf' = [obuf EXCEPT ![ob] = e]
           /\ left' = left \ {d} /\ pc' = "pack"
  <2>1. /\ DOMAIN obuf' = DOMAIN obuf
        /\ \A j \in DOMAIN obuf : obuf'[j] = IF j = ob THEN e ELSE obuf[j]
    <3> HIDE DEF e
    <3> QED
      BY <1>1, <1>2, <1>6, EntrySet
  <2>2. \A j \in DOMAIN obuf : obuf[j].busy \subseteq obuf'[j].busy
    BY <1>2, <2>1
  <2>3. PICK l \in Nat : /\ l = Len(queue[d]) /\ DOMAIN queue[d] = 1..l
                         /\ queue'[d] = Append(queue[d], job)
                         /\ DOMAIN queue'[d] = 1..(l + 1)
                         /\ queue'[d][l + 1] = job
                         /\ \A j \in 1..l : queue'[d][j] = queue[d][j]
    <3>1. queue[d] \in Seq(Job) /\ queue' = [queue EXCEPT ![d] = Append(queue[d], job)]
          /\ queue \in [Devs -> Seq(Job)]
      BY <1>6 DEF TypeOK, DeviceKinds
    <3>2. job \in Job
      BY <1>0, CallKinds DEF TypeOK, PoolKinds, Job, Inside
    <3>3. queue'[d] = Append(queue[d], job)
      BY <3>1
    <3> HIDE DEF job
    <3>4. PICK l \in Nat : l = Len(queue[d]) /\ DOMAIN queue[d] = 1..l
      BY <3>1
    <3>5. /\ Len(Append(queue[d], job)) = l + 1
          /\ Append(queue[d], job) \in Seq(Job)
          /\ Append(queue[d], job)[l + 1] = job
          /\ \A j \in 1..l : Append(queue[d], job)[j] = queue[d][j]
      BY <3>1, <3>2, <3>4, AppendProperties
    <3> QED
      BY <3>3, <3>4, <3>5
  <2>4. \A c \in Devs : c # d => queue'[c] = queue[c]
    BY <1>6 DEF TypeOK, DeviceKinds
  <2>5. \A j \in 1..l : queue[d][j].ob # ob
    BY <1>0, <2>3 DEF BufferInv, JobsMarked, EntryInHand
  <2>6. 1..(l + 1) = (1..l) \cup {l + 1} /\ l + 1 \notin 1..l
    OBVIOUS
  <2>7. JobsMarked'
    <3> SUFFICES ASSUME NEW c \in Devs, NEW j \in DOMAIN queue'[c]
                 PROVE  /\ queue'[c][j].ob \in DOMAIN obuf'
                        /\ c \in obuf'[queue'[c][j].ob].busy
      BY DEF JobsMarked
    <3>1. CASE c = d /\ j = l + 1
      <4>1. queue'[c][j] = job
        BY <2>3, <3>1
      <4>2. queue'[c][j].ob = ob
        BY <4>1
      <4>3. ob \in DOMAIN obuf' /\ d \in obuf'[ob].busy
        BY <1>1, <1>2, <2>1
      <4> QED
        BY <3>1, <4>2, <4>3
    <3>2. CASE c = d /\ j # l + 1
      BY <2>1, <2>2, <2>3, <2>6, <3>2 DEF BufferInv, JobsMarked
    <3>3. CASE c # d
      BY <2>1, <2>2, <2>4, <3>3 DEF BufferInv, JobsMarked
    <3> QED
      BY <3>1, <3>2, <3>3
  <2>8. OneJobPerBuffer'
    <3> SUFFICES ASSUME NEW c \in Devs, NEW i \in DOMAIN queue'[c], NEW j \in DOMAIN queue'[c],
                        queue'[c][i].ob = queue'[c][j].ob
                 PROVE  i = j
      BY DEF OneJobPerBuffer
    <3>1. CASE c # d
      BY <2>4, <3>1 DEF BufferInv, OneJobPerBuffer
    <3>2. CASE c = d /\ (i = l + 1 \/ j = l + 1)
      <4>1. queue'[d][l + 1].ob = ob
        BY <2>3
      <4>2. \A k \in 1..l : queue'[d][k].ob # ob
        BY <2>3, <2>5
      <4>3. i \in (1..l) \cup {l + 1} /\ j \in (1..l) \cup {l + 1}
        BY <2>3, <2>6, <3>2
      <4> HIDE DEF job
      <4> QED
        BY <3>2, <4>1, <4>2, <4>3
    <3>3. CASE c = d /\ i # l + 1 /\ j # l + 1
      <4>1. i \in 1..l /\ j \in 1..l
        BY <2>3, <2>6, <3>3
      <4> QED
        BY <2>3, <3>3, <4>1 DEF BufferInv, OneJobPerBuffer
    <3> QED
      BY <3>1, <3>2, <3>3
  <2>9. EntryInHand'
    BY <1>0, <1>1, <1>2, <1>4, <1>6, <2>1 DEF BufferInv, EntryInHand
  <2> QED
    BY <2>7, <2>8, <2>9 DEF BufferInv
<1> QED
  BY <1>3, <1>5, <1>6

\* A device finishes its oldest job.
LEMMA BufferComplete ==
  ASSUME TypeOK, BufferInv, NEW d \in Devs, Complete(d)
  PROVE  /\ BufferInv' /\ DOMAIN obuf' = DOMAIN obuf
         /\ \A i \in DOMAIN obuf : obuf'[i].busy = obuf[i].busy
         /\ \A i \in DOMAIN obuf : obuf'[i].pending = obuf[i].pending
         /\ \A c \in Devs : \A j \in DOMAIN queue'[c] :
               \E i \in DOMAIN queue[c] : queue'[c][j] = queue[c][i]
<1>1. PICK r \in {Head(queue[d]), regs[d]} :
        LET z == [t |-> r.t, in |-> [k \in K |-> IF k \in Need(r.t, d)
                                                 THEN bin[d][k] ELSE NoData]]
        IN /\ obuf' = [obuf EXCEPT ![r.ob] = [obuf[r.ob] EXCEPT !.data[d] = z]]
           /\ obuf' \in Seq(Entry) /\ DOMAIN obuf' = DOMAIN obuf
           /\ \A i \in DOMAIN obuf : i # r.ob => obuf'[i] = obuf[i]
           /\ r.ob \in DOMAIN obuf =>
                 obuf'[r.ob] = [obuf[r.ob] EXCEPT !.data[d] = z]
           /\ r \in Stream
  BY CompleteKinds
<1> DEFINE z == [t |-> r.t, in |-> [k \in K |-> IF k \in Need(r.t, d)
                                                THEN bin[d][k] ELSE NoData]]
<1>2. /\ DOMAIN obuf' = DOMAIN obuf
      /\ \A i \in DOMAIN obuf : i # r.ob => obuf'[i] = obuf[i]
      /\ r.ob \in DOMAIN obuf => obuf'[r.ob] = [obuf[r.ob] EXCEPT !.data[d] = z]
  BY <1>1
<1> HIDE DEF z
<1>3. \A i \in DOMAIN obuf : obuf[i] \in Entry
  <2>1. obuf \in Seq(Entry)
    BY DEF TypeOK, PoolKinds
  <2> QED
    BY <2>1, ElementOfSeq
<1>4. \A i \in DOMAIN obuf : obuf'[i].busy = obuf[i].busy /\ obuf'[i].pending = obuf[i].pending
  BY <1>2, <1>3 DEF Entry
<1>5. PICK l \in Nat : /\ l = Len(queue[d]) /\ DOMAIN queue[d] = 1..l
                       /\ DOMAIN Tail(queue[d]) = 1..(l - 1)
                       /\ \A j \in 1..(l - 1) : Tail(queue[d])[j] = queue[d][j + 1]
                       /\ l >= 1
  <2>1. queue[d] \in Seq(Job) /\ queue[d] # <<>>
    BY DEF Complete, TypeOK, DeviceKinds
  <2>2. PICK l \in Nat : l = Len(queue[d]) /\ DOMAIN queue[d] = 1..l /\ l >= 1
    BY <2>1, EmptySeq
  <2>3. /\ Tail(queue[d]) \in Seq(Job) /\ Len(Tail(queue[d])) = l - 1
        /\ \A j \in 1..(l - 1) : Tail(queue[d])[j] = queue[d][j + 1]
    BY <2>1, <2>2, HeadTailProperties
  <2> QED
    BY <2>2, <2>3
<1>6. queue' = [queue EXCEPT ![d] = Tail(queue[d])] /\ queue \in [Devs -> Seq(Job)]
  BY DEF Complete, TypeOK, DeviceKinds
<1>7. queue'[d] = Tail(queue[d]) /\ \A c \in Devs : c # d => queue'[c] = queue[c]
  BY <1>6
<1>8. \A j \in 1..(l - 1) : j + 1 \in 1..l
  BY <1>5
<1>9. \A c \in Devs : \A j \in DOMAIN queue'[c] :
          \E i \in DOMAIN queue[c] : queue'[c][j] = queue[c][i]
  BY <1>5, <1>7, <1>8
<1>10. JobsMarked'
  BY <1>2, <1>4, <1>9 DEF BufferInv, JobsMarked
<1>11. OneJobPerBuffer'
  <2> SUFFICES ASSUME NEW c \in Devs, NEW i \in DOMAIN queue'[c], NEW j \in DOMAIN queue'[c],
                      queue'[c][i].ob = queue'[c][j].ob
               PROVE  i = j
    BY DEF OneJobPerBuffer
  <2>1. CASE c # d
    BY <1>7, <2>1 DEF BufferInv, OneJobPerBuffer
  <2>2. CASE c = d
    <3>1. i \in 1..(l - 1) /\ j \in 1..(l - 1)
      BY <1>5, <1>7, <2>2
    <3>2. queue[d][i + 1].ob = queue[d][j + 1].ob /\ i + 1 \in DOMAIN queue[d]
          /\ j + 1 \in DOMAIN queue[d]
      BY <1>5, <1>7, <1>8, <2>2, <3>1
    <3>3. i + 1 = j + 1
      BY <3>2 DEF BufferInv, OneJobPerBuffer
    <3> QED
      BY <3>1, <3>3
  <2> QED
    BY <2>1, <2>2
<1>12. EntryInHand'
  <2>1. UNCHANGED <<pc, ob, left>>
    BY DEF Complete
  <2>2. pc \in InHand => ob \in DOMAIN obuf
    BY DEF TypeOK, PoolKinds
  <2> QED
    BY <1>4, <2>1, <2>2 DEF BufferInv, EntryInHand, InHand
<1> QED
  BY <1>2, <1>4, <1>9, <1>10, <1>11, <1>12 DEF BufferInv

\* Every step keeps jobs marked, apart, and away from the entry handed out.
LEMMA BufferNext ==
  ASSUME TypeOK, BufferInv, [Next]_vars
  PROVE  BufferInv'
<1>1. CASE BatchLayers
  <2>1. CASE BeginGroup \/ MatvecRows \/ Return \/ Use
    <3>1. /\ pc' \notin InHand /\ UNCHANGED <<queue, obuf>>
      BY <2>1 DEF BeginGroup, MatvecRows, Return, Use, Goto, InHand, pool, devices
    <3> QED
      BY <3>1, BufferFrame DEF BufferInv, EntryInHand, InHand
  <2>2. CASE Flush
    <3>1. pc' = "use" /\ UNCHANGED queue
      BY <2>2 DEF Flush, FlushPending, Goto, devices
    <3>2. /\ DOMAIN obuf' = DOMAIN obuf
          /\ \A i \in DOMAIN obuf : obuf'[i].busy = obuf[i].busy
      <4>1. CASE pend.live
        BY <2>2, <4>1, FlushEntries DEF Flush
      <4>2. CASE ~pend.live
        BY <2>2, <4>2 DEF Flush
      <4> QED
        BY <4>1, <4>2
    <3> QED
      BY <3>1, <3>2, BufferFrame DEF BufferInv, EntryInHand
  <2> QED
    BY <1>1, <2>1, <2>2 DEF BatchLayers
<1>2. CASE Enter \/ BatchBufs \/ FinishNow \/ FinishUnsaved
  <2>1. pc' \notin InHand /\ UNCHANGED <<queue, obuf>>
    BY <1>2 DEF Enter, BatchBufs, FinishNow, FinishUnsaved, Goto, InHand, pool, devices
  <2> QED
    BY <2>1, BufferFrame DEF BufferInv, EntryInHand, InHand
<1>3. CASE \/ FlushOnEntry \/ FlushAfterOutbuf \/ FlushBeforePack \/ FlushAfterSubmit \/ FlushAtOnce
  BY <1>3, BufferFlushes
<1>4. CASE BatchOutbuf
  BY <1>4, BufferOutbuf
<1>5. CASE StartCall
  <2>1. pc = "reset" /\ pc' \in {"flush5", "rows"} /\ UNCHANGED <<queue, obuf, ob>>
    BY <1>5 DEF StartCall, Goto, pool, devices
  <2> QED
    BY <2>1, BufferFrame DEF BufferInv, EntryInHand
<1>6. CASE FinishDeferred
  <2>1. pc = "fence" /\ pc' = "flush2" /\ UNCHANGED queue
        /\ obuf' = [obuf EXCEPT ![ob] = [obuf[ob] EXCEPT !.pending = TRUE]]
    BY <1>6 DEF FinishDeferred, Goto, devices
  <2>2. obuf[ob] \in Entry /\ obuf \in Seq(Entry)
    BY <2>1, EntryKind DEF InHand, TypeOK, PoolKinds
  <2>3. LET e == [obuf[ob] EXCEPT !.pending = TRUE]
        IN e \in Entry /\ e.busy = obuf[ob].busy
    BY <2>2 DEF Entry
  <2>4. /\ DOMAIN obuf' = DOMAIN obuf
        /\ \A i \in DOMAIN obuf : obuf'[i].busy = obuf[i].busy
    BY <2>1, <2>2, <2>3, EntrySet
  <2> QED
    BY <2>1, <2>4, BufferFrame DEF BufferInv, EntryInHand
<1>7. CASE AllSubmitted
  <2>1. pc' = "flush1" /\ UNCHANGED <<queue, obuf, ob>>
    BY <1>7 DEF AllSubmitted, Goto, pool, devices
  <2> QED
    BY <2>1, BufferFrame DEF BufferInv, EntryInHand
<1>8. ASSUME NEW d \in Devs, SkipDevice(d) \/ EmitFails(d)
      PROVE  BufferInv'
  <2>1. pc = "pack" /\ UNCHANGED <<queue, obuf, ob>> /\ left' \subseteq left
        /\ pc' \in {"pack", "rows"}
    BY <1>8 DEF SkipDevice, EmitFails, Goto, pool, devices
  <2> QED
    BY <2>1, BufferFrame DEF BufferInv, EntryInHand
<1>9. ASSUME NEW d \in Devs, PackAndSubmit(d)
      PROVE  BufferInv'
  BY <1>9, BufferSubmit
<1>10. ASSUME NEW d \in Devs, SerialFence(d)
       PROVE  BufferInv'
  <2>1. pc = "pack" /\ Drained(d, ob) /\ obuf' = Fenced(d)
        /\ UNCHANGED <<pc, queue, ob, left>>
    BY <1>10 DEF SerialFence, devices
  <2> QED
    BY <2>1, BufferFenced DEF BufferInv, EntryInHand, InHand
<1>11. ASSUME NEW d \in Devs, FenceAndRead(d)
       PROVE  BufferInv'
  <2>1. pc = "fence" /\ Drained(d, ob) /\ obuf' = Fenced(d) /\ left' = left \ {d}
        /\ UNCHANGED <<queue, ob>> /\ pc' \in {"fence", "rows"}
    BY <1>11 DEF FenceAndRead, devices, Goto
  <2> QED
    BY <2>1, BufferFenced DEF BufferInv, EntryInHand, InHand
<1>12. ASSUME NEW d \in Devs, Complete(d)
       PROVE  BufferInv'
  BY <1>12, BufferComplete
<1>13. CASE UNCHANGED vars
  BY <1>13 DEF vars, caller, pool, devices, BufferInv, JobsMarked, OneJobPerBuffer, EntryInHand
<1> QED
  BY <1>1, <1>2, <1>3, <1>4, <1>5, <1>6, <1>7, <1>8, <1>9, <1>10, <1>11, <1>12, <1>13
     DEF Next, Matmul

\* Whatever fails and however a call ends, a device never has two jobs that
\* write one output buffer.  The property is not inductive: that an entry
\* handed out is idle comes from every queued job being marked on its entry.
THEOREM OneJob == Spec => []OneJobPerBuffer
<1>1. Init => TypeOK /\ BufferInv
  BY TypeInit, BufferInit
<1>2. TypeOK /\ BufferInv /\ [Next]_vars => (TypeOK /\ BufferInv)'
  BY TypeNext, BufferNext
<1>3. BufferInv => OneJobPerBuffer
  BY DEF BufferInv
<1> QED
  BY <1>1, <1>2, <1>3, PTL DEF Spec

-----------------------------------------------------------------------------
(* Gathers that are owed.                                                  *)

\* The six settings of CHARSIU_NPU_DEFER_READ.
LEMMA Settings ==
  ASSUME TypeOK
  PROVE  deferRead \in {0, 1, 2, 3, 4, 5}
<1>1. deferRead \in 0..5
  BY BatchAssumption DEF TypeOK, CallerKinds
<1> QED
  BY <1>1

\* Where each setting leaves a gather owing.
LEMMA OwedPlaces ==
  /\ \A p : "fence" \notin OwedAt(p)
  /\ OwedAt(1) = {"idle"} \cup (Inside \ {"fence"})
  /\ OwedAt(2) = {"flush2"}
  /\ OwedAt(3) = {"idle", "enter", "rows", "return", "flush", "use", "flush3", "flush2"}
  /\ OwedAt(4) = {"idle", "enter", "rows", "return", "flush", "use", "flush3", "bufs",
                  "outbuf", "flush4", "flush2"}
  /\ OwedAt(5) = {"idle"} \cup (Inside \ {"pack", "flush1", "fence"})
  /\ OwedAt(0) = {}
<1>1. /\ OwedAt(1) = {"idle"} \cup (Inside \ {"fence"})
      /\ OwedAt(2) = {"flush2"}
      /\ OwedAt(3) = {"idle", "enter", "rows", "return", "flush", "use", "flush3", "flush2"}
      /\ OwedAt(4) = {"idle", "enter", "rows", "return", "flush", "use", "flush3", "bufs",
                      "outbuf", "flush4", "flush2"}
      /\ OwedAt(5) = {"idle"} \cup (Inside \ {"pack", "flush1", "fence"})
      /\ OwedAt(0) = {}
  BY DEF OwedAt
<1>2. ASSUME NEW p, "fence" \in OwedAt(p)
      PROVE  FALSE
  <2>1. CASE p = 1 \/ p = 2 \/ p = 3 \/ p = 4 \/ p = 5
    BY <1>1, <1>2, <2>1
  <2>2. CASE ~(p = 1 \/ p = 2 \/ p = 3 \/ p = 4 \/ p = 5)
    <3>1. OwedAt(p) = {}
      BY <2>2 DEF OwedAt
    <3> QED
      BY <1>2, <3>1
  <2> QED
    BY <2>1, <2>2
<1> QED
  BY <1>1, <1>2

\* charsiu_npu_flush and a call's own flush have to succeed: with no failure
\* the code gets wrong, neither leaves the gather owing or gives up another's.
LEMMA FlushDone ==
  ASSUME ~unhandled', NEW done, NEW otherwise, FlushPending(done, otherwise)
  PROVE  /\ pc \in {"flush", "flush2"} => pend' = NoPend
         /\ pend' = pend \/ pend' = NoPend
         /\ pc = "flush" => pc' = done
<1>1. CASE FailsIf("save", pc \in {"flush", "flush2"}) /\ pend' = pend
  <2>1. pc \notin {"flush", "flush2"}
    <3>1. unhandled' = IF pc \in {"flush", "flush2"} THEN TRUE ELSE unhandled
      BY <1>1 DEF FailsIf
    <3> QED
      BY <3>1
  <2> QED
    BY <1>1, <2>1
<1>2. CASE FailsIf("order", pc # "flush2") /\ pend' = NoPend
  <2>1. pc = "flush2"
    <3>1. unhandled' = IF pc # "flush2" THEN TRUE ELSE unhandled
      BY <1>2 DEF FailsIf
    <3> QED
      BY <3>1
  <2> QED
    BY <1>2, <2>1
<1>3. CASE pend' = NoPend /\ pc' = done
  BY <1>3
<1> QED
  BY <1>1, <1>2, <1>3 DEF FlushPending, Goto

\* A flush leaves nothing owing where it is asked for, but by a save that fails.
LEMMA OwedFlushAt ==
  ASSUME TypeOK, OwedSomewhere, deferRead = 2 => ~unhandled',
         NEW here, NEW pos, NEW done, FlushAt(here, pos, done), pos = 2 => here = "flush2"
  PROVE  /\ pc = here /\ pc' \in {done, "rows"} /\ deferRead' = deferRead
         /\ pend'.live => pend' = pend
         /\ pend'.live /\ deferRead = pos => pc' = "rows" /\ pos # 2
         /\ pend'.live /\ deferRead # pos => pc' = done
<1>1. CASE pend.live /\ deferRead = pos
  <2>1. FlushPending(done, "rows") /\ pc = here /\ deferRead' = deferRead
    BY <1>1 DEF FlushAt, caller
  <2>2. \/ pend' = NoPend /\ pc' \in {done, "rows"}
        \/ pend' = pend /\ pc' = "rows" /\ (pc = "flush2" => unhandled')
    BY <2>1 DEF FlushPending, Goto, FailsIf
  <2> QED
    BY <1>1, <2>1, <2>2 DEF NoPend
<1>2. CASE ~(pend.live /\ deferRead = pos)
  <2>1. pc = here /\ pc' = done /\ pend' = pend /\ deferRead' = deferRead
    BY <1>2 DEF FlushAt, Goto, caller
  <2> QED
    BY <1>2, <2>1
<1> QED
  BY <1>1, <1>2

\* No step takes an owed gather past its place, or replaces one.
LEMMA OwedNext ==
  ASSUME TypeOK, OwedSomewhere, deferRead = 2 => ~unhandled', [Next]_vars
  PROVE  OwedSomewhere' /\ (pend.live /\ pend'.live => pend' = pend)
<1>0. deferRead \in {0, 1, 2, 3, 4, 5}
  BY Settings
<1>1. CASE BeginGroup \/ MatvecRows \/ Return \/ Use \/ Enter
  <2>1. /\ pend' = pend /\ deferRead' = deferRead
        /\ pc \in {"idle", "rows", "return", "use", "enter"}
        /\ pc' \in {"enter", "return", "flush", "use", "idle", "rows", "flush3"}
    BY <1>1 DEF BeginGroup, MatvecRows, Return, Use, Enter, Goto, caller
  <2> QED
    BY <1>0, <2>1, OwedPlaces DEF OwedSomewhere, Inside
<1>2. CASE Flush
  <2>1. /\ pend' = pend \/ pend' = NoPend
        /\ pc' = "use" /\ pc = "flush" /\ deferRead' = deferRead
    BY <1>2 DEF Flush, FlushPending, Goto, caller
  <2> QED
    BY <1>0, <2>1, OwedPlaces DEF OwedSomewhere, NoPend, Inside
<1>3. CASE FlushOnEntry
  BY <1>0, <1>3, OwedFlushAt, OwedPlaces DEF FlushOnEntry, OwedSomewhere, Inside
<1>4. CASE FlushAfterOutbuf
  BY <1>0, <1>4, OwedFlushAt, OwedPlaces DEF FlushAfterOutbuf, OwedSomewhere, Inside
<1>5. CASE FlushBeforePack
  BY <1>0, <1>5, OwedFlushAt, OwedPlaces DEF FlushBeforePack, OwedSomewhere, Inside
<1>6. CASE FlushAfterSubmit
  BY <1>0, <1>6, OwedFlushAt, OwedPlaces DEF FlushAfterSubmit, OwedSomewhere, Inside
<1>7. CASE FlushAtOnce
  BY <1>0, <1>7, OwedFlushAt, OwedPlaces DEF FlushAtOnce, OwedSomewhere, Inside
<1>8. CASE BatchBufs \/ BatchOutbuf \/ StartCall \/ AllSubmitted
  <2>1. /\ pend' = pend /\ deferRead' = deferRead
        /\ \/ pc = "bufs" /\ pc' \in {"outbuf", "rows"}
           \/ pc = "outbuf" /\ pc' \in {"flush4", "rows"}
           \/ pc = "reset" /\ pc' \in {"flush5", "rows"}
           \/ pc = "pack" /\ pc' = "flush1"
    BY <1>8 DEF BatchBufs, BatchOutbuf, StartCall, AllSubmitted, Goto, caller
  <2> QED
    BY <1>0, <2>1, OwedPlaces DEF OwedSomewhere, Inside
<1>9. CASE FinishNow \/ FinishUnsaved
  <2>1. pend' = pend /\ deferRead' = deferRead /\ pc = "fence"
    BY <1>9 DEF FinishNow, FinishUnsaved, caller
  <2> QED
    BY <2>1, OwedPlaces DEF OwedSomewhere
<1>10. CASE FinishDeferred
  <2>1. /\ pc = "fence" /\ pc' = "flush2" /\ deferRead' = deferRead /\ deferRead # 0
    BY <1>10 DEF FinishDeferred, Goto, caller, Deferring
  <2> QED
    BY <1>0, <2>1, OwedPlaces DEF OwedSomewhere, Inside
<1>11. ASSUME NEW d \in Devs, SkipDevice(d) \/ PackAndSubmit(d) \/ EmitFails(d) \/ SerialFence(d)
       PROVE  OwedSomewhere' /\ pend' = pend
  <2>1. pend' = pend /\ deferRead' = deferRead /\ pc = "pack" /\ pc' \in {"pack", "rows"}
    BY <1>11 DEF SkipDevice, PackAndSubmit, EmitFails, SerialFence, Goto, caller
  <2> QED
    BY <1>0, <2>1, OwedPlaces DEF OwedSomewhere, Inside
<1>12. ASSUME NEW d \in Devs, FenceAndRead(d)
       PROVE  OwedSomewhere' /\ pend' = pend
  <2>1. pend' = pend /\ deferRead' = deferRead /\ pc = "fence"
    BY <1>12 DEF FenceAndRead, caller
  <2> QED
    BY <2>1, OwedPlaces DEF OwedSomewhere
<1>13. ASSUME NEW d \in Devs, Complete(d)
       PROVE  OwedSomewhere' /\ pend' = pend
  BY <1>13 DEF Complete, OwedSomewhere, caller
<1>14. CASE UNCHANGED vars
  BY <1>14 DEF vars, caller, OwedSomewhere
<1> QED
  BY <1>1, <1>2, <1>3, <1>4, <1>5, <1>6, <1>7, <1>8, <1>9, <1>10, <1>11, <1>12, <1>13, <1>14
     DEF Next, Matmul, BatchLayers

\* The setting is read once.
LEMMA SettingKept ==
  ASSUME [Next]_vars
  PROVE  deferRead' = deferRead
<1>1. CASE BatchLayers
  BY <1>1 DEF BatchLayers, BeginGroup, MatvecRows, Return, Flush, Use, caller
<1>2. CASE \/ FlushOnEntry \/ FlushAfterOutbuf \/ FlushBeforePack \/ FlushAfterSubmit \/ FlushAtOnce
  BY <1>2 DEF FlushOnEntry, FlushAfterOutbuf, FlushBeforePack, FlushAfterSubmit, FlushAtOnce,
              FlushAt, caller
<1>3. CASE \/ Enter \/ BatchBufs \/ BatchOutbuf \/ StartCall \/ AllSubmitted \/ FinishNow
           \/ FinishDeferred \/ FinishUnsaved
  BY <1>3 DEF Enter, BatchBufs, BatchOutbuf, StartCall, AllSubmitted, FinishNow, FinishDeferred,
              FinishUnsaved, caller
<1>4. ASSUME NEW d \in Devs, \/ SkipDevice(d) \/ PackAndSubmit(d) \/ EmitFails(d)
                             \/ SerialFence(d) \/ FenceAndRead(d) \/ Complete(d)
      PROVE  deferRead' = deferRead
  BY <1>4 DEF SkipDevice, PackAndSubmit, EmitFails, SerialFence, FenceAndRead, Complete, caller
<1>5. CASE UNCHANGED vars
  BY <1>5 DEF vars, caller
<1> QED
  BY <1>1, <1>2, <1>3, <1>4, <1>5 DEF Next, Matmul

\* A gather that is owed is never forgotten for another, at any place of the
\* flush and whatever fails, save one pair: with CHARSIU_NPU_DEFER_READ=2, a
\* save that fails.  The invariant says where a gather can be owed.
THEOREM GatherKept == Spec => NoGatherReplaced
<1>1. Init => TypeOK /\ OwedInv
  BY TypeInit DEF Init, OwedInv, OwedSomewhere, NoPend
<1>2. ASSUME TypeOK, OwedInv, [Next]_vars
      PROVE  /\ TypeOK' /\ OwedInv'
             /\ pend.live /\ pend'.live => pend' = pend \/ (deferRead = 2 /\ unhandled')
  <2>1. TypeOK' /\ deferRead' = deferRead /\ (~unhandled' => ~unhandled)
    BY <1>2, TypeNext, SettingKept, FailureNext
  <2>2. CASE deferRead = 2 /\ unhandled'
    BY <2>1, <2>2 DEF OwedInv
  <2>3. CASE ~(deferRead = 2 /\ unhandled')
    <3>1. OwedSomewhere /\ (deferRead = 2 => ~unhandled')
      BY <1>2, <2>1, <2>3 DEF OwedInv
    <3>2. OwedSomewhere' /\ (pend.live /\ pend'.live => pend' = pend)
      BY <1>2, <3>1, OwedNext
    <3> QED
      BY <2>1, <3>2 DEF OwedInv
  <2> QED
    BY <2>2, <2>3
<1>3. TypeOK /\ OwedInv /\ [Next]_vars => (TypeOK /\ OwedInv)'
  BY <1>2
<1>4. TypeOK /\ OwedInv /\ [Next]_vars
      => [pend.live /\ pend'.live => pend' = pend \/ (deferRead = 2 /\ unhandled')]_vars
  BY <1>2
<1> QED
  BY <1>1, <1>3, <1>4, PTL DEF Spec, NoGatherReplaced

-----------------------------------------------------------------------------
(* Reuse keys.                                                             *)

\* No step takes an owed gather out of its group.
LEMMA OwedInGroupNext ==
  ASSUME TypeOK, OwedSomewhere, OwedInGroup, ~unhandled', [Next]_vars
  PROVE  OwedInGroup'
<1>0. /\ nth \in Nat /\ (pc \in Inside => nth \in 1..Len(group.calls) /\ Len(group.calls) \in Nat)
      /\ (pc \in Inside => group.flush \in BOOLEAN)
  BY CallKinds DEF TypeOK, CallerKinds
<1>1. CASE BeginGroup \/ Use
  <2>1. ~pend.live /\ pend' = pend
    BY <1>1 DEF BeginGroup, Use, OwedInGroup
  <2> QED
    BY <2>1 DEF OwedInGroup
<1>2. CASE MatvecRows \/ Enter \/ BatchBufs \/ BatchOutbuf \/ StartCall \/ AllSubmitted
  <2>1. /\ UNCHANGED <<pend, at, nth>>
        /\ pc \in {"rows", "enter", "bufs", "outbuf", "reset", "pack"}
        /\ pc' \notin {"idle", "use", "flush2"}
    BY <1>2 DEF MatvecRows, Enter, BatchBufs, BatchOutbuf, StartCall, AllSubmitted, Goto, caller
  <2> QED
    BY <2>1 DEF OwedInGroup, group
<1>3. CASE Return
  <2>1. /\ UNCHANGED <<pend, at>> /\ pc = "return" /\ pc \in Inside
        /\ \/ nth' = nth + 1 /\ pc' = "enter"
           \/ nth' = nth /\ pc' = IF group.flush THEN "flush" ELSE "use"
    BY <1>3 DEF Return, Goto, Inside
  <2>2. CASE pend.live
    <3>1. group.flush /\ pend.nth \in 1..nth
      BY <2>2 DEF OwedInGroup
    <3>2. CASE nth' = nth + 1 /\ pc' = "enter"
      <4>1. pend.nth \in 1..nth' /\ pend.nth # nth'
        BY <1>0, <3>1, <3>2
      <4> QED
        BY <2>1, <3>1, <3>2, <4>1 DEF OwedInGroup, group
    <3>3. CASE nth' = nth /\ pc' = "flush"
      BY <2>1, <3>1, <3>3 DEF OwedInGroup, group
    <3> QED
      BY <2>1, <3>1, <3>2, <3>3
  <2> QED
    BY <2>1, <2>2 DEF OwedInGroup
<1>4. CASE Flush
  <2>1. ~pend'.live
    <3>1. CASE pend.live
      BY <1>4, <3>1, FlushDone DEF Flush, NoPend
    <3>2. CASE ~pend.live
      BY <1>4, <3>2 DEF Flush
    <3> QED
      BY <3>1, <3>2
  <2> QED
    BY <2>1 DEF OwedInGroup
<1>5. CASE \/ FlushOnEntry \/ FlushAfterOutbuf \/ FlushBeforePack \/ FlushAfterSubmit
  <2>1. ASSUME NEW here, NEW pos, NEW done, FlushAt(here, pos, done),
               here \notin {"flush2", "return", "flush"}, done \notin {"idle", "use", "flush2"}
        PROVE  OwedInGroup'
    <3>1. /\ UNCHANGED <<at, nth>> /\ pc = here /\ (pend' = pend \/ ~pend'.live)
          /\ pc' \in {done, "rows"}
      BY <2>1 DEF FlushAt, FlushPending, Goto, caller, NoPend
    <3> QED
      BY <2>1, <3>1 DEF OwedInGroup, group
  <2> QED
    BY <1>5, <2>1 DEF FlushOnEntry, FlushAfterOutbuf, FlushBeforePack, FlushAfterSubmit
<1>6. CASE FlushAtOnce
  <2>1. /\ UNCHANGED <<at, nth>> /\ (pend' = pend \/ ~pend'.live)
        /\ (pend'.live => pc' = "return")
    <3>1. CASE pend.live /\ deferRead = 2
      BY <1>6, <3>1, FlushDone DEF FlushAtOnce, FlushAt, caller, NoPend
    <3>2. CASE ~(pend.live /\ deferRead = 2)
      BY <1>6, <3>2 DEF FlushAtOnce, FlushAt, Goto, caller
    <3> QED
      BY <3>1, <3>2
  <2> QED
    BY <2>1 DEF OwedInGroup, group
<1>7. CASE FinishNow \/ FinishUnsaved
  <2>1. pc = "fence" /\ pend' = pend
    BY <1>7 DEF FinishNow, FinishUnsaved
  <2>2. ~pend.live
    BY <2>1, OwedPlaces DEF OwedSomewhere
  <2> QED
    BY <2>1, <2>2 DEF OwedInGroup
<1>8. CASE FinishDeferred
  <2>1. /\ UNCHANGED <<at, nth>> /\ pc' = "flush2" /\ pc = "fence" /\ pc \in Inside
        /\ pend'.nth = nth /\ call.defer
    BY <1>8 DEF FinishDeferred, Goto, caller, Snapshot, Inside, Deferring
  <2>2. group.flush
    <3>1. at \in DOMAIN Layer /\ nth \in DOMAIN Layer[at].calls
      BY <2>1 DEF TypeOK, CallerKinds, group
    <3> QED
      BY <2>1, <3>1, GroupKinds DEF call, group
  <2> QED
    BY <1>0, <2>1, <2>2 DEF OwedInGroup, group
<1>9. ASSUME NEW d \in Devs, SkipDevice(d) \/ PackAndSubmit(d) \/ EmitFails(d) \/ SerialFence(d)
      PROVE  OwedInGroup'
  <2>1. UNCHANGED <<pend, at, nth>> /\ pc = "pack" /\ pc' \in {"pack", "rows"}
    BY <1>9 DEF SkipDevice, PackAndSubmit, EmitFails, SerialFence, Goto, caller
  <2> QED
    BY <2>1 DEF OwedInGroup, group
<1>10. ASSUME NEW d \in Devs, FenceAndRead(d)
       PROVE  OwedInGroup'
  <2>1. UNCHANGED <<pend, at, nth>> /\ pc = "fence"
    BY <1>10 DEF FenceAndRead, caller
  <2> QED
    BY <2>1, OwedPlaces DEF OwedInGroup, OwedSomewhere
<1>11. ASSUME NEW d \in Devs, Complete(d)
       PROVE  OwedInGroup'
  BY <1>11 DEF Complete, OwedInGroup, caller, group
<1>12. CASE UNCHANGED vars
  BY <1>12 DEF vars, caller, OwedInGroup, group
<1> QED
  BY <1>1, <1>2, <1>3, <1>4, <1>5, <1>6, <1>7, <1>8, <1>9, <1>10, <1>11, <1>12
     DEF Next, Matmul, BatchLayers

\* No leader is refused, at any width.  The code needs this and does not see to
\* it: a leader that is refused leaves the keys of the group before it.
LeadersTaken == \A i \in DOMAIN Layer : \A w \in Rows : Layer[i].calls[1].t \in Taken[w]

\* So the first call of a group is taken.
LEMMA LeaderTaken ==
  ASSUME TypeOK, LeadersTaken, pc \in Inside, nth = 1
  PROVE  call.t \in Staged /\ call.t \in Taken[m]
<1>1. at \in DOMAIN Layer /\ at \in 0..Len(Layer) /\ (at # 0 => m \in Rows)
  BY DEF TypeOK, CallerKinds
<1>2. DOMAIN Layer = 1..Len(Layer)
  BY LayerAssumption
<1>3. at # 0
  BY <1>1, <1>2
<1>4. m \in Rows
  BY <1>1, <1>3
<1>5. call.t \in Taken[m]
  BY <1>1, <1>4 DEF LeadersTaken, call, group
<1>6. Taken[m] \subseteq Staged
  BY <1>4, BatchAssumption
<1> QED
  BY <1>5, <1>6

\* The key of a device is as fresh after its turn as it was before.
LEMMA KeyAfterFresh ==
  ASSUME TypeOK, pc \in Inside, NEW d \in Devs,
         key[d].valid => \A k \in key[d].ks :
            bin[d][k] = [x |-> key[d].x, v |-> wrote[key[d].x], f |-> key[d].f]
  PROVE  KeyAfter(d).valid => \A k \in KeyAfter(d).ks :
            Packed(d)[k] = [x |-> KeyAfter(d).x, v |-> wrote[KeyAfter(d).x],
                            f |-> KeyAfter(d).f]
<1>1. key[d] \in Keys /\ bin[d] \in [K -> Bytes] /\ Need(call.t, d) \subseteq K
  BY CallKinds, DealKinds DEF TypeOK, PoolKinds, DeviceKinds
<1>2. CASE Hit(d)
  <2>1. KeyAfter(d) = key[d] /\ Packed(d) = [k \in K |-> bin[d][k]] /\ key[d].ks \subseteq K
    BY <1>1, <1>2 DEF KeyAfter, Packed, Keys
  <2> QED
    BY <2>1
<1>3. CASE ~Hit(d) /\ Need(call.t, d) = {}
  <2>1. KeyAfter(d).valid = FALSE
    BY <1>1, <1>3 DEF KeyAfter, Keys
  <2> QED
    BY <2>1
<1>4. CASE ~Hit(d) /\ Need(call.t, d) # {}
  <2>1. KeyAfter(d) = [valid |-> TRUE, x |-> call.x, m |-> m, f |-> Factor[call.t],
                       ks |-> Need(call.t, d)]
    BY <1>4 DEF KeyAfter
  <2>2. \A k \in Need(call.t, d) : Packed(d)[k] = Input(call.t, call.x)
    BY <1>1, <1>4 DEF Packed
  <2> QED
    BY <2>1, <2>2 DEF Input
<1> QED
  BY <1>2, <1>3, <1>4

\* While nothing is written and no key or input object changes.
LEMMA KeyFrame ==
  ASSUME KeyInv, UNCHANGED <<key, bin, wrote, nth, dead>>,
         pc' \in PackPlaces => pc \in PackPlaces, BeforeDrop => BeforeDrop'
  PROVE  KeyInv'
BY DEF KeyInv, Fresh

\* A flush touches no key, and is not left early before the leader's drop.
LEMMA KeyFlushes ==
  ASSUME TypeOK, KeyInv, OwedInGroup, LeadersTaken,
         FlushOnEntry \/ FlushAfterOutbuf \/ FlushBeforePack \/ FlushAfterSubmit \/ FlushAtOnce
  PROVE  KeyInv'
<1>1. ASSUME NEW here, NEW pos, NEW done, FlushAt(here, pos, done),
             here \notin {"return", "flush", "idle"},
             here \in PackPlaces \/ done \notin PackPlaces,
             here = "flush3" /\ nth = 1 => done = "bufs", here = "flush4" => done = "reset",
             here \notin {"enter", "bufs", "outbuf", "reset"}
      PROVE  KeyInv'
  <2>1. UNCHANGED <<key, bin, wrote, nth, dead>> /\ pc = here /\ pc' \in {done, "rows"}
        /\ (~pend.live => pc' = done)
    BY <1>1 DEF FlushAt, FlushPending, Goto, caller, devices
  <2>2. nth = 1 /\ here # "flush2" => ~pend.live
    BY <1>1, <2>1 DEF OwedInGroup
  <2> QED
    BY <1>1, <2>1, <2>2, KeyFrame DEF BeforeDrop, PackPlaces
<1>2. CASE FlushOnEntry
  <2>1. nth = 1 => call.t \in Taken[m]
    BY <1>2, LeaderTaken DEF FlushOnEntry, FlushAt, Inside
  <2> QED
    BY <1>1, <1>2, <2>1 DEF FlushOnEntry, PackPlaces
<1>3. CASE FlushAfterOutbuf \/ FlushBeforePack \/ FlushAfterSubmit \/ FlushAtOnce
  BY <1>1, <1>3 DEF FlushAfterOutbuf, FlushBeforePack, FlushAfterSubmit, FlushAtOnce, PackPlaces
<1> QED
  BY <1>2, <1>3

\* Every step keeps the keys truthful once the leader has dropped the old ones.
LEMMA KeyNext ==
  ASSUME TypeOK, KeyInv, OwedInGroup, LeadersTaken, ~unhandled', [Next]_vars
  PROVE  KeyInv'
<1>0. /\ pc \in Inside => call.t \in Tensors /\ (nth = 1 => ~call.same)
      /\ \A d \in Devs : key[d] \in Keys
      /\ key \in [Devs -> Keys]
  BY CallKinds DEF TypeOK, CallerKinds, PoolKinds
<1>1. CASE BeginGroup
  <2>1. pc' = "enter" /\ nth' = 1
    BY <1>1 DEF BeginGroup, Goto
  <2> QED
    BY <2>1 DEF KeyInv, BeforeDrop, PackPlaces
<1>2. CASE MatvecRows \/ Use \/ Flush \/ FinishNow \/ FinishDeferred \/ FinishUnsaved
           \/ AllSubmitted
  <2>1. /\ UNCHANGED <<key, bin, wrote, nth, dead>>
        /\ pc \in {"rows", "use", "flush", "fence", "pack"} /\ pc' \notin PackPlaces
    BY <1>2 DEF MatvecRows, Use, Flush, FlushPending, FinishNow, FinishDeferred, FinishUnsaved,
                AllSubmitted, Goto, caller, pool, devices, PackPlaces
  <2> QED
    BY <2>1, KeyFrame DEF BeforeDrop, PackPlaces
<1>3. CASE Return
  <2>1. /\ UNCHANGED <<key, bin, wrote, dead>> /\ pc = "return" /\ pc' \notin PackPlaces
    BY <1>3 DEF Return, Goto, pool, devices, PackPlaces
  <2> QED
    BY <2>1 DEF KeyInv, Fresh, BeforeDrop
<1>4. CASE Enter
  <2>1. /\ UNCHANGED <<key, bin, wrote, nth, dead>> /\ pc = "enter"
        /\ pc' = IF dead \/ call.t \notin Staged THEN "rows" ELSE "flush3"
    BY <1>4 DEF Enter, Goto, caller, pool, devices
  <2>2. nth = 1 => call.t \in Staged
    BY <2>1, LeaderTaken DEF Inside
  <2> QED
    BY <2>1, <2>2 DEF KeyInv, Fresh, BeforeDrop, PackPlaces
<1>5. CASE \/ FlushOnEntry \/ FlushAfterOutbuf \/ FlushBeforePack \/ FlushAfterSubmit \/ FlushAtOnce
  BY <1>5, KeyFlushes
<1>6. CASE BatchBufs
  <2>1. CASE UNCHANGED <<key, bin>> /\ pc' = "outbuf"
    <3>1. UNCHANGED <<wrote, nth, dead>> /\ pc = "bufs"
      BY <1>6 DEF BatchBufs, caller
    <3> QED
      BY <2>1, <3>1, KeyFrame DEF BeforeDrop, PackPlaces
  <2>2. CASE key' = Dropped(key)
    <3>1. \A d \in Devs : ~key'[d].valid
      BY <1>0, <2>2 DEF Dropped, Keys
    <3>2. UNCHANGED dead /\ pc = "bufs"
      BY <1>6 DEF BatchBufs
    <3> QED
      BY <3>1, <3>2 DEF KeyInv, Fresh, PackPlaces
  <2> QED
    BY <1>6, <2>1, <2>2 DEF BatchBufs, Goto
<1>7. CASE BatchOutbuf
  <2>1. /\ UNCHANGED <<key, bin, wrote, nth, dead>> /\ pc = "outbuf"
        /\ pc' = "flush4" \/ (pc' = "rows" /\ call.same)
    BY <1>7 DEF BatchOutbuf, caller, devices, Goto, FailsIf
  <2>2. pc' = "rows" => nth # 1
    BY <1>0, <2>1 DEF Inside
  <2> QED
    BY <2>1, <2>2, KeyFrame DEF BeforeDrop, PackPlaces
<1>8. CASE StartCall
  <2>1. /\ UNCHANGED <<bin, wrote, nth, dead>> /\ pc = "reset" /\ pc' \in {"flush5", "rows"}
        /\ key' = LeaderDrops(call)
    BY <1>8 DEF StartCall, caller, pool, devices, Goto, FailsIf, LeaderDrops
  <2>2. CASE call.same
    BY <1>0, <2>1, <2>2 DEF LeaderDrops, KeyInv, Fresh, BeforeDrop, PackPlaces, Inside
  <2>3. CASE ~call.same
    <3>1. \A d \in Devs : ~key'[d].valid
      BY <1>0, <2>1, <2>3 DEF LeaderDrops, Dropped, Keys
    <3> QED
      BY <2>1, <3>1 DEF KeyInv, Fresh, PackPlaces
  <2> QED
    BY <2>2, <2>3
<1>9. ASSUME NEW d \in Devs, SkipDevice(d) \/ PackAndSubmit(d)
      PROVE  KeyInv'
  <2>1. /\ pc = "pack" /\ pc \in Inside /\ key' = [key EXCEPT ![d] = KeyAfter(d)]
        /\ UNCHANGED <<wrote, nth>>
        /\ bin' = [bin EXCEPT ![d] = Packed(d)] \/ (bin' = bin /\ Need(call.t, d) = {})
        /\ (dead' = dead /\ pc' = pc) \/ (dead' = TRUE /\ pc' = "rows")
    BY <1>9 DEF SkipDevice, PackAndSubmit, pool, devices, caller, Goto, Inside
  <2>2. bin \in [Devs -> [K -> Bytes]] /\ Packed(d) = [k \in K |-> Packed(d)[k]]
    BY DEF TypeOK, DeviceKinds, Packed
  <2>3. bin' = bin => Packed(d) = bin[d]
    <3>1. CASE Need(call.t, d) = {}
      BY <2>2, <3>1 DEF Packed
    <3>2. CASE bin' = [bin EXCEPT ![d] = Packed(d)]
      BY <2>2, <3>2
    <3> QED
      BY <2>1, <3>1, <3>2
  <2>4. bin'[d] = Packed(d) /\ \A e \in Devs : e # d => bin'[e] = bin[e] /\ key'[e] = key[e]
    BY <1>0, <2>1, <2>2, <2>3
  <2>5. Fresh => Fresh'
    <3>1. ASSUME Fresh, NEW e \in Devs
          PROVE  key'[e].valid => \A k \in key'[e].ks :
                     bin'[e][k] = [x |-> key'[e].x, v |-> wrote'[key'[e].x], f |-> key'[e].f]
      <4>1. CASE e = d
        <5>1. key'[d] = KeyAfter(d)
          BY <1>0, <2>1
        <5>2. PICK q : q = KeyAfter(d)
          OBVIOUS
        <5>3. q.valid => \A k \in q.ks :
                 Packed(d)[k] = [x |-> q.x, v |-> wrote[q.x], f |-> q.f]
          BY <2>1, <3>1, <5>2, KeyAfterFresh DEF Fresh
        <5>4. key'[e] = q /\ bin'[e] = Packed(d) /\ wrote' = wrote
          BY <2>1, <2>4, <4>1, <5>1, <5>2
        <5> QED
          BY <5>3, <5>4
      <4>2. CASE e # d
        BY <2>1, <2>4, <3>1, <4>2 DEF Fresh
      <4> QED
        BY <4>1, <4>2
    <3> QED
      BY <3>1 DEF Fresh
  <2> QED
    BY <2>1, <2>5 DEF KeyInv, BeforeDrop, PackPlaces
<1>10. ASSUME NEW d \in Devs, EmitFails(d)
       PROVE  KeyInv'
  <2>1. /\ pc = "pack" /\ pc' = "rows" /\ key' = [key EXCEPT ![d].valid = @ /\ Hit(d)]
        /\ UNCHANGED <<wrote, nth, dead>> /\ bin' = [bin EXCEPT ![d] = Packed(d)]
    BY <1>10 DEF EmitFails, pool, caller, Goto
  <2>2. bin \in [Devs -> [K -> Bytes]]
    BY DEF TypeOK, DeviceKinds
  <2>3. /\ bin'[d] = Packed(d) /\ \A e \in Devs : e # d => bin'[e] = bin[e] /\ key'[e] = key[e]
        /\ key'[d] = [key[d] EXCEPT !.valid = @ /\ Hit(d)]
    BY <1>0, <2>1, <2>2
  <2>4. Fresh => Fresh'
    <3>1. ASSUME Fresh, NEW e \in Devs
          PROVE  key'[e].valid => \A k \in key'[e].ks :
                     bin'[e][k] = [x |-> key'[e].x, v |-> wrote'[key'[e].x], f |-> key'[e].f]
      <4>1. CASE e = d /\ Hit(d)
        <5>1. key[d] \in Keys /\ key'[d] = [key[d] EXCEPT !.valid = key[d].valid /\ TRUE]
          BY <1>0, <2>3, <4>1
        <5>2. key'[d] = key[d]
          BY <5>1 DEF Keys
        <5>3. \A k \in key[d].ks : bin'[d][k] = bin[d][k]
          BY <1>0, <2>3, <4>1 DEF Packed, Keys
        <5>4. key'[e] = key[d] /\ wrote' = wrote /\ \A k \in key[d].ks : bin'[e][k] = bin[d][k]
          BY <2>1, <4>1, <5>2, <5>3
        <5>5. key[d].valid => \A k \in key[d].ks :
                 bin[d][k] = [x |-> key[d].x, v |-> wrote[key[d].x], f |-> key[d].f]
          BY <3>1 DEF Fresh
        <5> QED
          BY <5>4, <5>5
      <4>2. CASE e = d /\ ~Hit(d)
        <5>1. ~key'[d].valid
          BY <1>0, <2>3, <4>2 DEF Keys
        <5> QED
          BY <4>2, <5>1
      <4>3. CASE e # d
        BY <2>1, <2>3, <3>1, <4>3 DEF Fresh
      <4> QED
        BY <4>1, <4>2, <4>3
    <3> QED
      BY <3>1 DEF Fresh
  <2> QED
    BY <2>1, <2>4 DEF KeyInv, BeforeDrop, PackPlaces
<1>11. ASSUME NEW d \in Devs, SerialFence(d) \/ FenceAndRead(d) \/ Complete(d)
       PROVE  KeyInv'
  <2>1. /\ UNCHANGED <<key, bin, wrote, nth, dead>>
        /\ \/ pc \in {"pack", "fence"} /\ pc' \in {pc, "rows"}
           \/ pc' = pc
    BY <1>11 DEF SerialFence, FenceAndRead, Complete, Goto, caller, devices
  <2> QED
    BY <2>1, KeyFrame DEF BeforeDrop, PackPlaces
<1>12. CASE UNCHANGED vars
  BY <1>12, KeyFrame DEF vars, caller, pool, devices, BeforeDrop
<1> QED
  BY <1>1, <1>2, <1>3, <1>4, <1>5, <1>6, <1>7, <1>8, <1>9, <1>10, <1>11, <1>12
     DEF Next, Matmul, BatchLayers

\* What holds together: the kinds, where a gather is owed, and the keys.
KeyIInv == TypeOK /\ (unhandled \/ (OwedSomewhere /\ OwedInGroup /\ KeyInv))

\* It is an invariant.
LEMMA KeyIInvCorrect ==
  ASSUME LeadersTaken
  PROVE  Spec => []KeyIInv
<1>1. Init => KeyIInv
  BY TypeInit DEF Init, KeyIInv, OwedSomewhere, OwedInGroup, NoPend, KeyInv, BeforeDrop,
                  PackPlaces
<1>2. ASSUME KeyIInv, [Next]_vars
      PROVE  KeyIInv'
  <2>1. TypeOK' /\ (~unhandled' => ~unhandled)
    BY <1>2, TypeNext, FailureNext DEF KeyIInv
  <2>2. ASSUME ~unhandled'
        PROVE  (OwedSomewhere /\ OwedInGroup /\ KeyInv)'
    BY <1>2, <2>1, <2>2, OwedNext, OwedInGroupNext, KeyNext DEF KeyIInv
  <2> QED
    BY <2>1, <2>2 DEF KeyIInv
<1>3. KeyIInv /\ [Next]_vars => KeyIInv'
  BY <1>2
<1> QED
  BY <1>1, <1>3, PTL DEF Spec

\* While a call that declares its input unchanged is under way, a reuse key
\* says what its device's input object holds, for a layer whose leaders are
\* taken and up to the first failure the code gets wrong: of the others, none
\* leaves a stale key behind.
THEOREM KeysTruthful ==
  ASSUME LeadersTaken
  PROVE  Spec => []KeyTruthful
<1>1. KeyIInv => KeyTruthful
  <2> SUFFICES ASSUME KeyIInv, pc \in PackPlaces, call.same, ~unhandled
               PROVE  Fresh
    BY DEF KeyTruthful, Fresh, PackPlaces
  <2>1. pc \in Inside /\ pc # "idle" /\ nth # 1
    BY CallKinds DEF KeyIInv, TypeOK, PackPlaces, Inside
  <2> QED
    BY <2>1 DEF KeyIInv, KeyInv, BeforeDrop
<1> QED
  BY <1>1, KeyIInvCorrect, PTL

-----------------------------------------------------------------------------
(* Answers.                                                                *)

\* Where a range's K slices are.
LEMMA SliceHome ==
  ASSUME NEW t \in Tensors, NEW ni \in Ranges(t)
  PROVE  /\ KSlices(t) # {} /\ ni \in N
         /\ \A k \in KSlices(t) : /\ k \in K
                                  /\ <<k, ni>> \in DOMAIN Deal[t]
                                  /\ Deal[t][<<k, ni>>] \in Devs
                                  /\ k \in Need(t, Deal[t][<<k, ni>>])
<1>1. PICK s \in DOMAIN Deal[t] : s[2] = ni
  BY DEF Ranges
<1>2. s[1] \in KSlices(t)
  BY DEF KSlices
<1>3. ASSUME NEW k \in KSlices(t)
      PROVE  <<k, ni>> \in DOMAIN Deal[t] /\ Deal[t][<<k, ni>>] \in Devs
             /\ k \in Need(t, Deal[t][<<k, ni>>])
  <2>1. <<k, ni>> \in DOMAIN Deal[t] /\ Deal[t][<<k, ni>>] \in Devs
    BY DealKinds
  <2> DEFINE q == <<k, ni>>
  <2>2. q[1] = k /\ q \in {p \in DOMAIN Deal[t] : Deal[t][p] = Deal[t][<<k, ni>>]}
    BY <2>1
  <2> HIDE DEF q
  <2>3. k \in Need(t, Deal[t][<<k, ni>>])
    BY <2>2 DEF Need
  <2> QED
    BY <2>1, <2>3
<1> QED
  BY <1>2, <1>3, DealKinds

\* One slice's term, read from an entry that holds what its device owes.
LEMMA TermRead ==
  ASSUME NEW t \in Tensors, NEW x, NEW o, NEW scales, NEW ni \in Ranges(t), NEW k \in KSlices(t),
         o.data[Deal[t][<<k, ni>>]] = Result(t, x, Deal[t][<<k, ni>>]),
         Int8 => scales[k] = Input(t, x)
  PROVE  Term(o.data[Deal[t][<<k, ni>>]].t, o.data[Deal[t][<<k, ni>>]].in[k],
              IF Int8 THEN scales[k] ELSE o.data[Deal[t][<<k, ni>>]].in[k])
            = Term(t, Input(t, x), Input(t, x))
<1> DEFINE d == Deal[t][<<k, ni>>]
<1>1. k \in Need(t, d) /\ k \in K
  BY SliceHome
<1> HIDE DEF d
<1>2. Result(t, x, d).t = t /\ Result(t, x, d).in[k] = Input(t, x)
  BY <1>1 DEF Result
<1>3. o.data[d].t = t /\ o.data[d].in[k] = Input(t, x)
  BY <1>2 DEF d
<1> QED
  BY <1>3 DEF d

\* The first term of a slice is the sum so far.
LEMMA PlusNoTerm ==
  ASSUME NEW a
  PROVE  Plus(NoTerm, a) = a
BY DEF Plus

\* All devices read at once, from nothing: the whole product.
LEMMA GatherRight ==
  ASSUME NEW t \in Tensors, NEW x, NEW o, NEW scales, NEW out,
         \A d \in Devs : Need(t, d) # {} => o.data[d] = Result(t, x, d),
         Scaled(scales, KSlices(t), t, x)
  PROVE  IsProduct(TailScale(ReadAll(out, {}, t, o, scales), t), t, x)
<1> SUFFICES ASSUME NEW ni \in Ranges(t)
             PROVE  TailScale(ReadAll(out, {}, t, o, scales), t)[ni] = Product(t, x)[ni]
  BY DEF IsProduct
<1> DEFINE ks == {k \in KSlices(t) : /\ <<k, ni>> \in DOMAIN Deal[t]
                                     /\ Deal[t][<<k, ni>>] \in Devs}
           new(k) == Term(o.data[Deal[t][<<k, ni>>]].t, o.data[Deal[t][<<k, ni>>]].in[k],
                          IF Int8 THEN scales[k] ELSE o.data[Deal[t][<<k, ni>>]].in[k])
           old == [k \in K |-> NoTerm]
           right == Term(t, Input(t, x), Input(t, x))
           total == [k \in K |-> IF k \in ks THEN Plus(old[k], new(k)) ELSE old[k]]
           whole == [k \in K |-> IF k \in KSlices(t) THEN right ELSE NoTerm]
<1>1. ks = KSlices(t) /\ ks # {} /\ ni \in N
  BY SliceHome
<1>2. ReadAll(out, {}, t, o, scales)[ni] = [sum |-> total, tail |-> 0]
  <2>1. ReadAll(out, {}, t, o, scales)[ni]
          = IF ks = {} THEN out[ni] ELSE [sum |-> total, tail |-> 0]
    BY <1>1 DEF ReadAll, ReadDevices
  <2> HIDE DEF ks, total
  <2> QED
    BY <1>1, <2>1
<1>3. ASSUME NEW k \in KSlices(t)
      PROVE  new(k) = right
  <2>1. Deal[t][<<k, ni>>] \in Devs /\ Need(t, Deal[t][<<k, ni>>]) # {}
    BY SliceHome
  <2>2. o.data[Deal[t][<<k, ni>>]] = Result(t, x, Deal[t][<<k, ni>>])
    BY <2>1
  <2> QED
    BY <2>2, TermRead DEF Scaled
<1>4. total = whole
  <2>1. ASSUME NEW k \in K
        PROVE  (IF k \in ks THEN Plus(old[k], new(k)) ELSE old[k])
                  = (IF k \in KSlices(t) THEN right ELSE NoTerm)
    <3>1. old[k] = NoTerm
      OBVIOUS
    <3>2. k \in KSlices(t) => Plus(old[k], new(k)) = right
      BY <1>3, <3>1, PlusNoTerm
    <3> HIDE DEF ks, old, new, right
    <3> QED
      BY <1>1, <3>1, <3>2
  <2> HIDE DEF ks, old, new, right
  <2> QED
    BY <2>1
<1>5. Product(t, x)[ni] = [sum |-> whole, tail |-> 1]
  BY <1>1 DEF Product
<1>6. TailScale(ReadAll(out, {}, t, o, scales), t)[ni] = [sum |-> total, tail |-> 1]
  <2> HIDE DEF total
  <2>1. [[sum |-> total, tail |-> 0] EXCEPT !.tail = @ + 1] = [sum |-> total, tail |-> 1]
    OBVIOUS
  <2> QED
    BY <1>1, <1>2, <2>1 DEF TailScale
<1> QED
  BY <1>4, <1>5, <1>6

\* The newest job of a queue stays so when the oldest ends.
LEMMA LastOfTail ==
  ASSUME NEW q \in Seq(Job), q # <<>>, Tail(q) # <<>>
  PROVE  Tail(q)[Len(Tail(q))] = q[Len(q)]
<1>1. PICK l \in Nat : l = Len(q) /\ l >= 1
  BY EmptySeq
<1>2. /\ Tail(q) \in Seq(Job) /\ Len(Tail(q)) = l - 1
      /\ \A j \in 1..(l - 1) : Tail(q)[j] = q[j + 1]
  BY <1>1, HeadTailProperties
<1>3. Len(Tail(q)) # 0
  BY <1>2, EmptySeq
<1>4. l - 1 \in 1..(l - 1) /\ (l - 1) + 1 = l
  BY <1>1, <1>2, <1>3
<1> QED
  BY <1>1, <1>2, <1>4

\* The layer of an int8 pool multiplies by the tensors of one AWQ factor in a
\* row.  (The code takes no AWQ factor with int8 weights.)
FactorsInRow ==
    Int8 => \A i \in DOMAIN Layer : \A a, b, c \in DOMAIN Layer[i].calls :
                /\ a < b /\ b < c
                /\ Factor[Layer[i].calls[a].t] = Factor[Layer[i].calls[c].t]
                => Factor[Layer[i].calls[b].t] = Factor[Layer[i].calls[a].t]

\* A gather stays owed what it is as long as its entry stays as it is.
LEMMA OwedFrame ==
  ASSUME TypeOK, Owed, OwedRight, UNCHANGED <<pend, at, wrote>>,
         pend.live => /\ obuf'[pend.ob].pending = obuf[pend.ob].pending
                      /\ obuf'[pend.ob].busy = obuf[pend.ob].busy
                      /\ pc' \in InHand => ob' # pend.ob
                      /\ \A d \in Devs : Need(pend.t, d) # {} =>
                            /\ obuf'[pend.ob].data[d] = obuf[pend.ob].data[d]
                            /\ queue'[d] # <<>> => regs'[d].ob # pend.ob
  PROVE  Owed' /\ OwedRight'
<1>1. Owed'
  BY DEF Owed, group
<1>2. OwedRight'
  BY DEF OwedRight, group, Result, Scaled, Input
<1> QED
  BY <1>1, <1>2

\* A call that finds the gather owed works on another entry.
LEMMA OwedElsewhere ==
  ASSUME TypeOK, Owed, pend.live, pc = "outbuf"
  PROVE  FoundEntry(call.t) # pend.ob
<1>1. /\ FoundEntry(call.t) \in DOMAIN obuf => FoundEntry(call.t) \in Free(call.t)
  BY CallKinds, EntryKinds DEF TypeOK, PoolKinds, Inside
<1>2. pend.ob \in DOMAIN obuf /\ obuf[pend.ob].pending
  BY PendKinds DEF Owed
<1> QED
  BY <1>1, <1>2 DEF Free

\* A call that finds the pool dead goes to the CPU, and a submit that kills it too.
LEMMA AliveNext ==
  ASSUME Alive, [Next]_vars
  PROVE  Alive'
<1>1. CASE BatchLayers
  <2>1. pc' \in {"enter", "return", "flush", "use", "idle"}
    BY <1>1 DEF BatchLayers, BeginGroup, MatvecRows, Return, Flush, FlushPending, Use, Goto
  <2> QED
    BY <2>1 DEF Alive, PackPlaces
<1>2. CASE Enter
  BY <1>2 DEF Enter, Goto, pool, Alive, PackPlaces
<1>3. CASE BatchBufs \/ BatchOutbuf \/ StartCall \/ AllSubmitted
  <2>1. UNCHANGED dead /\ pc \in {"bufs", "outbuf", "reset", "pack"}
    BY <1>3 DEF BatchBufs, BatchOutbuf, StartCall, AllSubmitted, pool
  <2> QED
    BY <2>1 DEF Alive, PackPlaces
<1>4. CASE \/ FlushOnEntry \/ FlushAfterOutbuf \/ FlushBeforePack \/ FlushAfterSubmit
  <2>1. UNCHANGED dead /\ pc \in {"flush3", "flush4", "flush5", "flush1"}
    BY <1>4 DEF FlushOnEntry, FlushAfterOutbuf, FlushBeforePack, FlushAfterSubmit, FlushAt
  <2> QED
    BY <2>1 DEF Alive, PackPlaces
<1>5. CASE FlushAtOnce \/ FinishNow \/ FinishDeferred \/ FinishUnsaved
  <2>1. pc' \in {"return", "rows", "flush2"}
    BY <1>5 DEF FlushAtOnce, FlushAt, FlushPending, FinishNow, FinishDeferred, FinishUnsaved, Goto
  <2> QED
    BY <2>1 DEF Alive, PackPlaces
<1>6. ASSUME NEW d \in Devs, SkipDevice(d) \/ PackAndSubmit(d) \/ EmitFails(d) \/ SerialFence(d)
      PROVE  Alive'
  <2>1. pc = "pack" /\ (pc' = "rows" \/ dead' = dead)
    BY <1>6 DEF SkipDevice, PackAndSubmit, EmitFails, SerialFence, Goto, pool
  <2> QED
    BY <2>1 DEF Alive, PackPlaces
<1>7. ASSUME NEW d \in Devs, FenceAndRead(d)
      PROVE  Alive'
  <2>1. pc = "fence" /\ dead' = dead
    BY <1>7 DEF FenceAndRead
  <2> QED
    BY <2>1 DEF Alive, PackPlaces
<1>8. ASSUME NEW d \in Devs, Complete(d)
      PROVE  Alive'
  BY <1>8 DEF Complete, Alive
<1>9. CASE UNCHANGED vars
  BY <1>9 DEF vars, pool, Alive
<1> QED
  BY <1>1, <1>2, <1>3, <1>4, <1>5, <1>6, <1>7, <1>8, <1>9 DEF Next, Matmul

\* When every device is fenced, each has answered what it owes, and every
\* row has its scales.
LEMMA FencedAll ==
  ASSUME TypeOK, BufferInv, Computing, pc = "fence", left = {}
  PROVE  /\ obuf[ob].busy = {}
         /\ \A d \in Devs : \A j \in DOMAIN queue[d] : queue[d][j].ob # ob
         /\ \A d \in Devs : Need(call.t, d) # {} =>
                obuf[ob].data[d] = Result(call.t, call.x, d)
         /\ Scaled(bd1, KSlices(call.t), call.t, call.x)
<1>1. call.t \in Tensors
  BY CallKinds DEF TypeOK, Inside
<1>4. obuf[ob].busy = {}
  BY DEF BufferInv, EntryInHand
<1>5. \A d \in Devs : \A j \in DOMAIN queue[d] : queue[d][j].ob # ob
  BY <1>4 DEF BufferInv, JobsMarked
<1>7. \A d \in Devs : Need(call.t, d) # {} =>
          /\ obuf[ob].data[d] = Result(call.t, call.x, d)
          /\ Scaled(bd1, Need(call.t, d), call.t, call.x)
  BY <1>5 DEF Computing, Computes, Submitted
<1>8. Scaled(bd1, KSlices(call.t), call.t, call.x)
  <2> SUFFICES ASSUME Int8, NEW k \in KSlices(call.t)
               PROVE  bd1[k] = Input(call.t, call.x)
    BY DEF Scaled
  <2>1. PICK s \in DOMAIN Deal[call.t] : s[1] = k
    BY DEF KSlices
  <2>2. PICK d \in Devs : Deal[call.t][s] = d
    BY <1>1, DealKinds
  <2>3. k \in Need(call.t, d)
    BY <2>1, <2>2 DEF Need
  <2> QED
    BY <1>7, <2>3 DEF Scaled
<1> QED
  BY <1>4, <1>5, <1>7, <1>8

\* The gather a call leaves owing is what its devices have answered.
LEMMA OwedFinish ==
  ASSUME TypeOK, BufferInv, Computing, Reading, FinishDeferred
  PROVE  Owed' /\ OwedRight'
<1>0. /\ pc = "fence" /\ pc \in Inside /\ pc \in InHand /\ left = {} /\ Deferring
      /\ pc' = "flush2" /\ obuf' = [obuf EXCEPT ![ob].pending = TRUE]
      /\ UNCHANGED <<at, nth, wrote, queue, regs, ob, bd1>>
  BY DEF FinishDeferred, Goto, caller, devices, Inside, InHand
<1>1. /\ ob \in DOMAIN obuf /\ obuf[ob] \in Entry /\ obuf \in Seq(Entry)
      /\ call.t \in Tensors
  BY <1>0, EntryKind, CallKinds DEF TypeOK, PoolKinds
<1>2. /\ pend'.nth = nth /\ pend'.t = call.t /\ pend'.ob = ob /\ pend'.seen = seen
      /\ pend'.bd1 = bd1 /\ pend'.live
  BY DEF FinishDeferred, Snapshot
<1>3. /\ obuf'[ob].pending = TRUE
      /\ obuf'[ob].busy = obuf[ob].busy /\ obuf'[ob].data = obuf[ob].data
  <2> DEFINE e == [obuf[ob] EXCEPT !.pending = TRUE]
  <2>1. e \in Entry /\ e.pending = TRUE /\ e.busy = obuf[ob].busy /\ e.data = obuf[ob].data
    BY <1>1 DEF Entry
  <2>2. obuf' = [obuf EXCEPT ![ob] = e]
    BY <1>0
  <2> HIDE DEF e
  <2> QED
    BY <1>1, <2>1, <2>2, EntrySet
<1>4. obuf[ob].busy = {}
  BY <1>0, FencedAll
<1>5. \A d \in Devs : \A j \in DOMAIN queue[d] : queue[d][j].ob # ob
  BY <1>0, FencedAll
<1>6. \A d \in Devs : Need(call.t, d) # {} => queue[d] = <<>>
  <2> SUFFICES ASSUME NEW d \in Devs, Need(call.t, d) # {}, queue[d] # <<>>
               PROVE  FALSE
    OBVIOUS
  <2>1. queue[d][Len(queue[d])].ob = ob
    BY <1>0 DEF Computing, Computes, Submitted
  <2>2. Len(queue[d]) \in DOMAIN queue[d]
    <3>1. queue[d] \in Seq(Job)
      BY DEF TypeOK, DeviceKinds
    <3> QED
      BY <3>1, EmptySeq
  <2> QED
    BY <1>5, <2>1, <2>2
<1>7. \A d \in Devs : Need(call.t, d) # {} => obuf[ob].data[d] = Result(call.t, call.x, d)
  BY <1>0, FencedAll
<1>8. Scaled(bd1, KSlices(call.t), call.t, call.x)
  BY <1>0, FencedAll
<1>9. group' = group /\ call = group.calls[nth]
  BY <1>0 DEF group, call
<1>10. Owed'
  BY <1>0, <1>2, <1>3, <1>4, <1>6, <1>9 DEF Owed, Reading, InHand
<1>11. OwedRight'
  <2>1. PICK t0, x0 : t0 = call.t /\ x0 = call.x
    OBVIOUS
  <2>2. pend'.t = t0 /\ group'.calls[pend'.nth].x = x0 /\ pend'.ob = ob
    BY <1>2, <1>9, <2>1
  <2>3. \A d \in Devs : Need(t0, d) # {} =>
           obuf'[ob].data[d] =
             [t |-> t0, in |-> [k \in K |-> IF k \in Need(t0, d)
                                           THEN [x |-> x0, v |-> wrote'[x0], f |-> Factor[t0]]
                                           ELSE NoData]]
    BY <1>0, <1>3, <1>7, <2>1 DEF Result, Input
  <2>4. Int8 => \A k \in KSlices(t0) :
                  bd1[k] = [x |-> x0, v |-> wrote'[x0], f |-> Factor[t0]]
    BY <1>0, <1>8, <2>1 DEF Scaled, Input
  <2>5. /\ \A d \in Devs : Need(pend'.t, d) # {} =>
             obuf'[pend'.ob].data[d] = Result(pend.t, group.calls[pend.nth].x, d)'
    BY <2>2, <2>3 DEF Result, Input
  <2>6. Scaled(pend.bd1, KSlices(pend.t), pend.t, group.calls[pend.nth].x)'
    BY <1>2, <2>2, <2>4 DEF Scaled, Input
  <2> QED
    BY <2>5, <2>6 DEF OwedRight
<1> QED
  BY <1>10, <1>11

\* No step changes what an owed gather will find.
LEMMA OwedRightNext ==
  ASSUME TypeOK, BufferInv, OwedSomewhere, OwedInGroup, Computing, Reading, Owed, OwedRight,
         ~unhandled', [Next]_vars
  PROVE  Owed' /\ OwedRight'
<1>0. /\ pend.live => /\ pend.ob \in DOMAIN obuf /\ obuf[pend.ob] \in Entry
                      /\ pc # "idle" /\ pc # "fence"
      /\ obuf \in Seq(Entry)
  BY PendKinds, OwedPlaces DEF TypeOK, PoolKinds, OwedInGroup, OwedSomewhere
<1>1. ASSUME ~pend'.live
      PROVE  Owed' /\ OwedRight'
  BY <1>1 DEF Owed, OwedRight
<1>2. ASSUME UNCHANGED <<pend, at, wrote, obuf, ob, queue, regs>>,
             pend.live /\ pc' \in InHand => pc \in InHand
      PROVE  Owed' /\ OwedRight'
  BY <1>2, OwedFrame DEF Owed
<1>3. CASE BeginGroup
  <2>1. pend' = pend /\ pc = "idle"
    BY <1>3 DEF BeginGroup
  <2> QED
    BY <1>0, <1>1, <2>1
<1>4. CASE MatvecRows \/ Return \/ Use \/ Enter
  <2>1. UNCHANGED <<pend, at, wrote, obuf, ob, queue, regs>> /\ pc' \notin InHand
    BY <1>4 DEF MatvecRows, Return, Use, Enter, Goto, caller, pool, devices, InHand
  <2> QED
    BY <1>2, <2>1
<1>5. CASE Flush
  <2>1. ~pend'.live
    <3>1. CASE pend.live
      BY <1>5, <3>1, FlushDone DEF Flush, NoPend
    <3>2. CASE ~pend.live
      BY <1>5, <3>2 DEF Flush
    <3> QED
      BY <3>1, <3>2
  <2> QED
    BY <1>1, <2>1
<1>6. ASSUME NEW here, NEW pos, NEW done, FlushAt(here, pos, done),
             here \in InHand \/ done \notin InHand
      PROVE  Owed' /\ OwedRight'
  <2>1. \/ ~pend'.live
        \/ /\ UNCHANGED <<pend, at, wrote, obuf, ob, queue, regs>>
           /\ pc = here /\ pc' \in {done, "rows"}
    BY <1>0, <1>6 DEF FlushAt, FlushPending, NoPend, Goto, caller, devices
  <2> QED
    BY <1>1, <1>2, <1>6, <2>1 DEF InHand
<1>7. CASE \/ FlushOnEntry \/ FlushAfterOutbuf \/ FlushBeforePack \/ FlushAfterSubmit \/ FlushAtOnce
  BY <1>6, <1>7 DEF FlushOnEntry, FlushAfterOutbuf, FlushBeforePack, FlushAfterSubmit,
                    FlushAtOnce, InHand
<1>8. CASE BatchBufs
  <2>1. UNCHANGED <<pend, at, wrote, obuf, ob, queue, regs>> /\ pc' \notin InHand
    BY <1>8 DEF BatchBufs, Goto, caller, InHand
  <2> QED
    BY <1>2, <2>1
<1>9. CASE StartCall \/ AllSubmitted
  <2>1. UNCHANGED <<pend, at, wrote, obuf, ob, queue, regs>> /\ pc \in InHand
    BY <1>9 DEF StartCall, AllSubmitted, caller, pool, devices, InHand
  <2> QED
    BY <1>2, <2>1
<1>10. CASE BatchOutbuf
  <2> DEFINE i == FoundEntry(call.t)
  <2>1. /\ UNCHANGED <<pend, at, wrote, queue, regs>> /\ pc = "outbuf"
        /\ \/ pc' = "flush4" /\ ob' = i
           \/ pc' = "rows" /\ ob' = ob
        /\ \E e : obuf' = [Entries(call.t) EXCEPT ![i] = e]
    BY <1>10 DEF BatchOutbuf, Goto, caller, devices
  <2>2. /\ DOMAIN obuf \subseteq DOMAIN Entries(call.t)
        /\ \A j \in DOMAIN obuf : Entries(call.t)[j] = obuf[j]
        /\ Entries(call.t) \in Seq(Entry)
    BY <2>1, CallKinds, EntryKinds DEF TypeOK, PoolKinds, Inside
  <2>3. CASE pend.live
    <3>1. i # pend.ob
      BY <2>1, <2>3, OwedElsewhere
    <3> HIDE DEF i
    <3>2. obuf'[pend.ob] = obuf[pend.ob]
      BY <1>0, <2>1, <2>2, <2>3, <3>1
    <3> QED
      BY <2>1, <2>3, <3>1, <3>2, OwedFrame DEF Owed, InHand
  <2> QED
    BY <1>1, <2>1, <2>3
<1>11. CASE FinishNow \/ FinishUnsaved
  <2>1. pend' = pend /\ pc = "fence"
    BY <1>11 DEF FinishNow, FinishUnsaved
  <2> QED
    BY <1>0, <1>1, <2>1
<1>12. CASE FinishDeferred
  BY <1>12, OwedFinish
<1>13. ASSUME NEW d \in Devs, SkipDevice(d)
       PROVE  Owed' /\ OwedRight'
  <2>1. UNCHANGED <<pend, at, wrote, obuf, ob, queue, regs>> /\ pc \in InHand
    BY <1>13 DEF SkipDevice, caller, pool, devices, InHand
  <2> QED
    BY <1>2, <2>1
<1>19. ASSUME NEW d \in Devs, EmitFails(d)
       PROVE  Owed' /\ OwedRight'
  <2>1. /\ UNCHANGED <<pend, at, wrote, obuf, ob, queue>> /\ pc \in InHand /\ pc' = "rows"
    BY <1>19 DEF EmitFails, Goto, caller, pool, InHand
  <2>2. PICK stream \in {regs[d], [t |-> call.t, ob |-> ob]} :
          regs' = [regs EXCEPT ![d] = stream]
    BY <1>19 DEF EmitFails
  <2>3. regs \in [Devs -> Stream]
    BY DEF TypeOK, DeviceKinds
  <2>4. CASE pend.live
    <3>1. ob # pend.ob
      BY <2>1, <2>4 DEF Owed
    <3>2. /\ regs'[d] = stream /\ \A e \in Devs : e # d => regs'[e] = regs[e]
      BY <2>2, <2>3
    <3>3. stream = regs[d] \/ stream.ob # pend.ob
      BY <2>2, <3>1
    <3>4. \A e \in Devs : Need(pend.t, e) # {} /\ queue'[e] # <<>> => regs'[e].ob # pend.ob
      BY <2>1, <2>4, <3>2, <3>3 DEF Owed
    <3> QED
      BY <2>1, <2>4, <3>4, OwedFrame DEF InHand
  <2> QED
    BY <1>1, <2>1, <2>4
<1>14. ASSUME NEW d \in Devs, PackAndSubmit(d)
       PROVE  Owed' /\ OwedRight'
  <2>1. /\ UNCHANGED <<pend, at, wrote, ob>> /\ pc \in InHand
        /\ regs' = [regs EXCEPT ![d] = [t |-> call.t, ob |-> ob]]
        /\ \/ /\ \E e : obuf' = [obuf EXCEPT ![ob] = e]
              /\ \E q : queue' = [queue EXCEPT ![d] = q]
           \/ UNCHANGED <<obuf, queue>>
    BY <1>14 DEF PackAndSubmit, caller, InHand
  <2>2. regs \in [Devs -> Stream] /\ queue \in [Devs -> Seq(Job)]
    BY DEF TypeOK, DeviceKinds
  <2>3. CASE pend.live
    <3>1. ob # pend.ob
      BY <2>1, <2>3 DEF Owed
    <3>2. obuf'[pend.ob] = obuf[pend.ob]
      BY <1>0, <2>1, <2>3, <3>1
    <3>3. \A e \in Devs : Need(pend.t, e) # {} /\ queue'[e] # <<>> => regs'[e].ob # pend.ob
      <4>1. regs'[d].ob = ob
        BY <2>1, <2>2
      <4>2. \A e \in Devs : e # d => regs'[e] = regs[e] /\ queue'[e] = queue[e]
        BY <2>1, <2>2
      <4> QED
        BY <2>3, <3>1, <4>1, <4>2 DEF Owed
    <3> QED
      BY <2>1, <2>3, <3>1, <3>2, <3>3, OwedFrame
  <2> QED
    BY <1>1, <2>1, <2>3
<1>15. ASSUME NEW d \in Devs, SerialFence(d)
       PROVE  Owed' /\ OwedRight'
  <2>1. UNCHANGED <<pend, at, wrote, ob, queue, regs, pc>> /\ pc \in InHand /\ obuf' = Fenced(d)
    BY <1>15 DEF SerialFence, caller, devices, InHand
  <2>2. \A i \in DOMAIN obuf : i # ob => obuf'[i] = obuf[i]
    BY <2>1, FencedKind
  <2> QED
    BY <1>0, <2>1, <2>2, OwedFrame DEF Owed
<1>16. ASSUME NEW d \in Devs, FenceAndRead(d)
       PROVE  Owed' /\ OwedRight'
  <2>1. pend' = pend /\ pc = "fence"
    BY <1>16 DEF FenceAndRead
  <2> QED
    BY <1>0, <1>1, <2>1
<1>17. ASSUME NEW d \in Devs, Complete(d)
       PROVE  Owed' /\ OwedRight'
  <2>1. UNCHANGED <<pend, at, wrote, ob, regs, pc>> /\ queue[d] # <<>>
    BY <1>17 DEF Complete, caller
  <2>2. PICK r \in {Head(queue[d]), regs[d]} :
          /\ \A i \in DOMAIN obuf : i # r.ob => obuf'[i] = obuf[i]
          /\ r.ob \in DOMAIN obuf =>
                \E z : obuf'[r.ob] = [obuf[r.ob] EXCEPT !.data[d] = z]
    <3>1. PICK r \in {Head(queue[d]), regs[d]} :
            LET z == [t |-> r.t, in |-> [k \in K |-> IF k \in Need(r.t, d)
                                                     THEN bin[d][k] ELSE NoData]]
            IN /\ \A i \in DOMAIN obuf : i # r.ob => obuf'[i] = obuf[i]
               /\ r.ob \in DOMAIN obuf =>
                     obuf'[r.ob] = [obuf[r.ob] EXCEPT !.data[d] = z]
      BY <1>17, CompleteKinds
    <3> QED
      BY <3>1
  <2>3. queue[d] \in Seq(Job) /\ queue \in [Devs -> Seq(Job)]
    BY DEF TypeOK, DeviceKinds
  <2>4. CASE pend.live
    <3>1. r.ob # pend.ob \/ Need(pend.t, d) = {}
      <4>1. Need(pend.t, d) # {} => regs[d].ob # pend.ob
        BY <2>1, <2>4 DEF Owed
      <4>2. Head(queue[d]).ob # pend.ob
        <5>1. Head(queue[d]) = queue[d][1] /\ 1 \in DOMAIN queue[d]
          BY <2>1, <2>3, HeadTailProperties, EmptySeq
        <5>2. d \in obuf[Head(queue[d]).ob].busy
          BY <5>1 DEF BufferInv, JobsMarked
        <5> QED
          BY <2>4, <5>2 DEF Owed
      <4> QED
        BY <4>1, <4>2
    <3>2. \A e \in Devs : queue'[e] # <<>> => queue[e] # <<>>
      <4>1. queue' = [queue EXCEPT ![d] = Tail(queue[d])]
        BY <1>17 DEF Complete
      <4> QED
        BY <2>1, <2>3, <4>1
    <3>3. /\ obuf'[pend.ob].pending = obuf[pend.ob].pending
          /\ obuf'[pend.ob].busy = obuf[pend.ob].busy
          /\ \A e \in Devs : Need(pend.t, e) # {} =>
                obuf'[pend.ob].data[e] = obuf[pend.ob].data[e]
      <4>1. CASE r.ob # pend.ob
        <5>1. obuf'[pend.ob] = obuf[pend.ob]
          BY <1>0, <2>2, <2>4, <4>1
        <5> QED
          BY <5>1
      <4>2. CASE r.ob = pend.ob /\ Need(pend.t, d) = {}
        <5>1. PICK z : obuf'[r.ob] = [obuf[r.ob] EXCEPT !.data[d] = z]
          BY <1>0, <2>2, <2>4, <4>2
        <5>2. obuf[r.ob] \in Entry
          BY <1>0, <2>4, <4>2
        <5>3. /\ obuf'[r.ob].pending = obuf[r.ob].pending
              /\ obuf'[r.ob].busy = obuf[r.ob].busy
              /\ \A e \in Devs : e # d => obuf'[r.ob].data[e] = obuf[r.ob].data[e]
          BY <5>1, <5>2 DEF Entry
        <5> QED
          BY <4>2, <5>3
      <4> QED
        BY <3>1, <4>1, <4>2
    <3>4. pc' \in InHand => ob' # pend.ob
      BY <2>1, <2>4 DEF Owed
    <3>5. \A e \in Devs : Need(pend.t, e) # {} /\ queue'[e] # <<>> => regs'[e].ob # pend.ob
      BY <2>1, <2>4, <3>2 DEF Owed
    <3> QED
      BY <2>1, <3>3, <3>4, <3>5, OwedFrame
  <2> QED
    BY <1>1, <2>1, <2>4
<1>18. CASE UNCHANGED vars
  BY <1>2, <1>18 DEF vars, caller, pool, devices
<1> QED
  BY <1>3, <1>4, <1>5, <1>7, <1>8, <1>9, <1>10, <1>11, <1>12, <1>13, <1>14, <1>15, <1>16,
     <1>17, <1>18, <1>19 DEF Next, Matmul, BatchLayers

\* The scales saved for an owed gather are enough whatever the calls after it
\* in its group ask batch_bufs for.
LEMMA SavedRoomNext ==
  ASSUME TypeOK, OwedSomewhere, OwedInGroup, SavedRoom, ~unhandled', [Next]_vars
  PROVE  SavedRoom'
<1>1. ASSUME pend'.live => pend.live, UNCHANGED <<sizes, at, m>>
      PROVE  SavedRoom'
  BY <1>1 DEF SavedRoom, sizes, group, Larger
<1>2. CASE BeginGroup
  <2>1. pc = "idle" /\ pend' = pend
    BY <1>2 DEF BeginGroup
  <2> QED
    BY <2>1 DEF OwedInGroup, SavedRoom
<1>3. CASE MatvecRows \/ Return \/ Use \/ Enter \/ StartCall \/ AllSubmitted
  BY <1>1, <1>3 DEF MatvecRows, Return, Use, Enter, StartCall, AllSubmitted, caller, pool
<1>4. CASE Flush
  <2>1. (pend' = pend \/ pend' = NoPend) /\ UNCHANGED <<sizes, at, m>>
    BY <1>4 DEF Flush, FlushPending, caller
  <2> QED
    BY <1>1, <2>1 DEF NoPend
<1>5. CASE \/ FlushOnEntry \/ FlushAfterOutbuf \/ FlushBeforePack \/ FlushAfterSubmit \/ FlushAtOnce
  <2>1. (pend' = pend \/ pend' = NoPend) /\ UNCHANGED <<sizes, at, m>>
    BY <1>5 DEF FlushOnEntry, FlushAfterOutbuf, FlushBeforePack, FlushAfterSubmit,
                FlushAtOnce, FlushAt, FlushPending, caller
  <2> QED
    BY <1>1, <2>1 DEF NoPend
<1>6. CASE BatchBufs
  <2>1. UNCHANGED <<pend, at, nth, m, savedn>> /\ pc = "bufs" /\ pc \in Inside
    BY <1>6 DEF BatchBufs, caller, Inside
  <2>2. CASE ~(pend.live /\ Int8)
    BY <2>1, <2>2 DEF SavedRoom
  <2>3. CASE pend.live /\ Int8
    <3>1. /\ savedn # 0 /\ bd1n # 0 /\ bd1n <= savedn /\ bnks * Larger(bm, m) <= savedn
          /\ NKs(group.calls[1].t) <= bnks
      BY <2>3 DEF SavedRoom
    <3>2. /\ m \in Rows /\ at \in DOMAIN Layer /\ nth \in DOMAIN group.calls
      <4>1. at \in DOMAIN Layer /\ nth \in DOMAIN group.calls /\ (at # 0 => m \in Rows)
        BY <2>1 DEF TypeOK, CallerKinds
      <4>2. DOMAIN Layer = 1..Len(Layer)
        BY LayerAssumption
      <4> QED
        BY <4>1, <4>2
    <3>3. m \in Nat /\ m > 0
      BY <3>2, BatchAssumption
    <3>4. NKs(call.t) = NKs(group.calls[1].t)
      BY <3>2, LayerAssumption DEF call, group
    <3>5. call.t \in Tensors
      BY <2>1, CallKinds DEF TypeOK
    <3>6. PICK n \in Nat : n = NKs(call.t) /\ n # 0
      BY <3>5, SliceCount
    <3>7. /\ bm \in Nat /\ bnks \in Nat /\ bd1n \in Nat /\ savedn \in Nat
      BY DEF TypeOK, SizeKinds
    <3>8. PICK w \in Nat : w = Larger(bm, m) /\ m <= w
      BY <3>3, <3>7 DEF Larger
    <3>9. Larger(bnks, n) = bnks /\ bnks > 0
      BY <3>1, <3>4, <3>6, <3>7 DEF Larger
    <3>10. /\ bnks' = bnks
           /\ \/ bm' = bm /\ bd1n' = bd1n
              \/ bm' = w /\ bd1n' = bnks * w
              \/ bm' = 0 /\ bd1n' \in {bd1n, bnks * w}
      BY <1>6, <2>3, <3>6, <3>8, <3>9 DEF BatchBufs, FailsIf
    <3>11. bnks * w \in Nat /\ bnks * w # 0 /\ bnks * m <= bnks * w
      <4>1. w > 0
        BY <3>3, <3>8
      <4>2. bnks * w > 0
        BY <3>7, <3>8, <3>9, <4>1
      <4>3. PICK e \in Nat : w = m + e
        BY <3>3, <3>8
      <4>4. bnks * (m + e) = bnks * m + bnks * e /\ bnks * e >= 0
        BY <3>3, <3>7, <4>3
      <4> QED
        BY <3>3, <3>7, <3>8, <4>2, <4>3, <4>4
    <3>12. Larger(w, m) = w /\ Larger(0, m) = m
      BY <3>3, <3>8 DEF Larger
    <3>13. bnks * Larger(bm', m) <= savedn /\ bd1n' # 0 /\ bd1n' <= savedn
      BY <3>1, <3>3, <3>7, <3>8, <3>10, <3>11, <3>12
    <3>14. group' = group
      BY <2>1 DEF group
    <3> QED
      BY <2>1, <3>1, <3>10, <3>13, <3>14 DEF SavedRoom
  <2> QED
    BY <2>2, <2>3
<1>7. CASE BatchOutbuf
  <2>1. UNCHANGED <<sizes, at, m, pend>>
    BY <1>7 DEF BatchOutbuf, caller
  <2> QED
    BY <1>1, <2>1
<1>8. CASE FinishNow \/ FinishUnsaved
  BY <1>1, <1>8 DEF FinishNow, FinishUnsaved, caller, pool
<1>9. CASE FinishDeferred
  <2>1. /\ pc = "fence" /\ pc \in Inside /\ pc \in InHand
        /\ UNCHANGED <<at, nth, m, bm, bnks, bd1n>>
        /\ Int8 => savedn' = Larger(savedn, bd1n)
    BY <1>9 DEF FinishDeferred, caller, FailsIf, Inside, InHand
  <2>2. CASE ~Int8
    BY <2>2 DEF SavedRoom
  <2>3. CASE Int8
    <3>1. /\ at \in DOMAIN Layer /\ nth \in DOMAIN group.calls /\ m \in Rows
      <4>1. at \in DOMAIN Layer /\ nth \in DOMAIN group.calls /\ (at # 0 => m \in Rows)
        BY <2>1 DEF TypeOK, CallerKinds
      <4>2. DOMAIN Layer = 1..Len(Layer)
        BY LayerAssumption
      <4> QED
        BY <4>1, <4>2
    <3>2. m \in Nat /\ m > 0
      BY <3>1, BatchAssumption
    <3>3. NKs(call.t) = NKs(group.calls[1].t) /\ call.t \in Tensors
      BY <2>1, <3>1, CallKinds, LayerAssumption DEF TypeOK, call, group
    <3>4. NKs(call.t) \in Nat /\ NKs(call.t) # 0
      BY <3>3, SliceCount
    <3>5. /\ bm \in Nat /\ bnks \in Nat /\ bd1n \in Nat /\ savedn \in Nat
          /\ bm >= m /\ bnks >= NKs(call.t)
          /\ bm # 0 => bd1n = bnks * bm
      BY <2>1 DEF TypeOK, SizeKinds
    <3>6. bm > 0 /\ bnks > 0 /\ bd1n = bnks * bm
      BY <3>2, <3>4, <3>5
    <3>7. bnks * bm > 0
      BY <3>5, <3>6
    <3>8. savedn' \in Nat /\ bd1n <= savedn' /\ savedn' # 0
      BY <2>1, <2>3, <3>5, <3>6, <3>7 DEF Larger
    <3>9. Larger(bm, m) = bm
      BY <3>2, <3>5 DEF Larger
    <3>10. group' = group
      BY <2>1 DEF group
    <3> QED
      BY <2>1, <3>3, <3>5, <3>6, <3>7, <3>8, <3>9, <3>10 DEF SavedRoom
  <2> QED
    BY <2>2, <2>3
<1>10. ASSUME NEW d \in Devs, \/ SkipDevice(d) \/ PackAndSubmit(d) \/ EmitFails(d)
                              \/ SerialFence(d) \/ FenceAndRead(d) \/ Complete(d)
       PROVE  SavedRoom'
  <2>1. UNCHANGED <<sizes, at, m, pend>>
    BY <1>10 DEF SkipDevice, PackAndSubmit, EmitFails, SerialFence, FenceAndRead, Complete,
                 caller, pool
  <2> QED
    BY <1>1, <2>1
<1>11. CASE UNCHANGED vars
  BY <1>1, <1>11 DEF vars, caller, pool
<1> QED
  BY <1>2, <1>3, <1>4, <1>5, <1>6, <1>7, <1>8, <1>9, <1>10, <1>11 DEF Next, Matmul, BatchLayers

-----------------------------------------------------------------------------
\* What a device computes for the call stays right as long as nothing it
\* works on changes.
LEMMA ComputesFrame ==
  ASSUME NEW d \in Devs, Computes(d), UNCHANGED <<at, nth, wrote, ob>>,
         bin'[d] = bin[d], regs'[d] = regs[d], queue'[d] = queue[d],
         obuf'[ob].data[d] = obuf[ob].data[d],
         \A k \in Need(call.t, d) : bd1'[k] = bd1[k] \/ bd1'[k] = Input(call.t, call.x)
  PROVE  Computes(d)'
<1>1. PICK t0, x0 : t0 = call.t /\ x0 = call.x
  OBVIOUS
<1>2. call' = call
  BY DEF call, group
<1>3. /\ \A k \in Need(t0, d) : bin'[d][k] = [x |-> x0, v |-> wrote'[x0], f |-> Factor[t0]]
      /\ regs'[d] = [t |-> t0, ob |-> ob']
      /\ \A j \in DOMAIN queue'[d] : queue'[d][j].ob = ob' => queue'[d][j].t = t0
      /\ queue'[d] # <<>> => queue'[d][Len(queue'[d])].ob = ob'
  BY <1>1 DEF Computes, Input
<1>4. Int8 => \A k \in Need(t0, d) : bd1'[k] = [x |-> x0, v |-> wrote'[x0], f |-> Factor[t0]]
  BY <1>1 DEF Computes, Scaled, Input
<1>5. \/ obuf'[ob'].data[d] =
            [t |-> t0, in |-> [k \in K |-> IF k \in Need(t0, d)
                                           THEN [x |-> x0, v |-> wrote'[x0], f |-> Factor[t0]]
                                           ELSE NoData]]
      \/ \E j \in DOMAIN queue'[d] : queue'[d][j].ob = ob'
  BY <1>1 DEF Computes, Result, Input
<1> QED
  BY <1>1, <1>2, <1>3, <1>4, <1>5 DEF Computes, Scaled, Result, Input

\* A device is handed the bytes of this call: packed now, or held already.
LEMMA PackedRight ==
  ASSUME TypeOK, KeyInv, Alive, ScaleInv, NEW d \in Devs, pc = "pack"
  PROVE  /\ \A k \in Need(call.t, d) : Packed(d)[k] = Input(call.t, call.x)
         /\ Scaled(PackedScales(d), Need(call.t, d), call.t, call.x)
<1>1. call.t \in Tensors /\ call.x \in Buffers
  BY CallKinds DEF TypeOK, Inside
<1>2. Fresh /\ KeysOfGroup
  BY DEF Alive, KeyInv, ScaleInv, BeforeDrop, PackPlaces
<1>3. Need(call.t, d) \subseteq K
  BY <1>1, DealKinds
<1>4. CASE ~Hit(d)
  BY <1>3, <1>4 DEF Packed, PackedScales, Scaled
<1>5. CASE Hit(d)
  <2>1. /\ key[d].valid /\ key[d].x = call.x /\ key[d].f = Factor[call.t]
        /\ Need(call.t, d) \subseteq key[d].ks
    BY <1>5 DEF Hit
  <2>2. \A k \in Need(call.t, d) : bin[d][k] = Input(call.t, call.x)
    BY <1>2, <2>1 DEF Fresh, Input
  <2>3. Int8 => \A k \in Need(call.t, d) : bd1[k] = Input(call.t, call.x)
    BY <1>2, <2>1 DEF KeysOfGroup
  <2> QED
    BY <1>3, <1>5, <2>2, <2>3 DEF Packed, PackedScales, Scaled
<1> QED
  BY <1>4, <1>5

\* A device that is submitted to computes this call's answer, and the others
\* go on with theirs.
LEMMA ComputingSubmit ==
  ASSUME TypeOK, BufferInv, KeyInv, Alive, ScaleInv, Computing, NEW d \in Devs,
         PackAndSubmit(d)
  PROVE  Computing'
<1> DEFINE job == [t |-> call.t, ob |-> ob]
<1>0. /\ pc = "pack" /\ pc \in Inside /\ pc \in InHand /\ d \in left
      /\ UNCHANGED <<at, nth, wrote, ob>>
      /\ bin' = [bin EXCEPT ![d] = Packed(d)] /\ bd1' = PackedScales(d)
      /\ regs' = [regs EXCEPT ![d] = job]
  BY DEF PackAndSubmit, Turn, caller, Inside, InHand
<1>1. /\ call.t \in Tensors /\ call.x \in Buffers
      /\ ob \in DOMAIN obuf /\ obuf[ob] \in Entry /\ obuf \in Seq(Entry) /\ ob \in Nat
      /\ queue \in [Devs -> Seq(Job)] /\ bin \in [Devs -> [K -> Bytes]]
      /\ regs \in [Devs -> Stream] /\ queue[d] \in Seq(Job) /\ job \in Job
  BY <1>0, EntryKind, CallKinds DEF TypeOK, PoolKinds, DeviceKinds, Job
<1>2. CASE pc' = "rows"
  BY <1>2 DEF Computing, Submitted
<1>3. CASE /\ queue' = [queue EXCEPT ![d] = Append(queue[d], job)]
           /\ obuf' = [obuf EXCEPT ![ob].busy = @ \cup {d}]
           /\ left' = left \ {d} /\ pc' = pc
  <2>1. obuf'[ob].data = obuf[ob].data
    <3> DEFINE e == [obuf[ob] EXCEPT !.busy = @ \cup {d}]
    <3>1. obuf' = [obuf EXCEPT ![ob] = e] /\ e.data = obuf[ob].data
      BY <1>1, <1>3 DEF Entry
    <3> HIDE DEF e
    <3> QED
      BY <1>1, <3>1
  <2>2. /\ bin'[d] = Packed(d) /\ regs'[d] = job /\ queue'[d] = Append(queue[d], job)
        /\ \A e \in Devs : e # d => /\ bin'[e] = bin[e] /\ regs'[e] = regs[e]
                                    /\ queue'[e] = queue[e]
    BY <1>0, <1>1, <1>3
  <2>3. call' = call
    BY <1>0 DEF call, group
  <2>4. ASSUME NEW e \in Devs, e # d, Submitted(e)'
        PROVE  Computes(e)'
    <3>1. Computes(e)
      BY <1>0, <1>3, <2>3, <2>4 DEF Computing, Submitted
    <3>2. \A k \in Need(call.t, e) : bd1'[k] = bd1[k] \/ bd1'[k] = Input(call.t, call.x)
      <4>1. Need(call.t, e) \subseteq K
        BY <1>1, DealKinds
      <4> QED
        BY <1>0, <4>1 DEF PackedScales
    <3> QED
      BY <1>0, <2>1, <2>2, <2>4, <3>1, <3>2, ComputesFrame
  <2>5. Computes(d)'
    <3>1. PICK t0, x0 : t0 = call.t /\ x0 = call.x
      OBVIOUS
    <3>2. /\ \A k \in Need(t0, d) : bin'[d][k] = [x |-> x0, v |-> wrote'[x0], f |-> Factor[t0]]
          /\ Int8 => \A k \in Need(t0, d) :
                        bd1'[k] = [x |-> x0, v |-> wrote'[x0], f |-> Factor[t0]]
      BY <1>0, <2>2, <3>1, PackedRight DEF Scaled, Input
    <3>3. regs'[d] = [t |-> t0, ob |-> ob']
      BY <1>0, <2>2, <3>1
    <3>4. PICK l \in Nat : l = Len(queue[d]) /\ DOMAIN queue[d] = 1..l
      BY <1>1
    <3> HIDE DEF job
    <3>5. /\ DOMAIN queue'[d] = 1..(l + 1) /\ queue'[d][l + 1] = job
          /\ \A j \in 1..l : queue'[d][j] = queue[d][j]
      BY <1>1, <2>2, <3>4, AppendProperties
    <3>6. \A j \in 1..l : queue[d][j].ob # ob
      BY <1>0, <3>4 DEF BufferInv, JobsMarked, EntryInHand
    <3>7. \A j \in 1..(l + 1) : j \in 1..l \/ j = l + 1
      OBVIOUS
    <3>8. job.ob = ob /\ job.t = t0 /\ l + 1 \in 1..(l + 1)
      BY <3>1 DEF job
    <3>9. /\ \A j \in DOMAIN queue'[d] : queue'[d][j].ob = ob' => queue'[d][j].t = t0
          /\ \E j \in DOMAIN queue'[d] : queue'[d][j].ob = ob'
      BY <1>0, <3>5, <3>6, <3>7, <3>8
    <3>10. queue'[d][Len(queue'[d])].ob = ob'
      <4>1. Len(queue'[d]) = l + 1
        BY <1>1, <2>2, <3>4, AppendProperties
      <4> QED
        BY <1>0, <3>5, <3>8, <4>1
    <3> QED
      BY <2>3, <3>1, <3>2, <3>3, <3>9, <3>10 DEF Computes, Scaled, Input
  <2> QED
    BY <2>4, <2>5 DEF Computing
<1> QED
  BY <1>2, <1>3 DEF PackAndSubmit, Goto

\* A job that ends leaves in its entry what its device owes.
LEMMA ComputingComplete ==
  ASSUME TypeOK, Computing, NEW d \in Devs, Complete(d)
  PROVE  Computing'
<1>0. UNCHANGED <<at, nth, wrote, ob, pc, left, bin, regs, bd1>>
  BY DEF Complete, caller
<1>1. PICK r \in {Head(queue[d]), regs[d]} :
        LET z == [t |-> r.t, in |-> [k \in K |-> IF k \in Need(r.t, d)
                                                 THEN bin[d][k] ELSE NoData]]
        IN /\ obuf' = [obuf EXCEPT ![r.ob] = [obuf[r.ob] EXCEPT !.data[d] = z]]
           /\ obuf' \in Seq(Entry) /\ DOMAIN obuf' = DOMAIN obuf
           /\ \A i \in DOMAIN obuf : i # r.ob => obuf'[i] = obuf[i]
           /\ r.ob \in DOMAIN obuf =>
                 obuf'[r.ob] = [obuf[r.ob] EXCEPT !.data[d] = z]
           /\ r \in Stream
  BY CompleteKinds
<1> DEFINE z == [t |-> r.t, in |-> [k \in K |-> IF k \in Need(r.t, d)
                                                THEN bin[d][k] ELSE NoData]]
<1>2. /\ \A i \in DOMAIN obuf : i # r.ob => obuf'[i] = obuf[i]
      /\ r.ob \in DOMAIN obuf => obuf'[r.ob] = [obuf[r.ob] EXCEPT !.data[d] = z]
  BY <1>1
<1>3. call' = call
  BY <1>0 DEF call, group
<1>4. PICK l \in Nat : /\ l = Len(queue[d]) /\ DOMAIN queue[d] = 1..l
                       /\ DOMAIN Tail(queue[d]) = 1..(l - 1) /\ Head(queue[d]) = queue[d][1]
                       /\ \A j \in 1..(l - 1) : Tail(queue[d])[j] = queue[d][j + 1]
                       /\ l >= 1
  <2>1. queue[d] \in Seq(Job) /\ queue[d] # <<>>
    BY DEF Complete, TypeOK, DeviceKinds
  <2>2. PICK l \in Nat : l = Len(queue[d]) /\ DOMAIN queue[d] = 1..l /\ l >= 1
    BY <2>1, EmptySeq
  <2>3. /\ Tail(queue[d]) \in Seq(Job) /\ Len(Tail(queue[d])) = l - 1
        /\ \A j \in 1..(l - 1) : Tail(queue[d])[j] = queue[d][j + 1]
        /\ Head(queue[d]) = queue[d][1]
    BY <2>1, <2>2, HeadTailProperties
  <2> QED
    BY <2>2, <2>3
<1>5. queue' = [queue EXCEPT ![d] = Tail(queue[d])] /\ queue \in [Devs -> Seq(Job)]
  BY DEF Complete, TypeOK, DeviceKinds
<1>6. queue'[d] = Tail(queue[d]) /\ \A c \in Devs : c # d => queue'[c] = queue[c]
  BY <1>5
<1>7. SUFFICES ASSUME NEW e \in Devs, Submitted(e)'
               PROVE  Computes(e)'
  BY DEF Computing
<1>8. Computes(e) /\ pc \in InHand /\ pc \in Inside
  BY <1>0, <1>3, <1>7 DEF Computing, Submitted, InHand, Inside
<1>9. ob \in DOMAIN obuf /\ obuf[ob] \in Entry
  BY <1>8, EntryKind
<1> HIDE DEF z
<1>10. CASE e # d
  <2>1. obuf'[ob].data[e] = obuf[ob].data[e]
    BY <1>2, <1>9, <1>10 DEF Entry
  <2> QED
    BY <1>0, <1>6, <1>8, <1>10, <2>1, ComputesFrame
<1>11. CASE e = d
  <2>1. PICK t0, x0 : t0 = call.t /\ x0 = call.x
    OBVIOUS
  <2>2. /\ \A k \in Need(t0, d) : bin'[d][k] = [x |-> x0, v |-> wrote'[x0], f |-> Factor[t0]]
        /\ Int8 => \A k \in Need(t0, d) : bd1'[k] = [x |-> x0, v |-> wrote'[x0], f |-> Factor[t0]]
        /\ regs'[d] = [t |-> t0, ob |-> ob']
    BY <1>0, <1>8, <1>11, <2>1 DEF Computes, Scaled, Input
  <2>3. \A j \in 1..(l - 1) : j + 1 \in 1..l
    BY <1>4
  <2>4. \A j \in DOMAIN queue'[d] : queue'[d][j].ob = ob' => queue'[d][j].t = t0
    BY <1>0, <1>4, <1>6, <1>8, <1>11, <2>1, <2>3 DEF Computes
  <2>7. queue'[d] # <<>> => queue'[d][Len(queue'[d])].ob = ob'
    <3>1. queue[d] \in Seq(Job) /\ queue[d] # <<>>
      BY DEF Complete, TypeOK, DeviceKinds
    <3>2. queue[d][Len(queue[d])].ob = ob
      BY <1>8, <1>11, <3>1 DEF Computes
    <3> QED
      BY <1>0, <1>6, <3>1, <3>2, LastOfTail
  <2> DEFINE whole == [t |-> t0, in |-> [k \in K |->
                           IF k \in Need(t0, d)
                           THEN [x |-> x0, v |-> wrote'[x0], f |-> Factor[t0]] ELSE NoData]]
  <2>5. CASE r.ob = ob
    <3>1. r.t = t0
      <4>1. CASE r = regs[d]
        BY <1>0, <2>2, <4>1
      <4>2. CASE r = queue[d][1]
        <5>1. 1 \in DOMAIN queue[d]
          BY <1>4
        <5> QED
          BY <1>8, <1>11, <2>1, <2>5, <4>2, <5>1 DEF Computes
      <4> QED
        BY <1>4, <4>1, <4>2
    <3>2. z = whole
      BY <1>0, <2>2, <3>1 DEF z
    <3>3. [obuf[ob] EXCEPT !.data[d] = z].data[d] = z
      BY <1>9 DEF Entry
    <3>4. obuf'[ob'].data[d] = whole
      BY <1>0, <1>2, <1>9, <2>5, <3>2, <3>3
    <3> HIDE DEF whole
    <3>5. obuf'[ob'].data[d] = Result(t0, x0, d)'
      BY <3>4 DEF Result, Input, whole
    <3> QED
      BY <1>3, <1>11, <2>1, <2>2, <2>4, <2>7, <3>5 DEF Computes, Scaled, Result, Input
  <2>6. CASE r.ob # ob
    <3>1. r = queue[d][1]
      BY <1>0, <1>4, <2>2, <2>6
    <3>2. obuf'[ob] = obuf[ob]
      BY <1>2, <1>9, <2>6
    <3>3. \/ obuf[ob].data[d] = whole
          \/ \E j \in 1..l : queue[d][j].ob = ob
      BY <1>0, <1>4, <1>8, <1>11, <2>1 DEF Computes, Result, Input
    <3>4. ASSUME NEW j \in 1..l, queue[d][j].ob = ob
          PROVE  \E i \in DOMAIN queue'[d] : queue'[d][i].ob = ob'
      <4>1. j # 1
        BY <2>6, <3>1, <3>4
      <4>2. j - 1 \in 1..(l - 1) /\ (j - 1) + 1 = j
        BY <4>1
      <4> QED
        BY <1>0, <1>4, <1>6, <3>4, <4>2
    <3> HIDE DEF whole
    <3>5. \/ obuf'[ob'].data[d] = whole
          \/ \E j \in DOMAIN queue'[d] : queue'[d][j].ob = ob'
      BY <1>0, <3>2, <3>3, <3>4
    <3> QED
      BY <1>3, <1>11, <2>1, <2>2, <2>4, <2>7, <3>5 DEF Computes, Scaled, Result, Input, whole
  <2> QED
    BY <2>5, <2>6
<1> QED
  BY <1>10, <1>11

\* Every step keeps what the devices compute right.
LEMMA ComputingNext ==
  ASSUME TypeOK, BufferInv, KeyInv, Alive, ScaleInv, Computing, [Next]_vars
  PROVE  Computing'
<1>1. ASSUME pc' \notin {"pack", "flush1", "fence"}
      PROVE  Computing'
  BY <1>1 DEF Computing, Submitted
\* Nothing but the entry's marks changes, and no device becomes a submitted one.
<1>2. ASSUME UNCHANGED <<at, nth, wrote, ob, bin, regs, queue, bd1>>,
             pc \in InHand => obuf'[ob].data = obuf[ob].data,
             \A e \in Devs : Need(call.t, e) # {} /\ Submitted(e)' => Submitted(e)
      PROVE  Computing'
  <2> SUFFICES ASSUME NEW e \in Devs, Submitted(e)'
               PROVE  Computes(e)'
    BY DEF Computing
  <2>1. call' = call
    BY <1>2 DEF call, group
  <2>2. Submitted(e)
    BY <1>2, <2>1 DEF Submitted
  <2>3. Computes(e) /\ obuf'[ob].data = obuf[ob].data
    BY <1>2, <2>2 DEF Computing, Submitted, InHand
  <2> QED
    BY <1>2, <2>3, ComputesFrame
<1>3. CASE BatchLayers
  <2>1. pc' \in {"enter", "return", "flush", "use", "idle"}
    BY <1>3 DEF BatchLayers, BeginGroup, MatvecRows, Return, Flush, FlushPending, Use, Goto
  <2> QED
    BY <1>1, <2>1
<1>4. CASE \/ Enter \/ BatchBufs \/ BatchOutbuf \/ StartCall \/ FinishNow \/ FinishDeferred
           \/ FinishUnsaved \/ FlushOnEntry \/ FlushAfterOutbuf \/ FlushAtOnce
  <2>1. pc' \notin {"pack", "flush1", "fence"}
    BY <1>4 DEF Enter, BatchBufs, BatchOutbuf, StartCall, FinishNow, FinishDeferred,
                FinishUnsaved, FlushOnEntry, FlushAfterOutbuf, FlushAtOnce, FlushAt,
                FlushPending, Goto
  <2> QED
    BY <1>1, <2>1
<1>5. CASE FlushBeforePack
  <2>1. left' = Devs /\ pc' \in {"pack", "rows"}
    BY <1>5 DEF FlushBeforePack, FlushAt, FlushPending, Goto
  <2> QED
    BY <2>1 DEF Computing, Submitted
<1>6. CASE FlushAfterSubmit
  <2>1. /\ UNCHANGED <<at, nth, wrote, ob, bin, regs, queue, bd1>>
        /\ pc = "flush1"
    BY <1>6 DEF FlushAfterSubmit, FlushAt, caller, devices
  <2>2. ob \in DOMAIN obuf
    BY <2>1, EntryKind DEF InHand
  <2>3. obuf'[ob].data = obuf[ob].data
    <3>1. CASE pend.live /\ deferRead = 1
      <4>1. FlushPending("fence", "rows")
        BY <1>6, <3>1 DEF FlushAfterSubmit, FlushAt
      <4> QED
        BY <2>2, <3>1, <4>1, FlushEntries
    <3>2. CASE ~(pend.live /\ deferRead = 1)
      BY <1>6, <3>2 DEF FlushAfterSubmit, FlushAt
    <3> QED
      BY <3>1, <3>2
  <2>4. \A e \in Devs : Need(call.t, e) # {} /\ Submitted(e)' => Submitted(e)
    BY <2>1 DEF Submitted
  <2> QED
    BY <1>2, <2>1, <2>3, <2>4
<1>7. CASE AllSubmitted
  <2>1. /\ UNCHANGED <<at, nth, wrote, ob, bin, regs, queue, bd1, obuf>>
        /\ pc = "pack" /\ left = {}
    BY <1>7 DEF AllSubmitted, caller, devices, pool
  <2>2. \A e \in Devs : Need(call.t, e) # {} /\ Submitted(e)' => Submitted(e)
    BY <2>1 DEF Submitted
  <2> QED
    BY <1>2, <2>1, <2>2
<1>8. ASSUME NEW d \in Devs, SkipDevice(d)
      PROVE  Computing'
  <2>1. /\ UNCHANGED <<at, nth, wrote, ob, bin, regs, queue, bd1, obuf, pc>>
        /\ pc = "pack" /\ left' = left \ {d} /\ Need(call.t, d) = {}
    BY <1>8 DEF SkipDevice, caller, devices, pool
  <2>2. \A e \in Devs : Need(call.t, e) # {} /\ Submitted(e)' => Submitted(e)
    BY <2>1 DEF Submitted
  <2> QED
    BY <1>2, <2>1, <2>2
<1>9. ASSUME NEW d \in Devs, PackAndSubmit(d)
      PROVE  Computing'
  BY <1>9, ComputingSubmit
<1>10. ASSUME NEW d \in Devs, EmitFails(d)
       PROVE  Computing'
  BY <1>1, <1>10 DEF EmitFails, Goto
<1>11. ASSUME NEW d \in Devs, SerialFence(d) \/ FenceAndRead(d)
       PROVE  Computing'
  <2>1. /\ UNCHANGED <<at, nth, wrote, ob, bin, regs, queue, bd1>>
        /\ pc \in InHand /\ obuf' = Fenced(d)
        /\ \/ pc = "pack" /\ pc' = pc /\ left' = left
           \/ pc = "fence"
    BY <1>11 DEF SerialFence, FenceAndRead, caller, devices, InHand
  <2>2. obuf'[ob].data = obuf[ob].data
    <3>1. [obuf[ob] EXCEPT !.busy = @ \ {d}].data = obuf[ob].data
      BY <2>1, EntryKind DEF Entry
    <3> QED
      BY <2>1, <3>1, FencedKind
  <2>3. \A e \in Devs : Need(call.t, e) # {} /\ Submitted(e)' => Submitted(e)
    BY <2>1 DEF Submitted
  <2> QED
    BY <1>2, <2>1, <2>2, <2>3
<1>12. ASSUME NEW d \in Devs, Complete(d)
       PROVE  Computing'
  BY <1>12, ComputingComplete
<1>13. CASE UNCHANGED vars
  <2>1. UNCHANGED <<at, nth, wrote, ob, bin, regs, queue, bd1, obuf, pc, left>>
    BY <1>13 DEF vars, caller, pool, devices
  <2>2. \A e \in Devs : Need(call.t, e) # {} /\ Submitted(e)' => Submitted(e)
    BY <2>1 DEF Submitted
  <2> QED
    BY <1>2, <2>1, <2>2
<1> QED
  BY <1>3, <1>4, <1>5, <1>6, <1>7, <1>8, <1>9, <1>10, <1>11, <1>12, <1>13
     DEF Next, Matmul

-----------------------------------------------------------------------------
\* The ranges that have a share of the devices read.
LEMMA SeenStep ==
  ASSUME NEW t \in Tensors, NEW d \in Devs
  PROVE  SeenAfter({ni \in Ranges(t) : \E k \in KSlices(t) : Deal[t][<<k, ni>>] \notin left}, t, d)
           = {ni \in Ranges(t) : \E k \in KSlices(t) : Deal[t][<<k, ni>>] \notin left \ {d}}
<1> DEFINE some == {ni \in Ranges(t) : \E k \in KSlices(t) : Deal[t][<<k, ni>>] \notin left}
           on == {s[2] : s \in {q \in DOMAIN Deal[t] : Deal[t][q] = d}}
<1>1. on = {ni \in Ranges(t) : \E k \in KSlices(t) : Deal[t][<<k, ni>>] = d}
  <2>1. ASSUME NEW ni \in on
        PROVE  ni \in Ranges(t) /\ \E k \in KSlices(t) : Deal[t][<<k, ni>>] = d
    <3>1. PICK s \in DOMAIN Deal[t] : Deal[t][s] = d /\ s[2] = ni
      BY <2>1
    <3>2. s[1] \in KSlices(t) /\ s[2] \in Ranges(t)
      BY DEF KSlices, Ranges
    <3>3. s = <<s[1], s[2]>>
      BY DealKinds
    <3> QED
      BY <3>1, <3>2, <3>3
  <2>2. ASSUME NEW ni \in Ranges(t), NEW k \in KSlices(t), Deal[t][<<k, ni>>] = d
        PROVE  ni \in on
    <3> DEFINE q == <<k, ni>>
    <3>1. q \in DOMAIN Deal[t] /\ q[2] = ni /\ Deal[t][q] = d
      BY <2>2, DealKinds
    <3> HIDE DEF q
    <3> QED
      BY <3>1
  <2> HIDE DEF on
  <2> QED
    BY <2>1, <2>2
<1> HIDE DEF on
<1>2. some \cup on = {ni \in Ranges(t) : \E k \in KSlices(t) : Deal[t][<<k, ni>>] \notin left \ {d}}
  BY <1>1
<1> QED
  BY <1>2 DEF SeenAfter, on

\* Reading a device adds its slices' terms, each in a place that is empty.
LEMMA ReadStep ==
  ASSUME NEW t \in Tensors, NEW x, NEW o, NEW scales, NEW out, NEW first,
         NEW d \in Devs, d \in left,
         Need(t, d) # {} => o.data[d] = Result(t, x, d) /\ Scaled(scales, Need(t, d), t, x),
         first = {i \in Ranges(t) : \E k \in KSlices(t) : Deal[t][<<k, i>>] \notin left},
         \A i \in first : out[i] = ReadOf(t, x, i),
         NEW ni \in Ranges(t), \E k \in KSlices(t) : Deal[t][<<k, ni>>] \notin left \ {d}
  PROVE  ReadDevices({d}, out, first, t, o, scales)[ni] =
            [sum |-> [k \in K |-> IF k \in KSlices(t) /\ Deal[t][<<k, ni>>] \notin left \ {d}
                                  THEN Term(t, Input(t, x), Input(t, x)) ELSE NoTerm],
             tail |-> 0]
<1> DEFINE ks == {k \in KSlices(t) : /\ <<k, ni>> \in DOMAIN Deal[t]
                                     /\ Deal[t][<<k, ni>>] \in {d}}
           new(k) == Term(o.data[Deal[t][<<k, ni>>]].t, o.data[Deal[t][<<k, ni>>]].in[k],
                          IF Int8 THEN scales[k] ELSE o.data[Deal[t][<<k, ni>>]].in[k])
           old == IF ni \in first THEN out[ni].sum ELSE [k \in K |-> NoTerm]
           right == Term(t, Input(t, x), Input(t, x))
           total == [k \in K |-> IF k \in ks THEN Plus(old[k], new(k)) ELSE old[k]]
           whole == [k \in K |-> IF k \in KSlices(t) /\ Deal[t][<<k, ni>>] \notin left \ {d}
                                 THEN right ELSE NoTerm]
           before == [k \in K |-> IF k \in KSlices(t) /\ Deal[t][<<k, ni>>] \notin left
                                  THEN right ELSE NoTerm]
<1>1. ni \in N /\ \A k \in KSlices(t) : k \in K /\ <<k, ni>> \in DOMAIN Deal[t]
  BY SliceHome
<1>2. ReadDevices({d}, out, first, t, o, scales)[ni]
        = IF ks = {} THEN out[ni]
          ELSE [sum |-> total, tail |-> IF ni \in first THEN out[ni].tail ELSE 0]
  BY <1>1 DEF ReadDevices
<1>3. ASSUME NEW k \in KSlices(t), k \in ks
      PROVE  new(k) = right
  <2>1. Deal[t][<<k, ni>>] = d /\ k \in Need(t, d)
    BY <1>3, SliceHome
  <2>2. o.data[Deal[t][<<k, ni>>]] = Result(t, x, Deal[t][<<k, ni>>])
        /\ (Int8 => scales[k] = Input(t, x))
    BY <2>1 DEF Scaled
  <2> QED
    BY <2>2, TermRead
<1>4. old = before /\ (ni \in first => out[ni] = [sum |-> before, tail |-> 0])
  <2>1. CASE ni \in first
    <3>1. out[ni] = [sum |-> before, tail |-> 0]
      BY <2>1 DEF ReadOf
    <3> HIDE DEF before
    <3> QED
      BY <2>1, <3>1
  <2>2. CASE ni \notin first
    <3>1. \A k \in KSlices(t) : Deal[t][<<k, ni>>] \in left
      BY <2>2
    <3> QED
      BY <2>2, <3>1
  <2> QED
    BY <2>1, <2>2
<1>5. CASE ks = {}
  <2>1. \A k \in KSlices(t) : Deal[t][<<k, ni>>] # d
    BY <1>1, <1>5
  <2>2. ni \in first /\ before = whole
    BY <2>1
  <2> HIDE DEF before, whole, ks, total
  <2>3. out[ni] = [sum |-> whole, tail |-> 0]
    BY <1>4, <2>2
  <2> QED
    BY <1>2, <1>5, <2>3 DEF whole
<1>6. CASE ks # {}
  <2>1. ASSUME NEW k \in K
        PROVE  (IF k \in ks THEN Plus(before[k], new(k)) ELSE before[k]) = whole[k]
    <3>1. CASE k \in ks
      <4>1. k \in KSlices(t) /\ Deal[t][<<k, ni>>] = d
        BY <3>1
      <4>2. before[k] = NoTerm /\ whole[k] = right
        BY <4>1
      <4>3. new(k) = right
        BY <1>3, <3>1, <4>1
      <4> HIDE DEF before, whole, ks, new, right
      <4> QED
        BY <3>1, <4>2, <4>3, PlusNoTerm
    <3>2. CASE k \notin ks
      <4>1. k \in KSlices(t) => Deal[t][<<k, ni>>] # d
        BY <1>1, <3>2
      <4>2. before[k] = whole[k]
        BY <4>1
      <4> HIDE DEF before, whole, ks, new
      <4> QED
        BY <3>2, <4>2
    <3> QED
      BY <3>1, <3>2
  <2>2. total = [k \in K |-> whole[k]]
    <3>1. \A k \in K : (IF k \in ks THEN Plus(old[k], new(k)) ELSE old[k]) = whole[k]
      <4> HIDE DEF old, before, whole, ks, new
      <4> QED
        BY <1>4, <2>1
    <3> HIDE DEF old, whole, ks, new
    <3> QED
      BY <3>1
  <2>3. [k \in K |-> whole[k]] = whole
    OBVIOUS
  <2> HIDE DEF ks, total, whole, before
  <2>4. (IF ni \in first THEN out[ni].tail ELSE 0) = 0
    BY <1>4
  <2> QED
    BY <1>2, <1>6, <2>2, <2>3, <2>4 DEF whole
<1> QED
  BY <1>5, <1>6

\* The device that is fenced has answered, so its share is read whole.
LEMMA ReadingFence ==
  ASSUME TypeOK, Computing, Reading, NEW d \in Devs, FenceAndRead(d)
  PROVE  Reading'
<1>0. /\ pc = "fence" /\ pc \in Inside /\ pc \in InHand /\ d \in left /\ Drained(d, ob)
      /\ left' = left \ {d} /\ UNCHANGED <<at, nth, wrote, deferRead>>
  BY DEF FenceAndRead, caller, Inside, InHand
<1>1. /\ call.t \in Tensors /\ call.x \in Buffers /\ nth \in Places
      /\ y \in [Places -> Answers]
  BY <1>0, CallKinds DEF TypeOK, PoolKinds
<1>2. call' = call /\ (Deferring' <=> Deferring)
  BY <1>0 DEF call, group, Deferring
<1>3. CASE pc' = "rows"
  BY <1>3 DEF Reading
<1>4. CASE Deferring /\ pc' = "fence" /\ seen' = seen
  BY <1>0, <1>2, <1>4 DEF Reading
<1>5. CASE /\ ~Deferring /\ pc' = pc
           /\ y' = [y EXCEPT ![nth] = ReadDevices({d}, @, seen, call.t, obuf[ob], bd1)]
           /\ seen' = SeenAfter(seen, call.t, d)
  <2>0. PICK t0 \in Tensors : t0 = call.t
    BY <1>1
  <2>1. PICK x0 : t0 = call.t /\ x0 = call.x
    BY <2>0
  <2>2. /\ seen = {i \in Ranges(t0) : \E k \in KSlices(t0) : Deal[t0][<<k, i>>] \notin left}
        /\ \A i \in seen : y[nth][i] = ReadOf(t0, x0, i)
    BY <1>0, <1>5, <2>1 DEF Reading
  <2>3. Need(t0, d) # {} => /\ obuf[ob].data[d] = Result(t0, x0, d)
                            /\ Scaled(bd1, Need(t0, d), t0, x0)
    BY <1>0, <2>1 DEF Computing, Computes, Submitted, Drained
  <2>4. seen' = {i \in Ranges(t0) :
                   \E k \in KSlices(t0) : Deal[t0][<<k, i>>] \notin left \ {d}}
    BY <1>5, <2>1, <2>2, SeenStep
  <2>5. y'[nth] = ReadDevices({d}, y[nth], seen, t0, obuf[ob], bd1)
    BY <1>1, <1>5, <2>1
  <2>6. \A i \in seen' : y'[nth][i] =
            [sum |-> [k \in K |-> IF k \in KSlices(t0) /\ Deal[t0][<<k, i>>] \notin left \ {d}
                                  THEN Term(t0, Input(t0, x0), Input(t0, x0)) ELSE NoTerm],
             tail |-> 0]
    <3> DEFINE o == obuf[ob] out == y[nth] first == seen
    <3> SUFFICES ASSUME NEW i \in Ranges(t0),
                        \E k \in KSlices(t0) : Deal[t0][<<k, i>>] \notin left \ {d}
                 PROVE  ReadDevices({d}, out, first, t0, o, bd1)[i] =
            [sum |-> [k \in K |-> IF k \in KSlices(t0) /\ Deal[t0][<<k, i>>] \notin left \ {d}
                                  THEN Term(t0, Input(t0, x0), Input(t0, x0)) ELSE NoTerm],
             tail |-> 0]
      BY <2>4, <2>5
    <3>1. /\ first = {i2 \in Ranges(t0) : \E k \in KSlices(t0) : Deal[t0][<<k, i2>>] \notin left}
          /\ \A i2 \in first : out[i2] = ReadOf(t0, x0, i2)
          /\ Need(t0, d) # {} => o.data[d] = Result(t0, x0, d) /\ Scaled(bd1, Need(t0, d), t0, x0)
      BY <2>2, <2>3
    <3> HIDE DEF o, out, first
    <3> QED
      BY <1>0, <3>1, ReadStep
  <2>7. Input(t0, x0)' = Input(t0, x0)
    BY <1>0 DEF Input
  <2>8. \A i \in seen' : y'[nth'][i] = ReadOf(t0, x0, i)'
    BY <1>0, <2>6, <2>7 DEF ReadOf
  <2> QED
    BY <1>0, <1>2, <1>5, <2>1, <2>4, <2>8 DEF Reading
<1> QED
  BY <1>0, <1>3, <1>4, <1>5 DEF FenceAndRead, Goto

\* Every step keeps what has been read right.
LEMMA ReadingNext ==
  ASSUME TypeOK, Computing, Reading, [Next]_vars
  PROVE  Reading'
<1>1. ASSUME pc' \notin {"flush5", "pack", "flush1", "fence"}
      PROVE  Reading'
  BY <1>1 DEF Reading
<1>2. CASE BatchLayers
  <2>1. pc' \in {"enter", "return", "flush", "use", "idle"}
    BY <1>2 DEF BatchLayers, BeginGroup, MatvecRows, Return, Flush, FlushPending, Use, Goto
  <2> QED
    BY <1>1, <2>1
<1>3. CASE \/ Enter \/ BatchBufs \/ BatchOutbuf \/ FinishNow \/ FinishDeferred
           \/ FinishUnsaved \/ FlushOnEntry \/ FlushAfterOutbuf \/ FlushAtOnce
  <2>1. pc' \notin {"flush5", "pack", "flush1", "fence"}
    BY <1>3 DEF Enter, BatchBufs, BatchOutbuf, FinishNow, FinishDeferred, FinishUnsaved,
                FlushOnEntry, FlushAfterOutbuf, FlushAtOnce, FlushAt, FlushPending, Goto
  <2> QED
    BY <1>1, <2>1
<1>4. CASE StartCall
  <2>1. (pc' = "flush5" /\ seen' = {}) \/ pc' = "rows"
    BY <1>4 DEF StartCall, Goto
  <2> QED
    BY <2>1 DEF Reading
<1>5. CASE FlushBeforePack
  <2>1. pc = "flush5" /\ pc' \in {"pack", "rows"} /\ seen' = seen
    BY <1>5 DEF FlushBeforePack, FlushAt, FlushPending, SeenRestored, Goto
  <2> QED
    BY <2>1 DEF Reading
<1>6. CASE FlushAfterSubmit
  <2>1. /\ pc = "flush1" /\ pc' \in {"fence", "rows"} /\ seen' = seen /\ left' = Devs
        /\ UNCHANGED <<at, nth>>
    BY <1>6 DEF FlushAfterSubmit, FlushAt, FlushPending, SeenRestored, Goto, caller
  <2>2. seen' = {} /\ call' = call
    BY <2>1 DEF Reading, call, group
  <2>3. \A ni \in Ranges(call.t) : \A k \in KSlices(call.t) : Deal[call.t][<<k, ni>>] \in Devs
    <3>1. call.t \in Tensors
      BY <2>1, CallKinds DEF TypeOK, Inside
    <3> QED
      BY <3>1, SliceHome
  <2> QED
    BY <2>1, <2>2, <2>3 DEF Reading
<1>7. CASE AllSubmitted
  <2>1. pc = "pack" /\ pc' = "flush1" /\ seen' = seen
    BY <1>7 DEF AllSubmitted, Goto
  <2> QED
    BY <2>1 DEF Reading
<1>8. ASSUME NEW d \in Devs, SkipDevice(d) \/ PackAndSubmit(d) \/ EmitFails(d) \/ SerialFence(d)
      PROVE  Reading'
  <2>1. pc = "pack" /\ pc' \in {"pack", "rows"} /\ seen' = seen
    BY <1>8 DEF SkipDevice, PackAndSubmit, EmitFails, SerialFence, Goto
  <2> QED
    BY <2>1 DEF Reading
<1>9. ASSUME NEW d \in Devs, FenceAndRead(d)
      PROVE  Reading'
  BY <1>9, ReadingFence
<1>10. ASSUME UNCHANGED <<pc, seen, y, at, nth, deferRead, left, wrote>>
       PROVE  Reading'
  BY <1>10 DEF Reading, ReadOf, Deferring, call, group, Input
<1>11. ASSUME NEW d \in Devs, Complete(d)
       PROVE  Reading'
  BY <1>10, <1>11 DEF Complete, caller
<1>12. CASE UNCHANGED vars
  BY <1>10, <1>12 DEF vars, caller
<1> QED
  BY <1>2, <1>3, <1>4, <1>5, <1>6, <1>7, <1>8, <1>9, <1>11, <1>12 DEF Next, Matmul

-----------------------------------------------------------------------------
\* The scales of the keys stay right as long as nothing they are about changes.
LEMMA ScaleFrame ==
  ASSUME ScaleInv, UNCHANGED <<key, bd1, wrote, at, nth, dead>>, BeforeDrop => BeforeDrop'
  PROVE  ScaleInv'
BY DEF ScaleInv, KeysOfGroup, Input, call, group

\* A device's turn leaves the scales of the rows every valid key names.
LEMMA ScaleTurn ==
  ASSUME TypeOK, pc = "pack", KeysOfGroup, NEW d \in Devs, UNCHANGED <<at, nth, wrote>>,
         \A e \in Devs : e # d => key'[e] = key[e],
         \/ key'[d] = KeyAfter(d)
         \/ Hit(d) /\ key'[d] = key[d]
         \/ ~key'[d].valid,
         \A k \in K : bd1'[k] = PackedScales(d)[k]
  PROVE  KeysOfGroup'
<1>1. /\ call.t \in Tensors /\ call.x = group.calls[1].x /\ nth \in 1..nth
      /\ \A e \in Devs : key[e] \in Keys
  BY CallKinds DEF TypeOK, PoolKinds, Inside
<1>2. call' = call /\ group' = group
  BY DEF call, group
<1>3. PICK t0, x0, f0 : t0 = call.t /\ x0 = call.x /\ f0 = Factor[t0]
  OBVIOUS
<1>4. PICK in0 : in0 = Input(t0, x0) /\ in0 = Input(t0, x0)'
  BY DEF Input
<1>5. Need(t0, d) \subseteq K
  BY <1>1, <1>3, DealKinds
<1>6. \A k \in K : \/ bd1'[k] = bd1[k]
                   \/ bd1'[k] = in0
  BY <1>3, <1>4 DEF PackedScales
<1>7. ASSUME NEW e \in Devs, key'[e].valid, key'[e] = key[e]
      PROVE  /\ key'[e].x = group'.calls[1].x
             /\ \E j \in 1..nth' : key'[e].f = Factor[group'.calls[j].t]
             /\ Int8 /\ key'[e].f = f0 => \A k \in key'[e].ks : bd1'[k] = in0
  <2>1. /\ key[e].x = group.calls[1].x
        /\ \E j \in 1..nth : key[e].f = Factor[group.calls[j].t]
        /\ Int8 /\ key[e].f = f0 => \A k \in key[e].ks : bd1[k] = in0
    BY <1>3, <1>4, <1>7 DEF KeysOfGroup
  <2>2. key[e].ks \subseteq K
    BY <1>1 DEF Keys
  <2> QED
    BY <1>2, <1>6, <1>7, <2>1, <2>2
<1>8. ASSUME key'[d].valid, key'[d] # key[d]
      PROVE  /\ key'[d].x = group'.calls[1].x
             /\ \E j \in 1..nth' : key'[d].f = Factor[group'.calls[j].t]
             /\ Int8 /\ key'[d].f = f0 => \A k \in key'[d].ks : bd1'[k] = in0
  <2>1. key'[d] = KeyAfter(d) /\ ~Hit(d)
    BY <1>8 DEF KeyAfter
  <2>2. Need(t0, d) # {}
    <3>1. ASSUME Need(t0, d) = {}
          PROVE  ~KeyAfter(d).valid
      BY <1>1, <1>3, <2>1, <3>1 DEF KeyAfter, Keys
    <3> QED
      BY <1>8, <2>1, <3>1
  <2>3. key'[d] = [valid |-> TRUE, x |-> x0, m |-> m, f |-> f0, ks |-> Need(t0, d)]
    BY <1>3, <2>1, <2>2 DEF KeyAfter
  <2>4. key'[d].x = x0 /\ key'[d].f = f0 /\ key'[d].ks = Need(t0, d)
    BY <2>3
  <2>5. Int8 => \A k \in Need(t0, d) : bd1'[k] = in0
    BY <1>3, <1>4, <1>5, <2>1 DEF PackedScales
  <2>6. group'.calls[nth'].t = t0 /\ nth' \in 1..nth'
    BY <1>1, <1>2, <1>3 DEF call
  <2> QED
    BY <1>1, <1>2, <1>3, <2>4, <2>5, <2>6
<1>9. \A e \in Devs : key'[e].valid =>
         /\ key'[e].x = group'.calls[1].x
         /\ \E j \in 1..nth' : key'[e].f = Factor[group'.calls[j].t]
         /\ Int8 /\ key'[e].f = f0 => \A k \in key'[e].ks : bd1'[k] = in0
  BY <1>7, <1>8
<1> QED
  BY <1>2, <1>3, <1>4, <1>9 DEF KeysOfGroup

\* The next call of the group has the factor of the one before it or none
\* that a key names.
LEMMA ScaleReturn ==
  ASSUME TypeOK, ScaleInv, FactorsInRow, Return
  PROVE  ScaleInv'
<1>0. /\ pc = "return" /\ pc \in Inside /\ UNCHANGED <<key, bd1, wrote, at, dead>>
      /\ \/ nth < Len(group.calls) /\ nth' = nth + 1
         \/ nth' = nth
  BY DEF Return, pool, Inside
<1>1. CASE nth' = nth
  BY <1>0, <1>1, ScaleFrame DEF BeforeDrop
<1>2. CASE dead
  BY <1>0, <1>2 DEF ScaleInv
<1>3. CASE ~dead /\ nth' = nth + 1 /\ nth < Len(group.calls)
  <2>1. /\ nth \in 1..Len(group.calls) /\ Len(group.calls) \in Nat
        /\ DOMAIN group.calls = 1..Len(group.calls) /\ at \in DOMAIN Layer
    BY <1>0, CallKinds DEF TypeOK, CallerKinds
  <2>2. nth + 1 \in DOMAIN group.calls /\ nth \in DOMAIN group.calls /\ nth < nth + 1
    BY <1>3, <2>1
  <2>3. group' = group /\ call' = group.calls[nth + 1]
    BY <1>0, <1>3 DEF call, group
  <2>4. group.calls[nth + 1].x = call.x
    BY <2>1, <2>2, GroupKinds DEF call, group
  <2>5. KeysOfGroup
    BY <1>0, <1>3 DEF ScaleInv, BeforeDrop
  <2>6. PICK t0, t1, x0 : t0 = call.t /\ t1 = group.calls[nth + 1].t /\ x0 = call.x
    OBVIOUS
  <2>7. SUFFICES ASSUME NEW d \in Devs, key[d].valid
                 PROVE  /\ key[d].x = group.calls[1].x
                        /\ \E j \in 1..(nth + 1) : key[d].f = Factor[group.calls[j].t]
                        /\ Int8 /\ key[d].f = Factor[t1] =>
                              \A k \in key[d].ks :
                                 bd1[k] = [x |-> x0, v |-> wrote[x0], f |-> Factor[t1]]
    BY <1>0, <1>3, <2>3, <2>4, <2>6 DEF ScaleInv, KeysOfGroup, Input
  <2>8. PICK j \in 1..nth : key[d].f = Factor[group.calls[j].t]
    BY <2>5, <2>7 DEF KeysOfGroup
  <2>9. j \in 1..(nth + 1) /\ j \in DOMAIN group.calls /\ (j < nth \/ j = nth)
    BY <2>1
  <2>10. ASSUME Int8, key[d].f = Factor[t1], NEW k \in key[d].ks
         PROVE  bd1[k] = [x |-> x0, v |-> wrote[x0], f |-> Factor[t1]]
    <3>1. Factor[group.calls[j].t] = Factor[t1]
      BY <2>8, <2>10
    <3>2. Factor[t0] = Factor[t1]
      <4>1. CASE j = nth
        BY <2>6, <3>1, <4>1 DEF call
      <4>2. CASE j < nth
        <5>1. \A a, b, c \in DOMAIN Layer[at].calls :
                 /\ a < b /\ b < c
                 /\ Factor[Layer[at].calls[a].t] = Factor[Layer[at].calls[c].t]
                 => Factor[Layer[at].calls[b].t] = Factor[Layer[at].calls[a].t]
          BY <2>1, <2>10 DEF FactorsInRow
        <5>2. Factor[group.calls[nth].t] = Factor[group.calls[j].t]
          BY <2>2, <2>6, <2>9, <3>1, <4>2, <5>1 DEF group
        <5> QED
          BY <2>6, <3>1, <5>2 DEF call
      <4> QED
        BY <2>9, <4>1, <4>2
    <3>3. bd1[k] = Input(t0, x0)
      BY <2>5, <2>6, <2>7, <2>10, <3>2 DEF KeysOfGroup
    <3> QED
      BY <3>2, <3>3 DEF Input
  <2> QED
    BY <2>5, <2>7, <2>8, <2>9, <2>10 DEF KeysOfGroup
<1> QED
  BY <1>0, <1>1, <1>2, <1>3

\* A flush touches no scales, and is not left early before the leader's drop.
LEMMA ScaleFlushes ==
  ASSUME TypeOK, ScaleInv, OwedInGroup, LeadersTaken,
         FlushOnEntry \/ FlushAfterOutbuf \/ FlushBeforePack \/ FlushAfterSubmit \/ FlushAtOnce
  PROVE  ScaleInv'
<1>1. ASSUME NEW here, NEW pos, NEW done, FlushAt(here, pos, done),
             here \notin {"return", "flush", "idle"},
             here = "flush3" /\ nth = 1 => done = "bufs", here = "flush4" => done = "reset",
             here \notin {"enter", "bufs", "outbuf", "reset"}
      PROVE  ScaleInv'
  <2>1. UNCHANGED <<key, bd1, wrote, at, nth, dead>> /\ pc = here /\ pc' \in {done, "rows"}
        /\ (~pend.live => pc' = done)
    BY <1>1 DEF FlushAt, FlushPending, Goto, caller
  <2>2. nth = 1 /\ here # "flush2" => ~pend.live
    BY <1>1, <2>1 DEF OwedInGroup
  <2> QED
    BY <1>1, <2>1, <2>2, ScaleFrame DEF BeforeDrop
<1>2. CASE FlushOnEntry
  <2>1. nth = 1 => call.t \in Taken[m]
    BY <1>2, LeaderTaken DEF FlushOnEntry, FlushAt, Inside
  <2> QED
    BY <1>1, <1>2, <2>1 DEF FlushOnEntry
<1>3. CASE FlushAfterOutbuf \/ FlushBeforePack \/ FlushAfterSubmit \/ FlushAtOnce
  BY <1>1, <1>3 DEF FlushAfterOutbuf, FlushBeforePack, FlushAfterSubmit, FlushAtOnce
<1> QED
  BY <1>2, <1>3

\* Every step keeps the row scales of what the keys name.
LEMMA ScaleNext ==
  ASSUME TypeOK, ScaleInv, OwedInGroup, LeadersTaken, FactorsInRow, ~unhandled', [Next]_vars
  PROVE  ScaleInv'
<1>0. /\ \A d \in Devs : key[d] \in Keys
      /\ key \in [Devs -> Keys]
      /\ pc \in Inside => (nth = 1 => ~call.same)
  BY CallKinds DEF TypeOK, PoolKinds
\* A step that drops every key, or kills the pool, leaves nothing to show.
<1>1. ASSUME \/ dead'
             \/ \A d \in Devs : ~key'[d].valid
      PROVE  ScaleInv'
  BY <1>1 DEF ScaleInv, KeysOfGroup
<1>2. CASE BeginGroup
  <2>1. pc' = "enter" /\ nth' = 1
    BY <1>2 DEF BeginGroup, Goto
  <2> QED
    BY <2>1 DEF ScaleInv, BeforeDrop
<1>3. CASE \/ MatvecRows \/ Use \/ FinishNow \/ FinishDeferred \/ FinishUnsaved \/ AllSubmitted
           \/ Flush
  <2>1. /\ UNCHANGED <<key, bd1, wrote, at, nth, dead>>
        /\ pc \in {"rows", "use", "fence", "pack", "flush"}
    BY <1>3 DEF MatvecRows, Use, FinishNow, FinishDeferred, FinishUnsaved, AllSubmitted,
                Flush, caller, pool
  <2> QED
    BY <2>1, ScaleFrame DEF BeforeDrop
<1>4. CASE Return
  BY <1>4, ScaleReturn
<1>5. CASE Enter
  <2>1. /\ UNCHANGED <<key, bd1, wrote, at, nth, dead>> /\ pc = "enter"
        /\ pc' = IF dead \/ call.t \notin Staged THEN "rows" ELSE "flush3"
    BY <1>5 DEF Enter, Goto, caller, pool
  <2>2. nth = 1 => call.t \in Staged
    BY <2>1, LeaderTaken DEF Inside
  <2>3. CASE dead
    BY <1>1, <2>1, <2>3
  <2>4. CASE ~dead
    BY <2>1, <2>2, <2>4, ScaleFrame DEF BeforeDrop
  <2> QED
    BY <2>3, <2>4
<1>7. CASE \/ FlushOnEntry \/ FlushAfterOutbuf \/ FlushBeforePack \/ FlushAfterSubmit \/ FlushAtOnce
  BY <1>7, ScaleFlushes
<1>8. CASE BatchBufs
  <2>1. CASE UNCHANGED <<key, bd1>> /\ pc' = "outbuf"
    <3>1. UNCHANGED <<wrote, at, nth, dead>> /\ pc = "bufs"
      BY <1>8 DEF BatchBufs, caller
    <3> QED
      BY <2>1, <3>1, ScaleFrame DEF BeforeDrop
  <2>2. CASE key' = Dropped(key)
    <3>1. \A d \in Devs : ~key'[d].valid
      BY <1>0, <2>2 DEF Dropped, Keys
    <3> QED
      BY <1>1, <3>1
  <2> QED
    BY <1>8, <2>1, <2>2 DEF BatchBufs, Goto
<1>9. CASE BatchOutbuf
  <2>1. /\ UNCHANGED <<key, bd1, wrote, at, nth, dead>> /\ pc = "outbuf"
        /\ pc' = "flush4" \/ (pc' = "rows" /\ call.same)
    BY <1>9 DEF BatchOutbuf, caller, Goto, FailsIf
  <2>2. pc' = "rows" => nth # 1
    BY <1>0, <2>1 DEF Inside
  <2> QED
    BY <2>1, <2>2, ScaleFrame DEF BeforeDrop
<1>10. CASE StartCall
  <2>1. /\ UNCHANGED <<bd1, wrote, at, nth, dead>> /\ pc = "reset"
        /\ pc' \in {"flush5", "rows"} /\ key' = LeaderDrops(call)
    BY <1>10 DEF StartCall, caller, pool, Goto, FailsIf, LeaderDrops
  <2>2. CASE call.same
    <3>1. nth # 1
      BY <2>1, <2>2, CallKinds DEF TypeOK, Inside
    <3> QED
      BY <2>1, <2>2, <3>1, ScaleFrame DEF LeaderDrops, BeforeDrop
  <2>3. CASE ~call.same
    <3>1. \A d \in Devs : ~key'[d].valid
      BY <1>0, <2>1, <2>3 DEF LeaderDrops, Dropped, Keys
    <3> QED
      BY <1>1, <3>1
  <2> QED
    BY <2>2, <2>3
<1>11. ASSUME NEW d \in Devs, SkipDevice(d) \/ PackAndSubmit(d)
       PROVE  ScaleInv'
  <2>1. /\ pc = "pack" /\ key' = [key EXCEPT ![d] = KeyAfter(d)]
        /\ UNCHANGED <<wrote, at, nth>>
        /\ bd1' = PackedScales(d) \/ (bd1' = bd1 /\ Need(call.t, d) = {})
        /\ dead' = dead \/ dead' = TRUE
    BY <1>11 DEF SkipDevice, PackAndSubmit, pool, caller
  <2>2. CASE dead'
    BY <1>1, <2>2
  <2>3. CASE ~dead'
    <3>1. KeysOfGroup
      BY <2>1, <2>3 DEF ScaleInv, BeforeDrop
    <3>2. key'[d] = KeyAfter(d) /\ \A e \in Devs : e # d => key'[e] = key[e]
      BY <1>0, <2>1
    <3>3. \A k \in K : bd1'[k] = PackedScales(d)[k]
      BY <2>1 DEF PackedScales
    <3> QED
      BY <2>1, <3>1, <3>2, <3>3, ScaleTurn DEF ScaleInv
  <2> QED
    BY <2>2, <2>3
<1>12. ASSUME NEW d \in Devs, EmitFails(d)
       PROVE  ScaleInv'
  <2>1. /\ pc = "pack" /\ key' = [key EXCEPT ![d].valid = @ /\ Hit(d)]
        /\ UNCHANGED <<wrote, at, nth, dead>> /\ bd1' = PackedScales(d)
    BY <1>12 DEF EmitFails, pool, caller
  <2>2. /\ key'[d] = [key[d] EXCEPT !.valid = key[d].valid /\ Hit(d)]
        /\ \A e \in Devs : e # d => key'[e] = key[e]
    BY <1>0, <2>1
  <2>3. (Hit(d) /\ key'[d] = key[d]) \/ ~key'[d].valid
    <3>1. CASE Hit(d)
      <4>1. key[d] \in Keys /\ key[d].valid
        BY <1>0, <3>1 DEF Hit
      <4>2. key'[d] = [key[d] EXCEPT !.valid = key[d].valid /\ TRUE]
        BY <2>2, <3>1
      <4>4. key'[d] = key[d]
        BY <4>1, <4>2 DEF Keys
      <4> QED
        BY <3>1, <4>4
    <3>2. CASE ~Hit(d)
      BY <1>0, <2>2, <3>2 DEF Keys
    <3> QED
      BY <3>1, <3>2
  <2>4. CASE dead'
    BY <1>1, <2>4
  <2>5. CASE ~dead'
    <3>1. KeysOfGroup
      BY <2>1, <2>5 DEF ScaleInv, BeforeDrop
    <3> QED
      BY <2>1, <2>2, <2>3, <3>1, ScaleTurn DEF ScaleInv
  <2> QED
    BY <2>4, <2>5
<1>13. ASSUME NEW d \in Devs, SerialFence(d) \/ FenceAndRead(d)
       PROVE  ScaleInv'
  <2>1. UNCHANGED <<key, bd1, wrote, at, nth, dead>> /\ pc \in {"pack", "fence"}
    BY <1>13 DEF SerialFence, FenceAndRead, caller
  <2> QED
    BY <2>1, ScaleFrame DEF BeforeDrop
<1>14. ASSUME NEW d \in Devs, Complete(d)
       PROVE  ScaleInv'
  BY <1>14, ScaleFrame DEF Complete, caller, BeforeDrop
<1>15. CASE UNCHANGED vars
  BY <1>15, ScaleFrame DEF vars, caller, pool, BeforeDrop
<1> QED
  BY <1>2, <1>3, <1>4, <1>5, <1>7, <1>8, <1>9, <1>10, <1>11, <1>12, <1>13, <1>14, <1>15
     DEF Next, Matmul, BatchLayers

\* Y is read after the last call of the group.
LEMMA AllReturnedNext ==
  ASSUME TypeOK, AllReturned, [Next]_vars
  PROVE  AllReturned'
<1>1. ASSUME pc' \notin {"flush", "use"}
      PROVE  AllReturned'
  BY <1>1 DEF AllReturned
<1>2. CASE Return
  <2>1. \/ pc' = "enter"
        \/ ~(nth < Len(group.calls)) /\ UNCHANGED <<at, nth>>
    BY <1>2 DEF Return, Goto
  <2>2. nth \in 1..Len(group.calls) /\ Len(group.calls) \in Nat
    BY <1>2, CallKinds DEF Return, TypeOK, Inside
  <2> QED
    BY <2>1, <2>2 DEF AllReturned, group
<1>3. CASE Flush
  BY <1>3 DEF Flush, FlushPending, caller, Goto, AllReturned, group
<1>4. CASE BeginGroup \/ MatvecRows \/ Use
  BY <1>1, <1>4 DEF BeginGroup, MatvecRows, Use, Goto
<1>5. CASE \/ Enter \/ FlushOnEntry \/ BatchBufs \/ BatchOutbuf \/ FlushAfterOutbuf
           \/ StartCall \/ FlushBeforePack \/ AllSubmitted \/ FlushAfterSubmit
           \/ FinishNow \/ FinishDeferred \/ FinishUnsaved \/ FlushAtOnce
  <2>1. pc' \notin {"flush", "use"}
    BY <1>5 DEF Enter, FlushOnEntry, BatchBufs, BatchOutbuf, FlushAfterOutbuf, StartCall,
                FlushBeforePack, AllSubmitted, FlushAfterSubmit, FinishNow, FinishDeferred,
                FinishUnsaved, FlushAtOnce, FlushAt, FlushPending, Goto
  <2> QED
    BY <1>1, <2>1
<1>6. ASSUME NEW d \in Devs, \/ SkipDevice(d) \/ PackAndSubmit(d) \/ EmitFails(d)
                             \/ SerialFence(d) \/ FenceAndRead(d)
      PROVE  AllReturned'
  <2>1. pc' \in {"pack", "fence", "rows"}
    BY <1>6 DEF SkipDevice, PackAndSubmit, EmitFails, SerialFence, FenceAndRead, Goto
  <2> QED
    BY <1>1, <2>1
<1>7. CASE UNCHANGED <<pc, at, nth>>
  BY <1>7 DEF AllReturned, group
<1>8. ASSUME NEW d \in Devs, Complete(d)
      PROVE  AllReturned'
  BY <1>7, <1>8 DEF Complete, caller
<1>9. CASE UNCHANGED vars
  BY <1>7, <1>9 DEF vars, caller
<1> QED
  BY <1>2, <1>3, <1>4, <1>5, <1>6, <1>8, <1>9 DEF Next, Matmul, BatchLayers

-----------------------------------------------------------------------------
\* A call that has its answer goes on having it.
LEMMA HasStays ==
  ASSUME NEW j, UNCHANGED <<at, wrote>>,
         \/ IsProduct(y'[j], group.calls[j].t, group.calls[j].x)
         \/ pend'.live /\ pend'.nth = j
  PROVE  Has(j)'
<1>1. CASE pend'.live /\ pend'.nth = j
  BY <1>1 DEF Has
<1>2. CASE IsProduct(y'[j], group.calls[j].t, group.calls[j].x)
  <2>1. PICK t0, x0, out : t0 = group.calls[j].t /\ x0 = group.calls[j].x /\ out = y'[j]
    OBVIOUS
  <2>2. group' = group
    BY DEF group
  <2>3. IsProduct(out, t0, x0)
    BY <1>2, <2>1
  <2>4. Product(t0, x0)' = Product(t0, x0)
    BY DEF Product, Input
  <2>5. IsProduct(out, t0, x0)'
    BY <2>3, <2>4 DEF IsProduct
  <2> QED
    BY <2>1, <2>2, <2>5 DEF Has, IsProduct, Product, Input
<1> QED
  BY <1>1, <1>2

\* What is answered stays so: for the calls before this one, and for this one if
\* it returns with its answer.
LEMMA AnsweredFrame ==
  ASSUME Answered, pc \in Inside, UNCHANGED <<at, nth>>,
         \A j \in DOMAIN group.calls : j < nth /\ Has(j) => Has(j)',
         pc' \in After => \/ pc \in After /\ (Has(nth) => Has(nth)')
                          \/ Has(nth)'
  PROVE  Answered'
<1> SUFFICES ASSUME NEW j \in DOMAIN group.calls, j < nth \/ (j = nth /\ pc' \in After)
             PROVE  Has(j)'
  BY DEF Answered, group
<1>1. CASE j < nth
  BY <1>1 DEF Answered
<1>2. CASE j = nth /\ pc' \in After
  <2>1. pc \in After => Has(j)
    BY <1>2 DEF Answered
  <2>2. Has(nth)' => Has(j)'
    <3>1. PICK n0 : n0 = nth
      OBVIOUS
    <3> QED
      BY <1>2 DEF Has, group
  <2>3. Has(nth) <=> Has(j)
    BY <1>2
  <2> QED
    BY <1>2, <2>1, <2>2, <2>3
<1> QED
  BY <1>1, <1>2

\* The gather of the call that is owed its answer is the whole of it.
LEMMA GatheredRight ==
  ASSUME TypeOK, Owed, OwedRight, SavedRoom, pend.live
  PROVE  IsProduct(Gathered, pend.t, group.calls[pend.nth].x)
<1>2. pend.t \in Tensors /\ pend.seen = {}
  BY PendKinds DEF TypeOK, PoolKinds, Owed
<1>3. PICK x0 : x0 = group.calls[pend.nth].x
  OBVIOUS
<1>4. /\ \A d \in Devs : Need(pend.t, d) # {} =>
            obuf[pend.ob].data[d] = Result(pend.t, x0, d)
      /\ Scaled(PendScales, KSlices(pend.t), pend.t, x0)
  <2>1. Int8 => PendScales = pend.bd1
    <3>1. savedn \in Nat /\ bd1n \in Nat
      BY DEF TypeOK, SizeKinds
    <3> QED
      BY <3>1 DEF SavedRoom, PendScales
  <2> QED
    BY <1>3, <2>1 DEF OwedRight, Scaled
<1> DEFINE o == obuf[pend.ob] out == y[pend.nth] scales == PendScales t0 == pend.t
<1>5. /\ t0 \in Tensors /\ Scaled(scales, KSlices(t0), t0, x0)
      /\ \A d \in Devs : Need(t0, d) # {} => o.data[d] = Result(t0, x0, d)
  BY <1>2, <1>4
<1>6. Gathered = TailScale(ReadAll(out, {}, t0, o, scales), t0)
  BY <1>2 DEF Gathered
<1> HIDE DEF o, out, scales, t0
<1>7. IsProduct(TailScale(ReadAll(out, {}, t0, o, scales), t0), t0, x0)
  BY <1>5, GatherRight
<1> QED
  BY <1>3, <1>6, <1>7 DEF t0

\* A flush gives the call that is owed its answer the whole of it, and one that
\* fails leaves it owed or has the CPU redo it.
LEMMA FlushedRight ==
  ASSUME TypeOK, OwedInGroup, Owed, OwedRight, SavedRoom, pend.live, pc \in Inside,
         NEW done, NEW otherwise, FlushPending(done, otherwise), ~unhandled',
         UNCHANGED <<at, nth, wrote>>
  PROVE  /\ pc' \in {done, otherwise}
         /\ \A j \in DOMAIN group.calls :
               Has(j) => Has(j)' \/ (j = nth /\ pc' = otherwise /\ pc # "flush")
<1>1. \/ y' = [y EXCEPT ![pend.nth] = Gathered] /\ pc' = done
      \/ UNCHANGED <<y, pend>> /\ pc' = otherwise
      \/ /\ pc = "flush2" /\ pc' = otherwise
         /\ \E a : y' = [y EXCEPT ![pend.nth] = a]
  BY DEF FlushPending, FailsIf, Goto
<1>2. /\ pend.nth \in Places /\ pend.t = group.calls[pend.nth].t
      /\ pend.t \in Tensors /\ y \in [Places -> Answers]
      /\ at \in DOMAIN Layer
  BY PendKinds DEF TypeOK, PoolKinds, CallerKinds, Owed
<1>3. \A j \in DOMAIN group.calls : j \in Places
  BY <1>2, GroupKinds DEF group
<1>4. CASE y' = [y EXCEPT ![pend.nth] = Gathered] /\ pc' = done
  <2>1. ASSUME NEW j \in DOMAIN group.calls, Has(j)
        PROVE  Has(j)'
    <3>1. CASE j = pend.nth
      <4>1. y'[j] = Gathered
        BY <1>2, <1>4, <3>1
      <4> QED
        BY <1>2, <3>1, <4>1, GatheredRight, HasStays
    <3>2. CASE j # pend.nth
      <4>1. y'[j] = y[j]
        BY <1>2, <1>3, <1>4, <3>2
      <4>2. IsProduct(y[j], group.calls[j].t, group.calls[j].x)
        BY <2>1, <3>2 DEF Has
      <4> QED
        BY <4>1, <4>2, HasStays
    <3> QED
      BY <3>1, <3>2
  <2> QED
    BY <1>4, <2>1
<1>5. CASE UNCHANGED <<y, pend>> /\ pc' = otherwise
  <2>1. ASSUME NEW j \in DOMAIN group.calls, Has(j)
        PROVE  Has(j)'
    BY <1>5, <2>1, HasStays DEF Has
  <2> QED
    BY <1>5, <2>1
<1>6. CASE /\ pc = "flush2" /\ pc' = otherwise
           /\ \E a : y' = [y EXCEPT ![pend.nth] = a]
  <2>1. pend.nth = nth
    BY <1>6 DEF OwedInGroup
  <2>2. ASSUME NEW j \in DOMAIN group.calls, Has(j), j # nth
        PROVE  Has(j)'
    <3>1. y'[j] = y[j]
      BY <1>2, <1>3, <1>6, <2>1, <2>2
    <3>2. IsProduct(y[j], group.calls[j].t, group.calls[j].x)
      BY <2>1, <2>2 DEF Has
    <3> QED
      BY <3>1, <3>2, HasStays
  <2> QED
    BY <1>6, <2>2
<1> QED
  BY <1>1, <1>4, <1>5, <1>6

\* When every device has been read, the sum is whole and the tail is scaled once.
LEMMA FinishedRight ==
  ASSUME TypeOK, Reading, FinishNow
  PROVE  IsProduct(y'[nth], call.t, call.x)
<1>0. /\ pc = "fence" /\ pc \in Inside /\ left = {} /\ ~Deferring
      /\ y' = [y EXCEPT ![nth] = TailScale(y[nth], call.t)]
  BY DEF FinishNow, Inside
<1>1. PICK t0, x0 : t0 \in Tensors /\ t0 = call.t /\ x0 = call.x
  BY <1>0, CallKinds DEF TypeOK
<1>2. nth \in Places /\ y \in [Places -> Answers]
  BY <1>0, CallKinds DEF TypeOK, PoolKinds
<1>3. y'[nth] = TailScale(y[nth], t0)
  BY <1>0, <1>1, <1>2
<1>4. /\ seen = {ni \in Ranges(t0) : \E k \in KSlices(t0) : Deal[t0][<<k, ni>>] \notin left}
      /\ \A ni \in seen : y[nth][ni] = ReadOf(t0, x0, ni)
  BY <1>0, <1>1 DEF Reading
<1> SUFFICES ASSUME NEW ni \in Ranges(t0)
             PROVE  TailScale(y[nth], t0)[ni] = Product(t0, x0)[ni]
  BY <1>1, <1>3 DEF IsProduct
<1> DEFINE whole == [k \in K |-> IF k \in KSlices(t0)
                                 THEN Term(t0, Input(t0, x0), Input(t0, x0)) ELSE NoTerm]
<1>5. ni \in seen /\ ni \in N
  BY <1>0, <1>1, <1>4, SliceHome
<1>6. ReadOf(t0, x0, ni) = [sum |-> whole, tail |-> 0]
  BY <1>0 DEF ReadOf
<1>7. Product(t0, x0)[ni] = [sum |-> whole, tail |-> 1]
  BY <1>5 DEF Product
<1> HIDE DEF whole
<1>8. y[nth][ni] = [sum |-> whole, tail |-> 0]
  BY <1>4, <1>5, <1>6
<1>9. [[sum |-> whole, tail |-> 0] EXCEPT !.tail = @ + 1] = [sum |-> whole, tail |-> 1]
  OBVIOUS
<1> QED
  BY <1>5, <1>7, <1>8, <1>9 DEF TailScale

\* The flags could not be saved, so every device is read at once.
LEMMA UnsavedRight ==
  ASSUME TypeOK, BufferInv, Computing, Reading, FinishUnsaved, pc' # "rows"
  PROVE  IsProduct(y'[nth], call.t, call.x)
<1>0. /\ pc = "fence" /\ pc \in Inside /\ left = {} /\ Deferring /\ seen = {}
      /\ y' = [y EXCEPT ![nth] =
                 TailScale(ReadAll(y[nth], seen, call.t, obuf[ob], bd1), call.t)]
  BY DEF FinishUnsaved, Reading, Inside, Goto
<1>1. call.t \in Tensors /\ nth \in Places /\ y \in [Places -> Answers]
  BY <1>0, CallKinds DEF TypeOK, PoolKinds
<1> DEFINE o == obuf[ob] out == y[nth] t0 == call.t x0 == call.x
<1>2. /\ t0 \in Tensors /\ Scaled(bd1, KSlices(t0), t0, x0)
      /\ \A d \in Devs : Need(t0, d) # {} => o.data[d] = Result(t0, x0, d)
  BY <1>0, <1>1, FencedAll
<1>3. y'[nth] = TailScale(ReadAll(out, {}, t0, o, bd1), t0)
  BY <1>0, <1>1
<1> HIDE DEF o, out, t0, x0
<1>4. IsProduct(TailScale(ReadAll(out, {}, t0, o, bd1), t0), t0, x0)
  BY <1>2, GatherRight
<1> QED
  BY <1>3, <1>4 DEF t0, x0

\* Every step keeps the answers of the calls that have returned.
LEMMA AnsweredNext ==
  ASSUME TypeOK, BufferInv, OwedSomewhere, OwedInGroup, Computing, Reading, Owed, OwedRight,
         SavedRoom, Answered, ~unhandled', [Next]_vars
  PROVE  Answered'
<1>0. /\ pc = "fence" => ~pend.live
      /\ y \in [Places -> Answers]
      /\ pc \in Inside => nth \in Places /\ at \in DOMAIN Layer
  BY OwedPlaces, CallKinds DEF OwedSomewhere, TypeOK, PoolKinds, CallerKinds
<1>1. \A j \in DOMAIN group.calls : pc \in Inside => j \in Places
  BY <1>0, GroupKinds DEF group
\* A step that writes no answer of a call before this one.
<1>2. ASSUME pc \in Inside, UNCHANGED <<at, nth, wrote>>,
             pend' = pend \/ ~pend.live,
             \A j \in DOMAIN group.calls : j # nth => y'[j] = y[j],
             pc' \in After => \/ pc \in After /\ y'[nth] = y[nth]
                              \/ IsProduct(y'[nth], call.t, call.x)
                              \/ pend'.live /\ pend'.nth = nth
      PROVE  Answered'
  <2>1. ASSUME NEW j \in DOMAIN group.calls, Has(j), y'[j] = y[j]
        PROVE  Has(j)'
    BY <1>2, <2>1, HasStays DEF Has
  <2>2. \A j \in DOMAIN group.calls : j < nth /\ Has(j) => Has(j)'
    <3>1. ASSUME NEW j \in DOMAIN group.calls, j < nth, Has(j)
          PROVE  Has(j)'
      <4>1. j # nth
        BY <1>2, <3>1, CallKinds DEF TypeOK
      <4> QED
        BY <1>2, <2>1, <3>1, <4>1
    <3> QED
      BY <3>1
  <2>3. nth \in DOMAIN group.calls
    BY <1>2 DEF TypeOK, CallerKinds
  <2>4. pc' \in After => \/ pc \in After /\ (Has(nth) => Has(nth)')
                         \/ Has(nth)'
    <3>1. CASE pc \in After /\ y'[nth] = y[nth]
      <4>1. Has(nth) => \/ IsProduct(y'[nth], group.calls[nth].t, group.calls[nth].x)
                        \/ pend'.live /\ pend'.nth = nth
        BY <1>2, <3>1 DEF Has
      <4>2. PICK n0 : n0 = nth
        OBVIOUS
      <4>3. Has(n0) => Has(n0)'
        BY <1>2, <4>1, <4>2, HasStays
      <4> QED
        BY <1>2, <3>1, <4>2, <4>3 DEF Has
    <3>2. CASE \/ IsProduct(y'[nth], call.t, call.x)
               \/ pend'.live /\ pend'.nth = nth
      <4>1. PICK n0 : n0 = nth
        OBVIOUS
      <4>2. Has(n0)'
        BY <1>2, <3>2, <4>1, HasStays DEF call
      <4> QED
        BY <1>2, <4>1, <4>2 DEF Has
    <3> QED
      BY <1>2, <3>1, <3>2
  <2> QED
    BY <1>2, <2>2, <2>4, AnsweredFrame
<1>3. ASSUME pc \in Inside, UNCHANGED <<at, nth, wrote, y, pend>>, pc' \in After => pc \in After
      PROVE  Answered'
  BY <1>2, <1>3
<1>4. CASE BeginGroup
  <2>1. nth' = 1 /\ pc' = "enter" /\ at' \in DOMAIN Layer
    BY <1>4, GroupEntry DEF BeginGroup, Goto, TypeOK
  <2>2. DOMAIN group'.calls = 1..Len(group'.calls) /\ Len(group'.calls) \in Nat
    BY <2>1, GroupEntry, GroupKinds, GroupSeq DEF group
  <2> QED
    BY <2>1, <2>2 DEF Answered, After
<1>5. CASE MatvecRows
  <2>1. /\ pc = "rows" /\ UNCHANGED <<at, nth, wrote, pend>>
        /\ y' = [y EXCEPT ![nth] = Product(call.t, call.x)]
    BY <1>5 DEF MatvecRows, caller
  <2>2. y'[nth] = Product(call.t, call.x) /\ \A j \in Places : j # nth => y'[j] = y[j]
    BY <1>0, <2>1 DEF Inside
  <2>3. IsProduct(y'[nth], call.t, call.x)
    BY <2>2 DEF IsProduct
  <2> QED
    BY <1>1, <1>2, <2>1, <2>2, <2>3 DEF Inside
<1>6. CASE Return
  <2>1. /\ pc = "return" /\ UNCHANGED <<at, wrote, y, pend>>
        /\ \/ nth' = nth
           \/ nth' = nth + 1 /\ pc' = "enter"
    BY <1>6 DEF Return, Goto
  <2>2. CASE nth' = nth
    BY <1>3, <2>1, <2>2 DEF Inside, After
  <2>3. CASE nth' = nth + 1 /\ pc' = "enter"
    <3>1. /\ nth \in Nat /\ group' = group /\ pc' \notin After
          /\ DOMAIN group.calls = 1..Len(group.calls) /\ Len(group.calls) \in Nat
      BY <2>1, <2>3, CallKinds DEF TypeOK, CallerKinds, Inside, group, After
    <3>2. ASSUME NEW j \in DOMAIN group.calls, j < nth'
          PROVE  Has(j)'
      <4>1. j < nth \/ j = nth
        BY <2>3, <3>1, <3>2
      <4>2. Has(j)
        BY <2>1, <4>1 DEF Answered, Inside, After
      <4> QED
        BY <2>1, <4>2, HasStays DEF Has
    <3> QED
      BY <3>1, <3>2 DEF Answered
  <2> QED
    BY <2>1, <2>2, <2>3
<1>7. CASE Use
  BY <1>7 DEF Use, Goto, Answered, Inside
<1>8. CASE \/ Enter \/ BatchBufs \/ BatchOutbuf \/ StartCall \/ AllSubmitted
  <2>1. /\ UNCHANGED <<at, nth, wrote, y, pend>> /\ pc' \notin After
        /\ pc \in {"enter", "bufs", "outbuf", "reset", "pack"}
    BY <1>8 DEF Enter, BatchBufs, BatchOutbuf, StartCall, AllSubmitted, Goto, caller, After
  <2> QED
    BY <1>3, <2>1 DEF Inside
<1>9. ASSUME pc \in Inside, NEW done, NEW otherwise, UNCHANGED <<at, nth, wrote>>,
             \/ pend.live /\ FlushPending(done, otherwise)
             \/ UNCHANGED <<y, pend>> /\ pc' = done,
             done \in After => pc \in After,
             otherwise \in After => pc = "flush"
      PROVE  Answered'
  <2>1. CASE UNCHANGED <<y, pend>> /\ pc' = done
    BY <1>3, <1>9, <2>1
  <2>2. CASE pend.live /\ FlushPending(done, otherwise)
    <3>1. /\ pc' \in {done, otherwise}
          /\ \A j \in DOMAIN group.calls :
                Has(j) => Has(j)' \/ (j = nth /\ pc' = otherwise /\ pc # "flush")
      BY <1>9, <2>2, FlushedRight
    <3>2. nth \in DOMAIN group.calls /\ nth \in Nat
      BY <1>9 DEF TypeOK, CallerKinds
    <3>3. pc' \in After => pc \in After /\ (Has(nth) => Has(nth)')
      <4>1. PICK n0 \in DOMAIN group.calls : n0 = nth
        BY <3>2
      <4>2. pc' \in After => pc \in After /\ ~(pc' = otherwise /\ pc # "flush")
        BY <1>9, <3>1 DEF After
      <4>3. pc' \in After => (Has(n0) => Has(n0)')
        BY <3>1, <4>2
      <4> QED
        BY <1>9, <4>1, <4>2, <4>3 DEF Has
    <3>4. \A j \in DOMAIN group.calls : j < nth /\ Has(j) => Has(j)'
      BY <3>1, <3>2
    <3> QED
      BY <1>9, <3>3, <3>4, AnsweredFrame
  <2> QED
    BY <1>9, <2>1, <2>2
<1>10. CASE Flush
  <2>1. /\ pc = "flush" /\ UNCHANGED <<at, nth, wrote>>
        /\ \/ pend.live /\ FlushPending("use", "use")
           \/ UNCHANGED <<y, pend>> /\ pc' = "use"
    BY <1>10 DEF Flush, caller, Goto
  <2> QED
    BY <1>9, <2>1 DEF Inside, After
<1>11. ASSUME NEW here \in Inside, NEW pos, NEW done, FlushAt(here, pos, done),
              done \in After => here \in After
       PROVE  Answered'
  <2>1. /\ pc = here /\ UNCHANGED <<at, nth, wrote>>
        /\ \/ pend.live /\ FlushPending(done, "rows")
           \/ UNCHANGED <<y, pend>> /\ pc' = done
    BY <1>11 DEF FlushAt, caller, Goto
  <2> QED
    BY <1>9, <1>11, <2>1 DEF After
<1>12. CASE \/ FlushOnEntry \/ FlushAfterOutbuf \/ FlushBeforePack \/ FlushAfterSubmit
            \/ FlushAtOnce
  BY <1>11, <1>12 DEF FlushOnEntry, FlushAfterOutbuf, FlushBeforePack, FlushAfterSubmit,
                      FlushAtOnce, Inside, After
<1>13. CASE FinishNow
  <2>1. /\ pc = "fence" /\ UNCHANGED <<at, nth, wrote, pend>>
        /\ \E a : y' = [y EXCEPT ![nth] = a]
    BY <1>13 DEF FinishNow, caller
  <2>2. \A j \in Places : j # nth => y'[j] = y[j]
    BY <1>0, <2>1
  <2> QED
    BY <1>1, <1>2, <1>13, <2>1, <2>2, FinishedRight DEF Inside
<1>14. CASE FinishUnsaved
  <2>1. /\ pc = "fence" /\ UNCHANGED <<at, nth, wrote, pend>>
        /\ pc' \in {"return", "rows"}
        /\ y' = y \/ \E a : y' = [y EXCEPT ![nth] = a]
    BY <1>14 DEF FinishUnsaved, caller, Goto
  <2>2. \A j \in Places : j # nth => y'[j] = y[j]
    BY <1>0, <2>1
  <2> QED
    BY <1>1, <1>2, <1>14, <2>1, <2>2, UnsavedRight DEF Inside, After
<1>15. CASE FinishDeferred
  <2>1. /\ pc = "fence" /\ UNCHANGED <<at, nth, wrote, y>>
        /\ pend' = Snapshot
    BY <1>15 DEF FinishDeferred, caller
  <2>2. pend'.live /\ pend'.nth = nth
    BY <2>1 DEF Snapshot
  <2> QED
    BY <1>0, <1>2, <2>1, <2>2 DEF Inside
<1>16. ASSUME NEW d \in Devs, \/ SkipDevice(d) \/ PackAndSubmit(d) \/ EmitFails(d)
                              \/ SerialFence(d)
       PROVE  Answered'
  <2>1. /\ UNCHANGED <<at, nth, wrote, y, pend>> /\ pc' \notin After /\ pc = "pack"
    BY <1>16 DEF SkipDevice, PackAndSubmit, EmitFails, SerialFence, Goto, caller, After
  <2> QED
    BY <1>3, <2>1 DEF Inside
<1>17. ASSUME NEW d \in Devs, FenceAndRead(d)
       PROVE  Answered'
  <2>1. /\ pc = "fence" /\ UNCHANGED <<at, nth, wrote, pend>> /\ pc' \notin After
        /\ y' = y \/ \E a : y' = [y EXCEPT ![nth] = a]
    BY <1>17 DEF FenceAndRead, Goto, caller, After
  <2>2. \A j \in Places : j # nth => y'[j] = y[j]
    BY <1>0, <2>1
  <2> QED
    BY <1>1, <1>2, <2>1, <2>2 DEF Inside
<1>18. ASSUME UNCHANGED <<pc, at, nth, wrote, y, pend>>
       PROVE  Answered'
  <2>1. CASE pc \in Inside
    BY <1>3, <1>18, <2>1
  <2>2. CASE pc \notin Inside
    BY <1>18, <2>2 DEF Answered
  <2> QED
    BY <2>1, <2>2
<1>19. ASSUME NEW d \in Devs, Complete(d)
       PROVE  Answered'
  BY <1>18, <1>19 DEF Complete, caller
<1>20. CASE UNCHANGED vars
  BY <1>18, <1>20 DEF vars, caller
<1> QED
  BY <1>4, <1>5, <1>6, <1>7, <1>8, <1>10, <1>12, <1>13, <1>14, <1>15, <1>16, <1>17, <1>19,
     <1>20 DEF Next, Matmul, BatchLayers

\* What holds together: the kinds and who writes an entry, always; where a
\* gather is owed, the keys, and what has been computed, read and answered, up
\* to the first failure the code gets wrong.
AnswerIInv ==
    /\ TypeOK /\ BufferInv
    /\ unhandled \/ (OwedSomewhere /\ OwedInGroup /\ KeyInv /\ AnswerInv)

\* Nothing is in hand, owed or asked for to begin with.
LEMMA AnswerInit == Init => AnswerInv
BY DEF Init, AnswerInv, Alive, Owed, OwedRight, SavedRoom, Computing, Submitted, ScaleInv,
       BeforeDrop, Reading, Answered, AllReturned, NoPend, PackPlaces, Inside

\* Each of a group's Y is the whole product when batch_layers reads it:
\* whatever was packed or found packed, deferred or read at once, and however
\* a call failed and was redone, up to the first failure the code gets wrong;
\* for a layer whose leaders are taken and whose int8 factors come in a row.
THEOREM AnswersWhole ==
  ASSUME LeadersTaken, FactorsInRow
  PROVE  Spec => []AnswersRight
<1>1. Init => AnswerIInv
  <2>1. Init => OwedSomewhere /\ OwedInGroup /\ KeyInv
    BY DEF Init, OwedSomewhere, OwedInGroup, NoPend, KeyInv, BeforeDrop, PackPlaces
  <2> QED
    BY <2>1, TypeInit, BufferInit, AnswerInit DEF AnswerIInv
<1>2. ASSUME AnswerIInv, [Next]_vars
      PROVE  AnswerIInv'
  <2>1. TypeOK /\ TypeOK' /\ BufferInv /\ BufferInv' /\ (~unhandled' => ~unhandled)
    BY <1>2, TypeNext, BufferNext, FailureNext DEF AnswerIInv
  <2>2. ASSUME ~unhandled'
        PROVE  (OwedSomewhere /\ OwedInGroup /\ KeyInv /\ AnswerInv)'
    <3>1. /\ OwedSomewhere /\ OwedInGroup /\ KeyInv
          /\ Alive /\ Owed /\ OwedRight /\ SavedRoom /\ Computing /\ ScaleInv /\ Reading
          /\ Answered /\ AllReturned
      BY <1>2, <2>1, <2>2 DEF AnswerIInv, AnswerInv
    <3>2. (OwedSomewhere /\ OwedInGroup /\ KeyInv)'
      BY <1>2, <2>1, <2>2, <3>1, OwedNext, OwedInGroupNext, KeyNext
    <3>3. Alive' /\ Owed' /\ OwedRight' /\ SavedRoom'
      BY <1>2, <2>1, <2>2, <3>1, AliveNext, OwedRightNext, SavedRoomNext
    <3>4. Computing' /\ ScaleInv' /\ Reading'
      BY <1>2, <2>1, <2>2, <3>1, ComputingNext, ScaleNext, ReadingNext
    <3>5. Answered' /\ AllReturned'
      BY <1>2, <2>1, <2>2, <3>1, AnsweredNext, AllReturnedNext
    <3> QED
      BY <3>2, <3>3, <3>4, <3>5 DEF AnswerInv
  <2> QED
    BY <2>1, <2>2 DEF AnswerIInv
<1>3. AnswerIInv /\ [Next]_vars => AnswerIInv'
  BY <1>2
<1>4. AnswerIInv => AnswersRight
  <2> SUFFICES ASSUME AnswerIInv, pc = "use", ~unhandled, NEW j \in DOMAIN group.calls
               PROVE  IsProduct(y[j], group.calls[j].t, group.calls[j].x)
    BY DEF AnswersRight
  <2>1. nth = Len(group.calls) /\ ~pend.live /\ pc \in Inside
    BY DEF AnswerIInv, AnswerInv, AllReturned, OwedInGroup, Inside
  <2>2. j \in 1..Len(group.calls) /\ Len(group.calls) \in Nat
    BY <2>1, CallKinds DEF AnswerIInv, TypeOK
  <2>3. Has(j)
    BY <2>1, <2>2 DEF AnswerIInv, AnswerInv, Answered, After
  <2> QED
    BY <2>1, <2>3 DEF Has
<1> QED
  BY <1>1, <1>3, <1>4, PTL DEF Spec
=============================================================================
