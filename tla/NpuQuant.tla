------------------------------ MODULE NpuQuant ------------------------------
(***************************************************************************)
(* src/npuquant.c: the copy of a weight that the NPU path quantises for    *)
(* itself, the kernel that stands in for the NPU over it, and the file     *)
(* that keeps such copies between runs of the program.                     *)
(*                                                                         *)
(* Weights are in half units, so that the midrise grid is whole: an        *)
(* element of value w is 2w here.  They are on a grid the quantiser can    *)
(* represent, which makes its rounding exact.  AWQ's factors, which come   *)
(* from statistics, are any factors.                                       *)
(***************************************************************************)
EXTENDS Kernels

Geo == INSTANCE Slices

-----------------------------------------------------------------------------
(* Codes, two to a byte where packed.                                      *)

\* npu_q_stride_t
Stride(k, packed) == IF packed THEN (k + 1) \div 2 ELSE k

CodeAt(row, i, packed) ==
    LET b == row[i \div 2]
        v == IF i % 2 = 1 THEN High(b) ELSE Low(b)
    IN IF ~packed THEN row[i] ELSE IF v >= 8 THEN v - 16 ELSE v

\* q_put: the even code of a byte clears it, the odd one is laid over it.
PutCode(row, i, v, packed) ==
    IF ~packed THEN [row EXCEPT ![i] = v]
    ELSE IF i % 2 = 1 THEN [row EXCEPT ![i \div 2] = (@ % 16) + 16 * (v % 16)]
    ELSE [row EXCEPT ![i \div 2] = v % 16]

PutAll(codes, k, packed) ==
    LET junk == [b \in 0..(Stride(k, packed) - 1) |-> 255]
        put[i \in 0..k] == IF i = 0 THEN junk
                           ELSE PutCode(put[i - 1], i - 1, codes[i - 1], packed)
    IN put[k]

-----------------------------------------------------------------------------
(* npu_tensor_build.  knobs: bits, group, groupfit, midrise, sym, clip.    *)

GroupWidth(knobs, k) ==
    Geo!KGroup([group |-> knobs.group, groupfit |-> knobs.groupfit, w4 |-> knobs.bits = 4], k)

\* The element of a group that is largest, with its sign.
Extreme(row, is) ==
    row[CHOOSE i \in is : \A j \in is : /\ Magnitude(row[j]) <= Magnitude(row[i])
                                        /\ Magnitude(row[j]) = Magnitude(row[i]) => i <= j]

\* quant_rows: the step of one group of a row, without CHARSIU_NPU_W4_CLIP.
GroupStep(knobs, row, is) ==
    LET vmax == Extreme(row, is)
        amax == Magnitude(vmax)
    IN CASE knobs.bits = 4 /\ knobs.midrise -> amax \div 15
         [] knobs.bits = 4 /\ ~knobs.midrise /\ ~knobs.sym -> (-vmax) \div 16
         [] knobs.bits = 4 /\ ~knobs.midrise /\ knobs.sym -> amax \div 14
         [] knobs.bits = 8 -> amax \div 254

Clamp(v, lo, hi) == IF v < lo THEN lo ELSE IF v > hi THEN hi ELSE v

CodeOf(knobs, x, d) ==
    LET halves == Quotient(x, d)
        v == IF knobs.bits = 4 /\ knobs.midrise THEN (halves - 1) \div 2 ELSE halves \div 2
    IN IF knobs.bits = 4 /\ (~knobs.sym \/ knobs.midrise) THEN Clamp(v, -8, 7)
       ELSE IF knobs.bits = 4 THEN Clamp(v, -7, 7) ELSE Clamp(v, -127, 127)

\* AWQ divides the columns by their factors first; none are <<>>.
Unscaled(row, kscale) ==
    IF kscale = <<>> THEN row ELSE [i \in DOMAIN row |-> row[i] \div kscale[i]]

\* The copy: kgroup, and of each row its codes, the step of each group, wsum.
TensorBuild(knobs, rows, k, kscale) ==
    LET grp == GroupWidth(knobs, k)
        ngrp == Geo!CeilDiv(k, grp)
        members(g) == {i \in 0..(k - 1) : i \div grp = g}
        built(whole) ==
            LET row == Unscaled(whole, kscale)
                d == [g \in 0..(ngrp - 1) |-> GroupStep(knobs, row, members(g))]
                codes == [i \in 0..(k - 1) |-> CodeOf(knobs, row[i], d[i \div grp])]
            IN [q |-> PutAll(codes, k, knobs.bits = 4), scale |-> d,
                wsum |-> Total(k, LAMBDA i : codes[i])]
    IN [k |-> k, kgroup |-> grp, packed |-> knobs.bits = 4, kscale |-> kscale,
        rows |-> [r \in DOMAIN rows |-> built(rows[r])]]

\* w4file_codes, and the block that calls it: somebody else's codes, one
\* step a row.
FromW4File(t, codes, steps) ==
    [t EXCEPT !.kgroup = t.k,
              !.rows = [r \in DOMAIN t.rows |->
                          [q |-> PutAll(codes[r], t.k, t.packed), scale |-> [g \in {0} |-> steps[r]],
                           wsum |-> Total(t.k, LAMBDA i : codes[r][i])]]]

-----------------------------------------------------------------------------
(* npu_matvec, in half units.                                              *)

\* qdot: a first element that is not on a byte, sixteen at a time by unzipping
\* eight bytes, and the rest
Qdot(neon, row, x, lo, len) ==
    LET hi == lo + len
        odd == lo % 2
        from == lo + odd
        wide == IF neon /\ from < hi THEN (hi - from) - ((hi - from) % 16) ELSE 0
        nibble(v) == IF v >= 8 THEN v - 16 ELSE v
        zipped(i) == LET b == row[(from + i) \div 2]
                     IN nibble(IF i % 2 = 0 THEN Low(b) ELSE High(b)) * x[from + i]
        single(i) == CodeAt(row, i, TRUE) * x[i]
        sum(a, b, term(_)) ==
            LET upto[i \in a..b] == IF i = a THEN 0 ELSE upto[i - 1] + term(i - 1)
            IN IF b <= a THEN 0 ELSE upto[b]
    IN sum(lo, IF from <= hi THEN from ELSE hi, single)
       + sum(0, wide, zipped) + sum(from + wide, hi, single)

Idot(row, x, lo, len) ==
    LET upto[i \in 0..len] ==
          IF i = 0 THEN 0 ELSE upto[i - 1] + row[lo + i - 1] * x[lo + i - 1]
    IN upto[len]

\* The activation times the factors, quantised again.
Rescaled(t, a) ==
    LET f == IF t.kscale = <<>> THEN a.f ELSE [i \in DOMAIN a.f |-> a.f[i] * t.kscale[i]]
    IN ActQ1([a EXCEPT !.f = f, !.q1_valid = a.q1_valid /\ t.kscale = <<>>])

\* a16 is CHARSIU_NPU_A16: the activation as floats, its step then 1
NpuMatvec(neon, midrise, a16, t, a, r) ==
    LET row == t.rows[r]
        ngrp == Geo!CeilDiv(t.k, t.kgroup)
        act == Rescaled(t, a)
        x == IF a16 THEN act.f ELSE act.q1
        part(g) ==
            LET lo == g * t.kgroup
                len == IF lo + t.kgroup < t.k THEN t.kgroup ELSE t.k - lo
                ones == [i \in DOMAIN x |-> 1]
            IN 2 * (IF t.packed THEN Qdot(neon, row.q, x, lo, len) ELSE Idot(row.q, x, lo, len))
               + (IF midrise THEN Idot(ones, x, lo, len) ELSE 0)
        acc[g \in 0..ngrp] ==
            IF g = 0 THEN 0 ELSE acc[g - 1] + row.scale[g - 1] * part(g - 1)
    IN acc[ngrp] * (IF a16 THEN 1 ELSE act.d1)

-----------------------------------------------------------------------------
(* The cache of copies.  A file is [head, recs]; the first build of        *)
(* a run decides whether it is read or written anew, and records are taken *)
(* in the order they come.  A run is                                       *)
(*   stamp, model    the stamp of the model file, and what is in it        *)
(*   knobs, mixed    mixed: CHARSIU_NPU_INT8_LAYERS or W4_ONLY             *)
(*   builds          the tensors it quantises, in order                    *)
(*   awq             of each tensor: off, on, or declined -- asked for, but *)
(*                   without the statistics it needs                       *)
(*   full            the record the disk has no room for; 0 if it has      *)
(*   kept            when it is killed: the records that reached the disk  *)
(*                   whole (part of another may have too); kept is Whole   *)
(*                   when it is not killed, Headless when no head did      *)

NoFile == [head |-> <<>>, recs |-> <<>>]
Whole == 99
Headless == -1

Awq(run, t) == IF run.knobs.bits = 4 THEN run.awq[t.name] ELSE "off"

\* What a copy is made of: all that its bytes depend on.  CHARSIU_NPU_W4_SYM
\* moves the plain int4 grid, and CHARSIU_NPU_W4_CLIP its steps.
Copy(run, t) ==
    LET plain == run.knobs.bits = 4 /\ ~run.knobs.midrise
    IN [name |-> t.name, model |-> run.model, bits |-> run.knobs.bits,
        awq |-> Awq(run, t) = "on", midrise |-> run.knobs.bits = 4 /\ run.knobs.midrise,
        sym |-> plain /\ run.knobs.sym, clip |-> plain /\ ~run.knobs.sym /\ run.knobs.clip,
        group |-> GroupWidth(run.knobs, t.k)]

\* wcache_setup's header: one group stands for the model, the first tensor's.
CacheHead(run, t) ==
    <<run.knobs.bits, GroupWidth(run.knobs, t.k), run.knobs.midrise, run.knobs.bits = 4,
      run.knobs.groupfit, run.stamp>>

NGroupsOf(run, t) == Geo!CeilDiv(t.k, GroupWidth(run.knobs, t.k))
Record(run, t) ==
    [name |-> t.name, n |-> t.n, k |-> t.k, ngrp |-> NGroupsOf(run, t), copy |-> Copy(run, t)]

\* wc: use is "unasked", "off", "reading" or "writing"; at is the next record
WcacheSetup(run, wc, t) ==
    IF wc.use # "unasked" THEN wc
    ELSE IF run.mixed THEN [wc EXCEPT !.use = "off"]
    ELSE IF wc.file.head = CacheHead(run, t) THEN [wc EXCEPT !.use = "reading"]
    ELSE [wc EXCEPT !.use = "writing", !.file = [NoFile EXCEPT !.head = CacheHead(run, t)]]

\* As if the number of groups were not looked at.
StepsAsRecorded(run, rec, t) == rec.name = t.name /\ rec.n = t.n /\ rec.k = t.k
InStep(run, rec, t) ==
    /\ rec.name = t.name /\ rec.n = t.n /\ rec.k = t.k
    /\ rec.ngrp = NGroupsOf(run, t)

\* One npu_tensor_build: wcache_read, or the quantiser and wcache_write.  A
\* file that ends stays open; one that is out of step is closed.  A tensor AWQ
\* declines is not looked up, and yet written.
Build(run, wc0, t) ==
    LET wc == IF Awq(run, t) = "off" THEN WcacheSetup(run, wc0, t) ELSE wc0
        readable == Awq(run, t) = "off" /\ wc.use = "reading" /\ wc.at <= Len(wc.file.recs)
        rec == wc.file.recs[wc.at]
        got == readable /\ InStep(run, rec, t)
        after == CASE got -> [wc EXCEPT !.at = @ + 1]
                   [] readable /\ ~got -> [wc EXCEPT !.use = "off"]
                   [] wc.use = "writing" /\ Awq(run, t) # "on" ->
                        IF Len(wc.file.recs) + 1 = run.full
                        THEN [wc EXCEPT !.use = "off", !.file = NoFile]
                        ELSE [wc EXCEPT !.file.recs = Append(@, Record(run, t))]
                   [] OTHER -> wc
    IN [after EXCEPT !.built = Append(@, IF got THEN rec.copy ELSE Copy(run, t))]

\* What is left of a file that was being written when the program was killed.
Left(run, wc) ==
    IF wc.use # "writing" \/ run.kept = Whole THEN wc.file
    ELSE IF run.kept = Headless THEN NoFile
    ELSE [wc.file EXCEPT !.recs = SubSeq(@, 1, Geo!Least(run.kept, Len(@)))]

RunOver(file, run) ==
    LET wc[i \in 0..Len(run.builds)] ==
          IF i = 0 THEN [use |-> "unasked", at |-> 1, file |-> file, built |-> <<>>]
          ELSE Build(run, wc[i - 1], run.builds[i])
        end == wc[Len(run.builds)]
    IN [file |-> Left(run, end), built |-> end.built]

Unasked(run) == [i \in DOMAIN run.builds |-> Copy(run, run.builds[i])]
=============================================================================
