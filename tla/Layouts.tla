------------------------------ MODULE Layouts ------------------------------
(***************************************************************************)
(* Where src/regcmd.c and src/job.c put every element of an operand: the   *)
(* weight tiles, the activation surface, the accumulator the hardware      *)
(* writes back, and the coefficient buffer.  The hardware's own constants  *)
(* (16 channels, 32 k, atoms of 8 and 16) are kept; only shapes are small. *)
(*                                                                         *)
(* A matmul mm is a record: m rows, k the reduction, n channels, w the     *)
(* type of the weights and a that of the activations.  A buffer is a       *)
(* function from places to what was put there.                             *)
(***************************************************************************)
EXTENDS Integers, Sequences, FiniteSets, TLC

Zero == "zero"
Leftover == "leftover"   \* what was there before
NoPlace == -1

AlignUp(x, a) == ((x + a - 1) \div a) * a
Smaller(x, y) == IF x < y THEN x ELSE y

FeatureAtom(dt) == CASE dt = "int4" -> 32 [] dt = "int8" -> 16 [] dt = "fp16" -> 8
WeightNGroup(dt) == IF dt = "fp16" THEN 16 ELSE 32
WeightKGroup(dt) == IF dt = "int4" THEN 64 ELSE 32

(* int4 weights are met by 16-bit activations, whatever was asked for.     *)
EffectiveAtype(mm) == IF mm.w = "int4" THEN "fp16" ELSE mm.a
KEff(mm) == AlignUp(mm.k, FeatureAtom(EffectiveAtype(mm)))
NPad(mm) == AlignUp(mm.n, 2)

WeightElements(mm) == KEff(mm) * NPad(mm)

-----------------------------------------------------------------------------
(* Mutant: an edge tile is as wide as a whole one.                         *)
GroupIndexUncut(mm, n, k) ==
    LET ng == WeightNGroup(mm.w)
        kg == WeightKGroup(mm.w)
    IN (n \div ng) * ng * KEff(mm) + (k \div kg) * kg * ng + (n % ng) * kg + (k % kg)

(* The weight tile [N/ng][K/kg][N%ng][K%kg], edge tiles cut short.         *)
GroupIndex(mm, n, k) ==
    LET ng == WeightNGroup(mm.w)
        kg == WeightKGroup(mm.w)
        ngsz == Smaller(NPad(mm) - (n \div ng) * ng, ng)
        kgsz == Smaller(KEff(mm) - (k \div kg) * kg, kg)
    IN (n \div ng) * ng * KEff(mm) + (k \div kg) * kg * ngsz + (n % ng) * kgsz + (k % kg)

W16Offset(mm, n, k, layout) ==
    IF n >= NPad(mm) \/ k >= mm.k THEN NoPlace
    ELSE CASE layout = "dense" -> n * KEff(mm) + k
           [] layout = "atom" -> (k \div 8) * NPad(mm) * 8 + n * 8 + (k % 8)
           [] layout = "group" -> GroupIndex(mm, n, k)

(* The nibble of an int4 weight; a block that would begin past the end of  *)
(* the buffer is not written.                                              *)
Int4Nibble(mm, n, k) ==
    LET kb == AlignUp(KEff(mm), 32)
        block == (n \div 16) * 512 * (kb \div 32) + (n % 16) * 32 + (k \div 32) * 512
        run == Smaller(Smaller(mm.k, KEff(mm)) - (k \div 32) * 32, 32)
    IN IF (block + run - 1) \div 2 >= WeightElements(mm) \div 2 THEN NoPlace
       ELSE block + (k % 32)

(* pack_weights_rows: what rows n0..n0+nrows-1 of the weights write.       *)
WeightPlace(mm, n, k) ==
    IF mm.w = "int4" THEN Int4Nibble(mm, n, k) ELSE GroupIndex(mm, n, k)

ByteOf(mm, place) == IF mm.w = "int4" THEN place \div 2 ELSE place

RowsBytes(mm, n0, nrows) ==
    {ByteOf(mm, WeightPlace(mm, n, k)) : n \in n0..(n0 + nrows - 1), k \in 0..(mm.k - 1)}

-----------------------------------------------------------------------------
(* The activation surface [K/g][M][g].                                     *)
InputPlace(mm, g, i, kk) == (kk \div g) * mm.m * g + i * g + (kk % g)

(* The whole of it at once: cleared, then every element stored.            *)
PackWhole(mm, g, size) ==
    [p \in 0..(size - 1) |->
        IF \E i \in 0..(mm.m - 1), kk \in 0..(mm.k - 1) : InputPlace(mm, g, i, kk) = p
        THEN CHOOSE e \in (0..(mm.m - 1)) \X (0..(mm.k - 1)) :
                InputPlace(mm, g, e[1], e[2]) = p
        ELSE Zero]

(* Mutant: what is past the last whole group is left as it was.            *)
EdgesUncleared(mm, g, buf) ==
    LET ng == mm.k \div g
        base == ng * mm.m * g
    IN [p \in DOMAIN buf |->
          LET at == p - base
          IN IF p >= base /\ at \div g < mm.m /\ at % g < mm.k % g
             THEN <<at \div g, ng * g + (at % g)>> ELSE buf[p]]

(* What the packer that is split over the pool does: pack_input_f16_edges  *)
(* clears from the last whole group on and stores the remainder of k, ...  *)
Edges(mm, g, buf) ==
    LET ng == mm.k \div g
        base == ng * mm.m * g
    IN [p \in DOMAIN buf |->
          IF p < base THEN buf[p]
          ELSE LET at == p - base
               IN IF at \div g < mm.m /\ at % g < mm.k % g
                  THEN <<at \div g, ng * g + (at % g)>> ELSE Zero]

(* ... and pack_input_f16_groups stores the groups of a range.             *)
Groups(mm, g, buf, g0, ng) ==
    [p \in DOMAIN buf |->
        LET grp == p \div (mm.m * g)
            at == p % (mm.m * g)
        IN IF grp \in g0..(g0 + ng - 1)
           THEN <<at \div g, grp * g + (at % g)>> ELSE buf[p]]

NGroups(mm, g) == IF mm.m > 1 THEN mm.k \div g ELSE 0

PackSplit(mm, g, size, cut) ==
    LET old == [p \in 0..(size - 1) |-> Leftover]
    IN Groups(mm, g, Groups(mm, g, Edges(mm, g, old), 0, cut), cut, NGroups(mm, g) - cut)

(* One row is contiguous, and only what is past it is cleared.             *)
PackOneRow(mm, size) ==
    [p \in 0..(size - 1) |-> IF p < mm.k THEN <<0, p>> ELSE Zero]

-----------------------------------------------------------------------------
(* The KV surfaces: keys are appended a row at a time along n, values a    *)
(* column at a time along k.                                               *)
KRow(hd, nk, pos) ==
    LET mm == [m |-> 1, k |-> hd, n |-> nk, w |-> "fp16", a |-> "fp16"]
    IN [d \in 0..(hd - 1) |->
          LET d0 == (d \div WeightKGroup("fp16")) * WeightKGroup("fp16")
          IN W16Offset(mm, pos, d0, "group") + d - d0]

(* The matmul whose weights are hd columns of values, kv positions long.   *)
VMat(kv, hd) == [m |-> 1, k |-> kv, n |-> hd, w |-> "fp16", a |-> "fp16"]

VColPlace(kv, hd, pos, d) ==
    LET ng == WeightNGroup("fp16")
        n0 == (d \div ng) * ng
        run == Smaller(hd - n0, ng)
        o0 == W16Offset(VMat(kv, hd), n0, pos, "group")
        stride == IF run > 1 THEN W16Offset(VMat(kv, hd), n0 + 1, pos, "group") - o0 ELSE 0
    IN o0 + (d - n0) * stride

(* pack_vcol: the values of one position.                                  *)
PackCol(buf, kv, hd, pos) ==
    LET places == {VColPlace(kv, hd, pos, d) : d \in 0..(hd - 1)}
    IN [p \in DOMAIN buf \cup places |->
          IF p \in places
          THEN <<pos, CHOOSE d \in 0..(hd - 1) : VColPlace(kv, hd, pos, d) = p>> ELSE buf[p]]

(* A cleared surface with the positions below live packed into it.         *)
PackValues(buf, kv, hd, live) ==
    LET packed[n \in 0..live] ==
          IF n = 0 THEN buf ELSE PackCol(packed[n - 1], kv, hd, n - 1)
    IN packed[live]

FreshValues(kv, hd, live, size) == PackValues([p \in 0..(size - 1) |-> Zero], kv, hd, live)

(* charsiu_fp16_regrow_vcols: the block of every 16 channels moves to its  *)
(* place under the longer extent, the last block first, and in place what  *)
(* it left inside its new block is cleared.                                *)
Moved(buf, from, to, len) ==
    [p \in DOMAIN buf |-> IF p \in to..(to + len - 1) THEN buf[p - to + from] ELSE buf[p]]

Cleared(buf, first, len) ==
    [p \in DOMAIN buf |-> IF p \in first..(first + len - 1) THEN Zero ELSE buf[p]]

(* Mutant: what a block left behind is not cleared.                        *)
RegrowBlockUncleared(buf, kvOld, kvNew, hd, live, n0) ==
    LET ng == WeightNGroup("fp16")
        ngsz == Smaller(AlignUp(hd, 2) - n0, ng)
    IN Moved(buf, W16Offset(VMat(kvOld, hd), n0, 0, "group"),
             W16Offset(VMat(kvNew, hd), n0, 0, "group"),
             AlignUp(live, WeightKGroup("fp16")) * ngsz)

RegrowBlock(buf, kvOld, kvNew, hd, live, n0) ==
    LET ng == WeightNGroup("fp16")
        kg == WeightKGroup("fp16")
        ngsz == Smaller(AlignUp(hd, 2) - n0, ng)
        from == W16Offset(VMat(kvOld, hd), n0, 0, "group")
        to == W16Offset(VMat(kvNew, hd), n0, 0, "group")
        len == AlignUp(live, kg) * ngsz
    IN Cleared(Moved(buf, from, to, len), to + len, ngsz * KEff(VMat(kvNew, hd)) - len)

RegrowRefused(kvOld, kvNew, hd, live) ==
    \/ hd = 0 \/ live = 0 \/ kvNew < kvOld \/ live > kvOld
    \/ KEff(VMat(kvOld, hd)) % WeightKGroup("fp16") # 0
    \/ KEff(VMat(kvNew, hd)) % WeightKGroup("fp16") # 0

RegrowInPlace(buf, kvOld, kvNew, hd, live) ==
    LET ng == WeightNGroup("fp16")
        last == (AlignUp(hd, 2) - 1) \div ng
        from[b \in 0..last] ==
          RegrowBlock(IF b = last THEN buf ELSE from[b + 1], kvOld, kvNew, hd, live, b * ng)
    IN from[0]

-----------------------------------------------------------------------------
(* Where the hardware leaves row mi of channel ni of an m-row matmul: on   *)
(* the width axis of int4 weights, and otherwise.                          *)
AccIndex(mi, ni, m, w4wide) ==
    LET half == m \div 2
        a == (ni % 32) \div 16
        t == ni % 16
        group == (ni \div 32) * m * 32
        four == (t \div 4) * 8 * half + (t % 4)
    IN IF m < 2 THEN ni
       ELSE IF w4wide THEN group + a * 32 * half + four + (mi \div 2) * 8 + (mi % 2) * 4
       ELSE group + (mi \div half) * 32 * half + four + (mi % half) * 8 + a * 4

AccWidthOk(m) == m % 2 = 0

-----------------------------------------------------------------------------
(* The coefficient buffer: records of eight channels (8 int32 A, 8 int16   *)
(* B, 8 int16 C), one half a channel, and the second operand.              *)
TableBytes(mm) == ((mm.n + 7) \div 8) * 64
ScaleBytes(mm) == AlignUp(mm.n, 8) * 2
CoefBytes(mm) == TableBytes(mm) + 65536 * 4 + 256
OperandAt(mm) == TableBytes(mm) + ScaleBytes(mm)

CoefFields(mm) ==
    LET rec(oc) == (oc \div 8) * 64
    IN {[at |-> rec(oc) + (oc % 8) * 4, bytes |-> 4, what |-> <<"A", oc>>]
           : oc \in 0..(AlignUp(mm.n, 8) - 1)}
       \cup {[at |-> rec(oc) + 32 + (oc % 8) * 2, bytes |-> 2, what |-> <<"B", oc>>]
           : oc \in 0..(AlignUp(mm.n, 8) - 1)}
       \cup {[at |-> rec(oc) + 48 + (oc % 8) * 2, bytes |-> 2, what |-> <<"C", oc>>]
           : oc \in 0..(AlignUp(mm.n, 8) - 1)}
       \cup {[at |-> TableBytes(mm) + oc * 2, bytes |-> 2, what |-> <<"scale", oc>>]
           : oc \in 0..(AlignUp(mm.n, 8) - 1)}
       \cup {[at |-> OperandAt(mm), bytes |-> 4, what |-> <<"operand", 0>>]}
=============================================================================
