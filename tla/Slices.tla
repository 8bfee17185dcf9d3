------------------------------- MODULE Slices -------------------------------
(***************************************************************************)
(* How a weight of n rows and k columns is cut up for the NPU: the width a *)
(* quantiser's group has, the slices along K and along N, and the number   *)
(* of rows a batched call is given at a time.  Arithmetic only: kslice.h,  *)
(* the geometry of charsiu_npu_add, npu_tensor_build's group, and the      *)
(* chunks of npupool.c.                                                    *)
(*                                                                         *)
(* A configuration c is a record of the knobs this arithmetic reads:       *)
(*   kmax, nmax   widest slice of the device along K and N                 *)
(*   even, kfit   CHARSIU_NPU_EVEN_KS, CHARSIU_NPU_KFIT                    *)
(*   group        CHARSIU_NPU_W4_GROUP, the group asked for; 0 if none     *)
(*   groupfit     CHARSIU_NPU_W4_GROUP_FIT                                 *)
(*   w4           four bit weights, the only ones that are grouped         *)
(*   atom         columns of a feature atom                                *)
(***************************************************************************)
EXTENDS Integers, FiniteSets

CeilDiv(a, b) == (a + b - 1) \div b
Least(a, b) == IF a <= b THEN a ELSE b

-----------------------------------------------------------------------------
(* The group the quantiser gives a row of k columns.                       *)

(* The widest proper divisor of k no wider than the group asked for.       *)
ProperDivisors(k, w) ==
    {d \in 2..(IF w < k THEN w ELSE k - 1) : k % d = 0}

GroupAsked(c, k) == IF c.group = 0 \/ c.group > k THEN k ELSE c.group

GroupFitted(c, k) ==
    LET w == GroupAsked(c, k)
    IN IF c.groupfit /\ ProperDivisors(k, w) # {}
       THEN CHOOSE d \in ProperDivisors(k, w) :
                \A e \in ProperDivisors(k, w) : e <= d
       ELSE w

KGroup(c, k) ==
    IF c.w4 /\ k % GroupFitted(c, k) = 0 THEN GroupFitted(c, k) ELSE k

(* What the consumer of that group asks of it.                             *)
Grouped(c, k) ==
    LET grp == KGroup(c, k)
    IN c.w4 /\ grp < k /\ k % grp = 0 /\ grp <= c.kmax

EffKmax(c, k) == IF Grouped(c, k) THEN KGroup(c, k) ELSE c.kmax

-----------------------------------------------------------------------------
(* Slices.                                                                 *)

EvenBase(k, ks, kmax, even, kfit, atom) ==
    LET base == CeilDiv(CeilDiv(k, ks), atom) * atom
    IN IF ~even \/ kfit \/ ks < 2 \/ base > kmax \/ (ks - 1) * base >= k
       THEN 0
       ELSE base

Step(k, ks, kmax, even, kfit, atom) ==
    LET base == EvenBase(k, ks, kmax, even, kfit, atom)
    IN IF base # 0 THEN base ELSE kmax

SliceK0(k, ks, ki, kmax, even, kfit, atom) ==
    ki * Step(k, ks, kmax, even, kfit, atom)

(* Mutant: the last slice is as wide as the others.                        *)
SliceKwFull(k, ks, ki, kmax, even, kfit, atom) ==
    Step(k, ks, kmax, even, kfit, atom)

SliceKw(k, ks, ki, kmax, even, kfit, atom) ==
    LET step == Step(k, ks, kmax, even, kfit, atom)
    IN IF ki + 1 = ks THEN k - ki * step ELSE step

(* The number of K slices; under KFIT the last takes the remainder too.    *)
KSlices(c, k) ==
    LET ks == CeilDiv(k, EffKmax(c, k))
    IN IF c.kfit /\ ks > 1 /\ k % c.kmax # 0 /\ ~Grouped(c, k)
       THEN ks - 1
       ELSE ks

NSlices(c, rows) == CeilDiv(rows, c.nmax)

SliceN(c, rows, ni) == Least(rows - ni * c.nmax, c.nmax)

(* The grid of a tensor's slices, in the order both walks of               *)
(* charsiu_npu_add take: along N inside a K slice.                         *)
Grid(c, k, rows) ==
    LET ks == KSlices(c, k)
        ns == NSlices(c, rows)
        emax == EffKmax(c, k)
    IN [i \in 1..(ks * ns) |->
          LET ki == (i - 1) \div ns
              ni == (i - 1) % ns
          IN [ki |-> ki, ni |-> ni,
              k0 |-> SliceK0(k, ks, ki, emax, c.even, c.kfit, c.atom),
              k |-> SliceKw(k, ks, ki, emax, c.even, c.kfit, c.atom),
              n0 |-> ni * c.nmax,
              n |-> SliceN(c, rows, ni)]]

(* What a device is opened with: regions of its input buffer, and slices   *)
(* of one tensor, for the widest tensor of the model.                      *)
OpenKs(c, maxK) == CeilDiv(maxK, c.kmax) * (IF c.groupfit THEN 2 ELSE 1)
MaxSlices(c, maxK, maxN) == NSlices(c, maxN) * OpenKs(c, maxK)

(* The widest slice any buffer is sized for.                               *)
KmaxWide(c) == c.kmax * (IF c.kfit THEN 2 ELSE 1)
=============================================================================
