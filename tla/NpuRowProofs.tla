---------------------------- MODULE NpuRowProofs ----------------------------
(***************************************************************************)
(* Proofs about NpuRow and the two modules under it: that Slices' cuts     *)
(* tile a weight, that NpuStage deals slices to regions of their own and   *)
(* remembers truthfully what it staged, and that a token's product is      *)
(* whole whenever the fences of its call were met.                         *)
(***************************************************************************)
EXTENDS NpuRow, FiniteSetTheorems, SequenceTheorems, WellFoundedInduction, TLAPS

-----------------------------------------------------------------------------
(* Division, and greatest elements.                                        *)

\* Quotient and remainder.
LEMMA DivMod ==
  ASSUME NEW a \in Int, NEW b \in Nat \ {0}
  PROVE  /\ a \div b \in Int /\ a % b \in 0..(b - 1)
         /\ a = b * (a \div b) + (a % b)
OBVIOUS

\* A number between two multiples of b has the lower one's factor as quotient.
LEMMA DivUnique ==
  ASSUME NEW b \in Nat \ {0}, NEW q \in Nat, NEW r \in 0..(b - 1)
  PROVE  (q * b + r) \div b = q /\ (q * b + r) % b = r
OBVIOUS

\* CeilDiv is the least number of pieces of b that hold a.
LEMMA CeilDivBounds ==
  ASSUME NEW a \in Nat \ {0}, NEW b \in Nat \ {0}
  PROVE  /\ CeilDiv(a, b) \in Nat \ {0}
         /\ (CeilDiv(a, b) - 1) * b < a /\ a <= CeilDiv(a, b) * b
<1> DEFINE q == CeilDiv(a, b)
           r == (a + b - 1) % b
<1>0. PICK x \in Int : x = a + b - 1
  OBVIOUS
<1>1. q \in Int /\ r \in Int /\ 0 <= r /\ r < b /\ a + b - 1 = b * q + r
  <2>1. q = x \div b /\ r = x % b
    BY <1>0 DEF CeilDiv
  <2>2. x \div b \in Int /\ x % b \in 0..(b - 1) /\ x = b * (x \div b) + (x % b)
    BY DivMod
  <2> HIDE DEF q, r
  <2> QED
    BY <1>0, <2>1, <2>2
<1> HIDE DEF q, r
<1>2. b * q >= a /\ b * q - b < a
  BY <1>1
<1>3. q > 0
  <2>1. CASE q <= 0
    <3>1. b * q <= 0
      BY <2>1, <1>1
    <3> QED
      BY <3>1, <1>1, <1>2
  <2> QED
    BY <2>1, <1>1
<1>4. (q - 1) * b = b * q - b /\ q * b = b * q
  BY <1>1
<1> QED
  BY <1>1, <1>2, <1>3, <1>4 DEF q

\* A bounded set of natural numbers that is not empty has a greatest element.
LEMMA Greatest ==
  ASSUME NEW b \in Nat, NEW S \in SUBSET (0..b), S # {}
  PROVE  \E x \in S : \A y \in S : y <= x
<1> DEFINE D == {b - x : x \in S}
<1>1. D \subseteq Nat /\ D # {}
  <2>1. \A x \in S : x \in Nat /\ x <= b /\ b - x \in Nat
    OBVIOUS
  <2> QED
    BY <2>1
<1>2. PICK m \in D : \A u \in D : ~(<<u, m>> \in OpToRel(<, Nat))
  BY <1>1, NatLessThanWellFounded, WFMin
<1>3. \A u \in D : m <= u
  <2> SUFFICES ASSUME NEW u \in D
               PROVE  m <= u
    OBVIOUS
  <2>1. u \in Nat /\ m \in Nat /\ ~(<<u, m>> \in OpToRel(<, Nat))
    BY <1>1, <1>2
  <2> HIDE DEF D
  <2> QED
    BY <2>1 DEF OpToRel
<1>4. PICK x \in S : m = b - x
  OBVIOUS
<1>5. \A y \in S : y <= x
  BY <1>3, <1>4
<1> QED
  BY <1>5

\* A set of natural numbers that is not empty has a least element.
LEMMA Smallest ==
  ASSUME NEW S \in SUBSET Nat, S # {}
  PROVE  \E x \in S : \A y \in S : x <= y
<1>1. PICK m \in S : \A u \in S : ~(<<u, m>> \in OpToRel(<, Nat))
  BY NatLessThanWellFounded, WFMin
<1>2. \A u \in S : m <= u
  <2> SUFFICES ASSUME NEW u \in S
               PROVE  m <= u
    OBVIOUS
  <2>1. u \in Nat /\ m \in Nat /\ ~(<<u, m>> \in OpToRel(<, Nat))
    BY <1>1
  <2> QED
    BY <2>1 DEF OpToRel
<1> QED
  BY <1>2

\* The greater of two numbers is one of them.
LEMMA MaxOfTwo ==
  ASSUME NEW a \in Int, NEW b \in Int
  PROVE  Max({a, b}) \in {a, b} /\ Max({a, b}) >= a /\ Max({a, b}) >= b
<1>1. \E x \in {a, b} : \A y \in {a, b} : x >= y
  OBVIOUS
<1> QED
  BY <1>1 DEF Max

-----------------------------------------------------------------------------
(* Cutting a length into n pieces, each of one step but the last, which    *)
(* takes what is left.                                                     *)

CutLen(len, n, step, i) == IF i + 1 = n THEN len - i * step ELSE step

\* The pieces lie one behind the other inside the length.
LEMMA CutsApart ==
  ASSUME NEW len \in Nat \ {0}, NEW n \in Nat \ {0}, NEW step \in Nat \ {0},
         (n - 1) * step < len,
         NEW i \in 0..(n - 1)
  PROVE  /\ i * step \in Nat /\ CutLen(len, n, step, i) \in Nat \ {0}
         /\ i * step + CutLen(len, n, step, i) <= len
         /\ \A j \in 0..(n - 1) :
               i < j => i * step + CutLen(len, n, step, i) <= j * step
<1>1. i * step \in Nat /\ (n - 1) * step \in Nat
  OBVIOUS
<1>2. i < n - 1 => i * step + step <= (n - 1) * step
  <2>1. i < n - 1 => (i + 1) * step <= (n - 1) * step
    OBVIOUS
  <2>2. (i + 1) * step = i * step + step
    OBVIOUS
  <2> QED
    BY <2>1, <2>2
<1>3. ASSUME NEW j \in 0..(n - 1), i < j
      PROVE  CutLen(len, n, step, i) = step /\ i * step + step <= j * step
  <2>1. (i + 1) * step <= j * step
    BY <1>3
  <2>2. (i + 1) * step = i * step + step
    OBVIOUS
  <2> QED
    BY <1>3, <2>1, <2>2 DEF CutLen
<1>4. CASE i + 1 = n
  <2>1. i * step = (n - 1) * step
    BY <1>4
  <2> QED
    BY <1>1, <1>3, <1>4, <2>1 DEF CutLen
<1>5. CASE i + 1 # n
  BY <1>1, <1>2, <1>3, <1>5 DEF CutLen
<1> QED
  BY <1>4, <1>5

\* Each place of the length is in one of the pieces.
LEMMA CutsCover ==
  ASSUME NEW len \in Nat \ {0}, NEW n \in Nat \ {0}, NEW step \in Nat \ {0},
         (n - 1) * step < len,
         NEW p \in 0..(len - 1)
  PROVE  \E i \in 0..(n - 1) :
            p \in (i * step)..(i * step + CutLen(len, n, step, i) - 1)
<1> DEFINE q == p \div step
           r == p % step
<1>1. q \in Int /\ r \in 0..(step - 1) /\ p = step * q + r
  BY DivMod
<1> HIDE DEF q, r
<1>2. q >= 0
  <2>1. CASE q <= -1
    <3>1. step * q <= -step
      BY <1>1, <2>1
    <3> QED
      BY <3>1, <1>1
  <2> QED
    BY <1>1, <2>1
<1>3. step * q = q * step /\ q * step \in Int
  BY <1>1
<1>4. CASE q < n - 1
  <2>1. p \in (q * step)..(q * step + CutLen(len, n, step, q) - 1)
    BY <1>1, <1>3, <1>4 DEF CutLen
  <2> QED
    BY <1>1, <1>2, <1>4, <2>1
<1>5. CASE q >= n - 1
  <2>1. q * step >= (n - 1) * step
    BY <1>1, <1>5
  <2>2. (n - 1) * step \in Int
    OBVIOUS
  <2>3. p \in ((n - 1) * step)..((n - 1) * step + CutLen(len, n, step, n - 1) - 1)
    BY <1>1, <1>3, <2>1, <2>2 DEF CutLen
  <2> QED
    BY <2>3
<1> QED
  BY <1>1, <1>4, <1>5

-----------------------------------------------------------------------------
(* The slices of a weight.                                                 *)

\* The quantiser's group is some of the columns; one that the hardware takes
\* as it is divides them and fits a slice.
LEMMA GroupFits ==
  ASSUME NEW c \in Configs, NEW k \in Nat \ {0}
  PROVE  /\ KGroup(c, k) \in 1..k
         /\ Grouped(c, k) => KGroup(c, k) <= c.kmax
         /\ EffKmax(c, k) \in 1..c.kmax
<1>1. c.kmax \in Nat \ {0} /\ c.group \in Nat
  BY StageAssumption
<1>2. GroupAsked(c, k) \in 1..k
  BY <1>1 DEF GroupAsked
<1>3. GroupFitted(c, k) \in 1..k
  <2> DEFINE w == GroupAsked(c, k)
             D == ProperDivisors(k, w)
  <2>1. CASE c.groupfit /\ D # {}
    <3>1. D \subseteq 0..k /\ \A d \in D : d \in 1..k
      BY <1>2 DEF ProperDivisors
    <3>2. \E d \in D : \A e \in D : e <= d
      BY <2>1, <3>1, Greatest
    <3>3. GroupFitted(c, k) = CHOOSE d \in D : \A e \in D : e <= d
      BY <2>1 DEF GroupFitted
    <3> HIDE DEF D
    <3>4. GroupFitted(c, k) \in D
      BY <3>2, <3>3
    <3> QED
      BY <3>1, <3>4
  <2>2. CASE ~(c.groupfit /\ D # {})
    BY <1>2, <2>2 DEF GroupFitted
  <2> QED
    BY <2>1, <2>2
<1>4. KGroup(c, k) \in 1..k
  BY <1>3 DEF KGroup
<1>5. Grouped(c, k) => KGroup(c, k) <= c.kmax
  BY DEF Grouped
<1> QED
  BY <1>1, <1>4, <1>5 DEF EffKmax

StepOf(c, k) == Step(k, KSlices(c, k), EffKmax(c, k), c.even, c.kfit, c.atom)

\* Slices of an even width hold the columns between them, in none too many.
LEMMA EvenSteps ==
  ASSUME NEW k \in Nat \ {0}, NEW ks \in Nat \ {0}, NEW kmax \in Nat \ {0},
         NEW atom \in Nat \ {0}, NEW even, NEW kfit,
         EvenBase(k, ks, kmax, even, kfit, atom) # 0
  PROVE  LET base == EvenBase(k, ks, kmax, even, kfit, atom)
         IN /\ base \in 1..kmax /\ (ks - 1) * base < k /\ k <= ks * base
            /\ ~kfit
<1> DEFINE each == CeilDiv(k, ks)
           base == CeilDiv(each, atom) * atom
<1>1. each \in Nat \ {0} /\ k <= each * ks
  BY CeilDivBounds
<1>2. CeilDiv(each, atom) \in Nat \ {0} /\ each <= base
  BY <1>1, CeilDivBounds
<1>3. base \in Nat
  BY <1>2
<1>4. /\ EvenBase(k, ks, kmax, even, kfit, atom) = base
      /\ ~kfit /\ ~(base > kmax) /\ ~((ks - 1) * base >= k)
  BY DEF EvenBase
<1> HIDE DEF each, base
<1>5. each * ks <= base * ks
  BY <1>1, <1>2, <1>3
<1>6. base * ks = ks * base /\ each * ks \in Int /\ ks * base \in Int /\ (ks - 1) * base \in Int
  BY <1>1, <1>3
<1> QED
  BY <1>1, <1>2, <1>3, <1>4, <1>5, <1>6

\* The step between slices, and that all but the last are inside the columns.
LEMMA StepFits ==
  ASSUME NEW c \in Configs, NEW k \in Nat \ {0}
  PROVE  /\ KSlices(c, k) \in Nat \ {0} /\ StepOf(c, k) \in 1..c.kmax
         /\ (KSlices(c, k) - 1) * StepOf(c, k) < k
         /\ k - (KSlices(c, k) - 1) * StepOf(c, k) <= KmaxWide(c)
         /\ KmaxWide(c) >= c.kmax /\ KmaxWide(c) \in Nat
<1> DEFINE e == EffKmax(c, k)
           ks0 == CeilDiv(k, e)
           ks == KSlices(c, k)
           base == EvenBase(k, ks, e, c.even, c.kfit, c.atom)
<1>1. c.kmax \in Nat \ {0} /\ c.atom \in Nat \ {0} /\ e \in 1..c.kmax
  BY GroupFits, StageAssumption
<1>2. ks0 \in Nat \ {0} /\ (ks0 - 1) * e < k /\ k <= ks0 * e
  BY <1>1, CeilDivBounds
<1>3. KmaxWide(c) \in Nat /\ KmaxWide(c) >= c.kmax /\ (c.kfit => KmaxWide(c) = c.kmax * 2)
  BY <1>1 DEF KmaxWide
<1>4. \/ ks = ks0
      \/ ks = ks0 - 1 /\ c.kfit /\ ks0 > 1 /\ e = c.kmax
  BY DEF KSlices, EffKmax
<1> HIDE DEF ks0, e
<1>5. ks \in Nat \ {0}
  BY <1>2, <1>4
<1> HIDE DEF ks
<1>6. CASE base # 0
  <2>1. base \in 1..e /\ (ks - 1) * base < k /\ k <= ks * base /\ ~c.kfit
    BY <1>1, <1>5, <1>6, EvenSteps
  <2>2. StepOf(c, k) = base
    BY <1>6 DEF StepOf, Step, ks, e
  <2> HIDE DEF base
  <2>3. (ks - 1) * base = ks * base - base /\ ks * base \in Int
    BY <1>5, <2>1, <1>1
  <2>4. k - (ks - 1) * base <= base /\ base \in 1..c.kmax
    BY <2>1, <2>3, <1>1
  <2>5. (ks - 1) * base \in Int
    BY <2>3, <2>1, <1>1
  <2> QED
    BY <1>1, <1>3, <1>5, <2>1, <2>2, <2>4, <2>5 DEF ks
<1>7. CASE base = 0
  <2>1. StepOf(c, k) = e
    BY <1>7 DEF StepOf, Step, ks, e
  <2>2. CASE ks = ks0
    <3>1. (ks - 1) * e = ks * e - e /\ ks * e \in Int
      BY <1>1, <1>5
    <3> QED
      BY <1>1, <1>2, <1>3, <1>5, <2>1, <2>2, <3>1 DEF ks
  <2>3. CASE ks = ks0 - 1 /\ c.kfit /\ ks0 > 1 /\ e = c.kmax
    <3>1. (ks - 1) * e = ks0 * e - 2 * e /\ (ks0 - 1) * e = ks0 * e - e /\ ks0 * e \in Int
      BY <1>1, <1>2, <2>3
    <3> QED
      BY <1>1, <1>2, <1>3, <1>5, <2>1, <2>3, <3>1 DEF ks
  <2> QED
    BY <1>4, <2>2, <2>3
<1> QED
  BY <1>6, <1>7

-----------------------------------------------------------------------------
(* The grid of slices.                                                     *)

\* Along N a slice is what CutLen says: SliceN.
LEMMA SliceNIsCut ==
  ASSUME NEW c \in Configs, NEW rows \in Nat \ {0}
  PROVE  /\ NSlices(c, rows) \in Nat \ {0}
         /\ (NSlices(c, rows) - 1) * c.nmax < rows
         /\ \A ni \in 0..(NSlices(c, rows) - 1) :
               /\ SliceN(c, rows, ni) = CutLen(rows, NSlices(c, rows), c.nmax, ni)
               /\ SliceN(c, rows, ni) \in 1..c.nmax
<1>1. c.nmax \in Nat \ {0}
  BY StageAssumption
<1> DEFINE ns == NSlices(c, rows)
<1>2. ns \in Nat \ {0} /\ (ns - 1) * c.nmax < rows /\ rows <= ns * c.nmax
  BY <1>1, CeilDivBounds DEF NSlices
<1> HIDE DEF ns
<1>3. ASSUME NEW ni \in 0..(ns - 1)
      PROVE  /\ SliceN(c, rows, ni) = CutLen(rows, ns, c.nmax, ni)
             /\ SliceN(c, rows, ni) \in 1..c.nmax
  <2>1. ni * c.nmax \in Int /\ ns * c.nmax \in Int
    BY <1>1, <1>2
  <2>2. CASE ni + 1 = ns
    <3>1. (ni + 1) * c.nmax = ns * c.nmax /\ (ni + 1) * c.nmax = ni * c.nmax + c.nmax
          /\ ni * c.nmax = (ns - 1) * c.nmax
      BY <1>1, <1>2, <2>2
    <3> QED
      BY <1>1, <1>2, <2>1, <2>2, <3>1 DEF SliceN, CutLen, Least
  <2>3. CASE ni + 1 # ns
    <3>1. (ni + 1) * c.nmax <= (ns - 1) * c.nmax /\ (ni + 1) * c.nmax = ni * c.nmax + c.nmax
      BY <1>1, <1>2, <2>3
    <3>2. (ns - 1) * c.nmax \in Int
      BY <1>1, <1>2
    <3> QED
      BY <1>1, <1>2, <2>1, <2>3, <3>1, <3>2 DEF SliceN, CutLen, Least
  <2> QED
    BY <2>2, <2>3
<1> QED
  BY <1>2, <1>3 DEF ns

\* Place i of a walk over a grid of ks by ns is that of the pair <<ki, ni>>.
PlaceOf(ks, ns, i, ki, ni) ==
    /\ i \in 1..(ks * ns) /\ ki \in 0..(ks - 1) /\ ni \in 0..(ns - 1)
    /\ (i - 1) \div ns = ki /\ (i - 1) % ns = ni
    /\ i = ki * ns + ni + 1

\* There is a place in the walk for any two numbers of a slice.
LEMMA PlaceFound ==
  ASSUME NEW ks \in Nat \ {0}, NEW ns \in Nat \ {0},
         NEW ki \in 0..(ks - 1), NEW ni \in 0..(ns - 1)
  PROVE  \E i : PlaceOf(ks, ns, i, ki, ni)
<1>1. (ki * ns + ni) \div ns = ki /\ (ki * ns + ni) % ns = ni
  BY DivUnique
<1>2. ki * ns <= (ks - 1) * ns /\ (ks - 1) * ns = ks * ns - ns /\ ki * ns \in Nat
  OBVIOUS
<1>3. ki * ns + ni + 1 \in 1..(ks * ns)
  BY <1>2
<1>4. (ki * ns + ni + 1) - 1 = ki * ns + ni
  BY <1>2
<1>5. PlaceOf(ks, ns, ki * ns + ni + 1, ki, ni)
  BY <1>1, <1>3, <1>4 DEF PlaceOf
<1> QED
  BY <1>5

\* A slice's place in the walk gives its two numbers, and they its place.
LEMMA PlaceInGrid ==
  ASSUME NEW ks \in Nat \ {0}, NEW ns \in Nat \ {0}, NEW i \in 1..(ks * ns)
  PROVE  PlaceOf(ks, ns, i, (i - 1) \div ns, (i - 1) % ns)
<1>1. ks * ns \in Nat \ {0}
  OBVIOUS
<1>2. /\ (i - 1) \div ns \in 0..(ks - 1)
      /\ (i - 1) % ns \in 0..(ns - 1)
      /\ i = ((i - 1) \div ns) * ns + ((i - 1) % ns) + 1
  <2>1. PICK x \in Nat : x = i - 1 /\ x < ks * ns
    BY <1>1
  <2> DEFINE q == x \div ns
             r == x % ns
  <2>2. q \in Int /\ r \in 0..(ns - 1) /\ x = ns * q + r
    BY DivMod
  <2> HIDE DEF q, r
  <2>3. ns * q = q * ns /\ q * ns \in Int
    BY <2>2
  <2>4. q >= 0
    <3>1. CASE q <= -1
      <4>1. ns * q <= -ns
        BY <2>2, <3>1
      <4> QED
        BY <2>1, <2>2, <4>1
    <3> QED
      BY <2>2, <3>1
  <2>5. q < ks
    <3>1. CASE q >= ks
      <4>1. q * ns >= ks * ns
        BY <2>2, <3>1
      <4> QED
        BY <1>1, <2>1, <2>2, <2>3, <4>1
    <3> QED
      BY <2>2, <3>1
  <2> QED
    BY <2>1, <2>2, <2>3, <2>4, <2>5 DEF q, r
<1> QED
  BY <1>2 DEF PlaceOf

\* The cells of a slice: its rows and its columns.
Cells(x) == (x.n0..(x.n0 + x.n - 1)) \X (x.k0..(x.k0 + x.k - 1))

\* A grid of ks by ns slices, in terms of each slice's two numbers.
GridIs(c, k, rows, ks, ns, grid) ==
    /\ DOMAIN grid = 1..(ks * ns) /\ Len(grid) = ks * ns
    /\ \A i \in DOMAIN grid :
          /\ grid[i].ki \in 0..(ks - 1) /\ grid[i].ni \in 0..(ns - 1)
          /\ grid[i].k0 = grid[i].ki * StepOf(c, k)
          /\ grid[i].k = CutLen(k, ks, StepOf(c, k), grid[i].ki)
          /\ grid[i].n0 = grid[i].ni * c.nmax
          /\ grid[i].n = CutLen(rows, ns, c.nmax, grid[i].ni)
    /\ \A ki \in 0..(ks - 1), ni \in 0..(ns - 1) :
          \E i \in DOMAIN grid : grid[i].ki = ki /\ grid[i].ni = ni
    /\ \A i, j \in DOMAIN grid :
          i # j => grid[i].ki # grid[j].ki \/ grid[i].ni # grid[j].ni

\* Such is the grid of a tensor.
LEMMA GridPlaces ==
  ASSUME NEW c \in Configs, NEW k \in Nat \ {0}, NEW rows \in Nat \ {0}
  PROVE  /\ KSlices(c, k) \in Nat \ {0} /\ NSlices(c, rows) \in Nat \ {0}
         /\ GridIs(c, k, rows, KSlices(c, k), NSlices(c, rows), Grid(c, k, rows))
<1> DEFINE ks == KSlices(c, k)
           ns == NSlices(c, rows)
           grid == Grid(c, k, rows)
<1>1. ks \in Nat \ {0} /\ ns \in Nat \ {0}
  BY StepFits, SliceNIsCut
<1>2. /\ grid = [i \in 1..(ks * ns) |->
            [ki |-> (i - 1) \div ns, ni |-> (i - 1) % ns,
             k0 |-> SliceK0(k, ks, (i - 1) \div ns, EffKmax(c, k), c.even, c.kfit, c.atom),
             k |-> SliceKw(k, ks, (i - 1) \div ns, EffKmax(c, k), c.even, c.kfit, c.atom),
             n0 |-> ((i - 1) % ns) * c.nmax,
             n |-> SliceN(c, rows, (i - 1) % ns)]]
  BY DEF Grid
<1>3. \A ki : /\ SliceK0(k, ks, ki, EffKmax(c, k), c.even, c.kfit, c.atom) = ki * StepOf(c, k)
              /\ SliceKw(k, ks, ki, EffKmax(c, k), c.even, c.kfit, c.atom)
                   = CutLen(k, ks, StepOf(c, k), ki)
  BY DEF SliceK0, SliceKw, StepOf, CutLen
<1>4. \A ni \in 0..(ns - 1) : SliceN(c, rows, ni) = CutLen(rows, ns, c.nmax, ni)
  BY SliceNIsCut
<1> HIDE DEF grid, ks, ns
<1>5. DOMAIN grid = 1..(ks * ns) /\ Len(grid) = ks * ns
  <2>1. ks * ns \in Nat
    BY <1>1
  <2> QED
    BY <1>2, <2>1
<1>6. ASSUME NEW i \in DOMAIN grid
      PROVE  /\ grid[i].ki = (i - 1) \div ns /\ grid[i].ni = (i - 1) % ns
             /\ grid[i].ki \in 0..(ks - 1) /\ grid[i].ni \in 0..(ns - 1)
             /\ grid[i].k0 = grid[i].ki * StepOf(c, k)
             /\ grid[i].k = CutLen(k, ks, StepOf(c, k), grid[i].ki)
             /\ grid[i].n0 = grid[i].ni * c.nmax
             /\ grid[i].n = CutLen(rows, ns, c.nmax, grid[i].ni)
  <2>1. PlaceOf(ks, ns, i, (i - 1) \div ns, (i - 1) % ns)
    BY <1>1, <1>5, PlaceInGrid
  <2>2. (i - 1) \div ns \in 0..(ks - 1) /\ (i - 1) % ns \in 0..(ns - 1)
    BY <2>1 DEF PlaceOf
  <2> QED
    BY <1>2, <1>3, <1>4, <1>5, <2>2
<1>7. \A ki \in 0..(ks - 1), ni \in 0..(ns - 1) :
         \E i \in DOMAIN grid : grid[i].ki = ki /\ grid[i].ni = ni
  <2> SUFFICES ASSUME NEW ki \in 0..(ks - 1), NEW ni \in 0..(ns - 1)
               PROVE  \E i \in DOMAIN grid : grid[i].ki = ki /\ grid[i].ni = ni
    OBVIOUS
  <2>1. PICK i : PlaceOf(ks, ns, i, ki, ni)
    BY <1>1, PlaceFound
  <2>2. i \in DOMAIN grid
    BY <1>5, <2>1 DEF PlaceOf
  <2> QED
    BY <1>6, <2>1, <2>2 DEF PlaceOf
<1>8. \A i, j \in DOMAIN grid :
         i # j => grid[i].ki # grid[j].ki \/ grid[i].ni # grid[j].ni
  <2> SUFFICES ASSUME NEW i \in DOMAIN grid, NEW j \in DOMAIN grid,
                      grid[i].ki = grid[j].ki, grid[i].ni = grid[j].ni
               PROVE  i = j
    OBVIOUS
  <2>1. /\ PlaceOf(ks, ns, i, (i - 1) \div ns, (i - 1) % ns)
        /\ PlaceOf(ks, ns, j, (j - 1) \div ns, (j - 1) % ns)
    BY <1>1, <1>5, PlaceInGrid
  <2>2. (i - 1) \div ns = (j - 1) \div ns /\ (i - 1) % ns = (j - 1) % ns
    BY <1>6
  <2> QED
    BY <2>1, <2>2 DEF PlaceOf
<1> QED
  BY <1>1, <1>5, <1>6, <1>7, <1>8 DEF GridIs, grid, ks, ns

\* The slices of the grid tile the weight: every cell is in one, none in two,
\* and none is wider than a buffer.
LEMMA GridTiles ==
  ASSUME NEW c \in Configs, NEW k \in Nat \ {0}, NEW rows \in Nat \ {0}
  PROVE  LET grid == Grid(c, k, rows)
         IN /\ \A i \in DOMAIN grid : /\ grid[i].k \in 1..KmaxWide(c) /\ grid[i].n \in 1..c.nmax
                                      /\ grid[i].k0 \in Nat /\ grid[i].n0 \in Nat
                                      /\ grid[i].k0 + grid[i].k <= k
                                      /\ grid[i].n0 + grid[i].n <= rows
            /\ \A row \in 0..(rows - 1), col \in 0..(k - 1) :
                  \E i \in DOMAIN grid : <<row, col>> \in Cells(grid[i])
            /\ \A i, j \in DOMAIN grid :
                  i # j => Cells(grid[i]) \cap Cells(grid[j]) = {}
<1> DEFINE st == StepOf(c, k)
<1>0. PICK ks \in Nat \ {0}, ns \in Nat \ {0} : ks = KSlices(c, k) /\ ns = NSlices(c, rows)
  BY GridPlaces
<1>a. PICK grid : grid = Grid(c, k, rows)
  OBVIOUS
<1>b. GridIs(c, k, rows, ks, ns, grid)
  BY <1>0, <1>a, GridPlaces
<1>1. /\ ks \in Nat \ {0} /\ st \in Nat \ {0} /\ st \in 1..c.kmax /\ (ks - 1) * st < k
      /\ k - (ks - 1) * st <= KmaxWide(c) /\ KmaxWide(c) >= c.kmax /\ KmaxWide(c) \in Nat
      /\ c.kmax \in Nat
  BY <1>0, StepFits, StageAssumption
<1>2. /\ ns \in Nat \ {0} /\ c.nmax \in Nat \ {0} /\ (ns - 1) * c.nmax < rows
      /\ \A ni \in 0..(ns - 1) : CutLen(rows, ns, c.nmax, ni) \in 1..c.nmax
  BY <1>0, SliceNIsCut, StageAssumption
<1>3. /\ \A i \in DOMAIN grid :
            /\ grid[i].ki \in 0..(ks - 1) /\ grid[i].ni \in 0..(ns - 1)
            /\ grid[i].k0 = grid[i].ki * st
            /\ grid[i].k = CutLen(k, ks, st, grid[i].ki)
            /\ grid[i].n0 = grid[i].ni * c.nmax
            /\ grid[i].n = CutLen(rows, ns, c.nmax, grid[i].ni)
      /\ \A ki \in 0..(ks - 1), ni \in 0..(ns - 1) :
            \E i \in DOMAIN grid : grid[i].ki = ki /\ grid[i].ni = ni
      /\ \A i, j \in DOMAIN grid :
            i # j => grid[i].ki # grid[j].ki \/ grid[i].ni # grid[j].ni
  BY <1>b DEF GridIs
<1> HIDE DEF st
<1>4. \A ki \in 0..(ks - 1) :
         /\ ki * st \in Nat /\ CutLen(k, ks, st, ki) \in Nat \ {0}
         /\ ki * st + CutLen(k, ks, st, ki) <= k
         /\ \A kj \in 0..(ks - 1) :
               ki < kj => ki * st + CutLen(k, ks, st, ki) <= kj * st
  BY <1>1, CutsApart
<1>5. \A ni \in 0..(ns - 1) :
         /\ ni * c.nmax \in Nat /\ CutLen(rows, ns, c.nmax, ni) \in Nat \ {0}
         /\ ni * c.nmax + CutLen(rows, ns, c.nmax, ni) <= rows
         /\ \A nj \in 0..(ns - 1) :
               ni < nj => ni * c.nmax + CutLen(rows, ns, c.nmax, ni) <= nj * c.nmax
  BY <1>2, CutsApart
<1>6. \A ki \in 0..(ks - 1) : CutLen(k, ks, st, ki) \in 1..KmaxWide(c)
  <2> SUFFICES ASSUME NEW ki \in 0..(ks - 1)
               PROVE  CutLen(k, ks, st, ki) <= KmaxWide(c)
    BY <1>1, <1>4
  <2>1. CASE ki + 1 = ks
    <3>1. ki * st = (ks - 1) * st
      BY <1>1, <2>1
    <3> QED
      BY <1>1, <2>1, <3>1 DEF CutLen
  <2>2. CASE ki + 1 # ks
    BY <1>1, <2>2 DEF CutLen
  <2> QED
    BY <2>1, <2>2
<1>7. ASSUME NEW row \in 0..(rows - 1), NEW col \in 0..(k - 1)
      PROVE  \E i \in DOMAIN grid : <<row, col>> \in Cells(grid[i])
  <2>1. PICK ki \in 0..(ks - 1) : col \in (ki * st)..(ki * st + CutLen(k, ks, st, ki) - 1)
    BY <1>1, CutsCover
  <2>2. PICK ni \in 0..(ns - 1) :
           row \in (ni * c.nmax)..(ni * c.nmax + CutLen(rows, ns, c.nmax, ni) - 1)
    BY <1>2, CutsCover
  <2>3. PICK i \in DOMAIN grid : grid[i].ki = ki /\ grid[i].ni = ni
    BY <1>3
  <2> QED
    BY <1>3, <2>1, <2>2, <2>3 DEF Cells
<1>8. ASSUME NEW i \in DOMAIN grid, NEW j \in DOMAIN grid, i # j
      PROVE  Cells(grid[i]) \cap Cells(grid[j]) = {}
  <2>1. CASE grid[i].ki # grid[j].ki
    <3>1. grid[i].k0 + grid[i].k <= grid[j].k0 \/ grid[j].k0 + grid[j].k <= grid[i].k0
      <4>0. grid[i].ki \in 0..(ks - 1) /\ grid[j].ki \in 0..(ks - 1)
        BY <1>3
      <4>1. grid[i].ki < grid[j].ki \/ grid[j].ki < grid[i].ki
        BY <1>1, <2>1, <4>0
      <4> QED
        BY <1>3, <1>4, <4>1
    <3>2. {grid[i].k0, grid[i].k, grid[j].k0, grid[j].k} \subseteq Int
      BY <1>3, <1>4
    <3>3. \A x \in grid[i].k0..(grid[i].k0 + grid[i].k - 1) :
             x \notin grid[j].k0..(grid[j].k0 + grid[j].k - 1)
      BY <3>1, <3>2
    <3> QED
      BY <3>3 DEF Cells
  <2>2. CASE grid[i].ni # grid[j].ni
    <3>1. grid[i].n0 + grid[i].n <= grid[j].n0 \/ grid[j].n0 + grid[j].n <= grid[i].n0
      <4>0. grid[i].ni \in 0..(ns - 1) /\ grid[j].ni \in 0..(ns - 1)
        BY <1>3
      <4>1. grid[i].ni < grid[j].ni \/ grid[j].ni < grid[i].ni
        BY <1>2, <2>2, <4>0
      <4> QED
        BY <1>3, <1>5, <4>1
    <3>2. {grid[i].n0, grid[i].n, grid[j].n0, grid[j].n} \subseteq Int
      BY <1>3, <1>5
    <3>3. \A x \in grid[i].n0..(grid[i].n0 + grid[i].n - 1) :
             x \notin grid[j].n0..(grid[j].n0 + grid[j].n - 1)
      BY <3>1, <3>2
    <3> QED
      BY <3>3 DEF Cells
  <2> QED
    BY <1>3, <1>8, <2>1, <2>2
<1>9. \A i \in DOMAIN grid : /\ grid[i].k \in 1..KmaxWide(c) /\ grid[i].n \in 1..c.nmax
                             /\ grid[i].k0 \in Nat /\ grid[i].n0 \in Nat
                             /\ grid[i].k0 + grid[i].k <= k
                             /\ grid[i].n0 + grid[i].n <= rows
  <2> SUFFICES ASSUME NEW i \in DOMAIN grid
               PROVE  /\ grid[i].k \in 1..KmaxWide(c) /\ grid[i].n \in 1..c.nmax
                      /\ grid[i].k0 \in Nat /\ grid[i].n0 \in Nat
                      /\ grid[i].k0 + grid[i].k <= k
                      /\ grid[i].n0 + grid[i].n <= rows
    OBVIOUS
  <2>1. grid[i].ki \in 0..(ks - 1) /\ grid[i].ni \in 0..(ns - 1)
    BY <1>3
  <2> QED
    BY <1>2, <1>3, <1>4, <1>5, <1>6, <2>1
<1> QED
  BY <1>a, <1>7, <1>8, <1>9

-----------------------------------------------------------------------------
(* The deal.                                                               *)

\* The hardware is given some row of every tensor.
LEMMA SomeRows ==
  ASSUME cfg \in Configs, NEW w \in Tensors
  PROVE  /\ HardwareRows(w) \in Nat \ {0} /\ Shape[w].k \in Nat \ {0}
         /\ TheGrid(w) = Grid(cfg, Shape[w].k, HardwareRows(w))
<1>1. Shape[w].n \in Nat \ {0} /\ Shape[w].k \in Nat \ {0} /\ RowAtom \in Nat \ {0}
  BY StageAssumption
<1>2. PICK half \in Int : half = Shape[w].n \div 2
  BY <1>1, DivMod
<1>3. PICK atoms \in Int : atoms = half \div RowAtom
  BY <1>1, DivMod
<1>4. PICK keep \in Int : keep = atoms * RowAtom
  BY <1>1
<1>5. Max({keep, RowAtom}) \in Nat \ {0}
  <2>1. RowAtom \in Int /\ RowAtom >= 1
    BY <1>1
  <2>2. Max({keep, RowAtom}) \in {keep, RowAtom} /\ Max({keep, RowAtom}) >= RowAtom
    BY <2>1, MaxOfTwo
  <2> QED
    BY <2>1, <2>2
<1>6. HardwareRows(w) \in {Shape[w].n, Max({keep, RowAtom})}
  BY <1>2, <1>3, <1>4 DEF HardwareRows, RowsOnHardware
<1> QED
  BY <1>1, <1>5, <1>6 DEF TheGrid, Grids, HardwareRows

\* The device a slice is dealt to, given whom the slices before it went to.
DealtAt(owner, grid, from, i) ==
    IF cfg.ndev < 2 THEN 0
    ELSE IF cfg.index
    THEN (grid[i].ki * (grid[Len(grid)].ni + 1) + grid[i].ni) % 2
    ELSE IF ChargedTo(0, owner, grid, from, i - 1)
                <= ChargedTo(1, owner, grid, from, i - 1) THEN 0 ELSE 1

SameTo(o1, o2, n) == \A j \in 1..n : o1[j] = o2[j]

\* It looks at no slice but those before it.
LEMMA DealtByPrefix ==
  ASSUME NEW grid, NEW from, NEW i \in Nat \ {0}, NEW o1, NEW o2,
         SameTo(o1, o2, i - 1)
  PROVE  DealtAt(o1, grid, from, i) = DealtAt(o2, grid, from, i)
<1>1. \A d : {j \in 1..(i - 1) : o1[j] = d} = {j \in 1..(i - 1) : o2[j] = d}
  BY DEF SameTo
<1>2. \A d : ChargedTo(d, o1, grid, from, i - 1) = ChargedTo(d, o2, grid, from, i - 1)
  BY <1>1 DEF ChargedTo
<1>3. /\ ChargedTo(0, o1, grid, from, i - 1) = ChargedTo(0, o2, grid, from, i - 1)
      /\ ChargedTo(1, o1, grid, from, i - 1) = ChargedTo(1, o2, grid, from, i - 1)
  BY <1>2
<1> QED
  BY <1>3 DEF DealtAt

\* The deal gives every slice of a tensor a device.
LEMMA EverySliceDealt ==
  ASSUME cfg \in Configs, NEW w \in Tensors, NEW from
  PROVE  Deal(TheGrid(w), from) \in [DOMAIN TheGrid(w) -> Devs]
<1> DEFINE grid == TheGrid(w)
           len == Len(TheGrid(w))
           at(o, i) == DealtAt(o, grid, from, i)
           Bad == {m \in 0..len : ~\E o \in [1..len -> Devs] :
                                     \A i \in 1..m : o[i] = at(o, i)}
<1>1. /\ len \in Nat \ {0} /\ DOMAIN grid = 1..len
      /\ \A i \in DOMAIN grid : grid[i].ki \in Nat /\ grid[i].ni \in Nat
  <2>0. PICK k \in Nat \ {0}, rows \in Nat \ {0} : k = Shape[w].k /\ rows = HardwareRows(w)
    BY SomeRows
  <2>1. PICK g : g = Grid(cfg, k, rows) /\ g = grid
    BY <2>0, SomeRows
  <2>2. PICK ks \in Nat \ {0}, ns \in Nat \ {0} : ks = KSlices(cfg, k) /\ ns = NSlices(cfg, rows)
    BY GridPlaces
  <2>3. /\ DOMAIN g = 1..(ks * ns) /\ Len(g) = ks * ns
        /\ \A i \in DOMAIN g : g[i].ki \in 0..(ks - 1) /\ g[i].ni \in 0..(ns - 1)
    <3>1. GridIs(cfg, k, rows, ks, ns, g)
      BY <2>1, <2>2, GridPlaces
    <3> QED
      BY <3>1 DEF GridIs
  <2>4. ks * ns \in Nat \ {0}
    OBVIOUS
  <2> HIDE DEF grid
  <2> QED
    BY <2>1, <2>3, <2>4 DEF grid
<1>2. ASSUME NEW o, NEW i \in 1..len
      PROVE  at(o, i) \in Devs
  <2>1. cfg.ndev \in {1, 2}
    BY StageAssumption
  <2>2. grid[i].ki \in Nat /\ grid[i].ni \in Nat /\ grid[len].ni \in Nat
    BY <1>1
  <2>3. PICK x \in Int : x = grid[i].ki * (grid[len].ni + 1) + grid[i].ni
    BY <2>2
  <2>4. x % 2 \in 0..1
    BY DivMod
  <2> HIDE DEF grid
  <2>5. at(o, i) \in {0, 1} /\ (cfg.ndev < 2 => at(o, i) = 0)
    BY <2>3, <2>4 DEF DealtAt, grid
  <2> QED
    BY <2>1, <2>5 DEF Devs
<1> HIDE DEF grid, len, at
<1>3. Bad = {}
  <2> SUFFICES ASSUME Bad # {}
               PROVE  FALSE
    OBVIOUS
  <2>1. PICK m \in Bad : \A b \in Bad : m <= b
    <3>1. Bad \subseteq Nat
      BY <1>1
    <3> HIDE DEF Bad
    <3> QED
      BY <3>1, Smallest
  <2>2. 0 \notin Bad
    <3>1. cfg.ndev \in {1, 2}
      BY StageAssumption
    <3>0. 0 \in Devs
      BY <3>1 DEF Devs
    <3>2. PICK o \in [1..len -> Devs] : TRUE
      <4>1. [i \in 1..len |-> 0] \in [1..len -> Devs]
        BY <3>0
      <4> QED
        BY <4>1
    <3>3. \A i \in 1..0 : o[i] = at(o, i)
      OBVIOUS
    <3> QED
      BY <3>2, <3>3
  <2>3. m \in 1..len /\ m - 1 \in 0..len /\ m - 1 \notin Bad
    <3>1. m \in 0..len /\ m # 0
      BY <2>1, <2>2
    <3>2. m - 1 \notin Bad
      <4> HIDE DEF Bad
      <4> QED
        BY <1>1, <2>1, <3>1
    <3> QED
      BY <1>1, <3>1, <3>2
  <2>4. PICK o \in [1..len -> Devs] : \A i \in 1..(m - 1) : o[i] = at(o, i)
    BY <2>3
  <2> DEFINE o2 == [o EXCEPT ![m] = at(o, m)]
  <2>5. /\ o2 \in [1..len -> Devs] /\ o2[m] = at(o, m)
        /\ \A i \in 1..len : i # m => o2[i] = o[i]
    BY <1>2, <2>3, <2>4
  <2> HIDE DEF o2
  <2>6. \A i \in 1..m : at(o2, i) = at(o, i)
    <3> SUFFICES ASSUME NEW i \in 1..m
                 PROVE  at(o2, i) = at(o, i)
      OBVIOUS
    <3>1. SameTo(o2, o, i - 1)
      BY <1>1, <2>3, <2>5 DEF SameTo
    <3>2. i \in Nat \ {0}
      BY <2>3
    <3>3. DealtAt(o2, grid, from, i) = DealtAt(o, grid, from, i)
      BY <3>1, <3>2, DealtByPrefix
    <3> QED
      BY <3>3 DEF at
  <2>7. \A i \in 1..m : o2[i] = at(o2, i)
    <3> SUFFICES ASSUME NEW i \in 1..m
                 PROVE  o2[i] = at(o, i)
      BY <2>6
    <3>1. CASE i = m
      BY <2>5, <3>1
    <3>2. CASE i # m
      <4>1. i \in 1..(m - 1) /\ i \in 1..len
        BY <1>1, <2>3, <3>2
      <4> QED
        BY <2>4, <2>5, <3>2, <4>1
    <3> QED
      BY <3>1, <3>2
  <2>8. \E q \in [1..len -> Devs] : \A i \in 1..m : q[i] = at(q, i)
    BY <2>5, <2>7
  <2> QED
    BY <2>1, <2>8
<1>4. \E o \in [1..len -> Devs] : \A i \in 1..len : o[i] = at(o, i)
  <2>1. len \in 0..len
    BY <1>1
  <2> QED
    BY <1>3, <2>1
<1>5. \A o : DealtBy(o, grid, from) <=> \A i \in DOMAIN grid : o[i] = at(o, i)
  BY DEF DealtBy, DealtAt, at
<1>6. \E o \in [DOMAIN grid -> Devs] : DealtBy(o, grid, from)
  BY <1>1, <1>4, <1>5
<1>7. Deal(grid, from) = CHOOSE o \in [DOMAIN grid -> Devs] : DealtBy(o, grid, from)
  BY DEF Deal
<1>8. Deal(grid, from) \in [DOMAIN grid -> Devs]
  BY <1>6, <1>7
<1> QED
  BY <1>8 DEF grid

-----------------------------------------------------------------------------
(* The entries that staging can make.                                      *)

Tally(owner) == [d \in Devs |-> Cardinality({i \in DOMAIN owner : owner[i] = d})]

Made(w, owner) ==
    [w |-> w, slots |-> Slots(owner, TheGrid(w)), room |-> Tally(owner),
     ks |-> KSlices(cfg, Shape[w].k),
     hwrows |-> HardwareRows(w), cpurows |-> Shape[w].n - HardwareRows(w)]

Entries ==
    UNION {{Made(w, owner) : owner \in [DOMAIN TheGrid(w) -> Devs]} : w \in Tensors}

\* What the slots of an entry are, in terms of their K slices.
LEMMA SlotFacts ==
  ASSUME cfg \in Configs, NEW e \in Entries
  PROVE  LET k == Shape[e.w].k
             grid == Grid(cfg, k, HardwareRows(e.w))
         IN /\ e.w \in Tensors /\ HardwareRows(e.w) \in Nat \ {0} /\ k \in Nat \ {0}
            /\ e.ks = KSlices(cfg, k) /\ e.ks \in Nat \ {0}
            /\ e.hwrows = HardwareRows(e.w) /\ e.cpurows = Shape[e.w].n - HardwareRows(e.w)
            /\ DOMAIN e.slots = DOMAIN grid /\ DOMAIN grid = 1..Len(grid) /\ Len(grid) \in Nat
            /\ \A i \in DOMAIN e.slots :
                  /\ e.slots[i].di \in Devs /\ e.slots[i].ki \in 0..(e.ks - 1)
                  /\ e.slots[i].ki = grid[i].ki
                  /\ e.slots[i].k0 = grid[i].k0 /\ e.slots[i].k = grid[i].k
                  /\ e.slots[i].n0 = grid[i].n0 /\ e.slots[i].n = grid[i].n
                  /\ e.slots[i].k0 = e.slots[i].ki * StepOf(cfg, k)
                  /\ e.slots[i].k = CutLen(k, e.ks, StepOf(cfg, k), e.slots[i].ki)
            /\ \A ki \in 0..(e.ks - 1) : \E i \in DOMAIN e.slots : e.slots[i].ki = ki
<1>0. PICK w \in Tensors : e \in {Made(w, owner) : owner \in [DOMAIN TheGrid(w) -> Devs]}
  BY DEF Entries
<1>1. PICK owner \in [DOMAIN TheGrid(w) -> Devs] : e = Made(w, owner)
  BY <1>0
<1>2. HardwareRows(w) \in Nat \ {0} /\ Shape[w].k \in Nat \ {0}
  BY SomeRows
<1>3. PICK g : g = Grid(cfg, Shape[w].k, HardwareRows(w)) /\ g = TheGrid(w)
  BY SomeRows
<1>a. PICK k \in Nat \ {0}, rows \in Nat \ {0} : k = Shape[w].k /\ rows = HardwareRows(w)
  BY <1>2
<1>4. PICK ks \in Nat \ {0}, ns \in Nat \ {0} : ks = KSlices(cfg, k) /\ ns = NSlices(cfg, rows)
  BY GridPlaces
<1>5. /\ DOMAIN g = 1..(ks * ns) /\ Len(g) = ks * ns
      /\ \A i \in DOMAIN g :
            /\ g[i].ki \in 0..(ks - 1) /\ g[i].ni \in 0..(ns - 1)
            /\ g[i].k0 = g[i].ki * StepOf(cfg, k)
            /\ g[i].k = CutLen(k, ks, StepOf(cfg, k), g[i].ki)
      /\ \A ki \in 0..(ks - 1), ni \in 0..(ns - 1) :
            \E i \in DOMAIN g : g[i].ki = ki /\ g[i].ni = ni
  <2>1. GridIs(cfg, k, rows, ks, ns, g)
    BY <1>3, <1>4, <1>a, GridPlaces
  <2> QED
    BY <2>1 DEF GridIs
<1>6. /\ e.w = w /\ e.slots = Slots(owner, g) /\ e.ks = ks
      /\ e.hwrows = HardwareRows(w) /\ e.cpurows = Shape[w].n - HardwareRows(w)
  BY <1>1, <1>3, <1>4, <1>a DEF Made
<1>7. /\ DOMAIN e.slots = DOMAIN g
      /\ \A i \in DOMAIN g :
            /\ e.slots[i].di = owner[i] /\ e.slots[i].ki = g[i].ki
            /\ e.slots[i].k0 = g[i].k0 /\ e.slots[i].k = g[i].k
            /\ e.slots[i].n0 = g[i].n0 /\ e.slots[i].n = g[i].n
  BY <1>6 DEF Slots
<1>8. \A i \in DOMAIN g : owner[i] \in Devs
  BY <1>1, <1>3
<1>9. \A ki \in 0..(ks - 1) : \E i \in DOMAIN e.slots : e.slots[i].ki = ki
  <2> SUFFICES ASSUME NEW ki \in 0..(ks - 1)
               PROVE  \E i \in DOMAIN e.slots : e.slots[i].ki = ki
    OBVIOUS
  <2>1. 0 \in 0..(ns - 1)
    OBVIOUS
  <2>2. PICK i \in DOMAIN g : g[i].ki = ki
    BY <1>5, <2>1
  <2> QED
    BY <1>7, <2>2
<1>10. DOMAIN g = 1..Len(g) /\ Len(g) \in Nat
  <2>1. ks * ns \in Nat
    OBVIOUS
  <2> QED
    BY <1>5, <2>1
<1>11. /\ e.w \in Tensors /\ HardwareRows(e.w) \in Nat \ {0} /\ Shape[e.w].k \in Nat \ {0}
       /\ e.ks = KSlices(cfg, Shape[e.w].k) /\ e.ks \in Nat \ {0}
       /\ e.hwrows = HardwareRows(e.w) /\ e.cpurows = Shape[e.w].n - HardwareRows(e.w)
       /\ Grid(cfg, Shape[e.w].k, HardwareRows(e.w)) = g
  BY <1>3, <1>4, <1>a, <1>6
<1>12. ASSUME NEW i \in DOMAIN e.slots
       PROVE
          /\ e.slots[i].di \in Devs /\ e.slots[i].ki \in 0..(e.ks - 1)
          /\ e.slots[i].ki = g[i].ki
          /\ e.slots[i].k0 = g[i].k0 /\ e.slots[i].k = g[i].k
          /\ e.slots[i].n0 = g[i].n0 /\ e.slots[i].n = g[i].n
          /\ e.slots[i].k0 = e.slots[i].ki * StepOf(cfg, Shape[e.w].k)
          /\ e.slots[i].k = CutLen(Shape[e.w].k, e.ks, StepOf(cfg, Shape[e.w].k), e.slots[i].ki)
  <2>1. i \in DOMAIN g
    BY <1>7
  <2>2. PICK d, b : d = e.slots[i] /\ b = g[i]
    OBVIOUS
  <2>3. /\ d.di \in Devs /\ d.ki = b.ki
        /\ d.k0 = b.k0 /\ d.k = b.k /\ d.n0 = b.n0 /\ d.n = b.n
    BY <1>7, <1>8, <2>1, <2>2
  <2>4. PICK st : st = StepOf(cfg, k)
    OBVIOUS
  <2>5. b.ki \in 0..(ks - 1) /\ b.k0 = b.ki * st /\ b.k = CutLen(k, ks, st, b.ki)
    BY <1>5, <2>1, <2>2, <2>4
  <2>6. /\ d.ki \in 0..(ks - 1) /\ d.k0 = d.ki * st
        /\ d.k = CutLen(k, ks, st, d.ki)
    BY <2>3, <2>5
  <2>7. Shape[e.w].k = k /\ e.ks = ks
    BY <1>6, <1>a
  <2> QED
    BY <2>2, <2>3, <2>4, <2>6, <2>7
<1> QED
  BY <1>6, <1>7, <1>9, <1>10, <1>11, <1>12

\* Regions of an entry's output buffers: each in its buffer, no two the same.
LEMMA RegionsApart ==
  ASSUME cfg \in Configs, NEW e \in Entries
  PROVE  \A a, b \in DOMAIN e.slots :
            /\ e.slots[a].out < e.room[e.slots[a].di]
            /\ a # b => <<e.slots[a].di, e.slots[a].out>> # <<e.slots[b].di, e.slots[b].out>>
<1>0. PICK w \in Tensors : e \in {Made(w, owner) : owner \in [DOMAIN TheGrid(w) -> Devs]}
  BY DEF Entries
<1>1. PICK owner \in [DOMAIN TheGrid(w) -> Devs] : e = Made(w, owner)
  BY <1>0
<1>2. PICK len \in Nat : DOMAIN TheGrid(w) = 1..len
  BY <1>1, SlotFacts, SomeRows DEF Made
<1>3. DOMAIN owner = 1..len /\ \A i \in 1..len : owner[i] \in Devs
  BY <1>1, <1>2
<1>4. /\ DOMAIN e.slots = 1..len
      /\ \A i \in 1..len : e.slots[i].di = owner[i] /\ e.slots[i].out = Before(owner, i)
      /\ e.room = Tally(owner)
  BY <1>1, <1>2 DEF Made, Slots
<1> DEFINE P(i) == {j \in 1..(i - 1) : owner[j] = owner[i]}
           Q(d) == {j \in 1..len : owner[j] = d}
<1>5. \A i \in 1..len : Before(owner, i) = Cardinality(P(i))
  BY DEF Before
<1>6. \A d \in Devs : e.room[d] = Cardinality(Q(d))
  BY <1>3, <1>4 DEF Tally
<1>7. \A i \in 1..len : P(i) \subseteq Q(owner[i]) /\ i \in Q(owner[i]) /\ i \notin P(i)
  OBVIOUS
<1>8. \A d : Q(d) \subseteq 1..len /\ IsFiniteSet(Q(d)) /\ Cardinality(Q(d)) \in Nat
  <2>1. IsFiniteSet(1..len)
    BY FS_Interval
  <2> QED
    BY <2>1, FS_Subset, FS_CardinalityType
<1>9. \A a, b \in 1..len : a < b /\ owner[a] = owner[b] =>
         P(a) \subseteq P(b) /\ a \in P(b) /\ a \notin P(a)
  OBVIOUS
<1>10. \A i \in 1..len : /\ IsFiniteSet(P(i)) /\ Cardinality(P(i)) \in Nat
                         /\ Cardinality(P(i)) < Cardinality(Q(owner[i]))
  <2> SUFFICES ASSUME NEW i \in 1..len
               PROVE  /\ IsFiniteSet(P(i)) /\ Cardinality(P(i)) \in Nat
                      /\ Cardinality(P(i)) < Cardinality(Q(owner[i]))
    OBVIOUS
  <2>1. P(i) \subseteq Q(owner[i]) /\ P(i) # Q(owner[i])
    BY <1>7
  <2>2. IsFiniteSet(Q(owner[i])) /\ Cardinality(Q(owner[i])) \in Nat
    BY <1>8
  <2> HIDE DEF P, Q
  <2>3. /\ IsFiniteSet(P(i)) /\ Cardinality(P(i)) <= Cardinality(Q(owner[i]))
        /\ Cardinality(P(i)) # Cardinality(Q(owner[i]))
    BY <2>1, <2>2, FS_Subset
  <2>4. Cardinality(P(i)) \in Nat
    BY <2>3, FS_CardinalityType
  <2> QED
    BY <2>2, <2>3, <2>4
<1>11. \A a, b \in 1..len : a < b /\ owner[a] = owner[b] =>
          Cardinality(P(a)) # Cardinality(P(b))
  <2> SUFFICES ASSUME NEW a \in 1..len, NEW b \in 1..len, a < b, owner[a] = owner[b]
               PROVE  Cardinality(P(a)) # Cardinality(P(b))
    OBVIOUS
  <2>1. P(a) \subseteq P(b) /\ P(a) # P(b)
    BY <1>9
  <2>2. IsFiniteSet(P(b))
    BY <1>10
  <2> HIDE DEF P, Q
  <2> QED
    BY <2>1, <2>2, FS_Subset
<1> HIDE DEF P, Q
<1> SUFFICES ASSUME NEW a \in 1..len, NEW b \in 1..len
             PROVE  /\ e.slots[a].out < e.room[e.slots[a].di]
                    /\ a # b => <<e.slots[a].di, e.slots[a].out>>
                                  # <<e.slots[b].di, e.slots[b].out>>
  BY <1>4
<1>12. e.slots[a].out < e.room[e.slots[a].di]
  BY <1>3, <1>4, <1>5, <1>6, <1>10
<1>13. a # b => e.slots[a].di # e.slots[b].di \/ e.slots[a].out # e.slots[b].out
  <2>1. CASE owner[a] = owner[b] /\ a < b
    BY <1>4, <1>5, <1>11, <2>1
  <2>2. CASE owner[a] = owner[b] /\ b < a
    BY <1>4, <1>5, <1>11, <2>2
  <2>3. CASE owner[a] # owner[b]
    BY <1>4, <2>3
  <2> QED
    BY <2>1, <2>2, <2>3
<1> QED
  BY <1>12, <1>13

\* The slots of an entry tile the rows the hardware was given.
LEMMA SlotsTile ==
  ASSUME cfg \in Configs, NEW e \in Entries
  PROVE  /\ \A i \in DOMAIN e.slots : /\ e.slots[i].k \in 1..KmaxWide(cfg)
                                      /\ e.slots[i].n \in 1..cfg.nmax
                                      /\ Cells(e.slots[i]) \subseteq
                                           (0..(HardwareRows(e.w) - 1)) \X (0..(Shape[e.w].k - 1))
         /\ \A row \in 0..(HardwareRows(e.w) - 1), col \in 0..(Shape[e.w].k - 1) :
               \E i \in DOMAIN e.slots : <<row, col>> \in Cells(e.slots[i])
         /\ \A a, b \in DOMAIN e.slots :
               a # b => Cells(e.slots[a]) \cap Cells(e.slots[b]) = {}
<1>1. PICK k \in Nat \ {0}, rows \in Nat \ {0} : k = Shape[e.w].k /\ rows = HardwareRows(e.w)
  BY SlotFacts
<1>2. PICK g : g = Grid(cfg, k, rows)
  OBVIOUS
<1>3. /\ DOMAIN e.slots = DOMAIN g
      /\ \A i \in DOMAIN e.slots : /\ e.slots[i].k = g[i].k /\ e.slots[i].n = g[i].n
                                   /\ e.slots[i].k0 = g[i].k0 /\ e.slots[i].n0 = g[i].n0
  BY <1>1, <1>2, SlotFacts
<1>4. \A i \in DOMAIN e.slots : Cells(e.slots[i]) = Cells(g[i])
  BY <1>3 DEF Cells
<1>5. /\ \A i \in DOMAIN g : /\ g[i].k \in 1..KmaxWide(cfg) /\ g[i].n \in 1..cfg.nmax
                             /\ g[i].k0 \in Nat /\ g[i].n0 \in Nat
                             /\ g[i].k0 + g[i].k <= k /\ g[i].n0 + g[i].n <= rows
      /\ \A row \in 0..(rows - 1), col \in 0..(k - 1) :
            \E i \in DOMAIN g : <<row, col>> \in Cells(g[i])
      /\ \A i, j \in DOMAIN g : i # j => Cells(g[i]) \cap Cells(g[j]) = {}
  BY <1>2, GridTiles
<1>6. \A i \in DOMAIN g : Cells(g[i]) \subseteq (0..(rows - 1)) \X (0..(k - 1))
  <2> SUFFICES ASSUME NEW i \in DOMAIN g
               PROVE  Cells(g[i]) \subseteq (0..(rows - 1)) \X (0..(k - 1))
    OBVIOUS
  <2>1. PICK n0 \in Nat, n \in Int, k0 \in Nat, kw \in Int :
           /\ n0 = g[i].n0 /\ n = g[i].n /\ k0 = g[i].k0 /\ kw = g[i].k
           /\ n0 + n <= rows /\ k0 + kw <= k
    BY <1>5
  <2>2. n0..(n0 + n - 1) \subseteq 0..(rows - 1) /\ k0..(k0 + kw - 1) \subseteq 0..(k - 1)
    BY <2>1
  <2> QED
    BY <2>1, <2>2 DEF Cells
<1> QED
  BY <1>1, <1>3, <1>4, <1>5, <1>6

-----------------------------------------------------------------------------
(* Staging: what is remembered of it.                                      *)

StageInv ==
    /\ cfg \in Configs
    /\ memo \in [Tensors -> [built : BOOLEAN, id : Int]]
    /\ \A w \in Tensors : ~memo[w].built => memo[w].id = -1
    /\ ents \in Seq(Entries)
    /\ MemoTruthful

\* What another tensor's staging leaves as it was.
Grown ==
    /\ cfg' = cfg
    /\ \A i \in DOMAIN ents : i \in DOMAIN ents' /\ ents'[i] = ents[i]
    /\ \A u \in Tensors : memo[u].id # -1 => memo'[u].id = memo[u].id

\* Entries depend on the knobs alone.
LEMMA SameEntries ==
  ASSUME cfg' = cfg
  PROVE  Entries' = Entries
BY DEF Entries, Made, Tally, TheGrid, HardwareRows, Devs

\* A step that touches nothing of staging.
LEMMA StageUntouched ==
  ASSUME StageInv, UNCHANGED <<cfg, memo, ents>>
  PROVE  StageInv' /\ Grown
<1>1. Entries' = Entries
  BY SameEntries
<1> QED
  BY <1>1 DEF StageInv, MemoTruthful, Id, Grown

\* A tensor that is refused, at whatever step.
LEMMA RefusedStays ==
  ASSUME StageInv, NEW w \in Tensors, ~memo[w].built,
         Remember(w, -1), UNCHANGED <<cfg, ents>>
  PROVE  StageInv' /\ Grown
<1>1. Entries' = Entries
  BY SameEntries
<1>2. /\ memo[w].id = -1 /\ memo'[w] = [built |-> TRUE, id |-> -1]
      /\ \A u \in Tensors : u # w => memo'[u] = memo[u]
      /\ memo' \in [Tensors -> [built : BOOLEAN, id : Int]]
  BY DEF StageInv, Remember
<1>3. \A u \in Tensors : memo'[u].id = memo[u].id
  BY <1>2
<1>4. \A i \in DOMAIN ents : ents[i].w \in Tensors
  <2>1. \A i \in DOMAIN ents : ents[i] \in Entries
    BY DEF StageInv
  <2> QED
    BY <2>1, SlotFacts DEF StageInv
<1>5. MemoTruthful'
  BY <1>3, <1>4 DEF StageInv, MemoTruthful, Id
<1>6. \A u \in Tensors : ~memo'[u].built => memo'[u].id = -1
  BY <1>2 DEF StageInv
<1> QED
  BY <1>1, <1>2, <1>3, <1>5, <1>6 DEF StageInv, Grown

\* A tensor that is staged gets the next number and its own regions.
LEMMA StagedAtTheEnd ==
  ASSUME StageInv, NEW w \in Tensors, ~memo[w].built, NEW e \in Entries, e.w = w,
         ents' = Append(ents, e), Remember(w, Len(ents) + 1), cfg' = cfg
  PROVE  StageInv' /\ Grown
<1>1. Entries' = Entries
  BY SameEntries
<1>2. PICK l \in Nat : l = Len(ents) /\ DOMAIN ents = 1..l
  BY DEF StageInv
<1>3. /\ ents' \in Seq(Entries) /\ DOMAIN ents' = 1..(l + 1)
      /\ \A i \in 1..l : ents'[i] = ents[i]
      /\ ents'[l + 1] = e
  BY <1>2 DEF StageInv
<1>4. /\ memo[w].id = -1 /\ memo'[w].id = l + 1 /\ memo'[w].built
      /\ \A u \in Tensors : u # w => memo'[u] = memo[u]
      /\ memo' \in [Tensors -> [built : BOOLEAN, id : Int]]
  BY <1>2 DEF StageInv, Remember
<1>5. \A i \in 1..l : ents[i].w \in Tensors
  <2>1. \A i \in 1..l : ents[i] \in Entries
    BY <1>2 DEF StageInv
  <2> QED
    BY <2>1, SlotFacts DEF StageInv
<1>6. /\ \A u \in Tensors : memo[u].id # -1 => memo[u].id \in 1..l /\ ents[memo[u].id].w = u
      /\ \A i \in 1..l : memo[ents[i].w].id = i
  BY <1>2 DEF StageInv, MemoTruthful, Id
<1>7. \A u \in Tensors : memo'[u].id # -1 => memo'[u].id \in 1..(l + 1) /\ ents'[memo'[u].id].w = u
  BY <1>2, <1>3, <1>4, <1>6
<1>8. \A i \in 1..(l + 1) : memo'[ents'[i].w].id = i
  <2> SUFFICES ASSUME NEW i \in 1..(l + 1)
               PROVE  memo'[ents'[i].w].id = i
    OBVIOUS
  <2>1. CASE i = l + 1
    BY <1>3, <1>4, <2>1
  <2>2. CASE i # l + 1
    <3>1. i \in 1..l /\ i # -1
      BY <1>2, <2>2
    <3> QED
      BY <1>3, <1>4, <1>5, <1>6, <3>1
  <2> QED
    BY <2>1, <2>2
<1>9. MemoTruthful'
  BY <1>3, <1>7, <1>8 DEF MemoTruthful, Id
<1>10. \A u \in Tensors : ~memo'[u].built => memo'[u].id = -1
  BY <1>4 DEF StageInv
<1>11. Grown
  <2>1. \A i \in DOMAIN ents : i \in DOMAIN ents' /\ ents'[i] = ents[i]
    BY <1>2, <1>3
  <2>2. \A u \in Tensors : memo[u].id # -1 => memo'[u].id = memo[u].id
    BY <1>4
  <2> QED
    BY <2>1, <2>2 DEF Grown
<1> QED
  BY <1>1, <1>3, <1>4, <1>9, <1>10, <1>11 DEF StageInv

\* charsiu_pool_get keeps the memo truthful and what was staged before.
LEMMA StageKept ==
  ASSUME StageInv, NEW w \in Tensors, NEW d, PoolGet(w, d)
  PROVE  StageInv' /\ Grown
<1>1. CASE PoolHit(w) \/ PoolFull(w) \/ PoolBuildFails(w)
  BY <1>1, StageUntouched DEF PoolHit, PoolFull, PoolBuildFails, stageVars
<1>2. CASE ~memo[w].built /\ Add(w, d)
  <2>1. CASE AddRefused(w, d) \/ AddNoRoom(w, d) \/ AddSliceFails(w, d)
    <3>1. Remember(w, -1) /\ UNCHANGED <<cfg, ents>>
      BY <2>1 DEF AddRefused, AddNoRoom, AddSliceFails
    <3> QED
      BY <1>2, <3>1, RefusedStays
  <2>2. CASE AddOk(w, d)
    <3> DEFINE owner == Deal(TheGrid(w), LevelLoad(w))
               e == Entry(w, owner)
    <3>1. ents' = Append(ents, e) /\ cfg' = cfg /\ Remember(w, Len(ents) + 1)
      BY <2>2 DEF AddOk
    <3>2. owner \in [DOMAIN TheGrid(w) -> Devs]
      BY EverySliceDealt DEF StageInv
    <3>3. e = Made(w, owner)
      BY DEF Entry, Made, Probed, Tally
    <3>4. e \in Entries /\ e.w = w
      <4> HIDE DEF owner, e
      <4> QED
        BY <3>2, <3>3 DEF Entries, Made
    <3> HIDE DEF e
    <3> QED
      BY <1>2, <3>1, <3>4, StagedAtTheEnd
  <2> QED
    BY <1>2, <2>1, <2>2 DEF Add
<1> QED
  BY <1>1, <1>2 DEF PoolGet

\* The newest entry is one that staging made.
LEMMA NewestMade ==
  ASSUME StageInv, ents # <<>>
  PROVE  Last(ents) \in Entries
BY DEF StageInv, Last

\* SlicesTile and OutputsApart of whatever is staged.
LEMMA StagedWell ==
  ASSUME StageInv
  PROVE  SlicesTile /\ OutputsApart /\ MemoTruthful
<1>1. ASSUME ents # <<>>
      PROVE  OutputsApart
  <2>1. PICK e \in Entries : e = Last(ents)
    BY <1>1, NewestMade
  <2>2. \A a, b \in DOMAIN e.slots :
            /\ e.slots[a].out < e.room[e.slots[a].di]
            /\ a # b => <<e.slots[a].di, e.slots[a].out>> # <<e.slots[b].di, e.slots[b].out>>
    BY RegionsApart DEF StageInv
  <2> QED
    BY <2>1, <2>2 DEF OutputsApart
<1>2. ASSUME ents # <<>>
      PROVE  SlicesTile
  <2>1. PICK e \in Entries : e = Last(ents)
    BY <1>2, NewestMade
  <2> DEFINE s == ToSet(e.slots)
             whole == (0..(HardwareRows(e.w) - 1)) \X (0..(Shape[e.w].k - 1))
  <2>2. /\ \A i \in DOMAIN e.slots : /\ e.slots[i].k \in 1..KmaxWide(cfg)
                                     /\ e.slots[i].n \in 1..cfg.nmax
                                     /\ Cells(e.slots[i]) \subseteq whole
        /\ \A row \in 0..(HardwareRows(e.w) - 1), col \in 0..(Shape[e.w].k - 1) :
              \E i \in DOMAIN e.slots : <<row, col>> \in Cells(e.slots[i])
        /\ \A a, b \in DOMAIN e.slots :
              a # b => Cells(e.slots[a]) \cap Cells(e.slots[b]) = {}
    BY SlotsTile DEF StageInv
  <2>3. \A x \in s : x.k \in 1..KmaxWide(cfg) /\ x.n \in 1..cfg.nmax
    BY <2>2 DEF ToSet
  <2>4. UNION {Cells(x) : x \in s} = whole
    <3>1. \A x \in s : Cells(x) \subseteq whole
      BY <2>2 DEF ToSet
    <3>2. \A c \in whole : \E x \in s : c \in Cells(x)
      BY <2>2 DEF ToSet
    <3> HIDE DEF s, whole
    <3> QED
      BY <3>1, <3>2
  <2> QED
    BY <2>1, <2>2, <2>3, <2>4 DEF SlicesTile, Cells
<1> QED
  BY <1>1, <1>2 DEF StageInv, SlicesTile, OutputsApart

-----------------------------------------------------------------------------
(* The row path.                                                           *)

Verdicts == {"none", "cpu", "right", "unscaled", "late", "wrong"}

\* What a tensor may be answered with behind fences that were met.
Sound(what, w) == what \in Verdicts \ {"wrong"} /\ (what = "unscaled" => FactorAndSplit(w))
Job0 == [tasks : SUBSET (Nat \X Nat), torn : BOOLEAN]

RowKinds ==
    /\ dead \in BOOLEAN /\ strikes \in Nat
    /\ pc \in {"idle", "stage", "group", "pack", "submit", "fence"}
    /\ call \in [ws : Seq(Tensors), v : Nat, mode : {"single", "group"},
                 at : Nat \ {0}, ans : Seq(Verdicts)]
    /\ Len(call.ans) = Len(call.ws)
    /\ pc # "idle" => call.at \in DOMAIN call.ws
    /\ dev \in Devs /\ (pc # "submit" => dev = 0)
    /\ waits \in Seq(Nat \X Nat)
    /\ met \in BOOLEAN /\ (pc # "fence" => met)
    /\ \A d \in {0, 1} : queue[d] \in Seq(Job0)
    /\ DOMAIN inb = {0, 1} /\ DOMAIN queue = {0, 1}

\* The tensors a group has gone past are on the hardware, and from its check
\* on all of them are, of one factor and one K.
Working == pc \in {"submit", "fence"}
OnHardware ==
    /\ pc = "stage" /\ call.mode = "group" =>
          \A i \in 1..(call.at - 1) : Id(call.ws[i]) # -1
    /\ pc = "group" => call.mode = "group" /\ \A i \in DOMAIN call.ws : Id(call.ws[i]) # -1
    /\ pc \in {"pack", "submit", "fence"} => \A i \in DOMAIN InCall : InCall[i] \in DOMAIN ents
OfOneInput ==
    pc \in {"pack", "submit", "fence"} /\ call.mode = "group" =>
        \A i, j \in DOMAIN call.ws : /\ Shape[call.ws[i]].awq = Shape[call.ws[j]].awq
                                     /\ Shape[call.ws[i]].k = Shape[call.ws[j]].k

\* Every region of the first entry holds this call's input, on every device.
Packed ==
    Working => \A e \in {ents[InCall[1]]} : \A d \in Devs, ki \in 0..(e.ks - 1) :
                   ki \in DOMAIN inb[d] /\ inb[d][ki] = Region(e, ki)

\* A device's jobs write regions of its own.
JobsAtHome ==
    \A d \in {0, 1} : \A j \in DOMAIN queue[d] : \A t \in queue[d][j].tasks :
        t[1] \in DOMAIN ents /\ t[2] \in DOMAIN ents[t[1]].slots
                             /\ ents[t[1]].slots[t[2]].di = d

\* A device that was given work has it as its newest job, or has done it all.
Given(d) == Working /\ d \in Devs /\ (pc = "fence" \/ d < dev) /\ TasksOn(d) # {}
Computing ==
    \A d \in {0, 1} : Given(d) =>
        \/ queue[d] # <<>> /\ queue[d][Len(queue[d])] = Job(d)
        \/ queue[d] = <<>> /\ \A t \in TasksOn(d) : SlotRight(t[1], t[2])

\* A fence that was met leaves nobody to write that entry on that device.
FencesMet ==
    pc = "fence" /\ met =>
        \A i \in ToSet(InCall) : \A d \in Devs :
            call.mode = "group" \/ TasksOn(d) # {} =>
                (\E j \in DOMAIN waits : waits[j] = <<i, d>>) \/ ~Owed(i, d)

RowInv ==
    /\ RowKinds /\ OnHardware /\ OfOneInput /\ Packed /\ JobsAtHome /\ Computing
    /\ FencesMet /\ FencedAnswersRight
RowIInv == StageInv /\ RowInv

\* What a call is.
CallKind ==
    [ws : Seq(Tensors), v : Nat, mode : {"single", "group"},
     at : Nat \ {0}, ans : Seq(Verdicts)]

\* Answers depend on the knobs and on the tensors asked for.
LEMMA AnswersStay ==
  ASSUME FencedAnswersRight, cfg' = cfg, call'.ws = call.ws, call'.ans = call.ans
  PROVE  FencedAnswersRight'
BY DEF FencedAnswersRight, FactorAndSplit, HardwareRows

\* A tensor answered: the call stays one, with one answer more.
LEMMA AnswerKeeps ==
  ASSUME RowKinds, pc # "idle", NEW what \in Verdicts, Answer(what)
  PROVE  /\ call' \in CallKind /\ Len(call'.ans) = Len(call'.ws)
         /\ call'.ws = call.ws /\ call'.v = call.v /\ call'.mode = call.mode
         /\ call'.at \in DOMAIN call.ws
         /\ pc' \in {"idle", "stage"}
         /\ DOMAIN call'.ans = DOMAIN call.ans
         /\ \A i \in DOMAIN call.ans : call'.ans[i] = IF i = call.at THEN what ELSE call.ans[i]
<1>1. PICK c \in CallKind : c = call /\ Len(c.ans) = Len(c.ws) /\ c.at \in DOMAIN c.ws
  BY DEF RowKinds, CallKind
<1>2. PICK l \in Nat : l = Len(c.ws) /\ DOMAIN c.ws = 1..l /\ DOMAIN c.ans = 1..l
  BY <1>1 DEF CallKind
<1>3. PICK ans : ans = [c.ans EXCEPT ![c.at] = what]
  OBVIOUS
<1>4. /\ ans \in Seq(Verdicts) /\ Len(ans) = l /\ DOMAIN ans = 1..l
      /\ \A i \in 1..l : ans[i] = IF i = c.at THEN what ELSE c.ans[i]
  BY <1>1, <1>2, <1>3 DEF CallKind
<1>5. PICK at : at = Least(c.at + 1, l) /\ at \in 1..l /\ at \in Nat \ {0}
  BY <1>1, <1>2 DEF Least
<1>6. call' = [c EXCEPT !.ans = ans, !.at = at]
  BY <1>1, <1>2, <1>3, <1>5 DEF Answer
<1>7. /\ call' \in CallKind /\ call'.ans = ans /\ call'.at = at /\ call'.ws = c.ws
      /\ call'.v = c.v /\ call'.mode = c.mode
  BY <1>4, <1>5, <1>6 DEF CallKind
<1> QED
  BY <1>1, <1>2, <1>4, <1>5, <1>7 DEF Answer

\* A group given up is asked one tensor at a time.
LEMMA OneByOneKeeps ==
  ASSUME RowKinds, pc # "idle", call' = OneByOne(call)
  PROVE  /\ call' \in CallKind /\ Len(call'.ans) = Len(call'.ws)
         /\ call'.ws = call.ws /\ call'.mode = "single" /\ call'.ans = call.ans
         /\ call'.at \in DOMAIN call'.ws
<1>1. PICK c \in CallKind : c = call /\ Len(c.ans) = Len(c.ws) /\ c.at \in DOMAIN c.ws
  BY DEF RowKinds, CallKind
<1>2. call' = [c EXCEPT !.mode = "single", !.at = 1]
  BY <1>1 DEF OneByOne
<1>3. PICK l \in Nat : l = Len(c.ws) /\ DOMAIN c.ws = 1..l
  BY <1>1 DEF CallKind
<1>4. 1 \in DOMAIN c.ws
  BY <1>1, <1>3
<1>5. call' \in CallKind
  <2>1. /\ c.ws \in Seq(Tensors) /\ c.v \in Nat /\ c.ans \in Seq(Verdicts)
        /\ c = [ws |-> c.ws, v |-> c.v, mode |-> c.mode, at |-> c.at, ans |-> c.ans]
    BY DEF CallKind
  <2>2. call' = [ws |-> c.ws, v |-> c.v, mode |-> "single", at |-> 1, ans |-> c.ans]
    BY <1>2, <2>1
  <2> QED
    BY <2>1, <2>2 DEF CallKind
<1>6. /\ call'.ws = c.ws /\ call'.v = c.v /\ call'.ans = c.ans
      /\ call'.mode = "single" /\ call'.at = 1
  BY <1>1, <1>2 DEF CallKind
<1> QED
  BY <1>1, <1>4, <1>5, <1>6

\* The fences of a call: for each of its entries and each device that has to
\* be waited for there is one, and there are no others.
LEMMA FencesAre ==
  ASSUME StageInv, RowKinds, OnHardware, pc = "submit"
  PROVE  /\ Fences \in Seq(Nat \X Nat)
         /\ \A i \in ToSet(InCall) : \A d \in Devs :
               call.mode = "group" \/ TasksOn(d) # {} =>
                  \E j \in DOMAIN Fences : Fences[j] = <<i, d>>
<1>1. /\ cfg.ndev \in {1, 2} /\ Devs \subseteq {0, 1} /\ Devs = 0..(cfg.ndev - 1)
  BY StageAssumption DEF StageInv, Devs
<1>2. PICK n \in Nat : n = Len(call.ws) /\ DOMAIN call.ws = 1..n
  BY DEF RowKinds
<1>3. \A i \in DOMAIN InCall : InCall[i] \in DOMAIN ents
  BY DEF OnHardware
<1>4. DOMAIN ents \subseteq Nat
  BY DEF StageInv
<1>5. CASE call.mode = "group"
  <2>1. DOMAIN InCall = 1..n /\ Len(InCall) = n
    BY <1>2, <1>5 DEF InCall, IdsOf
  <2>2. PICK m \in {1, 2} : m = cfg.ndev
    BY <1>1
  <2>3. Fences = [i \in 1..(n * m) |-> <<InCall[(i - 1) \div m + 1], (i - 1) % m>>]
    BY <1>5, <2>1, <2>2 DEF Fences
  <2>4. PICK l \in Nat : l = n * m
    OBVIOUS
  <2>5. \A i \in 1..(n * m) : (i - 1) \div m + 1 \in 1..n /\ (i - 1) % m \in Nat
    <3>1. CASE m = 1
      BY <3>1
    <3>2. CASE m = 2
      BY <3>2
    <3> QED
      BY <3>1, <3>2
  <2>6. \A i \in 1..(n * m) : Fences[i] \in Nat \X Nat
    BY <1>3, <1>4, <2>1, <2>3, <2>5
  <2>7. Fences \in Seq(Nat \X Nat)
    <3>1. Fences \in [1..l -> Nat \X Nat]
      <4>1. Fences = [i \in 1..l |-> <<InCall[(i - 1) \div m + 1], (i - 1) % m>>]
        BY <2>3, <2>4
      <4>2. \A i \in 1..l : Fences[i] \in Nat \X Nat
        BY <2>4, <2>6
      <4> QED
        BY <4>1, <4>2
    <3> QED
      BY <2>4, <3>1
  <2>8. ASSUME NEW a \in 1..n, NEW d \in Devs
        PROVE  \E j \in DOMAIN Fences : Fences[j] = <<InCall[a], d>>
    <3>1. d \in 0..(m - 1)
      BY <1>1, <2>2
    <3>2. PICK j : j = (a - 1) * m + d + 1
      OBVIOUS
    <3>3. j \in 1..(n * m) /\ (j - 1) \div m + 1 = a /\ (j - 1) % m = d
      <4>1. CASE m = 1
        BY <3>1, <3>2, <4>1
      <4>2. CASE m = 2
        BY <3>1, <3>2, <4>2
      <4> QED
        BY <4>1, <4>2
    <3> QED
      BY <2>3, <3>3
  <2> QED
    BY <2>1, <2>7, <2>8 DEF ToSet
<1>6. CASE call.mode = "single"
  <2>1. InCall = <<Id(Current)>> /\ DOMAIN InCall = {1} /\ InCall[1] \in Nat
    BY <1>3, <1>4, <1>6 DEF InCall
  <2>2. Fences = FencesOn(0) \o FencesOn(1)
    BY <1>6 DEF Fences
  <2>3. \A d \in {0, 1} : /\ FencesOn(d) \in Seq(Nat \X Nat)
                          /\ TasksOn(d) = {} => Len(FencesOn(d)) = 0
                          /\ TasksOn(d) # {} =>
                                Len(FencesOn(d)) = 1 /\ FencesOn(d)[1] = <<InCall[1], d>>
    BY <2>1 DEF FencesOn
  <2>4. PICK f0 \in Seq(Nat \X Nat), f1 \in Seq(Nat \X Nat) :
           f0 = FencesOn(0) /\ f1 = FencesOn(1)
    BY <2>3
  <2>5. Fences = f0 \o f1 /\ Fences \in Seq(Nat \X Nat)
    BY <2>2, <2>4
  <2>6. TasksOn(0) # {} => \E j \in DOMAIN Fences : Fences[j] = <<InCall[1], 0>>
    <3>1. TasksOn(0) # {} => Len(f0) = 1 /\ f0[1] = <<InCall[1], 0>>
      BY <2>3, <2>4
    <3> QED
      BY <2>4, <2>5, <3>1
  <2>7. TasksOn(1) # {} => \E j \in DOMAIN Fences : Fences[j] = <<InCall[1], 1>>
    <3>1. TasksOn(1) # {} => Len(f1) = 1 /\ f1[1] = <<InCall[1], 1>>
      BY <2>3, <2>4
    <3>2. Len(f0) \in Nat
      BY <2>4
    <3>3. TasksOn(1) # {} => /\ Len(f0) + 1 \in DOMAIN (f0 \o f1)
                             /\ (f0 \o f1)[Len(f0) + 1] = f1[1]
      BY <2>4, <3>1, <3>2
    <3> QED
      BY <2>5, <3>1, <3>3
  <2> QED
    BY <1>1, <1>6, <2>1, <2>5, <2>6, <2>7 DEF ToSet
<1> QED
  BY <1>5, <1>6 DEF RowKinds


\* A collection with at most one value has the same value everywhere.
LEMMA AllAlike ==
  ASSUME NEW n \in Nat, NEW f, DOMAIN f = 1..n, ~(Cardinality({f[i] : i \in 1..n}) > 1)
  PROVE  \A i, j \in 1..n : f[i] = f[j]
<1> DEFINE S == {f[i] : i \in 1..n}
<1>1. IsFiniteSet(S)
  <2>1. IsFiniteSet(1..n)
    BY FS_Interval
  <2>2. PICK g : g = [i \in 1..n |-> f[i]]
    OBVIOUS
  <2>3. g \in Surjection(1..n, S)
    BY <2>2 DEF Surjection
  <2> HIDE DEF S
  <2> QED
    BY <2>1, <2>3, FS_Surjection
<1> SUFFICES ASSUME NEW i \in 1..n, NEW j \in 1..n, f[i] # f[j]
             PROVE  FALSE
  OBVIOUS
<1>2. {f[i], f[j]} \subseteq S
  OBVIOUS
<1>3. ~(Cardinality(S) > 1)
  OBVIOUS
<1> HIDE DEF S
<1>4. /\ IsFiniteSet({f[i]}) /\ Cardinality({f[i]}) = 1
      /\ {f[i]} \subseteq S /\ {f[i]} # S
  BY <1>2, FS_Singleton
<1>5. /\ Cardinality({f[i]}) <= Cardinality(S) /\ Cardinality({f[i]}) # Cardinality(S)
  BY <1>1, <1>4, FS_Subset
<1>6. Cardinality(S) \in Nat
  BY <1>1, FS_CardinalityType
<1> QED
  BY <1>3, <1>4, <1>5, <1>6

\* The entry of a number that is in use was made by staging.
LEMMA EntryMade ==
  ASSUME StageInv, NEW i \in DOMAIN ents
  PROVE  ents[i] \in Entries /\ i \in Nat \ {0}
BY DEF StageInv

\* A call with work on the hardware has a first entry.
LEMMA FirstEntry ==
  ASSUME StageInv, RowKinds, OnHardware, pc \in {"pack", "submit", "fence"}
  PROVE  /\ 1 \in DOMAIN InCall /\ InCall[1] \in DOMAIN ents
         /\ \A i \in ToSet(InCall) : i \in DOMAIN ents
<1>1. PICK n \in Nat : n = Len(call.ws) /\ DOMAIN call.ws = 1..n
  BY DEF RowKinds
<1>2. 1 \in DOMAIN InCall
  <2>1. CASE call.mode = "group"
    <3>1. call.at \in 1..n
      BY <1>1 DEF RowKinds
    <3>2. 1 \in 1..n
      BY <3>1
    <3> QED
      BY <1>1, <2>1, <3>2 DEF InCall, IdsOf
  <2>2. CASE call.mode # "group"
    BY <2>2 DEF InCall
  <2> QED
    BY <2>1, <2>2
<1> QED
  BY <1>2 DEF OnHardware, ToSet

\* The entries of a call are of one input.
LEMMA OneInput ==
  ASSUME StageInv, RowKinds, OnHardware, OfOneInput, pc \in {"pack", "submit", "fence"},
         NEW i \in ToSet(InCall)
  PROVE  /\ Shape[ents[i].w].awq = Shape[ents[InCall[1]].w].awq
         /\ Shape[ents[i].w].k = Shape[ents[InCall[1]].w].k
<1>1. PICK a \in DOMAIN InCall : i = InCall[a]
  BY DEF ToSet
<1>2. 1 \in DOMAIN InCall
  BY FirstEntry
<1>3. CASE call.mode = "group"
  <2>1. \A b \in DOMAIN InCall : b \in DOMAIN call.ws /\ InCall[b] = Id(call.ws[b])
    BY <1>3 DEF InCall, IdsOf
  <2>2. \A b \in DOMAIN InCall : call.ws[b] \in Tensors
    BY <2>1 DEF RowKinds
  <2>3. \A b \in DOMAIN InCall : InCall[b] # -1
    BY EntryMade DEF OnHardware
  <2>4. \A b \in DOMAIN InCall : ents[InCall[b]].w = call.ws[b]
    BY <2>1, <2>2, <2>3 DEF StageInv, MemoTruthful
  <2> QED
    BY <1>1, <1>2, <1>3, <2>1, <2>4 DEF OfOneInput
<1>4. CASE call.mode # "group"
  BY <1>1, <1>4 DEF InCall
<1> QED
  BY <1>3, <1>4

\* What a job should find in the region of its K slice.
LEMMA RegionIs ==
  ASSUME cfg \in Configs, NEW e \in Entries, NEW x \in Entries,
         Shape[x.w].awq = Shape[e.w].awq, Shape[x.w].k = Shape[e.w].k,
         NEW j \in DOMAIN x.slots
  PROVE  /\ x.slots[j].ki \in 0..(e.ks - 1)
         /\ Region(e, x.slots[j].ki) = [v |-> call.v, f |-> Shape[x.w].awq,
                                        k0 |-> x.slots[j].k0, k |-> x.slots[j].k]
<1>1. PICK k : k = Shape[e.w].k /\ k = Shape[x.w].k
  OBVIOUS
<1>2. PICK ks \in Nat \ {0} : ks = e.ks /\ ks = KSlices(cfg, k)
  BY <1>1, SlotFacts
<1>3. x.ks = ks
  BY <1>1, <1>2, SlotFacts
<1>4. PICK ki : ki = x.slots[j].ki
  OBVIOUS
<1>5. /\ ki \in 0..(ks - 1) /\ x.slots[j].k0 = ki * StepOf(cfg, k)
      /\ x.slots[j].k = CutLen(k, ks, StepOf(cfg, k), ki)
  BY <1>1, <1>3, <1>4, SlotFacts
<1>6. \E s \in ToSet(e.slots) : s.ki = ki
  <2>1. \A m \in 0..(e.ks - 1) : \E b \in DOMAIN e.slots : e.slots[b].ki = m
    BY SlotFacts
  <2>2. PICK b \in DOMAIN e.slots : e.slots[b].ki = ki
    BY <1>2, <1>5, <2>1
  <2> QED
    BY <2>2 DEF ToSet
<1>7. PICK s : s = CHOOSE y \in ToSet(e.slots) : y.ki = ki
  OBVIOUS
<1>8. s \in ToSet(e.slots) /\ s.ki = ki
  BY <1>6, <1>7
<1>9. PICK a \in DOMAIN e.slots : s = e.slots[a]
  BY <1>8 DEF ToSet
<1>10. s.k0 = ki * StepOf(cfg, k) /\ s.k = CutLen(k, ks, StepOf(cfg, k), ki)
  BY <1>1, <1>2, <1>8, <1>9, SlotFacts
<1>11. Region(e, ki) = [v |-> call.v, f |-> Shape[e.w].awq, k0 |-> s.k0, k |-> s.k]
  BY <1>7 DEF Region
<1> QED
  BY <1>2, <1>4, <1>5, <1>10, <1>11

\* Jobs write the regions of the call they are of, each on its own device.
LEMMA TasksAre ==
  ASSUME StageInv, RowKinds, OnHardware, pc \in {"pack", "submit", "fence"},
         NEW d, NEW t \in TasksOn(d)
  PROVE  /\ t = <<t[1], t[2]>> /\ t[1] \in ToSet(InCall) /\ t[1] \in DOMAIN ents
         /\ t[2] \in DOMAIN ents[t[1]].slots /\ ents[t[1]].slots[t[2]].di = d
         /\ t \in Nat \X Nat
<1>1. PICK i \in ToSet(InCall) :
         t \in {<<i, j>> : j \in {x \in DOMAIN ents[i].slots : ents[i].slots[x].di = d}}
  BY DEF TasksOn
<1>2. PICK j \in DOMAIN ents[i].slots : t = <<i, j>> /\ ents[i].slots[j].di = d
  BY <1>1
<1>3. i \in DOMAIN ents
  BY FirstEntry
<1>4. ents[i] \in Entries /\ i \in Nat
  BY <1>3, EntryMade
<1>5. j \in Nat
  <2>1. PICK e \in Entries : e = ents[i]
    BY <1>4
  <2>2. PICK l \in Nat : DOMAIN e.slots = 1..l
    BY SlotFacts DEF StageInv
  <2> QED
    BY <1>2, <2>1, <2>2
<1>6. t[1] = i /\ t[2] = j
  BY <1>2
<1> QED
  BY <1>2, <1>3, <1>4, <1>5, <1>6

\* What a call is of does not change while its tensors stay staged.
LEMMA SameCall ==
  ASSUME UNCHANGED <<cfg, memo, ents, call>>
  PROVE  /\ InCall' = InCall /\ Devs' = Devs
         /\ \A d : TasksOn(d)' = TasksOn(d) /\ Job(d)' = Job(d)
         /\ \A i, j : <<i, j>> \in DOMAIN outb /\ <<i, j>> \in DOMAIN outb'
                /\ outb'[<<i, j>>] = outb[<<i, j>>] => (SlotRight(i, j)' <=> SlotRight(i, j))
<1>1. InCall' = InCall
  BY DEF InCall, IdsOf, Id, Current
<1>2. Devs' = Devs
  BY DEF Devs
<1>3. \A d : TasksOn(d)' = TasksOn(d)
  BY <1>1 DEF TasksOn
<1>4. \A d : Job(d)' = Job(d)
  BY <1>3 DEF Job
<1>5. \A i, j : <<i, j>> \in DOMAIN outb /\ <<i, j>> \in DOMAIN outb'
         /\ outb'[<<i, j>>] = outb[<<i, j>>] => (SlotRight(i, j)' <=> SlotRight(i, j))
  BY DEF SlotRight
<1> QED
  BY <1>1, <1>2, <1>3, <1>4, <1>5

\* Outside of a call's work on the hardware its inputs and jobs are nobody's.
LEMMA NotWorking ==
  ASSUME pc' \notin {"submit", "fence"}
  PROVE  Packed' /\ Computing' /\ FencesMet'
BY DEF Packed, Computing, FencesMet, Working, Given

\* Jobs stay at home while entries are only added.
LEMMA HomeKept ==
  ASSUME StageInv, RowKinds, JobsAtHome, Grown, queue' = queue
  PROVE  JobsAtHome'
<1>1. \A i \in DOMAIN ents : i \in DOMAIN ents' /\ ents'[i] = ents[i]
  BY DEF Grown
<1> QED
  BY <1>1 DEF JobsAtHome

-----------------------------------------------------------------------------
(* The steps before the hardware is given anything.                        *)

\* The row invariant of a step after which the call is not on the hardware.
LEMMA RestKept ==
  ASSUME RowIInv, StageInv', Grown, queue' = queue,
         RowKinds', OnHardware', OfOneInput', FencedAnswersRight',
         pc' \notin {"submit", "fence"}
  PROVE  RowIInv'
<1>1. JobsAtHome'
  BY HomeKept DEF RowIInv, RowInv
<1>2. Packed' /\ Computing' /\ FencesMet'
  BY NotWorking
<1> QED
  BY <1>1, <1>2 DEF RowIInv, RowInv

\* The kinds of a step that changes only where the call stands.
LEMMA KindsMoved ==
  ASSUME RowKinds, StageInv, StageInv', cfg' = cfg, call' \in CallKind,
         Len(call'.ans) = Len(call'.ws),
         pc' \in {"idle", "stage", "group", "pack"},
         pc' # "idle" => call'.at \in DOMAIN call'.ws,
         dev' = 0, dead' \in BOOLEAN, strikes' \in Nat,
         UNCHANGED <<waits, inb, queue>>, met' = TRUE
  PROVE  RowKinds'
<1>1. 0 \in Devs'
  BY StageAssumption DEF Devs, StageInv
<1> QED
  BY <1>1 DEF RowKinds, CallKind

\* matvec, matvec_pair: a call begins.
LEMMA BeginKeeps ==
  ASSUME RowIInv, BeginCall
  PROVE  RowIInv'
<1>1. StageInv' /\ Grown
  BY StageUntouched DEF RowIInv, BeginCall, stageVars
<1>2. PICK ws \in Calls :
         call' = [ws |-> ws, v |-> call.v + 1, at |-> 1,
                  mode |-> IF Len(ws) > 1 THEN "group" ELSE "single",
                  ans |-> [i \in DOMAIN ws |-> "none"]]
  BY DEF BeginCall
<1>3. PICK n \in Nat \ {0} : n = Len(ws) /\ DOMAIN ws = 1..n /\ ws \in Seq(Tensors)
  BY RowAssumption
<1>4. PICK ans : ans = [i \in 1..n |-> "none"]
  OBVIOUS
<1>5. ans \in Seq(Verdicts) /\ Len(ans) = n /\ DOMAIN ans = 1..n
  BY <1>4 DEF Verdicts
<1>6. PICK mode \in {"single", "group"} : mode = IF Len(ws) > 1 THEN "group" ELSE "single"
  OBVIOUS
<1>7. PICK v \in Nat : v = call.v + 1
  BY DEF RowIInv, RowInv, RowKinds
<1>8. call' = [ws |-> ws, v |-> v, at |-> 1, mode |-> mode, ans |-> ans]
  BY <1>2, <1>3, <1>4, <1>6, <1>7
<1>9. call' \in CallKind /\ Len(call'.ans) = Len(call'.ws) /\ call'.at = 1 /\ 1 \in DOMAIN call'.ws
  BY <1>3, <1>5, <1>8 DEF CallKind
<1>10. RowKinds'
  <2>1. /\ dev' = 0 /\ met' = TRUE /\ dead' \in BOOLEAN /\ strikes' \in Nat
        /\ UNCHANGED <<waits, inb, queue>> /\ pc' = "stage"
    BY DEF BeginCall, RowIInv, RowInv, RowKinds
  <2> QED
    BY <1>1, <1>9, <2>1, KindsMoved DEF RowIInv, RowInv, Grown
<1>11. pc' = "stage" /\ queue' = queue
  BY DEF BeginCall
<1>12. OnHardware' /\ OfOneInput'
  <2>1. \A i \in 1..(call'.at - 1) : FALSE
    BY <1>9
  <2> QED
    BY <1>11, <2>1 DEF OnHardware, OfOneInput
<1>13. FencedAnswersRight'
  <2>1. call'.ans = ans
    BY <1>8
  <2> QED
    BY <1>4, <2>1 DEF FencedAnswersRight
<1> QED
  BY <1>1, <1>10, <1>11, <1>12, <1>13, RestKept

\* A tensor answered, wherever in the call.
LEMMA AnsweredKeeps ==
  ASSUME RowIInv, StageInv', Grown, pc # "idle", NEW what, Sound(what, Current),
         Answer(what), call.mode = "single", queue' = queue, inb' = inb, waits' = waits,
         dev' = 0, met' = TRUE, dead' \in BOOLEAN, strikes' \in Nat
  PROVE  RowIInv'
<1>1. /\ call' \in CallKind /\ Len(call'.ans) = Len(call'.ws)
      /\ call'.ws = call.ws /\ call'.mode = call.mode
      /\ call'.at \in DOMAIN call.ws
      /\ pc' \in {"idle", "stage"}
      /\ DOMAIN call'.ans = DOMAIN call.ans
      /\ \A i \in DOMAIN call.ans : call'.ans[i] = IF i = call.at THEN what ELSE call.ans[i]
  BY AnswerKeeps DEF RowIInv, RowInv, Sound
<1>2. RowKinds'
  BY <1>1, KindsMoved DEF RowIInv, RowInv, Grown
<1>3. OnHardware' /\ OfOneInput'
  BY <1>1 DEF OnHardware, OfOneInput
<1>4. FencedAnswersRight'
  <2>1. \A w : FactorAndSplit(w)' <=> FactorAndSplit(w)
    BY DEF FactorAndSplit, HardwareRows, Grown
  <2>2. \A i \in DOMAIN call.ans : Sound(call.ans[i], call.ws[i]) \/ i = call.at
    BY DEF FencedAnswersRight, RowIInv, RowInv, RowKinds, Sound
  <2> QED
    BY <1>1, <2>1, <2>2 DEF FencedAnswersRight, Current, Sound, RowIInv, RowInv
<1>5. pc' \notin {"submit", "fence"}
  BY <1>1
<1> QED
  BY <1>2, <1>3, <1>4, <1>5, RestKept

\* A group given up, wherever it stood.
LEMMA GivenUpKeeps ==
  ASSUME RowIInv, StageInv', Grown, pc # "idle", pc' = "stage", call' = OneByOne(call),
         queue' = queue, inb' = inb, waits' = waits, dev' = 0, met' = TRUE,
         dead' \in BOOLEAN, strikes' \in Nat
  PROVE  RowIInv'
<1>1. /\ call' \in CallKind /\ Len(call'.ans) = Len(call'.ws)
      /\ call'.ws = call.ws /\ call'.mode = "single" /\ call'.ans = call.ans
      /\ call'.at \in DOMAIN call'.ws
  BY OneByOneKeeps DEF RowIInv, RowInv
<1>2. RowKinds'
  BY <1>1, KindsMoved DEF RowIInv, RowInv, Grown
<1>3. OnHardware' /\ OfOneInput'
  BY <1>1 DEF OnHardware, OfOneInput
<1>4. FencedAnswersRight'
  BY <1>1, AnswersStay DEF RowIInv, RowInv, Grown
<1> QED
  BY <1>2, <1>3, <1>4, RestKept

\* The tensor the call stands at is one of the model's.
LEMMA CurrentIs ==
  ASSUME RowKinds, pc # "idle"
  PROVE  Current \in Tensors /\ call.at \in DOMAIN call.ws
BY DEF RowKinds, Current

\* charsiu_npu_matvec_group's callers stage one tensor more.
LEMMA StageGroupKeeps ==
  ASSUME RowIInv, StageGroup
  PROVE  RowIInv'
<1>0. pc = "stage" /\ call.mode = "group" /\ PoolGet(Current, dead)
  BY DEF StageGroup
<1>1. StageInv' /\ Grown
  BY <1>0, CurrentIs, StageKept DEF RowIInv, RowInv
<1>2. /\ UNCHANGED <<waits, inb, queue>> /\ dev' = 0 /\ met' = TRUE
      /\ dead' \in BOOLEAN /\ strikes' \in Nat
  BY <1>0 DEF StageGroup, RowIInv, RowInv, RowKinds
<1>3. PICK w \in Tensors : w = Current
  BY <1>0, CurrentIs DEF RowIInv, RowInv
<1>4. CASE memo'[w].id = -1
  <2>1. call' = OneByOne(call) /\ pc' = "stage"
    BY <1>3, <1>4 DEF StageGroup
  <2> QED
    BY <1>0, <1>1, <1>2, <2>1, GivenUpKeeps
<1>5. CASE memo'[w].id # -1
  <2>0. PICK c \in CallKind : c = call /\ Len(c.ans) = Len(c.ws) /\ c.at \in DOMAIN c.ws
    BY <1>0 DEF RowIInv, RowInv, RowKinds, CallKind
  <2>1. PICK n \in Nat : n = Len(c.ws) /\ DOMAIN c.ws = 1..n
    BY <2>0 DEF CallKind
  <2>2. w = c.ws[c.at] /\ c.mode = "group"
    BY <1>0, <1>3, <2>0 DEF Current
  <2>3. \A i \in 1..c.at : memo'[c.ws[i]].id # -1
    <3>1. \A i \in 1..(c.at - 1) : memo[c.ws[i]].id # -1
      BY <1>0, <2>0 DEF RowIInv, RowInv, OnHardware, Id
    <3>2. \A i \in 1..(c.at - 1) : c.ws[i] \in Tensors
      BY <2>0, <2>1 DEF CallKind
    <3>3. \A i \in 1..(c.at - 1) : memo'[c.ws[i]].id # -1
      BY <1>1, <3>1, <3>2 DEF Grown
    <3>4. \A i \in 1..c.at : i = c.at \/ i \in 1..(c.at - 1)
      BY <2>0, <2>1
    <3> QED
      BY <1>5, <2>2, <3>3, <3>4
  <2>4. CASE c.at = n
    <3>1. call' = c /\ pc' = "group"
      BY <1>3, <1>5, <2>0, <2>1, <2>4 DEF StageGroup
    <3>2. RowKinds'
      <4>1. call'.at \in DOMAIN call'.ws /\ Len(call'.ans) = Len(call'.ws)
        BY <2>0, <3>1
      <4>2. StageInv /\ RowKinds /\ cfg' = cfg
        BY <1>1 DEF RowIInv, RowInv, Grown
      <4> QED
        BY <1>1, <1>2, <2>0, <3>1, <4>1, <4>2, KindsMoved
    <3>3. OnHardware' /\ OfOneInput'
      BY <2>1, <2>2, <2>3, <2>4, <3>1 DEF OnHardware, OfOneInput, Id
    <3>4. FencedAnswersRight'
      BY <1>1, <2>0, <3>1, AnswersStay DEF RowIInv, RowInv, Grown
    <3> QED
      BY <1>1, <1>2, <3>1, <3>2, <3>3, <3>4, RestKept
  <2>5. CASE c.at # n
    <3>1. call' = [c EXCEPT !.at = c.at + 1] /\ pc' = "stage"
      BY <1>3, <1>5, <2>0, <2>1, <2>5 DEF StageGroup
    <3>2. /\ call' \in CallKind /\ call'.ws = c.ws /\ call'.ans = c.ans
          /\ call'.at = c.at + 1 /\ call'.at \in 1..n
      BY <2>0, <2>1, <2>5, <3>1 DEF CallKind
    <3>3. RowKinds'
      <4>1. call'.at \in DOMAIN call'.ws /\ Len(call'.ans) = Len(call'.ws)
        BY <2>0, <2>1, <3>2
      <4>2. StageInv /\ RowKinds /\ cfg' = cfg
        BY <1>1 DEF RowIInv, RowInv, Grown
      <4> QED
        BY <1>1, <1>2, <3>1, <3>2, <4>1, <4>2, KindsMoved
    <3>4. OnHardware' /\ OfOneInput'
      <4>1. \A i \in 1..(call'.at - 1) : i \in 1..c.at
        BY <2>0, <2>1, <3>2
      <4> QED
        BY <2>3, <3>1, <3>2, <4>1 DEF OnHardware, OfOneInput, Id
    <3>5. FencedAnswersRight'
      BY <1>1, <2>0, <3>2, AnswersStay DEF RowIInv, RowInv, Grown
    <3> QED
      BY <1>1, <1>2, <3>1, <3>3, <3>4, <3>5, RestKept
  <2> QED
    BY <2>4, <2>5
<1> QED
  BY <1>4, <1>5

\* matvec_again stages one tensor, and has it done.
LEMMA StageOneKeeps ==
  ASSUME RowIInv, StageOne
  PROVE  RowIInv'
<1>0. pc = "stage" /\ call.mode = "single" /\ PoolGet(Current, dead)
  BY DEF StageOne
<1>1. StageInv' /\ Grown
  BY <1>0, CurrentIs, StageKept DEF RowIInv, RowInv
<1>2. /\ UNCHANGED <<waits, inb, queue>> /\ dev' = 0 /\ met' = TRUE
      /\ dead' \in BOOLEAN /\ strikes' \in Nat
  BY <1>0 DEF StageOne, RowIInv, RowInv, RowKinds
<1>3. Current \in Tensors
  BY <1>0, CurrentIs DEF RowIInv, RowInv
<1>4. CASE memo'[Current].id # -1 /\ ~dead
  <2>1. pc' = "pack" /\ call' = call
    BY <1>4 DEF StageOne
  <2>2. RowKinds'
    <3>1. call' \in CallKind /\ Len(call'.ans) = Len(call'.ws) /\ call'.at \in DOMAIN call'.ws
      BY <1>0, <2>1 DEF RowIInv, RowInv, RowKinds, CallKind
    <3>2. StageInv /\ RowKinds /\ cfg' = cfg
      BY <1>1 DEF RowIInv, RowInv, Grown
    <3> QED
      BY <1>1, <1>2, <2>1, <3>1, <3>2, KindsMoved
  <2>3. memo'[Current].id \in DOMAIN ents'
    BY <1>1, <1>3, <1>4 DEF StageInv, MemoTruthful, Id
  <2>4. DOMAIN InCall' = {1} /\ InCall'[1] = memo'[Current].id
    BY <1>0, <2>1 DEF InCall, Id, Current
  <2>5. OnHardware' /\ OfOneInput'
    BY <1>0, <2>1, <2>3, <2>4 DEF OnHardware, OfOneInput
  <2>6. FencedAnswersRight'
    BY <1>1, <2>1, AnswersStay DEF RowIInv, RowInv, Grown
  <2> QED
    BY <1>1, <1>2, <2>1, <2>2, <2>5, <2>6, RestKept
<1>5. CASE ~(memo'[Current].id # -1 /\ ~dead)
  <2>1. Answer("cpu")
    BY <1>5 DEF StageOne
  <2>2. Sound("cpu", Current)
    BY DEF Sound, Verdicts
  <2> QED
    BY <1>0, <1>1, <1>2, <2>1, <2>2, AnsweredKeeps
<1> QED
  BY <1>4, <1>5

\* charsiu_npu_matvec_group looks at what it was given.
LEMMA CheckKeeps ==
  ASSUME RowIInv, CheckGroup
  PROVE  RowIInv'
<1>0. pc = "group" /\ UNCHANGED <<stageVars, dead, strikes, dev, waits, met, inb, queue, outb>>
  BY DEF CheckGroup
<1>1. StageInv' /\ Grown
  BY <1>0, StageUntouched DEF RowIInv, stageVars
<1>2. /\ UNCHANGED <<waits, inb, queue>> /\ dev' = 0 /\ met' = TRUE
      /\ dead' \in BOOLEAN /\ strikes' \in Nat
  BY <1>0 DEF RowIInv, RowInv, RowKinds
<1>3. CASE GroupRefused
  <2>1. pc' = "stage" /\ call' = OneByOne(call)
    BY <1>3 DEF CheckGroup
  <2> QED
    BY <1>0, <1>1, <1>2, <2>1, GivenUpKeeps
<1>4. CASE ~GroupRefused
  <2>1. pc' = "pack" /\ call' = call
    BY <1>4 DEF CheckGroup
  <2>2. RowKinds'
    <3>1. call' \in CallKind /\ Len(call'.ans) = Len(call'.ws) /\ call'.at \in DOMAIN call'.ws
      BY <1>0, <2>1 DEF RowIInv, RowInv, RowKinds, CallKind
    <3>2. StageInv /\ RowKinds /\ cfg' = cfg
      BY <1>1 DEF RowIInv, RowInv, Grown
    <3> QED
      BY <1>1, <1>2, <2>1, <3>1, <3>2, KindsMoved
  <2>3. call.mode = "group" /\ \A i \in DOMAIN call.ws : memo[call.ws[i]].id # -1
    BY <1>0 DEF RowIInv, RowInv, OnHardware, Id
  <2>4. PICK n \in Nat : n = Len(call.ws) /\ DOMAIN call.ws = 1..n
    BY DEF RowIInv, RowInv, RowKinds
  <2>5. \A i \in 1..n : call.ws[i] \in Tensors
    BY <2>4 DEF RowIInv, RowInv, RowKinds
  <2>6. \A i \in 1..n : memo[call.ws[i]].id \in DOMAIN ents
    BY <2>3, <2>4, <2>5 DEF RowIInv, StageInv, MemoTruthful, Id
  <2>7. OnHardware'
    <3>1. /\ DOMAIN InCall' = 1..n
          /\ \A i \in 1..n : InCall'[i] = memo[call.ws[i]].id
      BY <1>0, <2>1, <2>3, <2>4 DEF InCall, IdsOf, Id, stageVars
    <3>2. \A i \in DOMAIN InCall' : InCall'[i] \in DOMAIN ents'
      BY <1>0, <2>6, <3>1 DEF stageVars
    <3> QED
      BY <2>1, <3>2 DEF OnHardware
  <2>8. \A i, j \in 1..n : Shape[call.ws[i]].awq = Shape[call.ws[j]].awq
    <3>1. PICK f : f = [i \in 1..n |-> Shape[call.ws[i]].awq]
      OBVIOUS
    <3>a. DOMAIN f = 1..n
      BY <3>1
    <3>2. {f[i] : i \in 1..n} = Factors
      BY <2>4, <3>1 DEF Factors
    <3>3. ~(Cardinality({f[i] : i \in 1..n}) > 1)
      BY <1>4, <3>2 DEF GroupRefused
    <3>4. \A i, j \in 1..n : f[i] = f[j]
      BY <3>3, <3>a, AllAlike
    <3> QED
      BY <3>1, <3>4
  <2>9. \A i, j \in 1..n : Shape[call.ws[i]].k = Shape[call.ws[j]].k
    <3>1. PICK f : f = [i \in 1..n |-> Shape[call.ws[i]].k]
      OBVIOUS
    <3>a. DOMAIN f = 1..n
      BY <3>1
    <3>2. {f[i] : i \in 1..n} = {Shape[call.ws[i]].k : i \in DOMAIN call.ws}
      BY <2>4, <3>1
    <3>3. ~(Cardinality({f[i] : i \in 1..n}) > 1)
      BY <1>4, <3>2 DEF GroupRefused
    <3>4. \A i, j \in 1..n : f[i] = f[j]
      BY <3>3, <3>a, AllAlike
    <3> QED
      BY <3>1, <3>4
  <2>10. OfOneInput'
    BY <2>1, <2>4, <2>8, <2>9 DEF OfOneInput
  <2>11. FencedAnswersRight'
    BY <1>1, <2>1, AnswersStay DEF RowIInv, RowInv, Grown
  <2> QED
    BY <1>1, <1>2, <2>1, <2>2, <2>7, <2>10, <2>11, RestKept
<1> QED
  BY <1>3, <1>4

\* A submit that the driver refused.
LEMMA SubmitFailsKeeps ==
  ASSUME RowIInv, SubmitFails
  PROVE  RowIInv'
<1>0. /\ pc = "submit" /\ strikes' = 3 /\ dead' = TRUE /\ dev' = 0
      /\ UNCHANGED <<cfg, memo, ents, waits, met, inb, queue, outb>>
  BY DEF SubmitFails
<1>1. StageInv' /\ Grown
  BY <1>0, StageUntouched DEF RowIInv
<1>2. dead' \in BOOLEAN /\ strikes' \in Nat /\ met' = TRUE
  BY <1>0 DEF RowIInv, RowInv, RowKinds
<1>3. CASE call.mode = "group"
  <2>1. pc' = "stage" /\ call' = OneByOne(call)
    BY <1>3 DEF SubmitFails
  <2> QED
    BY <1>0, <1>1, <1>2, <2>1, GivenUpKeeps
<1>4. CASE call.mode # "group"
  <2>1. Answer("cpu")
    BY <1>4 DEF SubmitFails
  <2>2. Sound("cpu", Current) /\ call.mode = "single"
    BY <1>4 DEF Sound, Verdicts, RowIInv, RowInv, RowKinds
  <2> QED
    BY <1>0, <1>1, <1>2, <2>1, <2>2, AnsweredKeeps
<1> QED
  BY <1>3, <1>4

\* A job that is running while the activation is packed stays the job it is.
LEMMA TornStays ==
  ASSUME RowKinds, NEW d \in {0, 1}, NEW q \in MayTear(d)
  PROVE  /\ q \in Seq(Job0) /\ DOMAIN q = DOMAIN queue[d]
         /\ \A j \in DOMAIN q : q[j].tasks = queue[d][j].tasks
<1>1. PICK p \in Seq(Job0) : p = queue[d]
  BY DEF RowKinds
<1>2. CASE p = <<>>
  BY <1>1, <1>2 DEF MayTear
<1>3. CASE p # <<>>
  <2>1. PICK t \in {p[1].torn, TRUE} : q = [p EXCEPT ![1].torn = t]
    BY <1>1, <1>3 DEF MayTear
  <2>2. PICK l \in Nat \ {0} : l = Len(p) /\ DOMAIN p = 1..l
    BY <1>3
  <2>3. p[1] \in Job0
    BY <1>3
  <2>4. PICK b \in BOOLEAN : b = t
    BY <2>1, <2>3 DEF Job0
  <2>5. PICK job \in Job0 : job = [p[1] EXCEPT !.torn = b] /\ job.tasks = p[1].tasks
    <3>1. PICK job : job = [p[1] EXCEPT !.torn = b]
      OBVIOUS
    <3>2. job = [tasks |-> p[1].tasks, torn |-> b]
      BY <2>3, <3>1 DEF Job0
    <3>3. job \in Job0
      BY <2>3, <3>2 DEF Job0
    <3> QED
      BY <3>1, <3>2, <3>3
  <2>6. q = [p EXCEPT ![1] = job]
    BY <2>1, <2>4, <2>5
  <2> QED
    BY <1>1, <2>2, <2>5, <2>6
<1> QED
  BY <1>2, <1>3

\* The activation is packed for every device.
LEMMA PackKeeps ==
  ASSUME RowIInv, Pack
  PROVE  RowIInv'
<1>0. /\ pc = "pack" /\ pc' = "submit"
      /\ UNCHANGED <<stageVars, dead, strikes, call, dev, waits, met, outb>>
  BY DEF Pack
<1>1. StageInv' /\ Grown
  BY <1>0, StageUntouched DEF RowIInv, stageVars
<1>2. UNCHANGED <<cfg, memo, ents, call>>
  BY <1>0 DEF stageVars
<1>3. /\ InCall' = InCall /\ Devs' = Devs
      /\ \A d : TasksOn(d)' = TasksOn(d) /\ Job(d)' = Job(d)
  BY <1>2, SameCall
<1>4. PICK q0 \in MayTear(0), q1 \in MayTear(1) : queue' = [queue EXCEPT ![0] = q0, ![1] = q1]
  BY DEF Pack
<1>5. /\ DOMAIN queue = {0, 1} /\ DOMAIN queue' = {0, 1}
      /\ queue'[0] = q0 /\ queue'[1] = q1
  BY <1>4 DEF RowIInv, RowInv, RowKinds
<1>6. \A d \in {0, 1} : /\ queue'[d] \in Seq(Job0) /\ DOMAIN queue'[d] = DOMAIN queue[d]
                        /\ \A j \in DOMAIN queue'[d] : queue'[d][j].tasks = queue[d][j].tasks
  BY <1>4, <1>5, TornStays DEF RowIInv, RowInv
<1>7. PICK e : e = ents[InCall[1]]
  OBVIOUS
<1>8. e \in Entries /\ e.ks \in Nat
  <2>1. InCall[1] \in DOMAIN ents
    BY <1>0, FirstEntry DEF RowIInv, RowInv
  <2>2. e \in Entries
    BY <1>7, <2>1, EntryMade DEF RowIInv
  <2> QED
    BY <2>2, SlotFacts DEF RowIInv, StageInv
<1>9. inb' = [d \in {0, 1} |-> IF d \in Devs THEN Repacked(inb[d], e) ELSE inb[d]]
  BY <1>7 DEF Pack
<1>10. RowKinds'
  <2>1. DOMAIN inb' = {0, 1}
    BY <1>9
  <2>2. pc # "idle" /\ pc # "fence" /\ pc # "submit"
    BY <1>0
  <2> QED
    BY <1>0, <1>3, <1>5, <1>6, <2>1, <2>2 DEF RowIInv, RowInv, RowKinds
<1>11. OnHardware' /\ OfOneInput' /\ FencedAnswersRight'
  <2>1. FencedAnswersRight'
    BY <1>0, <1>2, <1>3, AnswersStay DEF RowIInv, RowInv, stageVars
  <2> QED
    BY <2>1, <1>0, <1>2, <1>3 DEF RowIInv, RowInv, OnHardware, OfOneInput, Id
<1>12. Packed'
  <2>1. Devs \subseteq {0, 1}
    BY StageAssumption DEF Devs, RowIInv, StageInv
  <2>2. ASSUME NEW d \in Devs, NEW ki \in 0..(e.ks - 1)
        PROVE  ki \in DOMAIN inb'[d] /\ inb'[d][ki] = Region(e, ki)
    <3>1. inb'[d] = Repacked(inb[d], e)
      BY <1>9, <2>1
    <3>2. ki < e.ks
      BY <1>8
    <3> QED
      BY <3>1, <3>2 DEF Repacked
  <2>3. \A ki : Region(e, ki)' = Region(e, ki)
    BY <1>2 DEF Region
  <2>4. ents'[InCall'[1]] = e
    BY <1>2, <1>3, <1>7
  <2> QED
    BY <1>3, <2>2, <2>3, <2>4 DEF Packed
<1>13. JobsAtHome'
  <2>1. JobsAtHome
    BY DEF RowIInv, RowInv
  <2> QED
    BY <1>2, <1>6, <2>1 DEF JobsAtHome
<1>14. Computing'
  <2>1. dev = 0
    BY <1>0 DEF RowIInv, RowInv, RowKinds
  <2>2. \A d \in {0, 1} : ~Given(d)'
    BY <1>0, <2>1 DEF Given
  <2> QED
    BY <2>2 DEF Computing
<1>15. FencesMet'
  BY <1>0 DEF FencesMet
<1> QED
  BY <1>1, <1>10, <1>11, <1>12, <1>13, <1>14, <1>15 DEF RowIInv, RowInv

-----------------------------------------------------------------------------
(* The steps of the devices, and of waiting for them.                      *)

\* A device is given its part of the call.
LEMMA SubmitKeeps ==
  ASSUME RowIInv, Submit
  PROVE  RowIInv'
<1>0. /\ pc = "submit"
      /\ UNCHANGED <<stageVars, dead, strikes, call, met, inb, outb>>
  BY DEF Submit
<1>1. StageInv' /\ Grown
  BY <1>0, StageUntouched DEF RowIInv, stageVars
<1>2. UNCHANGED <<cfg, memo, ents, call>>
  BY <1>0 DEF stageVars
<1>3. /\ InCall' = InCall /\ Devs' = Devs
      /\ \A x : TasksOn(x)' = TasksOn(x) /\ Job(x)' = Job(x)
  BY <1>2, SameCall
<1>4. PICK m \in {1, 2}, d \in {0, 1} : m = cfg.ndev /\ d = dev /\ d < m /\ Devs = 0..(m - 1)
  <2>1. cfg.ndev \in {1, 2} /\ dev \in 0..(cfg.ndev - 1)
    BY StageAssumption DEF Devs, RowIInv, RowInv, RowKinds, StageInv
  <2>2. PICK m \in {1, 2} : m = cfg.ndev
    BY <2>1
  <2>3. Devs = 0..(m - 1) /\ dev \in {0, 1} /\ dev < m
    BY <2>1, <2>2 DEF Devs
  <2> QED
    BY <2>2, <2>3
<1>5. /\ dev' = (d + 1) % m
      /\ dev' = 0 => pc' = "fence" /\ waits' = Fences /\ d = m - 1
      /\ dev' # 0 => pc' = pc /\ waits' = waits /\ dev' = d + 1
      /\ dev' \in Devs
  <2>1. dev' = (d + 1) % m
    BY <1>4 DEF Submit
  <2>2. /\ dev' = 0 => pc' = "fence" /\ waits' = Fences
        /\ dev' # 0 => pc' = pc /\ waits' = waits
    BY DEF Submit
  <2>3. CASE m = 1
    BY <1>4, <2>1, <2>2, <2>3
  <2>4. CASE m = 2
    BY <1>4, <2>1, <2>2, <2>4
  <2> QED
    BY <2>3, <2>4
<1>6. \A t \in TasksOn(d) : t \in Nat \X Nat /\ t[1] \in DOMAIN ents
                             /\ t[2] \in DOMAIN ents[t[1]].slots
                             /\ ents[t[1]].slots[t[2]].di = d
  BY <1>0, TasksAre DEF RowIInv, RowInv
<1>7. PICK job \in Job0 : job = Job(d) /\ job.tasks = TasksOn(d)
  <2>1. TasksOn(d) \in SUBSET (Nat \X Nat)
    BY <1>6
  <2>2. PICK job : job = Job(d)
    OBVIOUS
  <2>3. job = [tasks |-> TasksOn(d), torn |-> FALSE]
    BY <2>2 DEF Job
  <2>4. job \in Job0 /\ job.tasks = TasksOn(d)
    BY <2>1, <2>3 DEF Job0
  <2> QED
    BY <2>2, <2>4
<1>8. PICK p \in Seq(Job0) : p = queue[d] /\ DOMAIN queue = {0, 1}
  BY DEF RowIInv, RowInv, RowKinds
<1>9. /\ DOMAIN queue' = {0, 1}
      /\ \A x \in {0, 1} : x # d => queue'[x] = queue[x]
      /\ TasksOn(d) = {} => queue'[d] = p
      /\ TasksOn(d) # {} => queue'[d] = Append(p, job)
  <2>1. queue' = IF TasksOn(d) = {} THEN queue ELSE [queue EXCEPT ![d] = Append(p, job)]
    BY <1>4, <1>7, <1>8 DEF Submit
  <2> QED
    BY <1>8, <2>1
<1>10. PICK l \in Nat : l = Len(p) /\ DOMAIN p = 1..l
  BY <1>8
<1>11. PICK q \in Seq(Job0) :
          /\ q = Append(p, job) /\ q # <<>> /\ Len(q) = l + 1 /\ DOMAIN q = 1..(l + 1)
          /\ q[l + 1] = job /\ \A j \in 1..l : q[j] = p[j]
  <2>1. PICK q : q = Append(p, job)
    OBVIOUS
  <2>2. q \in Seq(Job0) /\ Len(q) = l + 1 /\ DOMAIN q = 1..(l + 1)
    BY <1>10, <2>1
  <2>3. q[l + 1] = job /\ \A j \in 1..l : q[j] = p[j]
    BY <1>10, <2>1
  <2>4. q # <<>>
    BY <1>10, <2>2
  <2> QED
    BY <2>1, <2>2, <2>3, <2>4
<1>12. RowKinds'
  <2>1. \A x \in {0, 1} : queue'[x] \in Seq(Job0)
    BY <1>8, <1>9, <1>11 DEF RowIInv, RowInv, RowKinds
  <2>2. waits' \in Seq(Nat \X Nat)
    BY <1>0, <1>5, FencesAre DEF RowIInv, RowInv, RowKinds
  <2>3. /\ dev' \in Devs' /\ (pc' # "submit" => dev' = 0) /\ pc' \in {"submit", "fence"}
        /\ pc # "idle" /\ pc # "fence"
    BY <1>0, <1>3, <1>5
  <2> QED
    BY <1>0, <1>9, <2>1, <2>2, <2>3 DEF RowIInv, RowInv, RowKinds
<1>13. pc' \in {"submit", "fence"}
  BY <1>0, <1>5
<1>14. OnHardware' /\ OfOneInput' /\ FencedAnswersRight'
  <2>1. FencedAnswersRight'
    BY <1>0, <1>2, <1>3, <1>13, AnswersStay DEF RowIInv, RowInv, stageVars
  <2> QED
    BY <2>1, <1>0, <1>2, <1>3, <1>13 DEF RowIInv, RowInv, OnHardware, OfOneInput
<1>15. Packed'
  <2>1. \A e, ki : Region(e, ki)' = Region(e, ki)
    BY <1>2 DEF Region
  <2>2. ents'[InCall'[1]] = ents[InCall[1]]
    BY <1>2, <1>3
  <2>3. Packed /\ Working
    BY <1>0 DEF RowIInv, RowInv, Working
  <2> QED
    BY <1>0, <1>3, <2>1, <2>2, <2>3 DEF Packed
<1>16. JobsAtHome'
  <2> SUFFICES ASSUME NEW x \in {0, 1}, NEW j \in DOMAIN queue'[x],
                      NEW t \in queue'[x][j].tasks
               PROVE  /\ t[1] \in DOMAIN ents /\ t[2] \in DOMAIN ents[t[1]].slots
                      /\ ents[t[1]].slots[t[2]].di = x
    BY <1>2 DEF JobsAtHome
  <2>1. JobsAtHome
    BY DEF RowIInv, RowInv
  <2>2. CASE x = d /\ TasksOn(d) # {}
    <3>1. queue'[x] = q
      BY <1>9, <1>11, <2>2
    <3>2. CASE j = l + 1
      BY <1>6, <1>7, <1>11, <2>2, <3>1, <3>2
    <3>3. CASE j # l + 1
      <4>1. j \in DOMAIN p /\ q[j] = p[j]
        BY <1>10, <1>11, <3>1, <3>3
      <4> QED
        BY <1>8, <2>1, <2>2, <3>1, <4>1 DEF JobsAtHome
    <3> QED
      BY <3>2, <3>3
  <2>3. CASE ~(x = d /\ TasksOn(d) # {})
    <3>1. queue'[x] = queue[x]
      BY <1>8, <1>9, <2>3
    <3> QED
      BY <2>1, <3>1 DEF JobsAtHome
  <2> QED
    BY <2>2, <2>3
<1>17. Computing'
  <2> SUFFICES ASSUME NEW x \in {0, 1}, Given(x)'
               PROVE  \/ queue'[x] # <<>> /\ queue'[x][Len(queue'[x])] = Job(x)'
                      \/ queue'[x] = <<>> /\ \A t \in TasksOn(x)' : SlotRight(t[1], t[2])'
    BY DEF Computing
  <2>1. x \in Devs /\ TasksOn(x) # {} /\ (pc' = "fence" \/ x < dev')
    BY <1>3 DEF Given
  <2>2. x = d \/ x < d
    BY <1>4, <1>5, <2>1, <1>0
  <2>3. CASE x = d
    <3>1. queue'[x] = q
      BY <1>9, <1>11, <2>1, <2>3
    <3>2. q[Len(q)] = Job(x)'
      BY <1>3, <1>7, <1>11, <2>3
    <3> QED
      BY <1>11, <3>1, <3>2
  <2>4. CASE x < d
    <3>1. Given(x)
      BY <1>0, <1>4, <2>1, <2>4 DEF Given, Working
    <3>2. queue'[x] = queue[x]
      BY <1>9, <2>4
    <3>3. CASE queue[x] # <<>> /\ queue[x][Len(queue[x])] = Job(x)
      BY <1>3, <3>2, <3>3
    <3>4. CASE queue[x] = <<>> /\ \A t \in TasksOn(x) : SlotRight(t[1], t[2])
      <4>1. \A i, j : SlotRight(i, j) => SlotRight(i, j)'
        BY <1>0, <1>2 DEF SlotRight
      <4>2. \A t \in TasksOn(x)' : SlotRight(t[1], t[2])'
        <5> SUFFICES ASSUME NEW t \in TasksOn(x)'
                     PROVE  SlotRight(t[1], t[2])'
          OBVIOUS
        <5>1. t \in TasksOn(x)
          BY <1>3
        <5>2. PICK i, j : i = t[1] /\ j = t[2]
          OBVIOUS
        <5>3. SlotRight(i, j)
          BY <3>4, <5>1, <5>2
        <5>4. SlotRight(i, j)'
          BY <4>1, <5>3
        <5> QED
          BY <5>2, <5>4
      <4> QED
        BY <3>2, <3>4, <4>2
    <3> QED
      BY <3>1, <3>3, <3>4 DEF RowIInv, RowInv, Computing
  <2> QED
    BY <2>2, <2>3, <2>4
<1>18. FencesMet'
  <2>1. CASE pc' = "fence"
    <3>1. waits' = Fences
      BY <1>0, <1>5, <2>1
    <3>2. \A i \in ToSet(InCall) : \A x \in Devs :
               call.mode = "group" \/ TasksOn(x) # {} =>
                  \E j \in DOMAIN Fences : Fences[j] = <<i, x>>
      BY <1>0, FencesAre DEF RowIInv, RowInv
    <3>3. \A x : TasksOn(x)' = TasksOn(x)
      BY <1>3
    <3>4. PICK fs : fs = Fences
      OBVIOUS
    <3>5. waits' = fs /\ ToSet(InCall)' = ToSet(InCall) /\ Devs' = Devs /\ call' = call
      BY <1>2, <1>3, <3>1, <3>4
    <3> QED
      BY <3>2, <3>3, <3>4, <3>5 DEF FencesMet
  <2>2. CASE pc' # "fence"
    BY <2>2 DEF FencesMet
  <2> QED
    BY <2>1, <2>2
<1> QED
  BY <1>1, <1>12, <1>14, <1>15, <1>16, <1>17, <1>18 DEF RowIInv, RowInv

\* A fence returned, at its time or before.
LEMMA FenceKeeps ==
  ASSUME RowIInv, NEW inTime \in BOOLEAN, Fence(inTime)
  PROVE  RowIInv'
<1>0. /\ pc = "fence" /\ waits # <<>> /\ met' = (met /\ inTime) /\ waits' = Tail(waits)
      /\ inTime <=> ~Owed(Head(waits)[1], Head(waits)[2])
      /\ UNCHANGED <<stageVars, dead, strikes, pc, call, dev, inb, queue, outb>>
  BY DEF Fence
<1>1. StageInv' /\ Grown
  BY <1>0, StageUntouched DEF RowIInv, stageVars
<1>2. UNCHANGED <<cfg, memo, ents, call>>
  BY <1>0 DEF stageVars
<1>3. /\ InCall' = InCall /\ Devs' = Devs
      /\ \A x : TasksOn(x)' = TasksOn(x) /\ Job(x)' = Job(x)
  BY <1>2, SameCall
<1>4. PICK ws \in Seq(Nat \X Nat) : ws = waits /\ ws # <<>>
  BY <1>0 DEF RowIInv, RowInv, RowKinds
<1>5. PICK l \in Nat : l + 1 = Len(ws) /\ DOMAIN ws = 1..(l + 1)
  <2>1. Len(ws) \in Nat \ {0} /\ DOMAIN ws = 1..Len(ws)
    BY <1>4
  <2>a. PICK n \in Nat \ {0} : n = Len(ws)
    BY <2>1
  <2>2. PICK l \in Nat : l = n - 1
    OBVIOUS
  <2>3. l + 1 = Len(ws)
    BY <2>a, <2>2
  <2> QED
    BY <2>1, <2>3
<1>6. PICK ts \in Seq(Nat \X Nat) : /\ ts = Tail(ws) /\ DOMAIN ts = 1..l
                                    /\ \A j \in 1..l : ts[j] = ws[j + 1]
  <2>1. PICK ts : ts = Tail(ws)
    OBVIOUS
  <2>2. ts \in Seq(Nat \X Nat)
    BY <1>4, <2>1
  <2>3. Len(ts) = l
    BY <1>4, <1>5, <2>1
  <2>4. DOMAIN ts = 1..l
    BY <2>2, <2>3
  <2>5. \A j \in 1..l : ts[j] = ws[j + 1]
    BY <1>4, <1>5, <2>1
  <2> QED
    BY <2>1, <2>2, <2>4, <2>5
<1>7. RowKinds'
  <2>1. waits' \in Seq(Nat \X Nat) /\ met' \in BOOLEAN
    BY <1>0, <1>4, <1>6 DEF RowIInv, RowInv, RowKinds
  <2> QED
    BY <1>0, <1>3, <2>1 DEF RowIInv, RowInv, RowKinds
<1>8. OnHardware' /\ OfOneInput' /\ FencedAnswersRight' /\ JobsAtHome'
  <2>1. FencedAnswersRight'
    BY <1>0, <1>2, <1>3, AnswersStay DEF RowIInv, RowInv, stageVars
  <2> QED
    BY <2>1, <1>0, <1>2, <1>3
       DEF RowIInv, RowInv, OnHardware, OfOneInput, JobsAtHome, Id
<1>9. Packed'
  <2>1. \A e, ki : Region(e, ki)' = Region(e, ki)
    BY <1>2 DEF Region
  <2>2. ents'[InCall'[1]] = ents[InCall[1]]
    BY <1>2, <1>3
  <2>3. Packed /\ Working
    BY <1>0 DEF RowIInv, RowInv, Working
  <2> QED
    BY <1>0, <1>3, <2>1, <2>2, <2>3 DEF Packed
<1>10. Computing'
  <2>1. \A x : Given(x)' <=> Given(x)
    BY <1>0, <1>3 DEF Given, Working
  <2>2. \A i, j : SlotRight(i, j)' <=> SlotRight(i, j)
    BY <1>0, <1>2 DEF SlotRight
  <2>3. Computing
    BY DEF RowIInv, RowInv
  <2> QED
    BY <1>0, <1>3, <2>1, <2>2, <2>3 DEF Computing
<1>11. FencesMet'
  <2>1. \A i, x : Owed(i, x)' <=> Owed(i, x)
    BY <1>0 DEF Owed
  <2> SUFFICES ASSUME met', NEW i \in ToSet(InCall), NEW x \in Devs,
                      call.mode = "group" \/ TasksOn(x) # {}, Owed(i, x)
               PROVE  \E j \in DOMAIN waits' : waits'[j] = <<i, x>>
    BY <1>2, <1>3, <2>1 DEF FencesMet
  <2>2. met /\ inTime
    BY <1>0
  <2>3. PICK j \in DOMAIN waits : waits[j] = <<i, x>>
    BY <1>0, <2>2 DEF FencesMet, RowIInv, RowInv
  <2>4. CASE j = 1
    <3>1. Head(waits) = <<i, x>>
      BY <1>4, <2>3, <2>4
    <3>2. PICK a, b : a = Head(waits)[1] /\ b = Head(waits)[2]
      OBVIOUS
    <3>3. a = i /\ b = x
      BY <3>1, <3>2
    <3>4. ~Owed(a, b)
      BY <1>0, <2>2, <3>2
    <3> QED
      BY <3>3, <3>4
  <2>5. CASE j # 1
    <3>1. j \in 1..(l + 1) /\ ws[j] = <<i, x>>
      BY <1>4, <1>5, <2>3
    <3>2. PICK m : m = j - 1
      OBVIOUS
    <3>3. m \in 1..l /\ m + 1 = j
      BY <1>5, <2>5, <3>1, <3>2
    <3>4. ts[m] = ws[m + 1]
      BY <1>6, <3>3
    <3>5. m \in DOMAIN ts /\ ts[m] = <<i, x>>
      BY <1>6, <3>1, <3>3, <3>4
    <3>6. waits' = ts
      BY <1>0, <1>4, <1>6
    <3> QED
      BY <3>5, <3>6
  <2> QED
    BY <2>4, <2>5
<1> QED
  BY <1>1, <1>7, <1>8, <1>9, <1>10, <1>11 DEF RowIInv, RowInv

-----------------------------------------------------------------------------
(* Reading an answer.                                                      *)

\* Rows the hardware was not given are the CPU's.
LEMMA AllRows ==
  ASSUME cfg \in Configs, NEW e \in Entries
  PROVE  RowsCovered(e)
<1>1. PICK n \in Nat \ {0} : n = Shape[e.w].n
  BY SlotFacts, StageAssumption
<1>2. PICK hw \in Nat \ {0} : hw = HardwareRows(e.w) /\ e.hwrows = hw /\ e.cpurows = n - hw
  BY <1>1, SlotFacts
<1>3. PICK k \in Nat \ {0} : k = Shape[e.w].k
  BY SlotFacts
<1> SUFFICES ASSUME NEW row \in 0..(n - 1)
             PROVE  \/ \E s \in ToSet(e.slots) : row \in s.n0..(s.n0 + s.n - 1)
                    \/ e.cpurows > 0 /\ row >= e.hwrows
  BY <1>1 DEF RowsCovered, CpuHas
<1>4. CASE row < hw
  <2>1. row \in 0..(HardwareRows(e.w) - 1) /\ 0 \in 0..(Shape[e.w].k - 1)
    BY <1>2, <1>3, <1>4
  <2>2. PICK i \in DOMAIN e.slots : <<row, 0>> \in Cells(e.slots[i])
    BY <2>1, SlotsTile
  <2>3. row \in e.slots[i].n0..(e.slots[i].n0 + e.slots[i].n - 1)
    BY <2>2 DEF Cells
  <2> QED
    BY <2>3 DEF ToSet
<1>5. CASE ~(row < hw)
  BY <1>1, <1>2, <1>5
<1> QED
  BY <1>4, <1>5

\* A tensor's entry is an entry of it.
LEMMA EntryOf ==
  ASSUME StageInv, NEW w \in Tensors, Id(w) \in DOMAIN ents
  PROVE  ents[Id(w)].w = w
<1>1. PICK n \in Nat : DOMAIN ents = 1..n
  BY DEF StageInv
<1> QED
  BY <1>1 DEF StageInv, MemoTruthful

\* What is read behind a call's fences is its product, or its fences were not met.
LEMMA JudgedFair ==
  ASSUME RowIInv, pc = "fence", waits = <<>>, NEW i \in ToSet(InCall)
  PROVE  i \in DOMAIN ents /\ Sound(Judged(i), ents[i].w)
<1>0. i \in DOMAIN ents /\ (CpuRowsScaled(ents[i]) \/ FactorAndSplit(ents[i].w))
  <2>1. i \in DOMAIN ents
    BY FirstEntry DEF RowIInv, RowInv
  <2>2. PICK e \in Entries : e = ents[i]
    BY <2>1, EntryMade DEF RowIInv
  <2>3. PICK n \in Nat \ {0} : n = Shape[e.w].n
    BY <2>2, SlotFacts, StageAssumption DEF RowIInv, StageInv
  <2>4. PICK hw \in Nat \ {0} : hw = HardwareRows(e.w) /\ e.cpurows = n - hw
    BY <2>2, <2>3, SlotFacts DEF RowIInv, StageInv
  <2> QED
    BY <2>1, <2>2, <2>3, <2>4 DEF CpuRowsScaled, FactorAndSplit
<1>1. CASE ~met
  BY <1>0, <1>1 DEF Judged, Verdicts, Sound
<1>2. CASE met
  <2>1. i \in DOMAIN ents
    BY FirstEntry DEF RowIInv, RowInv
  <2>2. PICK e \in Entries : e = ents[i]
    BY <2>1, EntryMade DEF RowIInv
  <2>3. RowsCovered(e)
    BY AllRows DEF RowIInv, StageInv
  <2>4. ASSUME NEW j \in DOMAIN e.slots
        PROVE  SlotRight(i, j)
    <3>1. PICK d \in Devs : d = e.slots[j].di
      BY SlotFacts DEF RowIInv, StageInv
    <3>2. <<i, j>> \in TasksOn(d)
      BY <2>2, <3>1 DEF TasksOn
    <3>3. d \in {0, 1}
      BY StageAssumption DEF Devs, RowIInv, StageInv
    <3>4. ~Owed(i, d)
      <4>1. TasksOn(d) # {}
        BY <3>2
      <4>2. \A j0 \in DOMAIN waits : FALSE
        OBVIOUS
      <4>3. FencesMet
        BY DEF RowIInv, RowInv
      <4> QED
        BY <1>2, <4>1, <4>2, <4>3 DEF FencesMet
    <3>5. Given(d)
      BY <3>2 DEF Given, Working
    <3>6. CASE queue[d] # <<>> /\ queue[d][Len(queue[d])] = Job(d)
      <4>1. queue[d] \in Seq(Job0)
        BY <3>3 DEF RowIInv, RowInv, RowKinds
      <4>2. PICK n \in DOMAIN queue[d] : queue[d][n] = Job(d)
        BY <3>6, <4>1
      <4>3. <<i, j>> \in queue[d][n].tasks
        BY <3>2, <4>2 DEF Job
      <4>4. <<i, j>>[1] = i
        OBVIOUS
      <4>5. Owed(i, d)
        BY <4>3, <4>4 DEF Owed
      <4> QED
        BY <3>4, <4>5
    <3>7. CASE queue[d] = <<>> /\ \A t \in TasksOn(d) : SlotRight(t[1], t[2])
      <4>1. SlotRight(<<i, j>>[1], <<i, j>>[2])
        BY <3>2, <3>7
      <4> QED
        BY <4>1
    <3> QED
      BY <3>3, <3>5, <3>6, <3>7 DEF RowIInv, RowInv, Computing
  <2>5. RowsCovered(ents[i]) /\ \A j \in DOMAIN ents[i].slots : SlotRight(i, j)
    BY <2>2, <2>3, <2>4
  <2> QED
    BY <1>0, <2>5 DEF Judged, Verdicts, Sound
<1> QED
  BY <1>1, <1>2

\* charsiu_npu_matvec's answer is summed up.
LEMMA ReadOneKeeps ==
  ASSUME RowIInv, ReadOne
  PROVE  RowIInv'
<1>0. /\ pc = "fence" /\ waits = <<>> /\ call.mode = "single"
      /\ met' = TRUE /\ UNCHANGED <<stageVars, dev, waits, inb, queue>>
      /\ dead' = (strikes' >= 3)
      /\ Answer(IF dead' THEN "cpu" ELSE Judged(InCall[1]))
  BY DEF ReadOne, Forget
<1>1. StageInv' /\ Grown
  BY <1>0, StageUntouched DEF RowIInv, stageVars
<1>2. strikes' \in Nat
  <2>1. PICK n \in Nat : n = strikes
    BY DEF RowIInv, RowInv, RowKinds
  <2>2. strikes' = n + 1 \/ strikes' = 0
    BY <2>1 DEF ReadOne
  <2> QED
    BY <2>2
<1>3. dev' = 0 /\ dead' \in BOOLEAN
  BY <1>0 DEF RowIInv, RowInv, RowKinds
<1>4. InCall[1] \in ToSet(InCall)
  BY <1>0, FirstEntry DEF RowIInv, RowInv, ToSet
<1>5. Sound(Judged(InCall[1]), Current)
  <2>1. InCall[1] \in DOMAIN ents /\ Sound(Judged(InCall[1]), ents[InCall[1]].w)
    BY <1>0, <1>4, JudgedFair
  <2>2. Current \in Tensors /\ InCall[1] = Id(Current)
    BY <1>0, CurrentIs DEF RowIInv, RowInv, InCall
  <2>3. ents[InCall[1]].w = Current
    BY <2>1, <2>2, EntryOf DEF RowIInv
  <2> QED
    BY <2>1, <2>3
<1>6. PICK what : what = (IF dead' THEN "cpu" ELSE Judged(InCall[1])) /\ Sound(what, Current)
  BY <1>5 DEF Sound, Verdicts
<1>7. Answer(what)
  BY <1>0, <1>6
<1>8. pc # "idle"
  BY <1>0
<1> QED
  BY <1>0, <1>1, <1>2, <1>3, <1>6, <1>7, <1>8, AnsweredKeeps

\* charsiu_npu_matvec_group's answers are.
LEMMA ReadGroupKeeps ==
  ASSUME RowIInv, ReadGroup
  PROVE  RowIInv'
<1>0. /\ pc = "fence" /\ waits = <<>> /\ call.mode = "group" /\ pc' = "idle"
      /\ met' = TRUE /\ UNCHANGED <<stageVars, dead, strikes, dev, waits, inb, queue>>
      /\ call' = [call EXCEPT !.ans = [i \in DOMAIN call.ws |-> Judged(IdsOf[i])]]
  BY DEF ReadGroup, Forget
<1>1. StageInv' /\ Grown
  BY <1>0, StageUntouched DEF RowIInv, stageVars
<1>2. PICK c \in CallKind : c = call /\ c.at \in DOMAIN c.ws
  BY <1>0 DEF RowIInv, RowInv, RowKinds, CallKind
<1>3. PICK n \in Nat : n = Len(c.ws) /\ DOMAIN c.ws = 1..n
  BY <1>2 DEF CallKind
<1>4. PICK ans : ans = [i \in 1..n |-> Judged(IdsOf[i])]
  OBVIOUS
<1>5. \A i \in 1..n : Sound(ans[i], c.ws[i])
  <2> SUFFICES ASSUME NEW i \in 1..n
               PROVE  Sound(Judged(IdsOf[i]), c.ws[i])
    BY <1>4
  <2>1. PICK id : id = IdsOf[i]
    OBVIOUS
  <2>2. id \in ToSet(InCall)
    <3>1. DOMAIN InCall = 1..n /\ InCall[i] = id
      BY <1>0, <1>2, <1>3, <2>1 DEF InCall, IdsOf
    <3> QED
      BY <3>1 DEF ToSet
  <2>3. id \in DOMAIN ents /\ Sound(Judged(id), ents[id].w)
    BY <1>0, <2>2, JudgedFair
  <2>4. id = Id(c.ws[i]) /\ c.ws[i] \in Tensors
    BY <1>2, <1>3, <2>1 DEF IdsOf, CallKind
  <2>5. ents[id].w = c.ws[i]
    BY <2>3, <2>4, EntryOf DEF RowIInv
  <2> QED
    BY <2>1, <2>3, <2>5
<1>6. ans \in Seq(Verdicts) /\ Len(ans) = n /\ DOMAIN ans = 1..n
  <2>1. DOMAIN ans = 1..n
    BY <1>4
  <2>2. ans \in [1..n -> Verdicts]
    BY <1>4, <1>5, <2>1 DEF Sound
  <2> QED
    BY <2>1, <2>2
<1>7. call' = [c EXCEPT !.ans = ans]
  BY <1>0, <1>2, <1>3, <1>4
<1>8. /\ call' \in CallKind /\ call'.ws = c.ws /\ call'.ans = ans /\ call'.at = c.at
  BY <1>6, <1>7 DEF CallKind
<1>9. RowKinds'
  <2>1. /\ dev' = 0 /\ dead' \in BOOLEAN /\ strikes' \in Nat /\ pc' = "idle" /\ met' = TRUE
        /\ UNCHANGED <<waits, inb, queue>>
    BY <1>0 DEF RowIInv, RowInv, RowKinds
  <2>2. Len(call'.ans) = Len(call'.ws) /\ call' \in CallKind /\ call'.at \in DOMAIN call'.ws
    BY <1>2, <1>3, <1>6, <1>8
  <2>3. RowKinds /\ StageInv /\ cfg' = cfg
    BY <1>0 DEF RowIInv, RowInv, stageVars
  <2> QED
    BY <1>1, <2>1, <2>2, <2>3, KindsMoved
<1>10. OnHardware' /\ OfOneInput'
  BY <1>0 DEF OnHardware, OfOneInput
<1>11. FencedAnswersRight'
  <2>1. \A w : FactorAndSplit(w)' <=> FactorAndSplit(w)
    BY <1>1 DEF FactorAndSplit, HardwareRows, Grown
  <2> QED
    BY <1>5, <1>6, <1>8, <2>1 DEF FencedAnswersRight, Sound
<1> QED
  BY <1>0, <1>1, <1>9, <1>10, <1>11, RestKept

-----------------------------------------------------------------------------
(* A device finishes a job.                                                *)

\* The regions a job is to write hold its product afterwards, if it is the
\* job of the call in hand.
LEMMA JobDone ==
  ASSUME RowIInv, Working, UNCHANGED <<cfg, memo, ents, call>>,
         NEW d \in Devs, NEW job, job = Job(d), NEW t \in TasksOn(d), t \in DOMAIN outb',
         outb'[t] = IF job.torn \/ ents[t[1]].slots[t[2]].ki \notin DOMAIN inb[d] THEN Torn
                    ELSE inb[d][ents[t[1]].slots[t[2]].ki]
  PROVE  SlotRight(t[1], t[2])'
<1>1. pc \in {"submit", "fence"}
  BY DEF Working
<1>2. PICK i, j : t = <<i, j>> /\ i = t[1] /\ j = t[2]
  BY <1>1, TasksAre DEF RowIInv, RowInv
<1>3. i \in ToSet(InCall) /\ i \in DOMAIN ents /\ j \in DOMAIN ents[i].slots
  BY <1>1, <1>2, TasksAre DEF RowIInv, RowInv
<1>4. PICK x \in Entries : x = ents[i]
  BY <1>3, EntryMade DEF RowIInv
<1>5. PICK e \in Entries : e = ents[InCall[1]]
  <2>1. InCall[1] \in DOMAIN ents
    BY <1>1, FirstEntry DEF RowIInv, RowInv
  <2> QED
    BY <2>1, EntryMade DEF RowIInv
<1>6. Shape[x.w].awq = Shape[e.w].awq /\ Shape[x.w].k = Shape[e.w].k
  BY <1>1, <1>3, <1>4, <1>5, OneInput DEF RowIInv, RowInv
<1>7. PICK ki : ki = x.slots[j].ki
  OBVIOUS
<1>8. /\ ki \in 0..(e.ks - 1)
      /\ Region(e, ki) = [v |-> call.v, f |-> Shape[x.w].awq,
                          k0 |-> x.slots[j].k0, k |-> x.slots[j].k]
  BY <1>3, <1>4, <1>6, <1>7, RegionIs DEF RowIInv, StageInv
<1>9. ki \in DOMAIN inb[d] /\ inb[d][ki] = Region(e, ki)
  BY <1>5, <1>8 DEF RowIInv, RowInv, Packed
<1>10. ~job.torn
  BY DEF Job
<1>11. outb'[t] = Region(e, ki)
  BY <1>2, <1>4, <1>7, <1>9, <1>10
<1>12. <<i, j>> \in DOMAIN outb' /\ outb'[<<i, j>>]
          = [v |-> call.v, f |-> Shape[x.w].awq, k0 |-> x.slots[j].k0, k |-> x.slots[j].k]
  BY <1>2, <1>8, <1>11
<1>13. SlotRight(i, j)'
  BY <1>4, <1>12 DEF SlotRight
<1> QED
  BY <1>2, <1>13

\* A device runs the oldest job of its queue, of this call or of an earlier one.
LEMMA CompleteKeeps ==
  ASSUME RowIInv, NEW d \in {0, 1}, Complete(d)
  PROVE  RowIInv'
<1>0. /\ UNCHANGED <<stageVars, dead, strikes, pc, call, dev, waits, met, inb>>
      /\ queue[d] # <<>>
      /\ queue' = [queue EXCEPT ![d] = Tail(@)]
  BY DEF Complete
<1>1. StageInv' /\ Grown
  BY <1>0, StageUntouched DEF RowIInv, stageVars
<1>2. UNCHANGED <<cfg, memo, ents, call>>
  BY <1>0 DEF stageVars
<1>3. /\ InCall' = InCall /\ Devs' = Devs
      /\ \A x : TasksOn(x)' = TasksOn(x) /\ Job(x)' = Job(x)
  BY <1>2, SameCall
<1>4. PICK q \in Seq(Job0) : q = queue[d] /\ q # <<>> /\ DOMAIN queue = {0, 1}
  BY <1>0 DEF RowIInv, RowInv, RowKinds
<1>5. PICK n \in Nat \ {0} : n = Len(q) /\ DOMAIN q = 1..n
  BY <1>4
<1>6. PICK l \in Nat : l + 1 = n
  <2>1. PICK l \in Nat : l = n - 1
    OBVIOUS
  <2> QED
    BY <2>1
<1>7. PICK p \in Seq(Job0) : /\ p = Tail(q) /\ Len(p) = l /\ DOMAIN p = 1..l
                             /\ \A j \in 1..l : p[j] = q[j + 1]
  <2>1. PICK p : p = Tail(q)
    OBVIOUS
  <2>2. p \in Seq(Job0)
    BY <1>4, <2>1
  <2>3. Len(p) = l
    BY <1>4, <1>5, <1>6, <2>1
  <2>4. DOMAIN p = 1..l
    BY <2>2, <2>3
  <2>5. \A j \in 1..l : p[j] = q[j + 1]
    BY <1>4, <1>5, <1>6, <2>1
  <2> QED
    BY <2>1, <2>2, <2>3, <2>4, <2>5
<1>8. /\ DOMAIN queue' = {0, 1} /\ queue'[d] = p
      /\ \A x \in {0, 1} : x # d => queue'[x] = queue[x]
  BY <1>0, <1>4, <1>7
<1>9. PICK job \in Job0 : job = Head(q) /\ job = q[1]
  BY <1>4, <1>5
<1>10. /\ \A t : t \in DOMAIN outb /\ t \notin job.tasks => t \in DOMAIN outb' /\ outb'[t] = outb[t]
       /\ \A t \in job.tasks :
             /\ t \in DOMAIN outb'
             /\ outb'[t] = IF job.torn \/ ents[t[1]].slots[t[2]].ki \notin DOMAIN inb[d] THEN Torn
                           ELSE inb[d][ents[t[1]].slots[t[2]].ki]
  <2>1. outb' = [t \in DOMAIN outb \cup job.tasks |->
                   IF t \in job.tasks
                   THEN IF job.torn \/ ents[t[1]].slots[t[2]].ki \notin DOMAIN inb[d] THEN Torn
                        ELSE inb[d][ents[t[1]].slots[t[2]].ki]
                   ELSE outb[t]]
    BY <1>4, <1>9 DEF Complete
  <2> QED
    BY <2>1
<1>11. RowKinds'
  <2>1. \A x \in {0, 1} : queue'[x] \in Seq(Job0)
    BY <1>7, <1>8 DEF RowIInv, RowInv, RowKinds
  <2> QED
    BY <1>0, <1>3, <1>8, <2>1 DEF RowIInv, RowInv, RowKinds
<1>12. OnHardware' /\ OfOneInput' /\ FencedAnswersRight'
  <2>1. FencedAnswersRight'
    BY <1>0, <1>2, <1>3, AnswersStay DEF RowIInv, RowInv, stageVars
  <2> QED
    BY <2>1, <1>0, <1>2, <1>3 DEF RowIInv, RowInv, OnHardware, OfOneInput, Id
<1>13. Packed'
  <2>1. \A e, ki : Region(e, ki)' = Region(e, ki)
    BY <1>2 DEF Region
  <2>2. ents'[InCall'[1]] = ents[InCall[1]]
    BY <1>2, <1>3
  <2>3. Packed /\ (Working' <=> Working)
    BY <1>0 DEF RowIInv, RowInv, Working
  <2> QED
    BY <1>0, <1>3, <2>1, <2>2, <2>3 DEF Packed
<1>14. JobsAtHome'
  <2> SUFFICES ASSUME NEW x \in {0, 1}, NEW j \in DOMAIN queue'[x],
                      NEW t \in queue'[x][j].tasks
               PROVE  /\ t[1] \in DOMAIN ents /\ t[2] \in DOMAIN ents[t[1]].slots
                      /\ ents[t[1]].slots[t[2]].di = x
    BY <1>2 DEF JobsAtHome
  <2>1. JobsAtHome
    BY DEF RowIInv, RowInv
  <2>2. CASE x = d
    <3>1. j \in 1..l /\ j + 1 \in DOMAIN q /\ p[j] = q[j + 1]
      BY <1>5, <1>6, <1>7, <1>8, <2>2
    <3>2. t \in q[j + 1].tasks
      BY <1>8, <2>2, <3>1
    <3>3. PICK m : m = j + 1
      OBVIOUS
    <3> QED
      BY <1>4, <2>1, <2>2, <3>1, <3>2, <3>3 DEF JobsAtHome
  <2>3. CASE x # d
    BY <1>8, <2>1, <2>3 DEF JobsAtHome
  <2> QED
    BY <2>2, <2>3
<1>15. Computing'
  <2> SUFFICES ASSUME NEW x \in {0, 1}, Given(x)'
               PROVE  \/ queue'[x] # <<>> /\ queue'[x][Len(queue'[x])] = Job(x)'
                      \/ queue'[x] = <<>> /\ \A t \in TasksOn(x)' : SlotRight(t[1], t[2])'
    BY DEF Computing
  <2>1. Given(x)
    BY <1>0, <1>3 DEF Given, Working
  <2>2. x \in Devs /\ pc \in {"submit", "fence"} /\ Working
    BY <2>1 DEF Given, Working
  <2>3. \/ queue[x] # <<>> /\ queue[x][Len(queue[x])] = Job(x)
        \/ queue[x] = <<>> /\ \A t \in TasksOn(x) : SlotRight(t[1], t[2])
    BY <2>1 DEF RowIInv, RowInv, Computing
  <2>4. CASE x # d
    <3>1. queue'[x] = queue[x]
      BY <1>8, <2>4
    <3>2. ASSUME NEW t \in TasksOn(x), SlotRight(t[1], t[2])
          PROVE  SlotRight(t[1], t[2])'
      <4>1. PICK i, j : t = <<i, j>> /\ i = t[1] /\ j = t[2]
        BY <2>2, TasksAre DEF RowIInv, RowInv
      <4>2. ents[i].slots[j].di = x
        BY <2>2, <4>1, TasksAre DEF RowIInv, RowInv
      <4>3. \A u \in job.tasks : ents[u[1]].slots[u[2]].di = d
        <5>1. 1 \in DOMAIN q
          BY <1>5
        <5> QED
          BY <1>4, <1>9, <5>1 DEF RowIInv, RowInv, JobsAtHome
      <4>4. t \notin job.tasks
        BY <2>4, <4>1, <4>2, <4>3
      <4>5. SlotRight(i, j)
        BY <3>2, <4>1
      <4>6. SlotRight(i, j)'
        BY <1>2, <1>10, <4>1, <4>4, <4>5 DEF SlotRight
      <4> QED
        BY <4>1, <4>6
    <3>3. CASE queue[x] = <<>> /\ \A t \in TasksOn(x) : SlotRight(t[1], t[2])
      <4>1. \A t \in TasksOn(x) : SlotRight(t[1], t[2])'
        BY <3>2, <3>3
      <4>2. TasksOn(x)' = TasksOn(x)
        BY <1>3
      <4> QED
        BY <3>1, <3>3, <4>1, <4>2
    <3> QED
      BY <1>3, <2>3, <3>1, <3>3
  <2>5. CASE x = d
    <3>1. q[n] = Job(d)
      BY <1>0, <1>4, <1>5, <2>3, <2>5
    <3>2. CASE l = 0
      <4>1. job = Job(d) /\ job.tasks = TasksOn(d) /\ p = <<>>
        BY <1>6, <1>7, <1>9, <3>1, <3>2 DEF Job
      <4>2. ASSUME NEW t \in TasksOn(d)
            PROVE  SlotRight(t[1], t[2])'
        BY <1>2, <1>10, <2>2, <2>5, <4>1, JobDone
      <4>3. TasksOn(x)' = TasksOn(d)
        BY <1>3, <2>5
      <4> QED
        BY <1>8, <2>5, <4>1, <4>2, <4>3
    <3>3. CASE l # 0
      <4>1. p[l] = q[n] /\ p # <<>>
        BY <1>6, <1>7, <3>3
      <4> QED
        BY <1>3, <1>7, <1>8, <2>5, <3>1, <4>1
    <3> QED
      BY <3>2, <3>3
  <2> QED
    BY <2>4, <2>5
<1>16. FencesMet'
  <2>1. \A i, x : x \in {0, 1} /\ Owed(i, x)' => Owed(i, x)
    <3> SUFFICES ASSUME NEW i, NEW x \in {0, 1}, Owed(i, x)'
                 PROVE  Owed(i, x)
      OBVIOUS
    <3>1. PICK j \in DOMAIN queue'[x] : \E task \in queue'[x][j].tasks : task[1] = i
      BY DEF Owed
    <3>2. CASE x = d
      <4>1. PICK m : m = j + 1
        OBVIOUS
      <4>2. m \in DOMAIN q /\ p[j] = q[m]
        BY <1>5, <1>6, <1>7, <1>8, <3>1, <3>2, <4>1
      <4> QED
        BY <1>4, <1>8, <3>1, <3>2, <4>2 DEF Owed
    <3>3. CASE x # d
      BY <1>8, <3>1, <3>3 DEF Owed
    <3> QED
      BY <3>2, <3>3
  <2>2. Devs \subseteq {0, 1}
    BY StageAssumption DEF Devs, RowIInv, StageInv
  <2>3. FencesMet
    BY DEF RowIInv, RowInv
  <2> QED
    BY <1>0, <1>3, <2>1, <2>2, <2>3 DEF FencesMet
<1> QED
  BY <1>1, <1>11, <1>12, <1>13, <1>14, <1>15, <1>16 DEF RowIInv, RowInv

-----------------------------------------------------------------------------
(* The whole.                                                              *)

\* A run starts with nothing staged, asked or queued.
LEMMA RowStart ==
  ASSUME Init
  PROVE  RowIInv
<1>1. StageInv
  BY DEF Init, StageInit, StageInv, MemoTruthful, Id
<1>2. RowKinds
  <2>1. 0 \in Devs
    BY StageAssumption DEF Devs, Init, StageInit
  <2>2. /\ dead \in BOOLEAN /\ strikes \in Nat /\ pc = "idle" /\ dev = 0
        /\ waits \in Seq(Nat \X Nat) /\ met = TRUE
    BY DEF Init
  <2>3. /\ \A d \in {0, 1} : queue[d] \in Seq(Job0)
        /\ DOMAIN inb = {0, 1} /\ DOMAIN queue = {0, 1}
    BY DEF Init
  <2>4. /\ call \in [ws : Seq(Tensors), v : Nat, mode : {"single", "group"},
                     at : Nat \ {0}, ans : Seq(Verdicts)]
        /\ Len(call.ans) = Len(call.ws)
    BY DEF Init
  <2> QED
    BY <2>1, <2>2, <2>3, <2>4 DEF RowKinds
<1>3. OnHardware /\ OfOneInput /\ Packed /\ Computing /\ FencesMet
  BY DEF Init, OnHardware, OfOneInput, Packed, Computing, FencesMet, Working, Given
<1>4. JobsAtHome
  BY DEF Init, JobsAtHome
<1>5. FencedAnswersRight
  BY DEF Init, FencedAnswersRight
<1> QED
  BY <1>1, <1>2, <1>3, <1>4, <1>5 DEF RowIInv, RowInv

\* Nothing changes, nothing breaks.
LEMMA RowStutter ==
  ASSUME RowIInv, UNCHANGED vars
  PROVE  RowIInv'
<1>1. StageInv' /\ Grown
  BY StageUntouched DEF RowIInv, vars, stageVars
<1>2. /\ UNCHANGED <<cfg, memo, ents, call>>
      /\ UNCHANGED <<dead, strikes, pc, dev, waits, met, inb, queue, outb>>
  BY DEF vars, stageVars, rowVars
<1>3. /\ InCall' = InCall /\ Devs' = Devs
      /\ \A x : TasksOn(x)' = TasksOn(x) /\ Job(x)' = Job(x)
  BY <1>2, SameCall
<1>4. RowKinds' /\ OnHardware' /\ OfOneInput' /\ FencedAnswersRight' /\ JobsAtHome'
  <2>1. FencedAnswersRight'
    BY <1>2, <1>3, AnswersStay DEF RowIInv, RowInv, stageVars
  <2> QED
    BY <2>1, <1>2, <1>3 DEF RowIInv, RowInv, RowKinds, OnHardware, OfOneInput,
                      JobsAtHome, Id
<1>5. Packed'
  <2>1. \A e, ki : Region(e, ki)' = Region(e, ki)
    BY <1>2 DEF Region
  <2>2. ents'[InCall'[1]] = ents[InCall[1]]
    BY <1>2, <1>3
  <2>3. Packed /\ (Working' <=> Working)
    BY <1>2 DEF RowIInv, RowInv, Working
  <2> QED
    BY <1>2, <1>3, <2>1, <2>2, <2>3 DEF Packed
<1>6. Computing'
  <2>1. \A x : Given(x)' <=> Given(x)
    BY <1>2, <1>3 DEF Given, Working
  <2>2. \A i, j : SlotRight(i, j)' <=> SlotRight(i, j)
    BY <1>2 DEF SlotRight
  <2>3. Computing
    BY DEF RowIInv, RowInv
  <2> QED
    BY <1>2, <1>3, <2>1, <2>2, <2>3 DEF Computing
<1>7. FencesMet'
  <2>1. \A i, x : Owed(i, x)' <=> Owed(i, x)
    BY <1>2 DEF Owed
  <2>2. FencesMet
    BY DEF RowIInv, RowInv
  <2> QED
    BY <1>2, <1>3, <2>1, <2>2 DEF FencesMet
<1> QED
  BY <1>1, <1>4, <1>5, <1>6, <1>7 DEF RowIInv, RowInv

\* The inductive invariant of the row path holds in every state.
THEOREM RowInvariance == Spec => []RowIInv
<1>1. Init => RowIInv
  BY RowStart
<1>2. RowIInv /\ [Next]_vars => RowIInv'
  <2> SUFFICES ASSUME RowIInv, [Next]_vars
               PROVE  RowIInv'
    OBVIOUS
  <2>1. CASE BeginCall
    BY <2>1, BeginKeeps
  <2>2. CASE StageGroup
    BY <2>2, StageGroupKeeps
  <2>3. CASE StageOne
    BY <2>3, StageOneKeeps
  <2>4. CASE CheckGroup
    BY <2>4, CheckKeeps
  <2>5. CASE Pack
    BY <2>5, PackKeeps
  <2>6. CASE Submit
    BY <2>6, SubmitKeeps
  <2>7. CASE SubmitFails
    BY <2>7, SubmitFailsKeeps
  <2>8. CASE FenceMet
    BY <2>8, FenceKeeps DEF FenceMet
  <2>9. CASE FenceTimesOut
    BY <2>9, FenceKeeps DEF FenceTimesOut
  <2>10. CASE ReadOne
    BY <2>10, ReadOneKeeps
  <2>11. CASE ReadGroup
    BY <2>11, ReadGroupKeeps
  <2>12. CASE \E d \in {0, 1} : Complete(d)
    BY <2>12, CompleteKeeps
  <2>13. CASE UNCHANGED vars
    BY <2>13, RowStutter
  <2> QED
    BY <2>1, <2>2, <2>3, <2>4, <2>5, <2>6, <2>7, <2>8, <2>9, <2>10, <2>11, <2>12, <2>13
       DEF Next, Caller
<1> QED
  BY <1>1, <1>2, PTL DEF Spec

\* SlicesTile: the slices of a staged tensor cover each of the hardware's rows
\* and columns exactly once and fit their buffers, whatever the shapes, the
\* atoms, the group and the knobs: charsiu_npu_add, kslice.h.
THEOREM StageTiles == Spec => []SlicesTile
<1>1. RowIInv => SlicesTile
  BY StagedWell DEF RowIInv
<1> QED
  BY <1>1, RowInvariance, PTL

\* OutputsApart: two slices of an entry never share an output region, and each
\* lies in the buffer the dry walk sized, whatever load the deal starts from.
THEOREM RegionsOwn == Spec => []OutputsApart
<1>1. RowIInv => OutputsApart
  BY StagedWell DEF RowIInv
<1> QED
  BY <1>1, RowInvariance, PTL

\* MemoTruthful: the pool's numbers name the entries of their own tensors,
\* whichever step of staging failed: charsiu_pool_get against charsiu_npu_add.
THEOREM MemoTrue == Spec => []MemoTruthful
<1>1. RowIInv => MemoTruthful
  BY StagedWell DEF RowIInv
<1> QED
  BY <1>1, RowInvariance, PTL

\* FencedAnswersRight: an answer of the NPU is the whole product of its call's
\* activation whenever the call's own fences were met, however many jobs of
\* earlier calls were late, but for the rows the CPU keeps of a tensor that has
\* an AWQ factor: charsiu_npu_matvec, charsiu_npu_matvec_group, cpu_rows.
THEOREM FencedRight == Spec => []FencedAnswersRight
<1>1. RowIInv => FencedAnswersRight
  BY DEF RowIInv, RowInv
<1> QED
  BY <1>1, RowInvariance, PTL
=============================================================================
