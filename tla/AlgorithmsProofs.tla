-------------------------- MODULE AlgorithmsProofs --------------------------
(***************************************************************************)
(* Proofs about the algorithms that keep no state: what Algorithms asks of *)
(* them over bounded inputs holds for every shape, text, job and capture.  *)
(* No two elements of an operand share a place, an input packed in parts   *)
(* is packed whole, a surface grown in place is packed afresh, a text is   *)
(* cut as the regular expression cuts it, an edited register stream is the *)
(* stream that was meant, a model that loads can be run, and a file that   *)
(* was cut off is not opened.                                              *)
(***************************************************************************)
EXTENDS Algorithms, FiniteSetTheorems, TLAPS

-----------------------------------------------------------------------------
(* Products and quotients.                                                 *)

\* Quotient and remainder.
LEMMA DivMod ==
  ASSUME NEW a \in Int, NEW b \in Nat \ {0}
  PROVE  /\ a \div b \in Int /\ a % b \in 0..(b - 1)
         /\ a = b * (a \div b) + (a % b)
OBVIOUS

\* A number between two multiples of b has the lower one's factor as quotient.
LEMMA DivUnique ==
  ASSUME NEW b \in Nat \ {0}, NEW q \in Int, NEW r \in 0..(b - 1)
  PROVE  (q * b + r) \div b = q /\ (q * b + r) % b = r
OBVIOUS

\* A product grows with its factor.
LEMMA ProductGrows ==
  ASSUME NEW x \in Int, NEW y \in Int, NEW z \in Nat, x <= y
  PROVE  x * z \in Int /\ y * z \in Int /\ x * z <= y * z
OBVIOUS

\* A product of natural numbers is one.
LEMMA ProductNat ==
  ASSUME NEW x \in Nat, NEW y \in Nat
  PROVE  x * y \in Nat
OBVIOUS

\* Two digits below b: a number has one quotient and one remainder.
LEMMA DigitsUnique ==
  ASSUME NEW b \in Nat, NEW q1 \in Int, NEW q2 \in Int,
         NEW r1 \in 0..(b - 1), NEW r2 \in 0..(b - 1), q1 * b + r1 = q2 * b + r2
  PROVE  q1 = q2 /\ r1 = r2
<1>1. \A x, y \in Int : x < y => x * b + b <= y * b
  <2> SUFFICES ASSUME NEW x \in Int, NEW y \in Int, x < y
               PROVE  x * b + b <= y * b
    OBVIOUS
  <2>1. (x + 1) * b <= y * b
    BY ProductGrows
  <2> QED
    BY <2>1
<1>2. q1 * b \in Int /\ q2 * b \in Int
  OBVIOUS
<1>3. ~(q1 < q2)
  BY <1>1, <1>2
<1>4. ~(q2 < q1)
  BY <1>1, <1>2
<1>5. q1 = q2
  BY <1>3, <1>4
<1> QED
  BY <1>5, <1>2

\* A number below a product has its quotient below the other factor.
LEMMA DigitFits ==
  ASSUME NEW b \in Nat, NEW n \in Nat, NEW q \in 0..(n - 1), NEW r \in 0..(b - 1)
  PROVE  q * b + r \in 0..(n * b - 1)
<1>1. (q + 1) * b <= n * b /\ n * b \in Int
  BY ProductGrows
<1>2. (q + 1) * b = q * b + b /\ q * b \in Nat
  BY ProductNat
<1> QED
  BY <1>1, <1>2

\* What AlignUp adds, for the alignments of this file.
LEMMA AlignedUp ==
  ASSUME NEW x \in Nat, NEW a \in {2, 8, 16, 32}
  PROVE  /\ AlignUp(x, a) \in Nat /\ x <= AlignUp(x, a) /\ AlignUp(x, a) < x + a
         /\ AlignUp(x, a) % a = 0
<1>1. CASE a = 2
  BY <1>1 DEF AlignUp
<1>2. CASE a = 8
  BY <1>2 DEF AlignUp
<1>3. CASE a = 16
  BY <1>3 DEF AlignUp
<1>4. CASE a = 32
  BY <1>4 DEF AlignUp
<1> QED
  BY <1>1, <1>2, <1>3, <1>4

-----------------------------------------------------------------------------
(* A matmul's extents, and the weight tile.                                *)

\* The padded extents of a matmul, and what they are multiples of.
LEMMA Extents ==
  ASSUME NEW mm \in Matmuls
  PROVE  /\ mm.m \in Nat \ {0} /\ mm.k \in Nat \ {0} /\ mm.n \in Nat \ {0}
         /\ FeatureAtom(EffectiveAtype(mm)) \in {8, 16, 32}
         /\ KEff(mm) \in Nat /\ mm.k <= KEff(mm) /\ KEff(mm) % 8 = 0
         /\ NPad(mm) \in Nat /\ mm.n <= NPad(mm)
         /\ WeightNGroup(mm.w) \in {16, 32} /\ WeightKGroup(mm.w) \in {32, 64}
<1>1. /\ mm.m \in Nat \ {0} /\ mm.k \in Nat \ {0} /\ mm.n \in Nat \ {0}
      /\ mm.w \in Formats /\ mm.a \in Formats
  BY DEF Matmuls
<1>2. FeatureAtom(EffectiveAtype(mm)) \in {8, 16, 32}
  BY <1>1 DEF Formats, FeatureAtom, EffectiveAtype
<1>3. WeightNGroup(mm.w) \in {16, 32} /\ WeightKGroup(mm.w) \in {32, 64}
  BY <1>1 DEF Formats, WeightNGroup, WeightKGroup
<1>4. PICK a \in {8, 16, 32} : a = FeatureAtom(EffectiveAtype(mm))
  BY <1>2
<1>5. KEff(mm) = AlignUp(mm.k, a)
  BY <1>4 DEF KEff
<1>6. /\ AlignUp(mm.k, a) \in Nat /\ mm.k <= AlignUp(mm.k, a)
      /\ AlignUp(mm.k, a) % a = 0
  BY <1>1, AlignedUp
<1>7. \A x \in Nat : x % a = 0 => x % 8 = 0
  <2>1. CASE a = 8
    BY <2>1
  <2>2. CASE a = 16
    BY <2>2
  <2>3. CASE a = 32
    BY <2>3
  <2> QED
    BY <2>1, <2>2, <2>3
<1>8. NPad(mm) \in Nat /\ mm.n <= NPad(mm)
  BY <1>1, AlignedUp DEF NPad
<1> QED
  BY <1>1, <1>2, <1>3, <1>5, <1>6, <1>7, <1>8

\* The tile an element is in, cut short at the edges, and its place in it.
TileOf(ng, kg, N, K, n, k) ==
    [nb |-> n \div ng, nr |-> n % ng, kb |-> k \div kg, kr |-> k % kg,
     a |-> Smaller(N - (n \div ng) * ng, ng), c |-> Smaller(K - (k \div kg) * kg, kg)]
TilePlace(ng, kg, K, t) == t.nb * ng * K + t.kb * kg * t.a + t.nr * t.c + t.kr
InTile(ng, kg, N, K, t) ==
    /\ t.nb \in Nat /\ t.kb \in Nat /\ t.nr \in 0..(t.a - 1) /\ t.kr \in 0..(t.c - 1)
    /\ t.a \in 1..ng /\ t.c \in 1..kg
    /\ t.nb * ng + t.a <= N /\ t.kb * kg + t.c <= K
    /\ t.a = Smaller(N - t.nb * ng, ng) /\ t.c = Smaller(K - t.kb * kg, kg)

\* An element below both extents is in its tile.
LEMMA ElementInTile ==
  ASSUME NEW ng \in {16, 32}, NEW kg \in {32, 64}, NEW N \in Nat, NEW K \in Nat,
         NEW n \in 0..(N - 1), NEW k \in 0..(K - 1)
  PROVE  LET t == TileOf(ng, kg, N, K, n, k)
         IN InTile(ng, kg, N, K, t) /\ n = t.nb * ng + t.nr /\ k = t.kb * kg + t.kr
<1>1. /\ n \div ng \in Nat /\ n % ng \in 0..(ng - 1) /\ n = (n \div ng) * ng + (n % ng)
  <2>1. CASE ng = 16
    BY <2>1
  <2>2. CASE ng = 32
    BY <2>2
  <2> QED
    BY <2>1, <2>2
<1>2. /\ k \div kg \in Nat /\ k % kg \in 0..(kg - 1) /\ k = (k \div kg) * kg + (k % kg)
  <2>1. CASE kg = 32
    BY <2>1
  <2>2. CASE kg = 64
    BY <2>2
  <2> QED
    BY <2>1, <2>2
<1>3. PICK nb \in Nat, nr \in 0..(ng - 1) : nb = n \div ng /\ nr = n % ng
  BY <1>1
<1>4. PICK kb \in Nat, kr \in 0..(kg - 1) : kb = k \div kg /\ kr = k % kg
  BY <1>2
<1>5. PICK nn \in Nat, kk \in Nat : nn = nb * ng /\ kk = kb * kg
  <2>1. nb * ng \in Nat /\ kb * kg \in Nat
    BY ProductNat
  <2> QED
    BY <2>1
<1>6. n = nn + nr /\ k = kk + kr
  BY <1>1, <1>2, <1>3, <1>4, <1>5
<1>7. PICK t : t = TileOf(ng, kg, N, K, n, k)
  OBVIOUS
<1>8. /\ t.nb = nb /\ t.nr = nr /\ t.kb = kb /\ t.kr = kr
      /\ t.a = Smaller(N - nn, ng) /\ t.c = Smaller(K - kk, kg)
  BY <1>3, <1>4, <1>5, <1>7 DEF TileOf
<1>9. /\ Smaller(N - nn, ng) \in 1..ng /\ nr < Smaller(N - nn, ng) /\ nn + Smaller(N - nn, ng) <= N
      /\ Smaller(K - kk, kg) \in 1..kg /\ kr < Smaller(K - kk, kg) /\ kk + Smaller(K - kk, kg) <= K
  BY <1>6 DEF Smaller
<1>10. InTile(ng, kg, N, K, t)
  BY <1>5, <1>8, <1>9 DEF InTile
<1>11. n = t.nb * ng + t.nr /\ k = t.kb * kg + t.kr
  BY <1>5, <1>6, <1>8
<1> QED
  BY <1>7, <1>10, <1>11

\* Where a tile begins among the tiles of its channels, and how far it goes.
LEMMA TileBounds ==
  ASSUME NEW ng \in {16, 32}, NEW kg \in {32, 64}, NEW N \in Nat, NEW K \in Nat,
         NEW t, InTile(ng, kg, N, K, t)
  PROVE  LET row == t.kb * kg * t.a
             in == t.nr * t.c + t.kr
         IN /\ t.nb * ng * K \in Nat /\ row \in Nat /\ in \in 0..(t.a * t.c - 1)
            /\ row + t.a * t.c = (t.kb * kg + t.c) * t.a
            /\ row + t.a * t.c <= K * t.a
            /\ t.nb * ng * K + K * t.a = (t.nb * ng + t.a) * K
            /\ t.nb * ng * K + K * t.a <= N * K
<1>1. PICK nb \in Nat, kb \in Nat, a \in 1..ng, c \in 1..kg :
        nb = t.nb /\ kb = t.kb /\ a = t.a /\ c = t.c
  BY DEF InTile
<1>2. PICK nr \in 0..(a - 1), kr \in 0..(c - 1) : nr = t.nr /\ kr = t.kr
  BY <1>1 DEF InTile
<1>3. PICK nn \in Nat, kk \in Nat : nn = nb * ng /\ kk = kb * kg
  <2>1. nb * ng \in Nat /\ kb * kg \in Nat
    BY ProductNat
  <2> QED
    BY <2>1
<1>4. nn + a <= N /\ kk + c <= K
  BY <1>1, <1>3 DEF InTile
<1>5. nr * c + kr \in 0..(a * c - 1)
  BY DigitFits
<1>6. nn * K \in Nat /\ kk * a \in Nat
  BY ProductNat
<1>7. kk * a + a * c = (kk + c) * a /\ nn * K + K * a = (nn + a) * K
  OBVIOUS
<1>8. (kk + c) * a <= K * a /\ (nn + a) * K <= N * K
  BY <1>4, ProductGrows
<1> QED
  BY <1>1, <1>2, <1>3, <1>5, <1>6, <1>7, <1>8

\* A later tile of one extent begins where an earlier one has ended.
LEMMA LaterTile ==
  ASSUME NEW g \in Nat, NEW x \in Nat, NEW y \in Nat, NEW a \in 0..g, NEW z \in Nat, x < y
  PROVE  (x * g + a) * z <= (y * g) * z
<1>1. (x + 1) * g <= y * g
  BY ProductGrows
<1>2. x * g \in Nat /\ y * g \in Nat /\ (x + 1) * g = x * g + g
  BY ProductNat
<1>3. x * g + a <= y * g
  BY <1>1, <1>2
<1> QED
  BY <1>2, <1>3, ProductGrows

\* An element's place is inside the buffer.
LEMMA TileInside ==
  ASSUME NEW ng \in {16, 32}, NEW kg \in {32, 64}, NEW N \in Nat, NEW K \in Nat,
         NEW t, InTile(ng, kg, N, K, t)
  PROVE  /\ TilePlace(ng, kg, K, t) \in 0..(N * K - 1)
         /\ t.nb * ng * K <= TilePlace(ng, kg, K, t)
         /\ TilePlace(ng, kg, K, t) < (t.nb * ng + t.a) * K
<1>0. /\ t.nb * ng * K \in Nat /\ t.kb * kg * t.a \in Nat
      /\ t.nr * t.c + t.kr \in 0..(t.a * t.c - 1)
      /\ t.kb * kg * t.a + t.a * t.c <= K * t.a
      /\ t.nb * ng * K + K * t.a = (t.nb * ng + t.a) * K
      /\ t.nb * ng * K + K * t.a <= N * K
  BY TileBounds
<1>1a. t.a \in Int /\ t.c \in Int /\ t.nb \in Int
  BY DEF InTile
<1>1b. PICK X \in Nat : X = t.nb * ng * K
  BY <1>0
<1>1c. PICK row \in Nat : row = t.kb * kg * t.a
  BY <1>0
<1>1d. PICK ac \in Int : ac = t.a * t.c
  BY <1>1a
<1>1e. PICK aK \in Int : aK = K * t.a
  BY <1>1a
<1>1f. PICK in \in 0..(ac - 1) : in = t.nr * t.c + t.kr
  BY <1>0, <1>1d
<1>1. row + ac <= aK /\ X + aK = (t.nb * ng + t.a) * K /\ X + aK <= N * K
  BY <1>0, <1>1b, <1>1c, <1>1d, <1>1e
<1>2. TilePlace(ng, kg, K, t) = X + row + in
  <2>1. t.nr * t.c \in Int /\ t.kr \in Int
    BY DEF InTile
  <2> QED
    BY <1>1b, <1>1c, <1>1f, <2>1 DEF TilePlace
<1>3. N * K \in Int /\ (t.nb * ng + t.a) * K \in Int
  BY <1>1a
<1>4. X <= X + row + in /\ X + row + in < X + aK
  BY <1>1
<1> QED
  BY <1>1, <1>1b, <1>2, <1>3, <1>4

\* Two elements at one place are one element.
LEMMA TileInjective ==
  ASSUME NEW ng \in {16, 32}, NEW kg \in {32, 64}, NEW N \in Nat, NEW K \in Nat,
         NEW t, NEW u, InTile(ng, kg, N, K, t), InTile(ng, kg, N, K, u),
         TilePlace(ng, kg, K, t) = TilePlace(ng, kg, K, u)
  PROVE  t.nb = u.nb /\ t.nr = u.nr /\ t.kb = u.kb /\ t.kr = u.kr
<1>1. /\ t.nb \in Nat /\ u.nb \in Nat /\ t.kb \in Nat /\ u.kb \in Nat
      /\ t.a \in 1..ng /\ u.a \in 1..ng /\ t.c \in 1..kg /\ u.c \in 1..kg
      /\ t.nr \in Nat /\ u.nr \in Nat /\ t.kr \in Nat /\ u.kr \in Nat
      /\ t.nr \in 0..(t.a - 1) /\ t.kr \in 0..(t.c - 1)
      /\ u.nr \in 0..(u.a - 1) /\ u.kr \in 0..(u.c - 1)
  BY DEF InTile
<1>2. PICK p \in Int : p = TilePlace(ng, kg, K, t) /\ p = TilePlace(ng, kg, K, u)
  <2>1. TilePlace(ng, kg, K, t) \in Int
    BY TileInside
  <2> QED
    BY <2>1
<1>3. t.nb = u.nb
  <2>1. ~(t.nb < u.nb)
    <3>1. ASSUME t.nb < u.nb PROVE FALSE
      <4>1. (t.nb * ng + t.a) * K <= (u.nb * ng) * K
        BY <1>1, <3>1, LaterTile
      <4>2. p < (t.nb * ng + t.a) * K /\ u.nb * ng * K <= p
        BY <1>2, TileInside
      <4>3. (t.nb * ng + t.a) * K \in Int /\ (u.nb * ng) * K \in Int
        BY <1>1
      <4> QED
        BY <4>1, <4>2, <4>3
    <3> QED
      BY <3>1
  <2>2. ~(u.nb < t.nb)
    <3>1. ASSUME u.nb < t.nb PROVE FALSE
      <4>1. (u.nb * ng + u.a) * K <= (t.nb * ng) * K
        BY <1>1, <3>1, LaterTile
      <4>2. p < (u.nb * ng + u.a) * K /\ t.nb * ng * K <= p
        BY <1>2, TileInside
      <4>3. (u.nb * ng + u.a) * K \in Int /\ (t.nb * ng) * K \in Int
        BY <1>1
      <4> QED
        BY <4>1, <4>2, <4>3
    <3> QED
      BY <3>1
  <2> QED
    BY <1>1, <2>1, <2>2
<1>4. t.a = u.a
  BY <1>3 DEF InTile
<1>5. PICK rt \in Nat, ru \in Nat, it \in Nat, iu \in Nat :
        /\ rt = t.kb * kg * t.a /\ ru = u.kb * kg * t.a
        /\ it = t.nr * t.c + t.kr /\ iu = u.nr * u.c + u.kr
  <2>1. t.kb * kg * t.a \in Nat /\ u.kb * kg * u.a \in Nat
    BY TileBounds
  <2>2. t.nr * t.c + t.kr \in Nat /\ u.nr * u.c + u.kr \in Nat
    <3>1. t.nr * t.c \in Nat /\ u.nr * u.c \in Nat
      BY <1>1, ProductNat
    <3> QED
      BY <3>1, <1>1
  <2> QED
    BY <2>1, <2>2, <1>4
<1>6. rt + it = ru + iu
  <2>1. PICK X \in Int : X = t.nb * ng * K /\ X = u.nb * ng * K
    BY <1>1, <1>3
  <2>2. t.nr * t.c \in Int /\ u.nr * u.c \in Int
    BY <1>1
  <2>3. p = X + rt + it
    BY <1>1, <1>2, <1>5, <2>1, <2>2 DEF TilePlace
  <2>4. p = X + ru + iu
    BY <1>1, <1>2, <1>4, <1>5, <2>1, <2>2 DEF TilePlace
  <2> QED
    BY <2>1, <2>3, <2>4
<1>7. PICK ac \in Int, uc \in Int : ac = t.a * t.c /\ uc = t.a * u.c
  BY <1>1
<1>8. /\ it < ac /\ rt + ac = (t.kb * kg + t.c) * t.a
      /\ iu < uc /\ ru + uc = (u.kb * kg + u.c) * t.a
  <2>1. /\ t.nr * t.c + t.kr \in 0..(t.a * t.c - 1)
        /\ t.kb * kg * t.a + t.a * t.c = (t.kb * kg + t.c) * t.a
    BY TileBounds
  <2>2. /\ u.nr * u.c + u.kr \in 0..(u.a * u.c - 1)
        /\ u.kb * kg * u.a + u.a * u.c = (u.kb * kg + u.c) * u.a
    BY TileBounds
  <2> QED
    BY <2>1, <2>2, <1>4, <1>5, <1>7
<1>9. t.kb = u.kb
  <2>1. ~(t.kb < u.kb)
    <3>1. ASSUME t.kb < u.kb PROVE FALSE
      <4>1. (t.kb * kg + t.c) * t.a <= (u.kb * kg) * t.a
        BY <1>1, <3>1, LaterTile
      <4> QED
        BY <4>1, <1>5, <1>6, <1>7, <1>8
    <3> QED
      BY <3>1
  <2>2. ~(u.kb < t.kb)
    <3>1. ASSUME u.kb < t.kb PROVE FALSE
      <4>1. (u.kb * kg + u.c) * t.a <= (t.kb * kg) * t.a
        BY <1>1, <3>1, LaterTile
      <4> QED
        BY <4>1, <1>5, <1>6, <1>7, <1>8
    <3> QED
      BY <3>1
  <2> QED
    BY <1>1, <2>1, <2>2
<1>10. t.c = u.c
  BY <1>9 DEF InTile
<1>11. it = iu
  BY <1>5, <1>6, <1>9
<1>12. t.nr * t.c + t.kr = u.nr * t.c + u.kr
  BY <1>5, <1>10, <1>11
<1>13. /\ t.c \in Nat /\ t.nr \in Int /\ u.nr \in Int
       /\ t.kr \in 0..(t.c - 1) /\ u.kr \in 0..(t.c - 1)
  BY <1>1, <1>10
<1>14. t.nr = u.nr /\ t.kr = u.kr
  <2>1. PICK c \in Nat : c = t.c
    BY <1>13
  <2>2. PICK q1 \in Int, q2 \in Int, r1 \in 0..(c - 1), r2 \in 0..(c - 1) :
          q1 = t.nr /\ q2 = u.nr /\ r1 = t.kr /\ r2 = u.kr
    BY <1>13, <2>1
  <2>3. q1 * c + r1 = q2 * c + r2
    BY <1>12, <2>1, <2>2
  <2>4. q1 = q2 /\ r1 = r2
    BY <2>3, DigitsUnique
  <2> QED
    BY <2>2, <2>4
<1> QED
  BY <1>3, <1>9, <1>14

-----------------------------------------------------------------------------
(* No two weights share a place.                                           *)

\* A function that tells elements apart has as many values as elements.
LEMMA ManyValues ==
  ASSUME NEW S, IsFiniteSet(S), NEW f, \A x, y \in S : f[x] = f[y] => x = y
  PROVE  Cardinality({f[x] : x \in S}) = Cardinality(S)
<1> DEFINE T == {f[x] : x \in S}
           g == [x \in S |-> f[x]]
<1>1. g \in [S -> T]
  OBVIOUS
<1>2. IsInjective(g)
  BY DEF IsInjective
<1>3. \A t \in T : \E s \in S : g[s] = t
  OBVIOUS
<1>4. g \in Bijection(S, T)
  BY <1>1, <1>2, <1>3 DEF Bijection, Injection, Surjection
<1>5. ExistsBijection(S, T)
  BY <1>4 DEF ExistsBijection
<1> QED
  BY <1>5, FS_Bijection

\* What a matmul's weights are: finitely many.
LEMMA WeightsFinite ==
  ASSUME NEW mm \in Matmuls
  PROVE  IsFiniteSet(WeightsOf(mm))
<1>1. mm.n - 1 \in Int /\ mm.k - 1 \in Int
  BY Extents
<1>2. IsFiniteSet(0..(mm.n - 1)) /\ IsFiniteSet(0..(mm.k - 1))
  BY <1>1, FS_Interval
<1> QED
  BY <1>2, FS_Product DEF WeightsOf

Tile(mm, n, k) == TileOf(WeightNGroup(mm.w), WeightKGroup(mm.w), NPad(mm), KEff(mm), n, k)

\* A weight's place in the layout of groups is its tile's.
LEMMA GroupPlace ==
  ASSUME NEW mm \in Matmuls, NEW n \in 0..(mm.n - 1), NEW k \in 0..(mm.k - 1)
  PROVE  /\ InTile(WeightNGroup(mm.w), WeightKGroup(mm.w), NPad(mm), KEff(mm), Tile(mm, n, k))
         /\ n = Tile(mm, n, k).nb * WeightNGroup(mm.w) + Tile(mm, n, k).nr
         /\ k = Tile(mm, n, k).kb * WeightKGroup(mm.w) + Tile(mm, n, k).kr
         /\ GroupIndex(mm, n, k)
              = TilePlace(WeightNGroup(mm.w), WeightKGroup(mm.w), KEff(mm), Tile(mm, n, k))
         /\ GroupIndex(mm, n, k) \in 0..(WeightElements(mm) - 1)
<1>1. PICK ng \in {16, 32}, kg \in {32, 64} : ng = WeightNGroup(mm.w) /\ kg = WeightKGroup(mm.w)
  BY Extents
<1>2. PICK N \in Nat, K \in Nat : N = NPad(mm) /\ K = KEff(mm) /\ mm.n <= N /\ mm.k <= K
  BY Extents
<1>3. n \in 0..(N - 1) /\ k \in 0..(K - 1)
  BY <1>2, Extents
<1>4. PICK t : t = TileOf(ng, kg, N, K, n, k)
  OBVIOUS
<1>5. t = Tile(mm, n, k)
  BY <1>1, <1>2, <1>4 DEF Tile
<1>6. InTile(ng, kg, N, K, t) /\ n = t.nb * ng + t.nr /\ k = t.kb * kg + t.kr
  BY <1>3, <1>4, ElementInTile
<1>7. GroupIndex(mm, n, k) = TilePlace(ng, kg, K, t)
  <2>1. /\ t.nb = n \div ng /\ t.nr = n % ng /\ t.kb = k \div kg /\ t.kr = k % kg
        /\ t.a = Smaller(N - (n \div ng) * ng, ng) /\ t.c = Smaller(K - (k \div kg) * kg, kg)
    BY <1>4 DEF TileOf
  <2> QED
    BY <2>1, <1>1, <1>2 DEF GroupIndex, TilePlace
<1>8. TilePlace(ng, kg, K, t) \in 0..(N * K - 1)
  BY <1>6, TileInside
<1>9. WeightElements(mm) = N * K
  BY <1>2 DEF WeightElements
<1> QED
  BY <1>1, <1>2, <1>5, <1>6, <1>7, <1>8, <1>9

\* It is nobody else's.
LEMMA GroupApart ==
  ASSUME NEW mm \in Matmuls, NEW n1 \in 0..(mm.n - 1), NEW k1 \in 0..(mm.k - 1),
         NEW n2 \in 0..(mm.n - 1), NEW k2 \in 0..(mm.k - 1),
         GroupIndex(mm, n1, k1) = GroupIndex(mm, n2, k2)
  PROVE  n1 = n2 /\ k1 = k2
<1>1. PICK ng \in {16, 32}, kg \in {32, 64} : ng = WeightNGroup(mm.w) /\ kg = WeightKGroup(mm.w)
  BY Extents
<1>2. PICK N \in Nat, K \in Nat : N = NPad(mm) /\ K = KEff(mm)
  BY Extents
<1>3. PICK t, u : t = Tile(mm, n1, k1) /\ u = Tile(mm, n2, k2)
  OBVIOUS
<1>4. /\ InTile(ng, kg, N, K, t) /\ InTile(ng, kg, N, K, u)
      /\ n1 = t.nb * ng + t.nr /\ n2 = u.nb * ng + u.nr
      /\ k1 = t.kb * kg + t.kr /\ k2 = u.kb * kg + u.kr
      /\ TilePlace(ng, kg, K, t) = TilePlace(ng, kg, K, u)
  BY <1>1, <1>2, <1>3, GroupPlace
<1>5. t.nb = u.nb /\ t.nr = u.nr /\ t.kb = u.kb /\ t.kr = u.kr
  BY <1>4, TileInjective
<1> QED
  BY <1>4, <1>5

\* The three layouts of 16-bit weights keep them apart, in the buffer.
LEMMA W16Apart ==
  ASSUME NEW mm \in Matmuls, NEW layout \in {"dense", "atom", "group"}
  PROVE  /\ \A x \in WeightsOf(mm) : W16Offset(mm, x[1], x[2], layout) \in 0..(WeightElements(mm) - 1)
         /\ \A x, y \in WeightsOf(mm) :
               W16Offset(mm, x[1], x[2], layout) = W16Offset(mm, y[1], y[2], layout) => x = y
<1>1. PICK N \in Nat, K \in Nat, e \in Int :
        /\ N = NPad(mm) /\ K = KEff(mm) /\ mm.n <= N /\ mm.k <= K /\ K % 8 = 0
        /\ e = N * K
  <2>1. NPad(mm) \in Nat /\ KEff(mm) \in Nat /\ NPad(mm) * KEff(mm) \in Int
    BY Extents
  <2> QED
    BY <2>1, Extents
<1>2. WeightElements(mm) = e
  BY <1>1 DEF WeightElements
<1>3. mm.n \in Nat \ {0} /\ mm.k \in Nat \ {0}
  BY Extents
<1>4. \A n \in 0..(mm.n - 1), k \in 0..(mm.k - 1) : n \in 0..(N - 1) /\ k \in 0..(K - 1)
  BY <1>1, <1>3
<1>5. CASE layout = "dense"
  <2>1. \A n \in 0..(mm.n - 1), k \in 0..(mm.k - 1) :
           W16Offset(mm, n, k, layout) = n * K + k
    BY <1>1, <1>3, <1>5 DEF W16Offset
  <2>2. \A n \in 0..(mm.n - 1), k \in 0..(mm.k - 1) : n * K + k \in 0..(e - 1)
    BY <1>1, <1>4, DigitFits
  <2>3. ASSUME NEW n1 \in 0..(mm.n - 1), NEW k1 \in 0..(mm.k - 1),
               NEW n2 \in 0..(mm.n - 1), NEW k2 \in 0..(mm.k - 1), n1 * K + k1 = n2 * K + k2
        PROVE  n1 = n2 /\ k1 = k2
    <3>1. n1 \in Int /\ n2 \in Int /\ k1 \in 0..(K - 1) /\ k2 \in 0..(K - 1)
      BY <1>4
    <3> QED
      BY <3>1, <2>3, DigitsUnique
  <2> QED
    BY <2>1, <2>2, <2>3, <1>2 DEF WeightsOf
<1>6. CASE layout = "atom"
  <2> DEFINE in(n, k) == n * 8 + (k % 8)
             N8 == N * 8
  <2>1. \A n \in 0..(mm.n - 1), k \in 0..(mm.k - 1) :
           W16Offset(mm, n, k, layout) = (k \div 8) * N * 8 + n * 8 + (k % 8)
    BY <1>1, <1>3, <1>6 DEF W16Offset
  <2>2. \A n \in 0..(mm.n - 1), k \in 0..(mm.k - 1) :
           /\ in(n, k) \in 0..(N8 - 1) /\ k \div 8 \in 0..((K \div 8) - 1)
           /\ k = (k \div 8) * 8 + (k % 8) /\ k % 8 \in 0..7 /\ k \div 8 \in Nat
    BY <1>1, <1>3, <1>4
  <2>3. N8 \in Nat /\ K \div 8 \in Nat /\ (K \div 8) * N8 = e
    <3>1. PICK c \in Nat : c = K \div 8 /\ K = 8 * c
      BY <1>1
    <3>2. c * (N * 8) = N * (8 * c)
      OBVIOUS
    <3> QED
      BY <1>1, <3>1, <3>2
  <2>4. \A q \in Nat : q * N * 8 = q * N8
    OBVIOUS
  <2>5. \A n \in 0..(mm.n - 1), k \in 0..(mm.k - 1) :
           W16Offset(mm, n, k, layout) = (k \div 8) * N8 + in(n, k)
    <3> SUFFICES ASSUME NEW n \in 0..(mm.n - 1), NEW k \in 0..(mm.k - 1)
                 PROVE  W16Offset(mm, n, k, layout) = (k \div 8) * N8 + in(n, k)
      OBVIOUS
    <3>1. PICK q \in Nat, r \in 0..7 : q = k \div 8 /\ r = k % 8
      BY <2>2
    <3>2. W16Offset(mm, n, k, layout) = q * N * 8 + n * 8 + r
      BY <2>1, <3>1
    <3>3. PICK z \in Int : z = q * N8 /\ z = q * N * 8
      BY <2>4
    <3>4. W16Offset(mm, n, k, layout) = z + n * 8 + r
      BY <3>2, <3>3
    <3>5. (k \div 8) * N8 + in(n, k) = z + (n * 8 + r)
      BY <3>1, <3>3
    <3> QED
      BY <3>4, <3>5
  <2> HIDE DEF in, N8
  <2>6. \A n \in 0..(mm.n - 1), k \in 0..(mm.k - 1) : W16Offset(mm, n, k, layout) \in 0..(e - 1)
    <3> SUFFICES ASSUME NEW n \in 0..(mm.n - 1), NEW k \in 0..(mm.k - 1)
                 PROVE  W16Offset(mm, n, k, layout) \in 0..(e - 1)
      OBVIOUS
    <3>0. PICK c \in Nat : c = K \div 8
      BY <2>3
    <3>1. PICK q \in 0..(c - 1), r \in 0..(N8 - 1) : q = k \div 8 /\ r = in(n, k)
      BY <2>2, <2>3, <3>0
    <3>2. q * N8 + r \in 0..(c * N8 - 1)
      BY <2>3, DigitFits
    <3> QED
      BY <3>0, <3>1, <3>2, <2>3, <2>5
  <2>7. ASSUME NEW n1 \in 0..(mm.n - 1), NEW k1 \in 0..(mm.k - 1),
               NEW n2 \in 0..(mm.n - 1), NEW k2 \in 0..(mm.k - 1),
               W16Offset(mm, n1, k1, layout) = W16Offset(mm, n2, k2, layout)
        PROVE  n1 = n2 /\ k1 = k2
    <3>a. k1 \div 8 \in Nat /\ in(n1, k1) \in 0..(N8 - 1)
      BY <2>2
    <3>b. k2 \div 8 \in Nat /\ in(n2, k2) \in 0..(N8 - 1)
      BY <2>2
    <3>0. PICK r1 \in 0..(N8 - 1), r2 \in 0..(N8 - 1) : r1 = in(n1, k1) /\ r2 = in(n2, k2)
      BY <3>a, <3>b
    <3>1. PICK q1 \in Nat, q2 \in Nat : q1 = k1 \div 8 /\ q2 = k2 \div 8
      BY <3>a, <3>b
    <3>2. q1 * N8 + r1 = q2 * N8 + r2
      BY <2>5, <2>7, <3>0, <3>1
    <3>3. q1 = q2 /\ r1 = r2
      BY <2>3, <3>2, DigitsUnique
    <3>4. n1 * 8 + (k1 % 8) = n2 * 8 + (k2 % 8)
      BY <3>0, <3>3 DEF in
    <3>5. n1 = n2 /\ k1 % 8 = k2 % 8
      BY <3>4, <2>2
    <3> QED
      BY <2>2, <3>1, <3>3, <3>5
  <2> QED
    BY <2>6, <2>7, <1>2 DEF WeightsOf
<1>7. CASE layout = "group"
  <2>1. \A n \in 0..(mm.n - 1), k \in 0..(mm.k - 1) :
           W16Offset(mm, n, k, layout) = GroupIndex(mm, n, k)
    BY <1>1, <1>3, <1>7 DEF W16Offset
  <2> QED
    BY <2>1, GroupPlace, GroupApart DEF WeightsOf
<1> QED
  BY <1>5, <1>6, <1>7

\* How the place of an int4 weight is put together.
NibbleIs(mm, n, k, K, N) ==
    /\ mm.k = 32 * K /\ mm.n = 16 * N /\ WeightElements(mm) = 512 * (N * K)
    /\ n \div 16 \in 0..(N - 1) /\ k \div 32 \in 0..(K - 1)
    /\ n = (n \div 16) * 16 + (n % 16) /\ n % 16 \in 0..15
    /\ k = (k \div 32) * 32 + (k % 32) /\ k % 32 \in 0..31
    /\ (n \div 16) * K + (k \div 32) \in 0..(N * K - 1)
    /\ Int4Nibble(mm, n, k)
         = 32 * (16 * ((n \div 16) * K + (k \div 32)) + (n % 16)) + (k % 32)

\* The nibble of an int4 weight, of a matmul whose int4 blocks are whole.
LEMMA NibblePlace ==
  ASSUME NEW mm \in Matmuls, mm.w = "int4", WeightsWhole(mm),
         NEW n \in 0..(mm.n - 1), NEW k \in 0..(mm.k - 1)
  PROVE  \E K \in Nat, N \in Nat : NibbleIs(mm, n, k, K, N)
<1>1. mm.n \in Nat \ {0} /\ mm.k \in Nat \ {0} /\ mm.n % 16 = 0 /\ mm.k % 32 = 0
  BY Extents DEF WeightsWhole
<1>2. PICK K \in Nat : mm.k = 32 * K
  BY <1>1
<1>3. PICK N \in Nat : mm.n = 16 * N
  BY <1>1
<1>4. PICK nb \in 0..(N - 1), nr \in 0..15 : nb = n \div 16 /\ nr = n % 16 /\ n = nb * 16 + nr
  BY <1>3
<1>5. PICK kb \in 0..(K - 1), kr \in 0..31 : kb = k \div 32 /\ kr = k % 32 /\ k = kb * 32 + kr
  BY <1>2
<1>6. KEff(mm) = mm.k
  <2>1. FeatureAtom(EffectiveAtype(mm)) = 8
    BY DEF FeatureAtom, EffectiveAtype
  <2> QED
    BY <2>1, <1>2 DEF KEff, AlignUp
<1>7. NPad(mm) = mm.n
  BY <1>3 DEF NPad, AlignUp
<1>8. AlignUp(KEff(mm), 32) = 32 * K
  BY <1>2, <1>6 DEF AlignUp
<1>9. PICK NK \in Int : NK = N * K
  OBVIOUS
<1>10. WeightElements(mm) = 512 * NK
  <2>1. (32 * K) * (16 * N) = 512 * (N * K)
    OBVIOUS
  <2> QED
    BY <2>1, <1>2, <1>3, <1>6, <1>7, <1>9 DEF WeightElements
<1>11. PICK b \in 0..(NK - 1) : b = nb * K + kb
  BY <1>9, DigitFits
<1>12. PICK nK \in Nat : nK = nb * K
  BY ProductNat
<1>13. (32 * K) \div 32 = K /\ Smaller(Smaller(mm.k, KEff(mm)) - kb * 32, 32) = 32
  BY <1>2, <1>5, <1>6 DEF Smaller
<1>14. nb * 512 * K = 512 * nK
  BY <1>12
<1>15. PICK block \in Nat : block = 512 * b + 32 * nr
  OBVIOUS
<1>16. nb * 512 * K + nr * 32 + kb * 512 = block
  BY <1>11, <1>12, <1>14, <1>15
<1>17. ~((block + 32 - 1) \div 2 >= (512 * NK) \div 2)
  BY <1>9, <1>15
<1>18. Int4Nibble(mm, n, k) = block + kr
  <2>1. (n \div 16) * 512 * (AlignUp(KEff(mm), 32) \div 32) + (n % 16) * 32 + (k \div 32) * 512
          = block
    BY <1>4, <1>5, <1>8, <1>13, <1>16
  <2>2. Smaller(Smaller(mm.k, KEff(mm)) - (k \div 32) * 32, 32) = 32
    BY <1>5, <1>13
  <2> QED
    BY <2>1, <2>2, <1>5, <1>10, <1>17 DEF Int4Nibble
<1>19. 32 * (16 * b + nr) + kr = block + kr
  BY <1>15
<1> QED
  BY <1>2, <1>3, <1>4, <1>5, <1>9, <1>10, <1>11, <1>18, <1>19 DEF NibbleIs

\* Two weights in one byte of the packed rows are of one row; at one nibble
\* they are one.
LEMMA NibblesApart ==
  ASSUME NEW mm \in Matmuls, mm.w = "int4", WeightsWhole(mm),
         NEW n1 \in 0..(mm.n - 1), NEW k1 \in 0..(mm.k - 1),
         NEW n2 \in 0..(mm.n - 1), NEW k2 \in 0..(mm.k - 1)
  PROVE  /\ Int4Nibble(mm, n1, k1) \in 0..(WeightElements(mm) - 1)
         /\ Int4Nibble(mm, n1, k1) = Int4Nibble(mm, n2, k2) => n1 = n2 /\ k1 = k2
         /\ Int4Nibble(mm, n1, k1) \div 2 = Int4Nibble(mm, n2, k2) \div 2 => n1 = n2
<1>1. PICK K \in Nat, N \in Nat : NibbleIs(mm, n1, k1, K, N)
  BY NibblePlace
<1>2. PICK K2 \in Nat, N2 \in Nat : NibbleIs(mm, n2, k2, K2, N2)
  BY NibblePlace
<1>3. K2 = K /\ N2 = N
  BY <1>1, <1>2 DEF NibbleIs
<1>4. PICK x1 \in Nat, x2 \in Nat, kb1 \in 0..(K - 1), kb2 \in 0..(K - 1), NK \in Int :
        x1 = n1 \div 16 /\ x2 = n2 \div 16 /\ kb1 = k1 \div 32 /\ kb2 = k2 \div 32 /\ NK = N * K
  BY <1>1, <1>2, <1>3 DEF NibbleIs
<1>5. PICK b1 \in 0..(NK - 1), b2 \in 0..(NK - 1) : b1 = x1 * K + kb1 /\ b2 = x2 * K + kb2
  BY <1>1, <1>2, <1>3, <1>4 DEF NibbleIs
<1>6. PICK r1 \in 0..15, r2 \in 0..15, s1 \in 0..31, s2 \in 0..31 :
        r1 = n1 % 16 /\ r2 = n2 % 16 /\ s1 = k1 % 32 /\ s2 = k2 % 32
  BY <1>1, <1>2 DEF NibbleIs
<1>7. /\ Int4Nibble(mm, n1, k1) = 32 * (16 * b1 + r1) + s1
      /\ Int4Nibble(mm, n2, k2) = 32 * (16 * b2 + r2) + s2
  BY <1>1, <1>2, <1>3, <1>4, <1>5, <1>6 DEF NibbleIs
<1>8. 32 * (16 * b1 + r1) + s1 \in 0..(512 * NK - 1)
  OBVIOUS
<1>9. (32 * (16 * b1 + r1) + s1) \div 2 = (32 * (16 * b2 + r2) + s2) \div 2 => b1 = b2 /\ r1 = r2
  OBVIOUS
<1>10. 32 * (16 * b1 + r1) + s1 = 32 * (16 * b2 + r2) + s2 => b1 = b2 /\ r1 = r2 /\ s1 = s2
  OBVIOUS
<1>11. b1 = b2 => x1 = x2 /\ kb1 = kb2
  BY <1>5, DigitsUnique
<1>12. n1 = x1 * 16 + r1 /\ n2 = x2 * 16 + r2 /\ k1 = kb1 * 32 + s1 /\ k2 = kb2 * 32 + s2
  BY <1>1, <1>2, <1>4, <1>6 DEF NibbleIs
<1>13. WeightElements(mm) = 512 * NK
  BY <1>1, <1>4 DEF NibbleIs
<1> QED
  BY <1>7, <1>8, <1>9, <1>10, <1>11, <1>12, <1>13

\* The values of a function on a finite set are finitely many.
LEMMA ImageFinite ==
  ASSUME NEW S, IsFiniteSet(S), NEW f
  PROVE  IsFiniteSet({f[x] : x \in S})
<1> DEFINE T == {f[x] : x \in S}
           g == [x \in S |-> f[x]]
<1>1. g \in Surjection(S, T)
  BY DEF Surjection
<1> QED
  BY <1>1, FS_Surjection

\* Each weight has a place of its own inside the buffer, and a byte that no
\* weight of another row is in.
LEMMA WeightPlaceApart ==
  ASSUME NEW mm \in Matmuls, WeightsWhole(mm),
         NEW n1 \in 0..(mm.n - 1), NEW k1 \in 0..(mm.k - 1),
         NEW n2 \in 0..(mm.n - 1), NEW k2 \in 0..(mm.k - 1)
  PROVE  /\ WeightPlace(mm, n1, k1) \in 0..(WeightElements(mm) - 1)
         /\ WeightPlace(mm, n1, k1) = WeightPlace(mm, n2, k2) => n1 = n2 /\ k1 = k2
         /\ ByteOf(mm, WeightPlace(mm, n1, k1)) = ByteOf(mm, WeightPlace(mm, n2, k2)) => n1 = n2
<1>1. CASE mm.w = "int4"
  BY <1>1, NibblesApart DEF WeightPlace, ByteOf
<1>2. CASE mm.w # "int4"
  <2>1. GroupIndex(mm, n1, k1) \in 0..(WeightElements(mm) - 1)
    BY GroupPlace
  <2>2. GroupIndex(mm, n1, k1) = GroupIndex(mm, n2, k2) => n1 = n2 /\ k1 = k2
    BY GroupApart
  <2> QED
    BY <1>2, <2>1, <2>2 DEF WeightPlace, ByteOf
<1> QED
  BY <1>1, <1>2

\* As many bytes as the rows have one by one.
LEMMA RowsInBytes ==
  ASSUME NEW mm \in Matmuls, WeightsWhole(mm)
  PROVE  Cardinality(UNION {{<<n, b>> : b \in RowsBytes(mm, n, 1)} : n \in 0..(mm.n - 1)})
           = Cardinality(RowsBytes(mm, 0, mm.n))
<1> DEFINE byte(n, k) == ByteOf(mm, WeightPlace(mm, n, k))
           U == UNION {{<<n, b>> : b \in RowsBytes(mm, n, 1)} : n \in 0..(mm.n - 1)}
           h == [x \in WeightsOf(mm) |-> <<x[1], byte(x[1], x[2])>>]
           second == [u \in U |-> u[2]]
<1>1. mm.n \in Nat \ {0} /\ mm.k \in Nat \ {0}
  BY Extents
<1>2. \A n \in 0..(mm.n - 1) : RowsBytes(mm, n, 1) = {byte(n, k) : k \in 0..(mm.k - 1)}
  <2> SUFFICES ASSUME NEW n \in 0..(mm.n - 1)
               PROVE  RowsBytes(mm, n, 1) = {byte(n, k) : k \in 0..(mm.k - 1)}
    OBVIOUS
  <2>1. \A x : x \in n..(n + 1 - 1) <=> x = n
    OBVIOUS
  <2>2. \A b : b \in RowsBytes(mm, n, 1)
                 <=> \E x \in n..(n + 1 - 1), k \in 0..(mm.k - 1) : b = byte(x, k)
    BY DEF RowsBytes
  <2> HIDE DEF byte
  <2>3. ASSUME NEW b \in RowsBytes(mm, n, 1)
        PROVE  \E k \in 0..(mm.k - 1) : b = byte(n, k)
    <3>1. PICK x \in n..(n + 1 - 1), k \in 0..(mm.k - 1) : b = byte(x, k)
      BY <2>2, Zenon
    <3>2. x = n
      BY <2>1
    <3> QED
      BY <3>1, <3>2, Zenon
  <2>4. ASSUME NEW k \in 0..(mm.k - 1)
        PROVE  byte(n, k) \in RowsBytes(mm, n, 1)
    BY <2>1, <2>2, Zenon
  <2> QED
    BY <2>3, <2>4, Zenon
<1>3. RowsBytes(mm, 0, mm.n) = {byte(n, k) : n \in 0..(mm.n - 1), k \in 0..(mm.k - 1)}
  <2>1. 0 + mm.n - 1 = mm.n - 1
    BY <1>1
  <2> QED
    BY <2>1 DEF RowsBytes
<1> HIDE DEF byte
<1>4. \A u : u \in U <=> \E n \in 0..(mm.n - 1), k \in 0..(mm.k - 1) : u = <<n, byte(n, k)>>
  BY <1>2
<1>5. U = {h[x] : x \in WeightsOf(mm)}
  <2>1. \A x \in WeightsOf(mm) : h[x] = <<x[1], byte(x[1], x[2])>>
    OBVIOUS
  <2>2. \A x : x \in WeightsOf(mm) <=> \E n \in 0..(mm.n - 1), k \in 0..(mm.k - 1) : x = <<n, k>>
    BY DEF WeightsOf
  <2> HIDE DEF U, h
  <2>3. ASSUME NEW u \in U
        PROVE  \E x \in WeightsOf(mm) : u = h[x]
    <3>1. PICK n \in 0..(mm.n - 1), k \in 0..(mm.k - 1) : u = <<n, byte(n, k)>>
      BY <1>4
    <3>2. PICK x : x = <<n, k>>
      OBVIOUS
    <3>3. x \in WeightsOf(mm) /\ x[1] = n /\ x[2] = k
      BY <2>2, <3>2
    <3> QED
      BY <2>1, <3>1, <3>3
  <2>4. ASSUME NEW x \in WeightsOf(mm)
        PROVE  h[x] \in U
    <3>1. PICK n \in 0..(mm.n - 1), k \in 0..(mm.k - 1) : x = <<n, k>>
      BY <2>2
    <3>2. h[x] = <<n, byte(n, k)>>
      BY <2>1, <3>1
    <3> QED
      BY <1>4, <3>2
  <2> QED
    BY <2>3, <2>4
<1>6. IsFiniteSet(U)
  <2> HIDE DEF U, h
  <2> QED
    BY <1>5, WeightsFinite, ImageFinite
<1>7. \A u \in U : second[u] = u[2]
  OBVIOUS
<1> HIDE DEF U, second
<1>8. ASSUME NEW u \in U, NEW v \in U, second[u] = second[v]
      PROVE  u = v
  <2>1. PICK n1 \in 0..(mm.n - 1), k1 \in 0..(mm.k - 1) : u = <<n1, byte(n1, k1)>>
    BY <1>4
  <2>2. PICK n2 \in 0..(mm.n - 1), k2 \in 0..(mm.k - 1) : v = <<n2, byte(n2, k2)>>
    BY <1>4
  <2>3. byte(n1, k1) = byte(n2, k2)
    BY <1>7, <1>8, <2>1, <2>2
  <2>4. n1 = n2
    BY <2>3, WeightPlaceApart DEF byte
  <2> QED
    BY <2>1, <2>2, <2>3, <2>4
<1>9. Cardinality({second[u] : u \in U}) = Cardinality(U)
  BY <1>6, <1>8, ManyValues
<1>10. {second[u] : u \in U} = RowsBytes(mm, 0, mm.n)
  <2>1. \A b : b \in {second[u] : u \in U}
                 <=> \E n \in 0..(mm.n - 1), k \in 0..(mm.k - 1) : b = byte(n, k)
    <3>1. ASSUME NEW u \in U
          PROVE  \E n \in 0..(mm.n - 1), k \in 0..(mm.k - 1) : second[u] = byte(n, k)
      BY <1>4, <1>7
    <3>2. ASSUME NEW n \in 0..(mm.n - 1), NEW k \in 0..(mm.k - 1)
          PROVE  \E u \in U : byte(n, k) = second[u]
      <4>1. PICK u : u = <<n, byte(n, k)>>
        OBVIOUS
      <4>2. u \in U
        BY <1>4, <4>1
      <4>3. second[u] = byte(n, k)
        BY <1>7, <4>1, <4>2
      <4> QED
        BY <4>2, <4>3
    <3> QED
      BY <3>1, <3>2, Zenon
  <2>2. \A b : b \in RowsBytes(mm, 0, mm.n)
                 <=> \E n \in 0..(mm.n - 1), k \in 0..(mm.k - 1) : b = byte(n, k)
    BY <1>3
  <2> QED
    BY <2>1, <2>2, Zenon
<1> QED
  BY <1>9, <1>10 DEF U

\* The weights of a matmul are apart in each layout they may have.
LEMMA WeightsAreApart ==
  ASSUME NEW mm \in Matmuls, WeightsWhole(mm)
  PROVE  WeightsApart(mm)
<1> DEFINE S == WeightsOf(mm)
           f == [x \in S |-> WeightPlace(mm, x[1], x[2])]
<1>1. IsFiniteSet(S)
  BY WeightsFinite
<1>2. \A x \in S : x[1] \in 0..(mm.n - 1) /\ x[2] \in 0..(mm.k - 1) /\ x = <<x[1], x[2]>>
  BY DEF WeightsOf
<1>3. \A x \in S : f[x] = WeightPlace(mm, x[1], x[2])
  OBVIOUS
<1> HIDE DEF f, S
<1>4. \A x \in S : f[x] \in 0..(WeightElements(mm) - 1)
  BY <1>2, <1>3, WeightPlaceApart
<1>5. ASSUME NEW x \in S, NEW y \in S, f[x] = f[y]
      PROVE  x = y
  <2>1. WeightPlace(mm, x[1], x[2]) = WeightPlace(mm, y[1], y[2])
    BY <1>3, <1>5
  <2>2. x[1] = y[1] /\ x[2] = y[2]
    BY <1>2, <2>1, WeightPlaceApart
  <2> QED
    BY <1>2, <2>2
<1>6. Cardinality({f[x] : x \in S}) = Cardinality(S)
  BY <1>1, <1>5, ManyValues
<1>7. {f[x] : x \in S} = {WeightPlace(mm, x[1], x[2]) : x \in S}
  BY <1>3
<1>8. Apart(LAMBDA x : WeightPlace(mm, x[1], x[2]), WeightsOf(mm), WeightElements(mm))
  BY <1>3, <1>4, <1>6, <1>7 DEF Apart, S
<1>9. ASSUME NEW layout \in {"dense", "atom", "group"}
      PROVE  Apart(LAMBDA x : W16Offset(mm, x[1], x[2], layout), WeightsOf(mm), WeightElements(mm))
  <2> DEFINE g == [x \in S |-> W16Offset(mm, x[1], x[2], layout)]
  <2>1. \A x \in S : g[x] = W16Offset(mm, x[1], x[2], layout)
    OBVIOUS
  <2> HIDE DEF g
  <2>2. \A x, y \in S : g[x] = g[y] => x = y
    BY <2>1, W16Apart DEF S
  <2>3. Cardinality({g[x] : x \in S}) = Cardinality(S)
    BY <1>1, <2>2, ManyValues
  <2>4. {g[x] : x \in S} = {W16Offset(mm, x[1], x[2], layout) : x \in S}
    BY <2>1
  <2>5. \A x \in S : W16Offset(mm, x[1], x[2], layout) \in 0..(WeightElements(mm) - 1)
    BY W16Apart DEF S
  <2> QED
    BY <2>3, <2>4, <2>5 DEF Apart, S
<1> QED
  BY <1>8, <1>9, RowsInBytes DEF WeightsApart


-----------------------------------------------------------------------------
(* The accumulator: six digits, of which both layouts are a reading.       *)

AccPlace(h, c, hi, q, lo, mid, r) ==
    c * (64 * h) + hi * (32 * h) + q * (8 * h) + lo * 8 + mid * 4 + r
RowOf(wide, h, mh, ml) == IF wide THEN 2 * ml + mh ELSE mh * h + ml
ChannelOf(c, a, q, r) == 32 * c + 16 * a + 4 * q + r
AccOf(wide, h, c, a, q, r, mh, ml) ==
    IF wide THEN AccPlace(h, c, a, q, ml, mh, r) ELSE AccPlace(h, c, mh, q, ml, a, r)
HasDigits(wide, h, C, mi, ni) ==
    \E c \in 0..(C - 1) : \E a \in 0..1 : \E q \in 0..3 : \E r \in 0..3 :
       \E mh \in 0..1 : \E ml \in 0..(h - 1) :
          mi = RowOf(wide, h, mh, ml) /\ ni = ChannelOf(c, a, q, r)
IndexReads(wide, h, c, a, q, r, mh, ml) ==
    AccIndex(RowOf(wide, h, mh, ml), ChannelOf(c, a, q, r), 2 * h, wide)
        = AccOf(wide, h, c, a, q, r, mh, ml)

\* Quotient and remainder, named.
LEMMA Divided ==
  ASSUME NEW a \in Int, NEW b \in Nat \ {0}
  PROVE  \E q \in Int : \E r \in 0..(b - 1) : a = b * q + r
<1>1. a \div b \in Int /\ a % b \in 0..(b - 1) /\ a = b * (a \div b) + (a % b)
  BY DivMod
<1> QED
  BY <1>1, Zenon

\* Every number below the extent has its digits, ...
LEMMA AccDigits ==
  ASSUME NEW h \in Nat \ {0}, NEW C \in Nat, NEW p \in 0..(C * (64 * h) - 1)
  PROVE  \E c \in 0..(C - 1) : \E hi \in 0..1 : \E q \in 0..3 : \E lo \in 0..(h - 1) :
            \E mid \in 0..1 : \E r \in 0..3 : p = AccPlace(h, c, hi, q, lo, mid, r)
<1>1. PICK eight \in Nat \ {0} : eight = 8 * h
  OBVIOUS
<1>2. 64 * h = 8 * eight /\ 32 * h = 4 * eight
  BY <1>1
<1>3. PICK big \in Nat \ {0} : big = 8 * eight
  OBVIOUS
<1>4. PICK c \in Int : \E in \in 0..(big - 1) : p = big * c + in
  <2>1. p \in Int
    OBVIOUS
  <2> QED
    BY <2>1, Divided
<1>5. PICK in \in 0..(big - 1) : p = big * c + in
  BY <1>4
<1>6. c \in 0..(C - 1)
  <2>1. C * big \in Nat /\ p < C * big /\ p >= 0 /\ big * c = c * big
    BY <1>2, <1>3, ProductNat
  <2>2. c >= C => C * big <= c * big
    BY ProductGrows
  <2>3. c + 1 <= 0 => (c + 1) * big <= 0 * big
    BY ProductGrows
  <2>4. (c + 1) * big = c * big + big /\ c * big \in Int
    OBVIOUS
  <2> QED
    BY <1>5, <2>1, <2>2, <2>3, <2>4
<1>7. PICK x \in Int : \E y \in 0..(eight - 1) : in = eight * x + y
  <2>1. in \in Int
    OBVIOUS
  <2> QED
    BY <2>1, Divided
<1>8. PICK y \in 0..(eight - 1) : in = eight * x + y
  BY <1>7
<1>9. x \in 0..7
  <2>1. x >= 8 => 8 * eight <= x * eight
    BY ProductGrows
  <2>2. x + 1 <= 0 => (x + 1) * eight <= 0 * eight
    BY ProductGrows
  <2>3. (x + 1) * eight = x * eight + eight /\ x * eight \in Int /\ eight * x = x * eight
    OBVIOUS
  <2>4. PICK xe \in Int : xe = x * eight /\ eight * x = xe
    BY <2>3
  <2>5. (x >= 8 => 8 * eight <= xe) /\ (x + 1 <= 0 => xe + eight <= 0)
    <3>1. 0 * eight = 0
      OBVIOUS
    <3> QED
      BY <2>1, <2>2, <2>3, <2>4, <3>1
  <2>6. in = xe + y /\ in < 8 * eight /\ in >= 0 /\ y < eight /\ y >= 0
    BY <1>3, <1>8, <2>4
  <2> QED
    BY <2>5, <2>6
<1>10. PICK hi \in 0..1, q \in 0..3 : x = 4 * hi + q
  <2>1. x \div 4 \in 0..1 /\ x % 4 \in 0..3 /\ x = 4 * (x \div 4) + (x % 4)
    BY <1>9
  <2> QED
    BY <2>1
<1>11. PICK lo \in 0..(h - 1), z \in 0..7 : y = 8 * lo + z
  <2>1. y \div 8 \in 0..(h - 1) /\ y % 8 \in 0..7 /\ y = 8 * (y \div 8) + (y % 8)
    BY <1>1
  <2> QED
    BY <2>1
<1>12. PICK mid \in 0..1, r \in 0..3 : z = 4 * mid + r
  <2>1. z \div 4 \in 0..1 /\ z % 4 \in 0..3 /\ z = 4 * (z \div 4) + (z % 4)
    OBVIOUS
  <2> QED
    BY <2>1
<1>13. p = AccPlace(h, c, hi, q, lo, mid, r)
  <2>1. eight * x = hi * (4 * eight) + q * eight
    BY <1>10
  <2>2. big * c = c * big /\ big * c \in Int /\ hi * (4 * eight) \in Int /\ q * eight \in Int
    BY <1>6
  <2>3. p = c * big + hi * (4 * eight) + q * eight + lo * 8 + mid * 4 + r
    BY <1>5, <1>8, <1>11, <1>12, <2>1, <2>2
  <2> QED
    BY <1>1, <1>2, <1>3, <2>3 DEF AccPlace
<1> QED
  BY <1>6, <1>13

\* ... and digits make a number below it.
LEMMA AccBelow ==
  ASSUME NEW h \in Nat \ {0}, NEW C \in Nat, NEW c \in 0..(C - 1), NEW hi \in 0..1,
         NEW q \in 0..3, NEW lo \in 0..(h - 1), NEW mid \in 0..1, NEW r \in 0..3
  PROVE  AccPlace(h, c, hi, q, lo, mid, r) \in 0..(C * (64 * h) - 1)
<1>1. PICK in \in Int : in = hi * (32 * h) + q * (8 * h) + lo * 8 + mid * 4 + r
  OBVIOUS
<1>2. hi * (32 * h) \in {0, 32 * h} /\ q * (8 * h) \in {0, 8 * h, 16 * h, 24 * h}
  OBVIOUS
<1>3. in \in 0..(64 * h - 1)
  BY <1>1, <1>2
<1>4. 64 * h \in Nat
  OBVIOUS
<1>5. c * (64 * h) + in \in 0..(C * (64 * h) - 1)
  BY <1>3, <1>4, DigitFits
<1>6. c * (64 * h) \in Int
  OBVIOUS
<1> QED
  BY <1>1, <1>2, <1>5, <1>6 DEF AccPlace

\* Where charsiu_acc_index puts a row and a channel, of which the digits are known.
LEMMA AccIndexIs ==
  ASSUME NEW h \in Nat \ {0}, NEW wide, NEW c \in Nat, NEW a \in 0..1,
         NEW q \in 0..3, NEW r \in 0..3, NEW mh \in 0..1, NEW ml \in 0..(h - 1)
  PROVE  IndexReads(wide, h, c, a, q, r, mh, ml)
<1> SUFFICES AccIndex(RowOf(wide, h, mh, ml), ChannelOf(c, a, q, r), 2 * h, wide)
               = AccOf(wide, h, c, a, q, r, mh, ml)
  BY DEF IndexReads
<1>1. PICK ni \in Nat : ni = 32 * c + 16 * a + 4 * q + r
  OBVIOUS
<1>2. /\ ni \div 32 = c /\ (ni % 32) \div 16 = a /\ ni % 16 = 4 * q + r
      /\ (ni % 16) \div 4 = q /\ (ni % 16) % 4 = r
  BY <1>1
<1>3. PICK m \in Nat : m = 2 * h
  OBVIOUS
<1>4. m \div 2 = h /\ ~(m < 2) /\ m * 32 = 64 * h
  BY <1>3
<1>5. c * m * 32 = c * (64 * h)
  BY <1>3
<1>6. CASE wide
  <2>1. PICK mi \in Nat : mi = 2 * ml + mh
    OBVIOUS
  <2>2. mi \div 2 = ml /\ mi % 2 = mh
    BY <2>1
  <2>3. AccIndex(mi, ni, m, wide)
          = c * m * 32 + a * 32 * h + (q * 8 * h + r) + ml * 8 + mh * 4
    BY <1>2, <1>4, <2>2, <1>6 DEF AccIndex
  <2>4. AccIndex(mi, ni, m, wide) = AccPlace(h, c, a, q, ml, mh, r)
    <3>1. a * 32 * h = a * (32 * h) /\ q * 8 * h = q * (8 * h)
      OBVIOUS
    <3>2. /\ c * (64 * h) \in Int /\ a * (32 * h) \in Int /\ q * (8 * h) \in Int
          /\ ml * 8 \in Int /\ mh * 4 \in Int
      OBVIOUS
    <3>3. AccIndex(mi, ni, m, wide)
            = c * (64 * h) + a * (32 * h) + (q * (8 * h) + r) + ml * 8 + mh * 4
      BY <1>5, <2>3, <3>1
    <3>4. PICK e \in Int, f \in Int, g \in Int :
            e = c * (64 * h) /\ f = a * (32 * h) /\ g = q * (8 * h)
      BY <3>2
    <3>5. AccPlace(h, c, a, q, ml, mh, r) = e + f + g + ml * 8 + mh * 4 + r
      BY <3>4 DEF AccPlace
    <3>6. AccIndex(mi, ni, m, wide) = e + f + (g + r) + ml * 8 + mh * 4
      BY <3>3, <3>4
    <3> QED
      BY <3>5, <3>6
  <2> QED
    BY <1>1, <1>3, <1>6, <2>1, <2>4 DEF RowOf, ChannelOf, AccOf
<1>7. CASE ~wide
  <2>1. PICK mi \in Nat : mi = mh * h + ml
    OBVIOUS
  <2>2. mi \div h = mh /\ mi % h = ml
    BY <2>1, DivUnique
  <2>3. AccIndex(mi, ni, m, wide)
          = c * m * 32 + mh * 32 * h + (q * 8 * h + r) + ml * 8 + a * 4
    BY <1>2, <1>4, <2>2, <1>7 DEF AccIndex
  <2>4. AccIndex(mi, ni, m, wide) = AccPlace(h, c, mh, q, ml, a, r)
    <3>1. mh * 32 * h = mh * (32 * h) /\ q * 8 * h = q * (8 * h)
      OBVIOUS
    <3>2. /\ c * (64 * h) \in Int /\ mh * (32 * h) \in Int /\ q * (8 * h) \in Int
          /\ ml * 8 \in Int /\ a * 4 \in Int
      OBVIOUS
    <3>3. AccIndex(mi, ni, m, wide)
            = c * (64 * h) + mh * (32 * h) + (q * (8 * h) + r) + ml * 8 + a * 4
      BY <1>5, <2>3, <3>1
    <3>4. PICK e \in Int, f \in Int, g \in Int :
            e = c * (64 * h) /\ f = mh * (32 * h) /\ g = q * (8 * h)
      BY <3>2
    <3>5. AccPlace(h, c, mh, q, ml, a, r) = e + f + g + ml * 8 + a * 4 + r
      BY <3>4 DEF AccPlace
    <3>6. AccIndex(mi, ni, m, wide) = e + f + (g + r) + ml * 8 + a * 4
      BY <3>3, <3>4
    <3> QED
      BY <3>5, <3>6
  <2> QED
    BY <1>1, <1>3, <1>7, <2>1, <2>4 DEF RowOf, ChannelOf, AccOf
<1> QED
  BY <1>6, <1>7

\* The digits of a row and a channel.
LEMMA RowAndChannel ==
  ASSUME NEW h \in Nat \ {0}, NEW C \in Nat, NEW mi \in 0..(2 * h - 1),
         NEW ni \in 0..(32 * C - 1), NEW wide
  PROVE  HasDigits(wide, h, C, mi, ni)
<1>1. PICK c \in 0..(C - 1), s \in 0..31 : ni = 32 * c + s
  <2>1. ni \div 32 \in 0..(C - 1) /\ ni % 32 \in 0..31 /\ ni = 32 * (ni \div 32) + (ni % 32)
    OBVIOUS
  <2> QED
    BY <2>1
<1>2. PICK a \in 0..1, t \in 0..15 : s = 16 * a + t
  <2>1. s \div 16 \in 0..1 /\ s % 16 \in 0..15 /\ s = 16 * (s \div 16) + (s % 16)
    OBVIOUS
  <2> QED
    BY <2>1
<1>3. PICK q \in 0..3, r \in 0..3 : t = 4 * q + r
  <2>1. t \div 4 \in 0..3 /\ t % 4 \in 0..3 /\ t = 4 * (t \div 4) + (t % 4)
    OBVIOUS
  <2> QED
    BY <2>1
<1>4. ni = 32 * c + 16 * a + 4 * q + r
  BY <1>1, <1>2, <1>3
<1>5. \E mh \in 0..1 : \E ml \in 0..(h - 1) : mi = IF wide THEN 2 * ml + mh ELSE mh * h + ml
  <2>1. CASE wide
    <3>1. mi \div 2 \in 0..(h - 1) /\ mi % 2 \in 0..1 /\ mi = 2 * (mi \div 2) + (mi % 2)
      OBVIOUS
    <3> QED
      BY <2>1, <3>1
  <2>2. CASE ~wide
    <3>1. CASE mi < h
      <4>1. 0 * h + mi = mi
        OBVIOUS
      <4> QED
        BY <2>2, <3>1, <4>1
    <3>2. CASE mi >= h
      <4>1. 1 * h + (mi - h) = mi /\ mi - h \in 0..(h - 1)
        BY <3>2
      <4> QED
        BY <2>2, <4>1
    <3> QED
      BY <3>1, <3>2
  <2> QED
    BY <2>1, <2>2
<1> QED
  BY <1>4, <1>5 DEF RowOf, ChannelOf, HasDigits

\* The accumulator that is gathered fills its surface, four channels at a time.
LEMMA AccumulatorFilled ==
  ASSUME NEW mm \in Matmuls, NEW wide, mm.m > 1, AccWidthOk(mm.m), mm.n % 32 = 0
  PROVE  LET all == (0..(mm.m - 1)) \X (0..(mm.n - 1))
             at(x) == AccIndex(x[1], x[2], mm.m, wide)
         IN /\ {at(x) : x \in all} = 0..(mm.m * mm.n - 1)
            /\ \A x \in all : at(x) = at(<<x[1], x[2] - (x[2] % 4)>>) + (x[2] % 4)
<1> DEFINE all == (0..(mm.m - 1)) \X (0..(mm.n - 1))
           at(x) == AccIndex(x[1], x[2], mm.m, wide)
<1>1. mm.m \in Nat \ {0} /\ mm.n \in Nat \ {0}
  BY Extents
<1>2. PICK h \in Nat \ {0} : mm.m = 2 * h
  <2>1. mm.m \div 2 \in Nat \ {0} /\ mm.m = 2 * (mm.m \div 2)
    BY <1>1 DEF AccWidthOk
  <2> QED
    BY <2>1
<1>3. PICK C \in Nat : mm.n = 32 * C
  <2>1. mm.n \div 32 \in Nat /\ mm.n = 32 * (mm.n \div 32)
    BY <1>1
  <2> QED
    BY <2>1
<1>4. mm.m * mm.n = C * (64 * h)
  BY <1>2, <1>3
<1>5. ASSUME NEW x \in all
      PROVE  /\ at(x) \in 0..(mm.m * mm.n - 1)
             /\ at(x) = at(<<x[1], x[2] - (x[2] % 4)>>) + (x[2] % 4)
  <2>1. x[1] \in 0..(2 * h - 1) /\ x[2] \in 0..(32 * C - 1)
    BY <1>2, <1>3
  <2>2. PICK mi \in 0..(2 * h - 1), ni \in 0..(32 * C - 1) : mi = x[1] /\ ni = x[2]
    BY <2>1
  <2>3. PICK c \in 0..(C - 1) : \E a \in 0..1 : \E q \in 0..3 : \E r \in 0..3 :
            \E mh \in 0..1 : \E ml \in 0..(h - 1) :
               mi = RowOf(wide, h, mh, ml) /\ ni = ChannelOf(c, a, q, r)
    <3>1. HasDigits(wide, h, C, mi, ni)
      BY RowAndChannel
    <3> QED
      BY <3>1, Zenon DEF HasDigits
  <2>4. PICK a \in 0..1 : \E q \in 0..3 : \E r \in 0..3 : \E mh \in 0..1 : \E ml \in 0..(h - 1) :
               mi = RowOf(wide, h, mh, ml) /\ ni = ChannelOf(c, a, q, r)
    BY <2>3, Zenon
  <2>5. PICK q \in 0..3 : \E r \in 0..3 : \E mh \in 0..1 : \E ml \in 0..(h - 1) :
               mi = RowOf(wide, h, mh, ml) /\ ni = ChannelOf(c, a, q, r)
    BY <2>4, Zenon
  <2>6. PICK r \in 0..3 : \E mh \in 0..1 : \E ml \in 0..(h - 1) :
               mi = RowOf(wide, h, mh, ml) /\ ni = ChannelOf(c, a, q, r)
    BY <2>5, Zenon
  <2>7. PICK mh \in 0..1 : \E ml \in 0..(h - 1) :
               mi = RowOf(wide, h, mh, ml) /\ ni = ChannelOf(c, a, q, r)
    BY <2>6, Zenon
  <2>8. PICK ml \in 0..(h - 1) : mi = RowOf(wide, h, mh, ml) /\ ni = ChannelOf(c, a, q, r)
    BY <2>7, Zenon
  <2>9. c \in Nat
    OBVIOUS
  <2>10. AccIndex(mi, ni, 2 * h, wide)
           = AccOf(wide, h, c, a, q, r, mh, ml)
    <3>1. IndexReads(wide, h, c, a, q, r, mh, ml)
      BY <2>9, AccIndexIs
    <3> QED
      BY <2>8, <3>1, Zenon DEF IndexReads
  <2>11. AccIndex(mi, ChannelOf(c, a, q, 0), 2 * h, wide)
           = AccOf(wide, h, c, a, q, 0, mh, ml)
    <3>1. 0 \in 0..3
      OBVIOUS
    <3> QED
      <4>1. IndexReads(wide, h, c, a, q, 0, mh, ml)
        BY <2>9, <3>1, AccIndexIs
      <4> QED
        BY <2>8, <4>1, Zenon DEF IndexReads
  <2>12. ni % 4 = r /\ ni - (ni % 4) = ChannelOf(c, a, q, 0)
    BY <2>8 DEF ChannelOf
  <2>13. AccOf(wide, h, c, a, q, r, mh, ml) = AccOf(wide, h, c, a, q, 0, mh, ml) + r
    BY DEF AccPlace, AccOf
  <2>14. AccIndex(mi, ni, 2 * h, wide) = AccIndex(mi, ni - (ni % 4), 2 * h, wide) + (ni % 4)
    BY <2>10, <2>11, <2>12, <2>13
  <2>15. AccOf(wide, h, c, a, q, r, mh, ml) \in 0..(C * (64 * h) - 1)
    BY AccBelow DEF AccOf
  <2>16. at(x) \in 0..(mm.m * mm.n - 1)
    BY <1>2, <1>4, <2>2, <2>10, <2>15
  <2>17. at(x) = at(<<x[1], x[2] - (x[2] % 4)>>) + (x[2] % 4)
    BY <1>2, <2>2, <2>14
  <2> QED
    BY <2>16, <2>17
<1>6. ASSUME NEW p \in 0..(mm.m * mm.n - 1)
      PROVE  \E x \in all : at(x) = p
  <2>1. p \in 0..(C * (64 * h) - 1)
    BY <1>4
  <2>2. PICK c \in 0..(C - 1) : \E hi \in 0..1 : \E q \in 0..3 : \E lo \in 0..(h - 1) :
            \E mid \in 0..1 : \E r \in 0..3 : p = AccPlace(h, c, hi, q, lo, mid, r)
    BY <2>1, AccDigits
  <2>3. PICK hi \in 0..1 : \E q \in 0..3 : \E lo \in 0..(h - 1) :
            \E mid \in 0..1 : \E r \in 0..3 : p = AccPlace(h, c, hi, q, lo, mid, r)
    BY <2>2, Zenon
  <2>4. PICK q \in 0..3 : \E lo \in 0..(h - 1) :
            \E mid \in 0..1 : \E r \in 0..3 : p = AccPlace(h, c, hi, q, lo, mid, r)
    BY <2>3, Zenon
  <2>5. PICK lo \in 0..(h - 1) :
            \E mid \in 0..1 : \E r \in 0..3 : p = AccPlace(h, c, hi, q, lo, mid, r)
    BY <2>4, Zenon
  <2>6. PICK mid \in 0..1 : \E r \in 0..3 : p = AccPlace(h, c, hi, q, lo, mid, r)
    BY <2>5, Zenon
  <2>7. PICK r \in 0..3 : p = AccPlace(h, c, hi, q, lo, mid, r)
    BY <2>6, Zenon
  <2>8. PICK a \in 0..1, mh \in 0..1 : IF wide THEN a = hi /\ mh = mid ELSE a = mid /\ mh = hi
    BY Zenon
  <2>9. PICK ni \in Nat : ni = ChannelOf(c, a, q, r)
    BY DEF ChannelOf
  <2>10. ni \in 0..(mm.n - 1)
    BY <1>3, <2>9 DEF ChannelOf
  <2>11. PICK mi \in Nat : mi = RowOf(wide, h, mh, lo)
    <3>1. 2 * lo + mh \in Nat /\ mh * h + lo \in Nat
      OBVIOUS
    <3> QED
      BY <3>1 DEF RowOf
  <2>12. mi \in 0..(mm.m - 1)
    <3>1. 2 * lo + mh <= 2 * h - 1 /\ mh * h \in {0, h}
      OBVIOUS
    <3> QED
      BY <1>2, <2>11, <3>1 DEF RowOf
  <2>13. c \in Nat
    OBVIOUS
  <2>14. AccIndex(mi, ni, 2 * h, wide)
           = AccOf(wide, h, c, a, q, r, mh, lo)
    <3>1. IndexReads(wide, h, c, a, q, r, mh, lo)
      BY <2>13, AccIndexIs
    <3> QED
      BY <2>9, <2>11, <3>1, Zenon DEF IndexReads
  <2>15. AccIndex(mi, ni, 2 * h, wide) = p
    BY <2>7, <2>8, <2>14 DEF AccOf
  <2>16. PICK x : x = <<mi, ni>>
    OBVIOUS
  <2>17. x \in all /\ at(x) = p
    BY <1>2, <2>10, <2>12, <2>15, <2>16
  <2> QED
    BY <2>17
<1> HIDE DEF all, at
<1>7. {at(x) : x \in all} = 0..(mm.m * mm.n - 1)
  BY <1>5, <1>6
<1> QED
  BY <1>5, <1>7 DEF all, at

LEMMA AccumulatorIsApart ==
  ASSUME NEW mm \in Matmuls
  PROVE  AccumulatorApart(mm)
BY AccumulatorFilled, Zenon DEF AccumulatorApart

-----------------------------------------------------------------------------
(* The coefficients: records, scales and the operand fill their bytes.     *)

\* How many records of eight channels there are.
Records(mm) == (mm.n + 7) \div 8
AField(oc) == [at |-> (oc \div 8) * 64 + (oc % 8) * 4, bytes |-> 4, what |-> <<"A", oc>>]
BField(oc) == [at |-> (oc \div 8) * 64 + 32 + (oc % 8) * 2, bytes |-> 2, what |-> <<"B", oc>>]
CField(oc) == [at |-> (oc \div 8) * 64 + 48 + (oc % 8) * 2, bytes |-> 2, what |-> <<"C", oc>>]
SField(mm, oc) == [at |-> TableBytes(mm) + oc * 2, bytes |-> 2, what |-> <<"scale", oc>>]
OField(mm) == [at |-> OperandAt(mm), bytes |-> 4, what |-> <<"operand", 0>>]

\* The sizes of the parts, by the number of records.
LEMMA CoefSizes ==
  ASSUME NEW mm \in Matmuls
  PROVE  /\ Records(mm) \in Nat \ {0} /\ AlignUp(mm.n, 8) = 8 * Records(mm)
         /\ TableBytes(mm) = 64 * Records(mm) /\ OperandAt(mm) = 80 * Records(mm)
         /\ CoefBytes(mm) = 64 * Records(mm) + 262400 /\ 8 * Records(mm) <= mm.n + 7
<1>1. mm.n \in Nat \ {0}
  BY Extents
<1>2. AlignUp(mm.n, 8) = Records(mm) * 8
  <2>1. mm.n + 8 - 1 = mm.n + 7
    BY <1>1
  <2> QED
    BY <2>1 DEF AlignUp, Records
<1>3. Records(mm) \in Nat \ {0} /\ 8 * Records(mm) <= mm.n + 7
  BY <1>1 DEF Records
<1>4. TableBytes(mm) = Records(mm) * 64
  BY DEF TableBytes, Records
<1> QED
  BY <1>2, <1>3, <1>4 DEF ScaleBytes, OperandAt, CoefBytes

\* Which fields there are.
LEMMA FieldKinds ==
  ASSUME NEW mm \in Matmuls, NEW f
  PROVE  f \in CoefFields(mm) <=>
            \/ \E oc \in 0..(8 * Records(mm) - 1) :
                  \/ f = AField(oc) \/ f = BField(oc) \/ f = CField(oc) \/ f = SField(mm, oc)
            \/ f = OField(mm)
<1>1. AlignUp(mm.n, 8) = 8 * Records(mm)
  BY CoefSizes
<1> DEFINE S == 0..(8 * Records(mm) - 1)
<1>2. CoefFields(mm) = {AField(oc) : oc \in S} \cup {BField(oc) : oc \in S}
                         \cup {CField(oc) : oc \in S} \cup {SField(mm, oc) : oc \in S}
                         \cup {OField(mm)}
  BY <1>1, Zenon DEF CoefFields, AField, BField, CField, SField, OField
<1> HIDE DEF S
<1>3. f \in CoefFields(mm) <=>
            \/ \E oc \in S : f = AField(oc)
            \/ \E oc \in S : f = BField(oc)
            \/ \E oc \in S : f = CField(oc)
            \/ \E oc \in S : f = SField(mm, oc)
            \/ f = OField(mm)
  BY <1>2
<1> QED
  BY <1>3 DEF S

\* A field lies below the end of the operand.
LEMMA FieldInside ==
  ASSUME NEW mm \in Matmuls, NEW f \in CoefFields(mm)
  PROVE  f.at \in Nat /\ f.bytes \in Nat /\ f.at + f.bytes <= 80 * Records(mm) + 4
<1>1. PICK G \in Nat \ {0} : G = Records(mm)
  BY CoefSizes
<1>2. TableBytes(mm) = 64 * G /\ OperandAt(mm) = 80 * G
  BY <1>1, CoefSizes
<1>3. \A oc \in 0..(8 * G - 1) :
         /\ AField(oc).at \in Nat /\ AField(oc).bytes = 4 /\ AField(oc).at + 4 <= 64 * G
         /\ BField(oc).at \in Nat /\ BField(oc).bytes = 2 /\ BField(oc).at + 2 <= 64 * G
         /\ CField(oc).at \in Nat /\ CField(oc).bytes = 2 /\ CField(oc).at + 2 <= 64 * G
         /\ SField(mm, oc).at \in Nat /\ SField(mm, oc).bytes = 2
         /\ SField(mm, oc).at + 2 <= 80 * G
  BY <1>2 DEF AField, BField, CField, SField
<1>4. OField(mm).at = 80 * G /\ OField(mm).bytes = 4
  BY <1>2 DEF OField
<1>5. \/ \E oc \in 0..(8 * G - 1) :
            \/ f = AField(oc) \/ f = BField(oc) \/ f = CField(oc) \/ f = SField(mm, oc)
      \/ f = OField(mm)
  BY <1>1, FieldKinds
<1>6. CASE f = OField(mm)
  BY <1>1, <1>4, <1>6
<1>7. CASE f # OField(mm)
  <2>1. PICK oc \in 0..(8 * G - 1) :
            \/ f = AField(oc) \/ f = BField(oc) \/ f = CField(oc) \/ f = SField(mm, oc)
    BY <1>5, <1>7
  <2> QED
    BY <1>1, <1>3, <2>1
<1> QED
  BY <1>6, <1>7

\* Every byte before it is in a field.
LEMMA ByteInField ==
  ASSUME NEW mm \in Matmuls, NEW p \in 0..(80 * Records(mm) + 3)
  PROVE  \E f \in CoefFields(mm) : f.at <= p /\ p <= f.at + f.bytes - 1
<1>1. PICK G \in Nat \ {0} : G = Records(mm)
  BY CoefSizes
<1>2. TableBytes(mm) = 64 * G /\ OperandAt(mm) = 80 * G
  BY <1>1, CoefSizes
<1>3. \A oc \in 0..(8 * G - 1) :
         /\ AField(oc) \in CoefFields(mm) /\ BField(oc) \in CoefFields(mm)
         /\ CField(oc) \in CoefFields(mm) /\ SField(mm, oc) \in CoefFields(mm)
  BY <1>1, FieldKinds
<1>4. OField(mm) \in CoefFields(mm)
  BY FieldKinds
<1>5. CASE p < 64 * G
  <2>1. PICK rec \in 0..(G - 1), o \in 0..63 : p = 64 * rec + o
    <3>1. p \div 64 \in 0..(G - 1) /\ p % 64 \in 0..63 /\ p = 64 * (p \div 64) + (p % 64)
      BY <1>5
    <3> QED
      BY <3>1
  <2>2. CASE o < 32
    <3>1. PICK i \in 0..7, j \in 0..3 : o = 4 * i + j
      <4>1. o \div 4 \in 0..7 /\ o % 4 \in 0..3 /\ o = 4 * (o \div 4) + (o % 4)
        BY <2>2
      <4> QED
        BY <4>1
    <3>2. PICK oc \in 0..(8 * G - 1) : oc = 8 * rec + i
      OBVIOUS
    <3>3. oc \div 8 = rec /\ oc % 8 = i
      BY <3>2
    <3>4. AField(oc).at = rec * 64 + i * 4 /\ AField(oc).bytes = 4
      BY <3>3 DEF AField
    <3> QED
      BY <1>3, <2>1, <3>1, <3>4
  <2>3. CASE o >= 32 /\ o < 48
    <3>1. PICK i \in 0..7, j \in 0..1 : o = 32 + 2 * i + j
      <4>1. (o - 32) \div 2 \in 0..7 /\ (o - 32) % 2 \in 0..1
            /\ o - 32 = 2 * ((o - 32) \div 2) + ((o - 32) % 2)
        BY <2>3
      <4> QED
        BY <4>1
    <3>2. PICK oc \in 0..(8 * G - 1) : oc = 8 * rec + i
      OBVIOUS
    <3>3. oc \div 8 = rec /\ oc % 8 = i
      BY <3>2
    <3>4. BField(oc).at = rec * 64 + 32 + i * 2 /\ BField(oc).bytes = 2
      BY <3>3 DEF BField
    <3> QED
      BY <1>3, <2>1, <3>1, <3>4
  <2>4. CASE o >= 48
    <3>1. PICK i \in 0..7, j \in 0..1 : o = 48 + 2 * i + j
      <4>1. (o - 48) \div 2 \in 0..7 /\ (o - 48) % 2 \in 0..1
            /\ o - 48 = 2 * ((o - 48) \div 2) + ((o - 48) % 2)
        BY <2>4
      <4> QED
        BY <4>1
    <3>2. PICK oc \in 0..(8 * G - 1) : oc = 8 * rec + i
      OBVIOUS
    <3>3. oc \div 8 = rec /\ oc % 8 = i
      BY <3>2
    <3>4. CField(oc).at = rec * 64 + 48 + i * 2 /\ CField(oc).bytes = 2
      BY <3>3 DEF CField
    <3> QED
      BY <1>3, <2>1, <3>1, <3>4
  <2> QED
    BY <2>2, <2>3, <2>4
<1>6. CASE p >= 64 * G /\ p < 80 * G
  <2>1. PICK oc \in 0..(8 * G - 1), j \in 0..1 : p = 64 * G + 2 * oc + j
    <3>1. PICK x \in Nat : x = p - 64 * G
      BY <1>6
    <3>2. x \div 2 \in 0..(8 * G - 1) /\ x % 2 \in 0..1 /\ x = 2 * (x \div 2) + (x % 2)
      BY <1>6, <3>1
    <3> QED
      BY <3>1, <3>2
  <2>2. SField(mm, oc).at = 64 * G + oc * 2 /\ SField(mm, oc).bytes = 2
    BY <1>2 DEF SField
  <2> QED
    BY <1>3, <2>1, <2>2
<1>7. CASE p >= 80 * G
  <2>1. OField(mm).at = 80 * G /\ OField(mm).bytes = 4
    BY <1>2 DEF OField
  <2> QED
    BY <1>1, <1>4, <1>7, <2>1
<1> QED
  BY <1>5, <1>6, <1>7

\* The coefficients fill their bytes, and are inside the buffer while it is
\* large enough for the scales: it has room for 65536 floats behind the records.
LEMMA CoefIsApart ==
  ASSUME NEW mm \in Matmuls, mm.n <= CoefChannels
  PROVE  CoefApart(mm)
<1>1. PICK G \in Nat \ {0} : G = Records(mm)
  BY CoefSizes
<1>2. UNION {BytesOf(f) : f \in CoefFields(mm)} = 0..(80 * G + 3)
  <2>1. ASSUME NEW p \in 0..(80 * G + 3)
        PROVE  \E f \in CoefFields(mm) : p \in BytesOf(f)
    <3>1. PICK f \in CoefFields(mm) : f.at <= p /\ p <= f.at + f.bytes - 1
      BY <1>1, ByteInField
    <3>2. f.at \in Nat /\ f.bytes \in Nat
      BY FieldInside
    <3> QED
      BY <3>1, <3>2 DEF BytesOf
  <2>2. ASSUME NEW f \in CoefFields(mm), NEW p \in BytesOf(f)
        PROVE  p \in 0..(80 * G + 3)
    <3>1. f.at \in Nat /\ f.bytes \in Nat /\ f.at + f.bytes <= 80 * G + 4
      BY <1>1, FieldInside
    <3> QED
      BY <3>1 DEF BytesOf
  <2> QED
    BY <2>1, <2>2
<1>3. Cardinality(0..(80 * G + 3)) = 80 * G + 4
  <2>1. 0 \in Int /\ 80 * G + 3 \in Int /\ 0 <= 80 * G + 3
    OBVIOUS
  <2>2. Cardinality(0..(80 * G + 3)) = 80 * G + 3 - 0 + 1
    BY <2>1, FS_Interval
  <2> QED
    BY <2>2
<1>4. AlignUp(mm.n, 8) * 10 + 4 = 80 * G + 4
  BY <1>1, CoefSizes
<1>5. \A f \in CoefFields(mm) : f.at + f.bytes <= CoefBytes(mm)
  <2>1. 80 * G + 4 <= CoefBytes(mm)
    <3>1. mm.n \in Nat
      BY Extents
    <3>2. CoefBytes(mm) = 64 * G + 262400 /\ 8 * G <= mm.n + 7
      BY <1>1, CoefSizes
    <3>3. mm.n <= 131192
      BY DEF CoefChannels
    <3> QED
      BY <3>1, <3>2, <3>3
  <2>2. \A f \in CoefFields(mm) : f.at + f.bytes \in Int /\ f.at + f.bytes <= 80 * G + 4
    BY <1>1, FieldInside
  <2>3. CoefBytes(mm) \in Int
    BY <1>1, CoefSizes
  <2> QED
    BY <2>1, <2>2, <2>3
<1> QED
  BY <1>2, <1>3, <1>4, <1>5 DEF CoefApart

-----------------------------------------------------------------------------
(* What a behaviour asks about was given to it.                            *)

AskedGiven ==
    /\ asked.kind = "layout" => asked.mm \in Shapes
    /\ asked.kind = "pack" => asked.mm \in PackShapes
    /\ asked.kind = "regrow" => asked.r \in Regrows
    /\ asked.kind = "stream" => asked.job \in Jobs /\ asked.capture \in Captures
    /\ asked.kind = "cut" => asked.text \in Texts
    /\ asked.kind = "load" => asked.file \in Files
    /\ asked.kind = "open" => asked.file \in Written

LEMMA GivenFirst ==
  ASSUME Init
  PROVE  AskedGiven
BY DEF Init, Nothing, AskedGiven

LEMMA GivenStep ==
  ASSUME AskedGiven, [Next]_asked
  PROVE  AskedGiven'
<1>1. CASE UNCHANGED asked
  BY <1>1 DEF AskedGiven
<1>2. CASE Choose
  BY <1>2 DEF AskedGiven, Choose
<1>3. CASE AskLayout
  BY <1>3 DEF AskedGiven, AskLayout
<1>4. CASE AskPack
  BY <1>4 DEF AskedGiven, AskPack
<1>5. CASE AskRegrow
  BY <1>5 DEF AskedGiven, AskRegrow
<1>6. CASE AskStream
  BY <1>6 DEF AskedGiven, AskStream
<1>7. CASE AskCut
  BY <1>7 DEF AskedGiven, AskCut
<1>8. CASE AskLoad
  BY <1>8 DEF AskedGiven, AskLoad
<1>9. CASE AskSegment \/ AskEncode \/ AskForward
  BY <1>9 DEF AskedGiven, AskSegment, AskEncode, AskForward
<1>10. CASE AskMultiply \/ AskTile \/ AskRuns
  BY <1>10 DEF AskedGiven, AskMultiply, AskTile, AskRuns
<1>11. CASE AskQuantise
  BY <1>11 DEF AskedGiven, AskQuantise
<1>12. CASE AskOpen
  BY <1>12 DEF AskedGiven, AskOpen
<1> QED
  BY <1>1, <1>2, <1>3, <1>4, <1>5, <1>6, <1>7, <1>8, <1>9, <1>10, <1>11, <1>12 DEF Next

LEMMA AlwaysGiven == Spec => []AskedGiven
<1>1. Init => AskedGiven
  BY GivenFirst
<1>2. AskedGiven /\ [Next]_asked => AskedGiven'
  BY GivenStep
<1> QED
  BY <1>1, <1>2, PTL DEF Spec

\* For every matmul of the shapes there can be, whatever its extents: no two
\* elements of an operand share a place, and every place is inside its buffer
\* (charsiu_w16_offset, charsiu_pack_weights_rows, charsiu_acc_index and
\* charsiu_build_coefs).
THEOREM PlacesNeverShared == Spec => []PlacesApart
<1>1. AskedGiven => PlacesApart
  <2> SUFFICES ASSUME AskedGiven, asked.kind = "layout"
               PROVE  /\ WeightsWhole(asked.mm) => WeightsApart(asked.mm)
                      /\ AccumulatorApart(asked.mm)
                      /\ CoefApart(asked.mm)
    BY DEF PlacesApart
  <2>1. PICK mm : mm = asked.mm
    OBVIOUS
  <2>2. mm \in Matmuls /\ mm.n <= CoefChannels
    BY <2>1, MatmulAssumption DEF AskedGiven
  <2>3. WeightsWhole(mm) => WeightsApart(mm)
    BY <2>2, WeightsAreApart
  <2>4. AccumulatorApart(mm) /\ CoefApart(mm)
    BY <2>2, AccumulatorIsApart, CoefIsApart
  <2> QED
    BY <2>1, <2>3, <2>4
<1> QED
  BY <1>1, AlwaysGiven, PTL

-----------------------------------------------------------------------------
(* The input surface: a place has a group of k, a row, and a k in it.      *)

StoredAt(mm, g, grp, i, o) == IF grp * g + o < mm.k THEN <<i, grp * g + o>> ELSE Zero
HasPlace(mm, g, p, grp, i, o) == p = grp * (mm.m * g) + (i * g + o)
DivisionFinds(mm, g, p, grp, i, o) ==
    /\ p \in Nat /\ p \div (mm.m * g) = grp /\ p % (mm.m * g) = i * g + o
    /\ (i * g + o) \div g = i /\ (i * g + o) % g = o
    /\ i * g + o \in 0..(mm.m * g - 1)
IsPlaceOf(mm, g, p, i, k, i2, k2) == InputPlace(mm, g, i2, k2) = p <=> i2 = i /\ k2 = k
Leaves(f, mm, g, p, grp, i, o) == f[p] = StoredAt(mm, g, grp, i, o)

\* A place's group, row and k.
LEMMA PlaceDigits ==
  ASSUME NEW mm \in Matmuls, NEW g \in {8, 16, 32}, NEW p \in Nat
  PROVE  \E grp \in Nat : \E i \in 0..(mm.m - 1) : \E o \in 0..(g - 1) : HasPlace(mm, g, p, grp, i, o)
<1>1. PICK m \in Nat \ {0} : m = mm.m
  BY Extents
<1>2. PICK M \in Nat \ {0} : M = m * g
  <2>1. m * g \in Nat \ {0}
    BY <1>1
  <2> QED
    BY <2>1
<1>3. PICK grp \in Int : \E at \in 0..(M - 1) : p = M * grp + at
  <2>1. p \in Int
    OBVIOUS
  <2> QED
    BY <2>1, Divided
<1>4. PICK at \in 0..(M - 1) : p = M * grp + at
  BY <1>3
<1>5. grp \in Nat
  <2>1. grp + 1 <= 0 => (grp + 1) * M <= 0 * M
    BY ProductGrows
  <2>2. (grp + 1) * M = grp * M + M /\ grp * M \in Int /\ M * grp = grp * M /\ 0 * M = 0
    OBVIOUS
  <2> QED
    BY <1>4, <2>1, <2>2
<1>6. at \in Int /\ g \in Nat \ {0}
  OBVIOUS
<1>7. PICK i \in Int : \E o \in 0..(g - 1) : at = g * i + o
  BY <1>6, Divided
<1>8. PICK o \in 0..(g - 1) : at = g * i + o
  BY <1>7
<1>9. i \in 0..(m - 1)
  <2>1. (i + 1 <= 0 => (i + 1) * g <= 0 * g) /\ (i >= m => m * g <= i * g)
    BY ProductGrows
  <2>2. (i + 1) * g = i * g + g /\ i * g \in Int /\ g * i = i * g /\ 0 * g = 0
    OBVIOUS
  <2> QED
    BY <1>2, <1>4, <1>8, <2>1, <2>2
<1>10. p = grp * (m * g) + (i * g + o)
  BY <1>2, <1>4, <1>8
<1> QED
  BY <1>1, <1>5, <1>9, <1>10 DEF HasPlace

\* They are the ones that division finds.
LEMMA PlaceDivided ==
  ASSUME NEW mm \in Matmuls, NEW g \in {8, 16, 32}, NEW grp \in Nat,
         NEW i \in 0..(mm.m - 1), NEW o \in 0..(g - 1), NEW p, HasPlace(mm, g, p, grp, i, o)
  PROVE  DivisionFinds(mm, g, p, grp, i, o)
<1>1. PICK m \in Nat \ {0} : m = mm.m
  BY Extents
<1>2. PICK M \in Nat \ {0} : M = m * g
  <2>1. m * g \in Nat \ {0}
    BY <1>1
  <2> QED
    BY <2>1
<1>3. PICK in \in 0..(M - 1) : in = i * g + o
  <2>1. i * g + o \in 0..(m * g - 1)
    BY <1>1, DigitFits
  <2> QED
    BY <1>2, <2>1
<1>4. in \div g = i /\ in % g = o
  BY <1>3, DivUnique
<1>5. (grp * M + in) \div M = grp /\ (grp * M + in) % M = in /\ grp * M + in \in Nat
  <2>1. grp * M \in Nat /\ grp \in Int /\ in \in Nat
    BY ProductNat
  <2>2. (grp * M + in) \div M = grp
    BY <2>1, DivUnique
  <2>3. (grp * M + in) % M = in
    BY <2>1, DivUnique
  <2> QED
    BY <2>1, <2>2, <2>3
<1>6. p = grp * M + in
  BY <1>1, <1>2, <1>3 DEF HasPlace
<1> QED
  BY <1>1, <1>2, <1>3, <1>4, <1>5, <1>6 DEF DivisionFinds

\* The element stored at a place is the one it has.
LEMMA PlaceOf ==
  ASSUME NEW mm \in Matmuls, NEW g \in {8, 16, 32}, NEW grp \in Nat,
         NEW i \in 0..(mm.m - 1), NEW o \in 0..(g - 1), NEW p, HasPlace(mm, g, p, grp, i, o),
         NEW i2 \in 0..(mm.m - 1), NEW kk \in 0..(mm.k - 1)
  PROVE  IsPlaceOf(mm, g, p, i, grp * g + o, i2, kk)
<1>1. PICK m \in Nat \ {0}, k \in Nat \ {0} : m = mm.m /\ k = mm.k
  BY Extents
<1>2. kk \in Nat
  BY <1>1
<1>3. PICK q \in Nat, r \in 0..(g - 1) : q = kk \div g /\ r = kk % g /\ kk = q * g + r
  <2>1. kk \div g \in Nat /\ kk % g \in 0..(g - 1) /\ kk = (kk \div g) * g + (kk % g)
    <3>1. CASE g = 8
      BY <1>2, <3>1
    <3>2. CASE g = 16
      BY <1>2, <3>2
    <3>3. CASE g = 32
      BY <1>2, <3>3
    <3> QED
      BY <3>1, <3>2, <3>3
  <2> QED
    BY <2>1
<1>4. InputPlace(mm, g, i2, kk) = q * m * g + i2 * g + r
  BY <1>1, <1>3 DEF InputPlace
<1>5. q * m * g = q * (m * g) /\ q * (m * g) \in Int /\ i2 * g \in Int
  BY <1>1
<1>6. PICK M \in Nat \ {0} : M = m * g
  <2>1. m * g \in Nat \ {0}
    BY <1>1
  <2> QED
    BY <2>1
<1>7. InputPlace(mm, g, i2, kk) = q * M + (i2 * g + r)
  BY <1>4, <1>5, <1>6
<1>8. p = grp * M + (i * g + o)
  BY <1>1, <1>6 DEF HasPlace
<1>9. i * g + o \in 0..(M - 1) /\ i2 * g + r \in 0..(M - 1)
  BY <1>1, <1>6, DigitFits
<1>10. ASSUME InputPlace(mm, g, i2, kk) = p
       PROVE  i2 = i /\ kk = grp * g + o
  <2>1. q = grp /\ i2 * g + r = i * g + o
    <3>1. q * M + (i2 * g + r) = grp * M + (i * g + o)
      BY <1>7, <1>8, <1>10
    <3>2. q \in Int /\ grp \in Int /\ M \in Nat
      OBVIOUS
    <3> QED
      BY <1>9, <3>1, <3>2, DigitsUnique
  <2>2. i2 = i /\ r = o
    <3>1. i2 \in Int /\ i \in Int /\ g \in Nat
      BY <1>1
    <3> QED
      BY <2>1, <3>1, DigitsUnique
  <2> QED
    BY <1>3, <2>1, <2>2
<1>11. ASSUME i2 = i, kk = grp * g + o
       PROVE  InputPlace(mm, g, i2, kk) = p
  <2>1. q = grp /\ r = o
    <3>1. q * g + r = grp * g + o /\ q \in Int /\ grp \in Int /\ g \in Nat
      BY <1>3, <1>11
    <3> QED
      BY <3>1, DigitsUnique
  <2> QED
    BY <1>7, <1>8, <1>11, <2>1
<1> QED
  BY <1>10, <1>11 DEF IsPlaceOf

\* What the packer that packs it all leaves at a place.
LEMMA WholeStored ==
  ASSUME NEW mm \in Matmuls, NEW g \in {8, 16, 32}, NEW grp \in Nat, NEW size \in Nat,
         NEW i \in 0..(mm.m - 1), NEW o \in 0..(g - 1), NEW p \in 0..(size - 1),
         HasPlace(mm, g, p, grp, i, o)
  PROVE  Leaves(PackWhole(mm, g, size), mm, g, p, grp, i, o)
<1> SUFFICES PackWhole(mm, g, size)[p] = StoredAt(mm, g, grp, i, o)
  BY DEF Leaves
<1> DEFINE E == (0..(mm.m - 1)) \X (0..(mm.k - 1))
           Here(e) == InputPlace(mm, g, e[1], e[2]) = p
<1>1. mm.m \in Nat \ {0} /\ mm.k \in Nat \ {0}
  BY Extents
<1>2. PICK kk \in Nat : kk = grp * g + o
  <2>1. grp * g + o \in Nat
    BY ProductNat
  <2> QED
    BY <2>1
<1>3. \A i2 \in 0..(mm.m - 1), k2 \in 0..(mm.k - 1) :
         InputPlace(mm, g, i2, k2) = p <=> i2 = i /\ k2 = kk
  <2> SUFFICES ASSUME NEW i2 \in 0..(mm.m - 1), NEW k2 \in 0..(mm.k - 1)
               PROVE  InputPlace(mm, g, i2, k2) = p <=> i2 = i /\ k2 = kk
    OBVIOUS
  <2>1. IsPlaceOf(mm, g, p, i, grp * g + o, i2, k2)
    BY PlaceOf
  <2> QED
    BY <1>2, <2>1, Zenon DEF IsPlaceOf
<1>4. PackWhole(mm, g, size)[p] =
        IF \E i2 \in 0..(mm.m - 1), k2 \in 0..(mm.k - 1) : InputPlace(mm, g, i2, k2) = p
        THEN CHOOSE e \in E : Here(e)
        ELSE Zero
  BY Zenon DEF PackWhole
<1>5. CASE kk < mm.k
  <2>1. kk \in 0..(mm.k - 1)
    BY <1>1, <1>5
  <2>2. InputPlace(mm, g, i, kk) = p
    BY <1>3, <2>1
  <2>3. PICK x : x = <<i, kk>>
    OBVIOUS
  <2>4. x \in E /\ Here(x)
    BY <2>1, <2>2, <2>3
  <2>5. \A e \in E : Here(e) => e = x
    <3> SUFFICES ASSUME NEW e \in E, Here(e)
                 PROVE  e = x
      OBVIOUS
    <3>1. PICK i2 \in 0..(mm.m - 1), k2 \in 0..(mm.k - 1) : e = <<i2, k2>>
      OBVIOUS
    <3>2. InputPlace(mm, g, i2, k2) = p
      BY <3>1
    <3>3. i2 = i /\ k2 = kk
      BY <1>3, <3>2
    <3> QED
      BY <2>3, <3>1, <3>3
  <2>6. \E i2 \in 0..(mm.m - 1), k2 \in 0..(mm.k - 1) : InputPlace(mm, g, i2, k2) = p
    BY <2>1, <2>2
  <2> HIDE DEF E, Here
  <2>7. (CHOOSE e \in E : Here(e)) = x
    BY <2>4, <2>5, Zenon
  <2>8. PackWhole(mm, g, size)[p] = x
    BY <1>4, <2>6, <2>7
  <2> QED
    BY <1>2, <1>5, <2>3, <2>8 DEF StoredAt
<1>6. CASE ~(kk < mm.k)
  <2>1. ~\E i2 \in 0..(mm.m - 1), k2 \in 0..(mm.k - 1) : InputPlace(mm, g, i2, k2) = p
    BY <1>1, <1>3, <1>6
  <2>2. PackWhole(mm, g, size)[p] = Zero
    BY <1>4, <2>1
  <2> QED
    BY <1>2, <1>6, <2>2 DEF StoredAt
<1> QED
  BY <1>5, <1>6

\* How many groups of k there are, and how far the last one goes.
LEMMA GroupsOfK ==
  ASSUME NEW mm \in Matmuls, NEW g, g = FeatureAtom(EffectiveAtype(mm))
  PROVE  /\ g \in {8, 16, 32}
         /\ \E ng \in Nat : \E rest \in 0..(g - 1) :
               /\ ng = mm.k \div g /\ rest = mm.k % g /\ mm.k = ng * g + rest
               /\ KEff(mm) = IF rest = 0 THEN ng * g ELSE (ng + 1) * g
<1>1. g \in {8, 16, 32} /\ mm.k \in Nat
  BY Extents
<1>2. KEff(mm) = ((mm.k + g - 1) \div g) * g
  BY DEF KEff, AlignUp
<1>3. /\ mm.k \div g \in Nat /\ mm.k % g \in 0..(g - 1)
      /\ mm.k = (mm.k \div g) * g + (mm.k % g)
      /\ (mm.k + g - 1) \div g = IF mm.k % g = 0 THEN mm.k \div g ELSE (mm.k \div g) + 1
  <2>1. CASE g = 8
    BY <1>1, <2>1
  <2>2. CASE g = 16
    BY <1>1, <2>2
  <2>3. CASE g = 32
    BY <1>1, <2>3
  <2> QED
    BY <1>1, <2>1, <2>2, <2>3
<1> QED
  BY <1>1, <1>2, <1>3

\* What the packer that is split leaves at a place.
LEMMA SplitStored ==
  ASSUME NEW mm \in Matmuls, mm.m > 1, NEW g, g = FeatureAtom(EffectiveAtype(mm)),
         NEW cut \in 0..NGroups(mm, g),
         NEW grp \in Nat, NEW i \in 0..(mm.m - 1), NEW o \in 0..(g - 1),
         NEW p \in 0..(KEff(mm) * mm.m - 1), HasPlace(mm, g, p, grp, i, o)
  PROVE  Leaves(PackSplit(mm, g, KEff(mm) * mm.m, cut), mm, g, p, grp, i, o)
<1> SUFFICES PackSplit(mm, g, KEff(mm) * mm.m, cut)[p] = StoredAt(mm, g, grp, i, o)
  BY DEF Leaves
<1> DEFINE size == KEff(mm) * mm.m
           old == [q \in 0..(size - 1) |-> Leftover]
           edges == Edges(mm, g, old)
           first == Groups(mm, g, edges, 0, cut)
           both == Groups(mm, g, first, cut, NGroups(mm, g) - cut)
<1>1. g \in {8, 16, 32}
  BY GroupsOfK
<1>2. PICK ng \in Nat : \E rest \in 0..(g - 1) :
               /\ ng = mm.k \div g /\ rest = mm.k % g /\ mm.k = ng * g + rest
               /\ KEff(mm) = IF rest = 0 THEN ng * g ELSE (ng + 1) * g
  BY GroupsOfK
<1>3. PICK rest \in 0..(g - 1) :
               /\ ng = mm.k \div g /\ rest = mm.k % g /\ mm.k = ng * g + rest
               /\ KEff(mm) = IF rest = 0 THEN ng * g ELSE (ng + 1) * g
  BY <1>2, Zenon
<1>4. PICK m \in Nat \ {0} : m = mm.m
  BY Extents
<1>5. PICK M \in Nat \ {0} : M = m * g
  <2>1. m * g \in Nat \ {0}
    BY <1>1, <1>4
  <2> QED
    BY <2>1
<1>6. NGroups(mm, g) = ng
  BY <1>3 DEF NGroups
<1>7. PICK in \in 0..(M - 1) : in = i * g + o
  <2>1. DivisionFinds(mm, g, p, grp, i, o)
    BY <1>1, PlaceDivided
  <2> QED
    BY <1>4, <1>5, <2>1 DEF DivisionFinds
<1>8. /\ p \div (mm.m * g) = grp /\ p % (mm.m * g) = in /\ in \div g = i /\ in % g = o
      /\ p = grp * M + in /\ p \in Nat
  <2>1. DivisionFinds(mm, g, p, grp, i, o)
    BY <1>1, PlaceDivided
  <2>2. p = grp * M + in
    BY <1>4, <1>5, <1>7 DEF HasPlace
  <2> QED
    BY <1>7, <2>1, <2>2 DEF DivisionFinds
<1>9. DOMAIN old = 0..(size - 1) /\ p \in 0..(size - 1)
  OBVIOUS
<1>10. edges = [q \in DOMAIN old |->
          IF q < ng * mm.m * g THEN old[q]
          ELSE IF (q - ng * mm.m * g) \div g < mm.m /\ (q - ng * mm.m * g) % g < mm.k % g
               THEN <<(q - ng * mm.m * g) \div g, ng * g + ((q - ng * mm.m * g) % g)>> ELSE Zero]
  BY <1>3 DEF Edges
<1>11. first = [q \in DOMAIN edges |->
          IF q \div (mm.m * g) \in 0..(0 + cut - 1)
          THEN <<(q % (mm.m * g)) \div g, (q \div (mm.m * g)) * g + ((q % (mm.m * g)) % g)>>
          ELSE edges[q]]
  BY DEF Groups
<1>12. both = [q \in DOMAIN first |->
          IF q \div (mm.m * g) \in cut..(cut + (NGroups(mm, g) - cut) - 1)
          THEN <<(q % (mm.m * g)) \div g, (q \div (mm.m * g)) * g + ((q % (mm.m * g)) % g)>>
          ELSE first[q]]
  BY DEF Groups
<1> HIDE DEF old, edges, first, both
<1>13. DOMAIN edges = 0..(size - 1) /\ DOMAIN first = 0..(size - 1)
  BY <1>9, <1>10, <1>11
<1>14. first[p] = IF grp \in 0..(0 + cut - 1) THEN <<i, grp * g + o>> ELSE edges[p]
  BY <1>8, <1>9, <1>11, <1>13
<1>15. both[p] = IF grp \in cut..(cut + (ng - cut) - 1) THEN <<i, grp * g + o>> ELSE first[p]
  BY <1>6, <1>8, <1>9, <1>12, <1>13
<1>16. cut \in 0..ng
  BY <1>6
<1>17. CASE grp < ng
  <2>1. both[p] = <<i, grp * g + o>>
    BY <1>14, <1>15, <1>16, <1>17
  <2>2. grp * g + o < mm.k
    <3>1. (grp + 1) * g <= ng * g
      BY <1>1, <1>17, ProductGrows
    <3>2. (grp + 1) * g = grp * g + g /\ grp * g \in Int /\ ng * g \in Int
      BY <1>1
    <3> QED
      BY <1>1, <1>3, <3>1, <3>2
  <2> QED
    BY <2>1, <2>2 DEF StoredAt, both, PackSplit, first, edges, old
<1>18. CASE grp >= ng
  <2>1. both[p] = edges[p]
    BY <1>14, <1>15, <1>16, <1>18
  <2>2. grp = ng /\ rest # 0
    <3>1. PICK top \in {ng, ng + 1} : KEff(mm) = top * g /\ (top = ng <=> rest = 0)
      <4>1. CASE rest = 0
        BY <1>3, <4>1
      <4>2. CASE rest # 0
        <5>1. KEff(mm) = (ng + 1) * g
          BY <1>3, <4>2
        <5>2. ng + 1 # ng
          OBVIOUS
        <5> QED
          BY <4>2, <5>1, <5>2, Zenon
      <4> QED
        BY <4>1, <4>2
    <3>2. top * g * m = top * M /\ size = top * M
      BY <1>1, <1>4, <1>5, <3>1
    <3>3. grp * M + in < top * M
      BY <1>8, <1>9, <3>2
    <3>4. top <= grp => top * M <= grp * M
      BY ProductGrows
    <3>5. grp * M \in Int /\ top * M \in Int
      OBVIOUS
    <3>6. grp < top
      BY <3>3, <3>4, <3>5
    <3> QED
      BY <1>18, <3>1, <3>6
  <2>3. ng * mm.m * g = ng * M
    BY <1>1, <1>4, <1>5
  <2>4. p - ng * M = in /\ ~(p < ng * M)
    <3>1. ng * M \in Int
      OBVIOUS
    <3> QED
      BY <1>8, <2>2, <3>1
  <2>5. edges[p] = IF in \div g < mm.m /\ in % g < mm.k % g
                   THEN <<in \div g, ng * g + (in % g)>> ELSE Zero
    BY <1>9, <1>10, <2>3, <2>4
  <2>6. edges[p] = IF o < rest THEN <<i, grp * g + o>> ELSE Zero
    <3>1. in \div g = i /\ in % g = o /\ mm.k % g = rest /\ i < mm.m
      BY <1>3, <1>4, <1>8
    <3> QED
      BY <2>2, <2>5, <3>1
  <2>7. grp * g + o < mm.k <=> o < rest
    <3>1. PICK top \in Int : top = grp * g
      BY <1>1
    <3>2. mm.k = top + rest
      BY <1>3, <2>2, <3>1
    <3> QED
      BY <1>1, <3>1, <3>2
  <2> QED
    BY <2>1, <2>6, <2>7 DEF StoredAt, both, PackSplit, first, edges, old
<1> QED
  BY <1>17, <1>18

\* What the packer of one row leaves at a place.
LEMMA OneRowStored ==
  ASSUME NEW mm \in Matmuls, mm.m = 1, NEW g \in {8, 16, 32}, NEW size \in Nat,
         NEW grp \in Nat, NEW i \in 0..(mm.m - 1), NEW o \in 0..(g - 1),
         NEW p \in 0..(size - 1), HasPlace(mm, g, p, grp, i, o)
  PROVE  Leaves(PackOneRow(mm, size), mm, g, p, grp, i, o)
<1> SUFFICES PackOneRow(mm, size)[p] = StoredAt(mm, g, grp, i, o)
  BY DEF Leaves
<1>1. i = 0 /\ 0 * g = 0 /\ mm.m * g = g
  OBVIOUS
<1>2. p = grp * g + o
  <2>1. grp * g \in Int
    OBVIOUS
  <2> QED
    BY <1>1, <2>1 DEF HasPlace
<1>3. PackOneRow(mm, size)[p] = IF p < mm.k THEN <<0, p>> ELSE Zero
  BY DEF PackOneRow
<1> QED
  BY <1>1, <1>2, <1>3 DEF StoredAt

\* The packer that is split, wherever its groups are cut, and that of one row.
LEMMA PackersAgree ==
  ASSUME NEW mm \in Matmuls, NEW g, g = FeatureAtom(EffectiveAtype(mm))
  PROVE  LET size == KEff(mm) * mm.m
         IN /\ mm.m > 1 => \A cut \in 0..NGroups(mm, g) :
                              PackSplit(mm, g, size, cut) = PackWhole(mm, g, size)
            /\ mm.m = 1 => PackOneRow(mm, size) = PackWhole(mm, g, size)
<1>1. g \in {8, 16, 32} /\ mm.m \in Nat \ {0} /\ KEff(mm) * mm.m \in Nat
  <2>1. g \in {8, 16, 32} /\ mm.m \in Nat \ {0} /\ KEff(mm) \in Nat
    BY Extents
  <2> QED
    BY <2>1, ProductNat
<1>0. PICK size \in Nat : size = KEff(mm) * mm.m
  BY <1>1
<1> DEFINE whole == PackWhole(mm, g, size)
<1>2. \A p \in 0..(size - 1) : p \in Nat
  BY <1>1
<1>3. ASSUME NEW f, DOMAIN f = 0..(size - 1), f = [p \in DOMAIN f |-> f[p]],
             \A p \in 0..(size - 1), grp \in Nat, i \in 0..(mm.m - 1), o \in 0..(g - 1) :
                HasPlace(mm, g, p, grp, i, o) => Leaves(f, mm, g, p, grp, i, o)
      PROVE  f = whole
  <2>1. ASSUME NEW p \in 0..(size - 1)
        PROVE  f[p] = whole[p]
    <3>1. PICK grp \in Nat : \E i \in 0..(mm.m - 1) : \E o \in 0..(g - 1) : HasPlace(mm, g, p, grp, i, o)
      BY <1>1, <1>2, PlaceDigits
    <3>2. PICK i \in 0..(mm.m - 1) : \E o \in 0..(g - 1) : HasPlace(mm, g, p, grp, i, o)
      BY <3>1
    <3>3. PICK o \in 0..(g - 1) : HasPlace(mm, g, p, grp, i, o)
      BY <3>2
    <3>4. Leaves(f, mm, g, p, grp, i, o)
      BY <1>3, <3>3
    <3>5. Leaves(whole, mm, g, p, grp, i, o)
      BY <1>1, <3>3, WholeStored
    <3> QED
      BY <3>4, <3>5, Zenon DEF Leaves
  <2>2. DOMAIN whole = 0..(size - 1) /\ whole = [p \in DOMAIN whole |-> whole[p]]
    BY DEF PackWhole
  <2> HIDE DEF whole
  <2>3. [p \in 0..(size - 1) |-> f[p]] = [p \in 0..(size - 1) |-> whole[p]]
    BY <2>1
  <2> QED
    BY <1>3, <2>2, <2>3
<1>4. ASSUME mm.m > 1, NEW cut \in 0..NGroups(mm, g)
      PROVE  PackSplit(mm, g, size, cut) = whole
  <2> DEFINE f == PackSplit(mm, g, size, cut)
  <2>1. DOMAIN f = 0..(size - 1) /\ f = [p \in DOMAIN f |-> f[p]]
    BY DEF PackSplit, Groups, Edges
  <2>2. \A p \in 0..(size - 1), grp \in Nat, i \in 0..(mm.m - 1), o \in 0..(g - 1) :
           HasPlace(mm, g, p, grp, i, o) => Leaves(f, mm, g, p, grp, i, o)
    BY <1>0, <1>4, SplitStored
  <2> HIDE DEF f
  <2> QED
    BY <1>3, <2>1, <2>2 DEF f
<1>5. ASSUME mm.m = 1
      PROVE  PackOneRow(mm, size) = whole
  <2> DEFINE f == PackOneRow(mm, size)
  <2>1. DOMAIN f = 0..(size - 1) /\ f = [p \in DOMAIN f |-> f[p]]
    BY DEF PackOneRow
  <2>2. \A p \in 0..(size - 1), grp \in Nat, i \in 0..(mm.m - 1), o \in 0..(g - 1) :
           HasPlace(mm, g, p, grp, i, o) => Leaves(f, mm, g, p, grp, i, o)
    <3> SUFFICES ASSUME NEW p \in 0..(size - 1), NEW grp \in Nat, NEW i \in 0..(mm.m - 1),
                        NEW o \in 0..(g - 1), HasPlace(mm, g, p, grp, i, o)
                 PROVE  Leaves(f, mm, g, p, grp, i, o)
      OBVIOUS
    <3> QED
      BY <1>1, <1>5, OneRowStored
  <2> HIDE DEF f
  <2> QED
    BY <1>3, <2>1, <2>2 DEF f
<1> QED
  BY <1>0, <1>4, <1>5

\* For every shape and wherever the work is cut, the input packer that is split
\* over the pool leaves what packing it all into a clear buffer leaves
\* (charsiu_pack_input, pack_input_f16_edges and pack_input_f16_groups).
THEOREM SplitPackAlwaysWhole == Spec => []SplitPackIsWhole
<1>1. AskedGiven => SplitPackIsWhole
  <2> SUFFICES ASSUME AskedGiven, asked.kind = "pack"
               PROVE  LET mm == asked.mm
                          g == FeatureAtom(EffectiveAtype(mm))
                          size == KEff(mm) * mm.m
                          whole == PackWhole(mm, g, size)
                      IN /\ mm.m > 1 =>
                              \A cut \in 0..NGroups(mm, g) : PackSplit(mm, g, size, cut) = whole
                         /\ mm.m = 1 => PackOneRow(mm, size) = whole
    BY DEF SplitPackIsWhole
  <2>1. asked.mm \in Matmuls
    BY MatmulAssumption DEF AskedGiven
  <2> QED
    BY <2>1, PackersAgree
<1> QED
  BY <1>1, AlwaysGiven, PTL

-----------------------------------------------------------------------------
(* A surface of values: blocks of 16 channels, in each of which a value's  *)
(* place does not depend on how long the surface is.                       *)

\* How wide a block is, where a value is in its block, and what is at a place of one.
Lanes(hd, c) == Smaller(AlignUp(hd, 2) - c * 16, 16)
Off(hd, pos, d) == (pos \div 32) * 32 * Lanes(hd, d \div 16) + (d % 16) * 32 + (pos % 32)
LastBlock(hd) == (AlignUp(hd, 2) - 1) \div 16
OwnerOf(hd, c, x, e) == e[2] \div 16 = c /\ Off(hd, e[1], e[2]) = x
Cells(hd, n) == (0..(n - 1)) \X (0..(hd - 1))
Value(hd, n, c, x) ==
    IF \E e \in Cells(hd, n) : OwnerOf(hd, c, x, e)
    THEN CHOOSE e \in Cells(hd, n) : OwnerOf(hd, c, x, e)
    ELSE Zero

\* A set of numbers that holds the first one, and with each the next, holds all.
LEMMA Ascent ==
  ASSUME NEW last \in Nat, NEW S \in SUBSET (0..last), 0 \in S,
         \A n \in S : n < last => n + 1 \in S
  PROVE  S = 0..last
<1> SUFFICES ASSUME S # 0..last
             PROVE  FALSE
  OBVIOUS
<1>1. PICK T : T = (0..last) \ S
  OBVIOUS
<1>2. T \subseteq Nat /\ T # {}
  <2>1. \E n \in 0..last : n \notin S
    OBVIOUS
  <2> QED
    BY <1>1, <2>1
<1>3. PICK d \in T : \A e \in T : ~(<<e, d>> \in OpToRel(<, Nat))
  BY <1>2, NatLessThanWellFounded, WFMin
<1>4. d \in Nat /\ d # 0 /\ d <= last
  BY <1>1
<1>5. PICK e \in Nat : d = e + 1
  <2>1. d - 1 \in Nat /\ d = (d - 1) + 1
    BY <1>4
  <2> QED
    BY <2>1
<1>6. <<e, d>> \in OpToRel(<, Nat)
  BY <1>4, <1>5 DEF OpToRel
<1>7. e \in S
  <2>1. e \notin T
    BY <1>3, <1>6
  <2> QED
    BY <1>1, <1>4, <1>5, <2>1
<1>8. d \in S
  BY <1>4, <1>5, <1>7
<1> QED
  BY <1>1, <1>8

\* A block and its lanes.
LEMMA BlockLanes ==
  ASSUME NEW hd \in Nat \ {0}
  PROVE  /\ AlignUp(hd, 2) \in Nat \ {0} /\ hd <= AlignUp(hd, 2) /\ LastBlock(hd) \in Nat
         /\ \A c \in 0..LastBlock(hd) : Lanes(hd, c) \in 1..16 /\ c * 16 + Lanes(hd, c) <= AlignUp(hd, 2)
         /\ \A c \in 0..LastBlock(hd) : c < LastBlock(hd) => Lanes(hd, c) = 16
         /\ \A d \in 0..(hd - 1) : /\ d \div 16 \in 0..LastBlock(hd) /\ d % 16 \in 0..15
                                   /\ d = 16 * (d \div 16) + (d % 16)
                                   /\ d % 16 < Lanes(hd, d \div 16)
<1>1. PICK np \in Nat \ {0} : np = AlignUp(hd, 2) /\ hd <= np
  BY AlignedUp
<1>2. PICK last \in Nat : last = (np - 1) \div 16 /\ 16 * last <= np - 1 /\ np - 1 < 16 * last + 16
  <2>1. (np - 1) \div 16 \in Nat /\ 16 * ((np - 1) \div 16) <= np - 1
        /\ np - 1 < 16 * ((np - 1) \div 16) + 16
    OBVIOUS
  <2> QED
    BY <2>1
<1>3. LastBlock(hd) = last
  BY <1>1, <1>2 DEF LastBlock
<1>4. \A c \in 0..last : /\ Smaller(np - c * 16, 16) \in 1..16
                         /\ c * 16 + Smaller(np - c * 16, 16) <= np
                         /\ c < last => Smaller(np - c * 16, 16) = 16
  BY <1>2 DEF Smaller
<1>5. ASSUME NEW d \in 0..(hd - 1)
      PROVE  /\ d \div 16 \in 0..last /\ d % 16 \in 0..15 /\ d = 16 * (d \div 16) + (d % 16)
             /\ d % 16 < Smaller(np - (d \div 16) * 16, 16)
  BY <1>1, <1>2 DEF Smaller
<1> QED
  BY <1>1, <1>3, <1>4, <1>5 DEF Lanes

\* Where a value is in its block, by lines of 32 positions: two values of one
\* block are apart, and those of the first positions are at its front.
LEMMA OffsetLine ==
  ASSUME NEW hd \in Nat \ {0}, NEW pos \in Nat, NEW d \in 0..(hd - 1)
  PROVE  /\ Off(hd, pos, d) = ((pos \div 32) * Lanes(hd, d \div 16) + (d % 16)) * 32 + (pos % 32)
         /\ Off(hd, pos, d) \in Nat
<1>1. PICK w \in 1..16, t \in 0..15 : w = Lanes(hd, d \div 16) /\ t = d % 16
  BY BlockLanes
<1>2. PICK a \in Nat, s \in 0..31 : a = pos \div 32 /\ s = pos % 32
  <2>1. pos \div 32 \in Nat /\ pos % 32 \in 0..31
    OBVIOUS
  <2> QED
    BY <2>1
<1>3. PICK aw \in Nat : aw = a * w
  BY ProductNat
<1>4. a * 32 * w = 32 * aw
  BY <1>3
<1>5. Off(hd, pos, d) = 32 * aw + t * 32 + s
  BY <1>1, <1>2, <1>4 DEF Off
<1> QED
  BY <1>1, <1>2, <1>3, <1>5

LEMMA OffsetInFront ==
  ASSUME NEW hd \in Nat \ {0}, NEW n \in Nat, NEW pos \in 0..(32 * n - 1), NEW d \in 0..(hd - 1)
  PROVE  Off(hd, pos, d) \in 0..(Lanes(hd, d \div 16) * (32 * n) - 1)
<1>1. PICK w \in 1..16, t \in 0..15 : w = Lanes(hd, d \div 16) /\ t = d % 16 /\ t < w
  BY BlockLanes
<1>2. PICK a \in 0..(n - 1), s \in 0..31 : a = pos \div 32 /\ s = pos % 32
  <2>1. pos \div 32 \in 0..(n - 1) /\ pos % 32 \in 0..31
    OBVIOUS
  <2> QED
    BY <2>1
<1>3. pos \in Nat
  OBVIOUS
<1>4. Off(hd, pos, d) = (a * w + t) * 32 + s /\ Off(hd, pos, d) \in Nat
  BY <1>1, <1>2, <1>3, OffsetLine
<1>5. a * w + t \in 0..(n * w - 1)
  BY <1>1, DigitFits
<1>6. PICK r \in Nat, nw \in Nat : r = a * w + t /\ nw = n * w /\ r <= nw - 1
  <2>1. n * w \in Nat
    BY ProductNat
  <2> QED
    BY <1>5, <2>1
<1>7. w * (32 * n) = 32 * nw
  BY <1>6
<1> QED
  BY <1>1, <1>4, <1>6, <1>7

LEMMA OffsetApart ==
  ASSUME NEW hd \in Nat \ {0}, NEW pos1 \in Nat, NEW d1 \in 0..(hd - 1),
         NEW pos2 \in Nat, NEW d2 \in 0..(hd - 1),
         d1 \div 16 = d2 \div 16, Off(hd, pos1, d1) = Off(hd, pos2, d2)
  PROVE  pos1 = pos2 /\ d1 = d2
<1>1. PICK w \in 1..16, t1 \in 0..15, t2 \in 0..15 :
        /\ w = Lanes(hd, d1 \div 16) /\ t1 = d1 % 16 /\ t2 = d2 % 16 /\ t1 < w /\ t2 < w
  BY BlockLanes
<1>2. PICK a1 \in Nat, s1 \in 0..31 : a1 = pos1 \div 32 /\ s1 = pos1 % 32 /\ pos1 = 32 * a1 + s1
  <2>1. pos1 \div 32 \in Nat /\ pos1 % 32 \in 0..31 /\ pos1 = 32 * (pos1 \div 32) + (pos1 % 32)
    OBVIOUS
  <2> QED
    BY <2>1
<1>3. PICK a2 \in Nat, s2 \in 0..31 : a2 = pos2 \div 32 /\ s2 = pos2 % 32 /\ pos2 = 32 * a2 + s2
  <2>1. pos2 \div 32 \in Nat /\ pos2 % 32 \in 0..31 /\ pos2 = 32 * (pos2 \div 32) + (pos2 % 32)
    OBVIOUS
  <2> QED
    BY <2>1
<1>4. (a1 * w + t1) * 32 + s1 = (a2 * w + t2) * 32 + s2
  <2>1. Off(hd, pos1, d1) = (a1 * w + t1) * 32 + s1
    BY <1>1, <1>2, OffsetLine
  <2>2. Off(hd, pos2, d2) = (a2 * w + t2) * 32 + s2
    <3>1. Off(hd, pos2, d2) = ((pos2 \div 32) * Lanes(hd, d2 \div 16) + (d2 % 16)) * 32 + (pos2 % 32)
      BY OffsetLine
    <3>2. Lanes(hd, d2 \div 16) = w
      BY <1>1
    <3> QED
      BY <1>1, <1>3, <3>1, <3>2
  <2> QED
    BY <2>1, <2>2
<1>5. a1 * w + t1 \in Int /\ a2 * w + t2 \in Int
  OBVIOUS
<1>6. a1 * w + t1 = a2 * w + t2 /\ s1 = s2
  BY <1>4, <1>5, DigitsUnique
<1>7. a1 = a2 /\ t1 = t2
  <2>1. w \in Nat /\ a1 \in Int /\ a2 \in Int /\ t1 \in 0..(w - 1) /\ t2 \in 0..(w - 1)
    BY <1>1
  <2> QED
    BY <1>6, <2>1, DigitsUnique
<1>8. d1 = 16 * (d1 \div 16) + t1 /\ d2 = 16 * (d2 \div 16) + t2
  BY <1>1, BlockLanes
<1> QED
  BY <1>2, <1>3, <1>6, <1>7, <1>8

\* What is at a place of a block.
LEMMA ValueOwned ==
  ASSUME NEW hd \in Nat \ {0}, NEW n \in Nat, NEW pos \in 0..(n - 1), NEW d \in 0..(hd - 1)
  PROVE  Value(hd, n, d \div 16, Off(hd, pos, d)) = <<pos, d>>
<1>1. PICK c, x, o : c = d \div 16 /\ x = Off(hd, pos, d) /\ o = <<pos, d>>
  OBVIOUS
<1>2. o \in Cells(hd, n) /\ OwnerOf(hd, c, x, o)
  BY <1>1 DEF Cells, OwnerOf
<1>3. ASSUME NEW e \in Cells(hd, n), OwnerOf(hd, c, x, e)
      PROVE  e = o
  <2>1. PICK pos2 \in 0..(n - 1), d2 \in 0..(hd - 1) : e = <<pos2, d2>>
    BY DEF Cells
  <2>2. d2 \div 16 = d \div 16 /\ Off(hd, pos2, d2) = Off(hd, pos, d)
    BY <1>1, <1>3, <2>1 DEF OwnerOf
  <2>3. pos \in Nat /\ pos2 \in Nat
    OBVIOUS
  <2>4. pos2 = pos /\ d2 = d
    BY <2>2, <2>3, OffsetApart
  <2> QED
    BY <1>1, <2>1, <2>4
<1>4. (CHOOSE e \in Cells(hd, n) : OwnerOf(hd, c, x, e)) = o
  BY <1>2, <1>3, Zenon
<1>5. Value(hd, n, c, x) = o
  BY <1>2, <1>4, Zenon DEF Value
<1> QED
  BY <1>1, <1>5

LEMMA ValueNone ==
  ASSUME NEW hd \in Nat \ {0}, NEW n \in Nat, NEW c, NEW x,
         \A pos \in 0..(n - 1), d \in 0..(hd - 1) : ~(d \div 16 = c /\ Off(hd, pos, d) = x)
  PROVE  Value(hd, n, c, x) = Zero
<1>1. ASSUME NEW e \in Cells(hd, n)
      PROVE  ~OwnerOf(hd, c, x, e)
  <2>1. PICK pos \in 0..(n - 1), d \in 0..(hd - 1) : e = <<pos, d>>
    BY DEF Cells
  <2> QED
    BY <2>1 DEF OwnerOf
<1> QED
  BY <1>1, Zenon DEF Value

\* Where charsiu_fp16_pack_vcol puts a value: its block's start, and its place in it.
LEMMA ColumnPlace ==
  ASSUME NEW kv \in Rungs, NEW hd \in Nat \ {0}, NEW pos \in 0..(kv - 1), NEW d \in 0..(hd - 1)
  PROVE  VColPlace(kv, hd, pos, d) = (d \div 16) * (16 * kv) + Off(hd, pos, d)
<1> DEFINE mm == VMat(kv, hd)
<1>1. kv \in Nat /\ kv > 0 /\ kv % 32 = 0 /\ kv % 8 = 0
  BY DEF Rungs
<1>2. KEff(mm) = kv /\ NPad(mm) = AlignUp(hd, 2) /\ mm.k = kv /\ mm.w = "fp16"
  <2>1. AlignUp(kv, 8) = kv
    BY <1>1 DEF AlignUp
  <2> QED
    BY <2>1 DEF KEff, NPad, VMat, EffectiveAtype, FeatureAtom
<1>3. PICK c \in 0..LastBlock(hd), t \in 0..15, w \in 1..16 :
        /\ c = d \div 16 /\ t = d % 16 /\ d = 16 * c + t /\ w = Lanes(hd, c) /\ t < w
        /\ c * 16 + w <= AlignUp(hd, 2)
  BY BlockLanes
<1>4. PICK a \in Nat, s \in 0..31 : a = pos \div 32 /\ s = pos % 32
  <2>1. pos \div 32 \in Nat /\ pos % 32 \in 0..31
    BY <1>1
  <2> QED
    BY <2>1
<1>5. Smaller(kv - a * 32, 32) = 32
  BY <1>1, <1>4 DEF Smaller
<1>6. ASSUME NEW n \in 0..(hd - 1), n \div 16 = c
      PROVE  W16Offset(mm, n, pos, "group") = c * 16 * kv + a * 32 * w + (n % 16) * 32 + s
  <2>1. ~(n >= NPad(mm) \/ pos >= mm.k)
    BY <1>1, <1>2, BlockLanes
  <2>2. W16Offset(mm, n, pos, "group") = GroupIndex(mm, n, pos)
    BY <2>1 DEF W16Offset
  <2>3. WeightNGroup(mm.w) = 16 /\ WeightKGroup(mm.w) = 32
    BY <1>2 DEF WeightNGroup, WeightKGroup
  <2>4. Smaller(NPad(mm) - c * 16, 16) = w
    BY <1>2, <1>3 DEF Lanes
  <2> QED
    BY <1>2, <1>4, <1>5, <1>6, <2>2, <2>3, <2>4 DEF GroupIndex
<1>7. PICK first \in Int : first = c * 16 * kv + a * 32 * w + s
  BY <1>1
<1>8. /\ c * 16 \in 0..(hd - 1) /\ (c * 16) \div 16 = c /\ (c * 16) % 16 = 0
  BY <1>3, BlockLanes
<1>9. W16Offset(mm, c * 16, pos, "group") = first
  <2>1. W16Offset(mm, c * 16, pos, "group") = c * 16 * kv + a * 32 * w + 0 * 32 + s
    BY <1>6, <1>8
  <2>2. c * 16 * kv \in Int /\ a * 32 * w \in Int
    BY <1>1
  <2> QED
    BY <1>7, <2>1, <2>2
<1>10. Smaller(hd - c * 16, 16) > 1 => W16Offset(mm, c * 16 + 1, pos, "group") = first + 32
  <2> SUFFICES ASSUME Smaller(hd - c * 16, 16) > 1
               PROVE  W16Offset(mm, c * 16 + 1, pos, "group") = first + 32
    OBVIOUS
  <2>1. c * 16 + 1 \in 0..(hd - 1) /\ (c * 16 + 1) \div 16 = c /\ (c * 16 + 1) % 16 = 1
    BY DEF Smaller
  <2>2. W16Offset(mm, c * 16 + 1, pos, "group") = c * 16 * kv + a * 32 * w + 1 * 32 + s
    BY <1>6, <2>1
  <2>3. c * 16 * kv \in Int /\ a * 32 * w \in Int
    BY <1>1
  <2> QED
    BY <1>7, <2>2, <2>3
<1>11. ~(Smaller(hd - c * 16, 16) > 1) => t = 0
  BY <1>3 DEF Smaller
<1>12. VColPlace(kv, hd, pos, d) = first + t * 32
  <2>1. VColPlace(kv, hd, pos, d) =
          W16Offset(mm, c * 16, pos, "group")
            + (d - c * 16) * (IF Smaller(hd - c * 16, 16) > 1
                              THEN W16Offset(mm, c * 16 + 1, pos, "group")
                                     - W16Offset(mm, c * 16, pos, "group")
                              ELSE 0)
    BY <1>3 DEF VColPlace, WeightNGroup
  <2>2. d - c * 16 = t
    BY <1>3
  <2> HIDE DEF mm
  <2>3. CASE Smaller(hd - c * 16, 16) > 1
    BY <1>9, <1>10, <2>1, <2>2, <2>3
  <2>4. CASE ~(Smaller(hd - c * 16, 16) > 1)
    BY <1>9, <1>11, <2>1, <2>2, <2>4
  <2> QED
    BY <2>3, <2>4
<1>13. Off(hd, pos, d) = a * 32 * w + t * 32 + s
  BY <1>3, <1>4 DEF Off
<1>14. c * 16 * kv = c * (16 * kv) /\ c * (16 * kv) \in Int /\ a * 32 * w \in Int
  BY <1>1
<1>15. PICK e \in Int, f \in Int : e = c * (16 * kv) /\ f = a * 32 * w
  BY <1>14
<1>16. VColPlace(kv, hd, pos, d) = e + f + s + t * 32
  BY <1>7, <1>12, <1>14, <1>15
<1>17. Off(hd, pos, d) = f + t * 32 + s
  BY <1>13, <1>15
<1>18. VColPlace(kv, hd, pos, d) = e + Off(hd, pos, d)
  BY <1>16, <1>17
<1> QED
  BY <1>3, <1>15, <1>18

\* A block's places: inside the surface, and apart from those of other blocks.
InBlock(kv, hd, c, x) == c \in 0..LastBlock(hd) /\ x \in 0..(Lanes(hd, c) * kv - 1)

LEMMA BlockPlace ==
  ASSUME NEW kv \in Nat, NEW hd \in Nat \ {0}, NEW c, NEW x, InBlock(kv, hd, c, x)
  PROVE  /\ x \in 0..(16 * kv - 1)
         /\ c * (16 * kv) + x \in 0..(kv * AlignUp(hd, 2) - 1)
         /\ c * (16 * kv) + x < (c * 16 + Lanes(hd, c)) * kv
<1>1. PICK b \in Nat, w \in 1..16, np \in Nat :
        b = c /\ w = Lanes(hd, c) /\ np = AlignUp(hd, 2) /\ b * 16 + w <= np
  <2>1. c \in 0..LastBlock(hd)
    BY DEF InBlock
  <2>2. c \in Nat
    BY <2>1, BlockLanes
  <2>3. Lanes(hd, c) \in 1..16 /\ AlignUp(hd, 2) \in Nat /\ c * 16 + Lanes(hd, c) <= AlignUp(hd, 2)
    BY <2>1, BlockLanes
  <2> QED
    BY <2>2, <2>3
<1>2. x \in 0..(w * kv - 1)
  BY <1>1 DEF InBlock
<1>3. w * kv <= 16 * kv /\ w * kv \in Nat /\ (b * 16 + w) * kv <= np * kv
  BY <1>1, ProductGrows
<1>4. (b * 16 + w) * kv = b * (16 * kv) + w * kv /\ b * (16 * kv) \in Nat /\ kv * np = np * kv
  OBVIOUS
<1> QED
  BY <1>1, <1>2, <1>3, <1>4

LEMMA BlockOfPlace ==
  ASSUME NEW kv \in Rungs, NEW hd \in Nat \ {0}, NEW p \in 0..(kv * AlignUp(hd, 2) - 1)
  PROVE  \E c : \E x : InBlock(kv, hd, c, x) /\ p = c * (16 * kv) + x
<1>1. kv \in Nat \ {0}
  BY DEF Rungs
<1>2. PICK big \in Nat \ {0} : big = 16 * kv
  BY <1>1
<1>3. PICK np \in Nat \ {0}, last \in Nat : np = AlignUp(hd, 2) /\ last = LastBlock(hd)
  BY BlockLanes
<1>4. 16 * last <= np - 1 /\ np - 1 < 16 * last + 16
  BY <1>3 DEF LastBlock
<1>5. p \in Nat /\ p < np * kv
  <2>1. kv * np = np * kv /\ kv * np \in Nat
    BY <1>1
  <2> QED
    BY <1>3, <2>1
<1>6. PICK c \in Int : \E x \in 0..(big - 1) : p = big * c + x
  <2>1. p \in Int
    BY <1>5
  <2> QED
    BY <2>1, Divided
<1>7. PICK x \in 0..(big - 1) : p = big * c + x
  BY <1>6
<1>8. c * big = (c * 16) * kv /\ c * big \in Int /\ big * c = c * big
  BY <1>1, <1>2
<1>9. c \in Nat
  <2>1. c + 1 <= 0 => (c + 1) * big <= 0 * big
    BY ProductGrows
  <2>2. (c + 1) * big = c * big + big /\ 0 * big = 0
    OBVIOUS
  <2> QED
    BY <1>5, <1>7, <1>8, <2>1, <2>2
<1>10. c * 16 < np
  <2>1. c * 16 >= np => np * kv <= (c * 16) * kv
    BY <1>1, <1>9, ProductGrows
  <2>2. np * kv \in Int
    BY <1>1
  <2> QED
    BY <1>5, <1>7, <1>8, <2>1, <2>2
<1>11. c \in 0..last
  BY <1>4, <1>9, <1>10
<1>12. x < Lanes(hd, c) * kv
  <2>1. CASE np - c * 16 < 16
    <3>1. Lanes(hd, c) = np - c * 16
      BY <1>3, <2>1 DEF Lanes, Smaller
    <3>2. (np - c * 16) * kv = np * kv - (c * 16) * kv /\ np * kv \in Int
      BY <1>1, <1>9
    <3> QED
      BY <1>5, <1>7, <1>8, <3>1, <3>2
  <2>2. CASE ~(np - c * 16 < 16)
    <3>1. Lanes(hd, c) = 16
      BY <1>3, <2>2 DEF Lanes, Smaller
    <3> QED
      BY <1>2, <3>1
  <2> QED
    BY <2>1, <2>2
<1>13. Lanes(hd, c) * kv \in Nat
  <2>1. Lanes(hd, c) \in Nat
    <3>1. c \in 0..LastBlock(hd)
      BY <1>3, <1>11
    <3>2. Lanes(hd, c) \in 1..16
      BY <3>1, BlockLanes
    <3> QED
      BY <3>2
  <2> QED
    BY <1>1, <2>1, ProductNat
<1>14. InBlock(kv, hd, c, x)
  BY <1>3, <1>11, <1>12, <1>13 DEF InBlock
<1> QED
  BY <1>2, <1>7, <1>8, <1>14

\* The value put at a place of a block is one of that block, at that place in it.
LEMMA ColumnAt ==
  ASSUME NEW kv \in Rungs, NEW hd \in Nat \ {0}, NEW pos \in 0..(kv - 1), NEW d \in 0..(hd - 1),
         NEW c, NEW x, InBlock(kv, hd, c, x)
  PROVE  VColPlace(kv, hd, pos, d) = c * (16 * kv) + x <=> d \div 16 = c /\ Off(hd, pos, d) = x
<1>1. kv \in Nat \ {0} /\ kv = 32 * (kv \div 32) /\ kv \div 32 \in Nat
  BY DEF Rungs
<1>2. PICK n \in Nat : kv = 32 * n
  BY <1>1
<1>3. Off(hd, pos, d) \in 0..(Lanes(hd, d \div 16) * kv - 1)
  <2>1. pos \in 0..(32 * n - 1)
    BY <1>2
  <2>2. Off(hd, pos, d) \in 0..(Lanes(hd, d \div 16) * (32 * n) - 1)
    BY <2>1, OffsetInFront
  <2> QED
    BY <1>2, <2>2
<1>4. d \div 16 \in 0..LastBlock(hd)
  BY BlockLanes
<1>5. InBlock(kv, hd, d \div 16, Off(hd, pos, d))
  BY <1>3, <1>4 DEF InBlock
<1>6. PICK big \in Nat : big = 16 * kv
  BY <1>1
<1>7. x \in 0..(big - 1)
  BY <1>1, <1>6, BlockPlace
<1>8. Off(hd, pos, d) \in 0..(big - 1)
  BY <1>1, <1>5, <1>6, BlockPlace
<1>9. PICK b \in Int, e \in Int : b = c /\ e = d \div 16
  BY <1>4 DEF InBlock
<1>10. PICK y \in 0..(big - 1) : y = Off(hd, pos, d)
  BY <1>8
<1>11. VColPlace(kv, hd, pos, d) = e * big + y
  BY <1>6, <1>9, <1>10, ColumnPlace
<1>12. e * big + y = b * big + x <=> e = b /\ y = x
  <2>1. e * big + y = b * big + x => e = b /\ y = x
    BY <1>7, DigitsUnique
  <2> QED
    BY <2>1
<1> QED
  BY <1>6, <1>9, <1>10, <1>11, <1>12

-----------------------------------------------------------------------------
(* A surface packed a column at a time.                                    *)

Held(f, kv, hd, n) ==
    /\ f = [p \in 0..(kv * AlignUp(hd, 2) - 1) |-> f[p]]
    /\ \A c, x : InBlock(kv, hd, c, x) => f[c * (16 * kv) + x] = Value(hd, n, c, x)

\* One more position.
LEMMA ColumnPacked ==
  ASSUME NEW kv \in Rungs, NEW hd \in Nat \ {0}, NEW n \in 0..(kv - 1), NEW f, Held(f, kv, hd, n)
  PROVE  Held(PackCol(f, kv, hd, n), kv, hd, n + 1)
<1> DEFINE places == {VColPlace(kv, hd, n, d) : d \in 0..(hd - 1)}
           S == 0..(kv * AlignUp(hd, 2) - 1)
           new == [p \in places |-> <<n, CHOOSE d \in 0..(hd - 1) : VColPlace(kv, hd, n, d) = p>>]
<1>1. PICK h : h = PackCol(f, kv, hd, n)
  OBVIOUS
<1>2. kv \in Nat \ {0} /\ n \in Nat
  BY DEF Rungs
<1>3. DOMAIN f = S
  BY DEF Held
<1>4. places \subseteq S
  <2> SUFFICES ASSUME NEW d \in 0..(hd - 1)
               PROVE  VColPlace(kv, hd, n, d) \in S
    OBVIOUS
  <2>1. PICK c, x : c = d \div 16 /\ x = Off(hd, n, d)
    OBVIOUS
  <2>2. VColPlace(kv, hd, n, d) = c * (16 * kv) + x
    BY <2>1, ColumnPlace
  <2>3. PICK m \in Nat : kv = 32 * m
    <3>1. kv = 32 * (kv \div 32) /\ kv \div 32 \in Nat
      BY DEF Rungs
    <3> QED
      BY <3>1
  <2>4. x \in 0..(Lanes(hd, c) * kv - 1)
    <3>1. n \in 0..(32 * m - 1)
      BY <2>3
    <3>2. Off(hd, n, d) \in 0..(Lanes(hd, d \div 16) * (32 * m) - 1)
      BY <3>1, OffsetInFront
    <3> QED
      BY <2>1, <2>3, <3>2
  <2>5. c \in 0..LastBlock(hd)
    BY <2>1, BlockLanes
  <2>6. InBlock(kv, hd, c, x)
    BY <2>4, <2>5 DEF InBlock
  <2> QED
    BY <1>2, <2>2, <2>6, BlockPlace
<1>5. h = [p \in S \cup places |->
          IF p \in places
          THEN <<n, CHOOSE d \in 0..(hd - 1) : VColPlace(kv, hd, n, d) = p>> ELSE f[p]]
  BY <1>1, <1>3 DEF PackCol
<1>6. S \cup places = S
  BY <1>4
<1>a. \A p \in places :
        new[p] = <<n, CHOOSE d \in 0..(hd - 1) : VColPlace(kv, hd, n, d) = p>>
  OBVIOUS
<1> HIDE DEF new
<1>7. h = [p \in S |-> IF p \in places THEN new[p] ELSE f[p]]
  BY <1>5, <1>6, <1>a
<1>8. ASSUME NEW c, NEW x, InBlock(kv, hd, c, x)
      PROVE  h[c * (16 * kv) + x] = Value(hd, n + 1, c, x)
  <2>1. PICK p : p = c * (16 * kv) + x
    OBVIOUS
  <2>2. p \in S
    BY <1>2, <1>8, <2>1, BlockPlace
  <2>3. \A d \in 0..(hd - 1) : VColPlace(kv, hd, n, d) = p <=> d \div 16 = c /\ Off(hd, n, d) = x
    BY <1>8, <2>1, ColumnAt
  <2>4. f[p] = Value(hd, n, c, x)
    BY <1>8, <2>1 DEF Held
  <2>5. CASE p \in places
    <3>1. \E d \in 0..(hd - 1) : VColPlace(kv, hd, n, d) = p
      BY <2>5
    <3>2. PICK d : d = CHOOSE y \in 0..(hd - 1) : VColPlace(kv, hd, n, y) = p
      OBVIOUS
    <3>3. d \in 0..(hd - 1) /\ VColPlace(kv, hd, n, d) = p
      BY <3>1, <3>2, Zenon
    <3>4. d \div 16 = c /\ Off(hd, n, d) = x
      BY <2>3, <3>3
    <3>5. new[p] = <<n, d>>
      BY <2>5, <3>2, Zenon DEF new
    <3>6. h[p] = <<n, d>>
      BY <1>7, <2>2, <2>5, <3>5
    <3>7. Value(hd, n + 1, d \div 16, Off(hd, n, d)) = <<n, d>>
      <4>1. n + 1 \in Nat /\ n \in 0..((n + 1) - 1)
        BY <1>2
      <4> QED
        BY <3>3, <4>1, ValueOwned
    <3> QED
      BY <2>1, <3>4, <3>6, <3>7
  <2>6. CASE p \notin places
    <3>1. \A d \in 0..(hd - 1) : ~(d \div 16 = c /\ Off(hd, n, d) = x)
      BY <2>3, <2>6
    <3>2. h[p] = Value(hd, n, c, x)
      BY <1>7, <2>2, <2>4, <2>6
    <3>3. CASE \E pos \in 0..(n - 1), d \in 0..(hd - 1) : d \div 16 = c /\ Off(hd, pos, d) = x
      <4>1. PICK pos \in 0..(n - 1), d \in 0..(hd - 1) : d \div 16 = c /\ Off(hd, pos, d) = x
        BY <3>3
      <4>2. Value(hd, n, d \div 16, Off(hd, pos, d)) = <<pos, d>>
        BY <1>2, ValueOwned
      <4>3. Value(hd, n + 1, d \div 16, Off(hd, pos, d)) = <<pos, d>>
        <5>1. n + 1 \in Nat /\ pos \in 0..((n + 1) - 1)
          BY <1>2
        <5> QED
          BY <5>1, ValueOwned
      <4> QED
        BY <2>1, <3>2, <4>1, <4>2, <4>3
    <3>4. CASE ~\E pos \in 0..(n - 1), d \in 0..(hd - 1) : d \div 16 = c /\ Off(hd, pos, d) = x
      <4>1. Value(hd, n, c, x) = Zero
        BY <1>2, <3>4, ValueNone
      <4>2. \A pos \in 0..((n + 1) - 1), d \in 0..(hd - 1) : ~(d \div 16 = c /\ Off(hd, pos, d) = x)
        <5>1. \A pos \in 0..((n + 1) - 1) : pos = n \/ pos \in 0..(n - 1)
          BY <1>2
        <5> QED
          BY <3>1, <3>4, <5>1
      <4>3. Value(hd, n + 1, c, x) = Zero
        <5>1. n + 1 \in Nat
          BY <1>2
        <5> QED
          BY <4>2, <5>1, ValueNone
      <4> QED
        BY <2>1, <3>2, <4>1, <4>3
    <3> QED
      BY <3>3, <3>4
  <2> QED
    BY <2>5, <2>6
<1>9. h = [p \in S |-> h[p]]
  BY <1>7
<1> QED
  BY <1>1, <1>8, <1>9 DEF Held

\* The recursion that packs the positions one after the other, up to one of them.
PacksTo(g, buf, kv, hd, n) ==
    g = [i \in 0..n |-> IF i = 0 THEN buf ELSE PackCol(g[i - 1], kv, hd, i - 1)]

LEMMA PacksExist ==
  ASSUME NEW buf, NEW kv, NEW hd, NEW n \in Nat
  PROVE  \E g : PacksTo(g, buf, kv, hd, n)
<1>1. PICK S : S = {i \in 0..n : \E g : PacksTo(g, buf, kv, hd, i)}
  OBVIOUS
<1>2. 0 \in S
  <2>1. PICK g : g = [i \in 0..0 |-> buf]
    OBVIOUS
  <2>2. \A i \in 0..0 : i = 0
    OBVIOUS
  <2>3. g = [i \in 0..0 |-> IF i = 0 THEN buf ELSE PackCol(g[i - 1], kv, hd, i - 1)]
    BY <2>1, <2>2
  <2> QED
    BY <1>1, <2>3 DEF PacksTo
<1>3. ASSUME NEW i \in S, i < n
      PROVE  i + 1 \in S
  <2>1. i \in 0..n /\ \E g : PacksTo(g, buf, kv, hd, i)
    BY <1>1
  <2>2. PICK g : PacksTo(g, buf, kv, hd, i)
    BY <2>1
  <2>3. PICK j \in Nat : j = i + 1 /\ j # 0 /\ j - 1 = i /\ j \in 0..n
    BY <1>3, <2>1
  <2>4. PICK h : h = [k \in 0..j |-> IF k = j THEN PackCol(g[i], kv, hd, i) ELSE g[k]]
    OBVIOUS
  <2>5. \A k \in 0..i : g[k] = IF k = 0 THEN buf ELSE PackCol(g[k - 1], kv, hd, k - 1)
    BY <2>2 DEF PacksTo
  <2>6. \A k \in 0..j : /\ k # j => k \in 0..i /\ h[k] = g[k]
                        /\ k = j => h[k] = PackCol(g[i], kv, hd, i)
    BY <2>1, <2>3, <2>4
  <2>7. h[i] = g[i] /\ i # j
    BY <2>1, <2>3, <2>6
  <2>8. ASSUME NEW k \in 0..j
        PROVE  h[k] = IF k = 0 THEN buf ELSE PackCol(h[k - 1], kv, hd, k - 1)
    <3>1. CASE k = j
      BY <2>3, <2>6, <2>7, <3>1
    <3>2. CASE k # j
      <4>1. k \in 0..i /\ h[k] = g[k]
        BY <2>6, <3>2
      <4>2. k # 0 => h[k - 1] = g[k - 1]
        <5>1. k # 0 => k - 1 \in 0..j /\ k - 1 # j
          BY <2>1, <2>3, <4>1
        <5> QED
          BY <2>6, <5>1
      <4> QED
        BY <2>5, <4>1, <4>2
    <3> QED
      BY <3>1, <3>2
  <2>9. h = [k \in 0..j |-> IF k = 0 THEN buf ELSE PackCol(h[k - 1], kv, hd, k - 1)]
    <3>1. PICK h2 : h2 = [k \in 0..j |-> IF k = 0 THEN buf ELSE PackCol(h[k - 1], kv, hd, k - 1)]
      OBVIOUS
    <3>2. h = h2
      BY <2>4, <2>8, <3>1
    <3> QED
      BY <3>1, <3>2
  <2> QED
    BY <1>1, <2>3, <2>9 DEF PacksTo
<1>4. S = 0..n
  BY <1>1, <1>2, <1>3, Ascent
<1>5. n \in S
  BY <1>4
<1> QED
  BY <1>1, <1>5

\* A cleared surface that the first positions were packed into.
LEMMA FreshHeld ==
  ASSUME NEW kv \in Rungs, NEW hd \in Nat \ {0}, NEW live \in 0..kv
  PROVE  Held(FreshValues(kv, hd, live, kv * AlignUp(hd, 2)), kv, hd, live)
<1>1. PICK size : size = kv * AlignUp(hd, 2)
  OBVIOUS
<1>2. PICK buf : buf = [p \in 0..(size - 1) |-> Zero]
  OBVIOUS
<1>3. PICK g : g = CHOOSE h : PacksTo(h, buf, kv, hd, live)
  OBVIOUS
<1>4. live \in Nat
  BY DEF Rungs
<1>5. PacksTo(g, buf, kv, hd, live)
  BY <1>3, <1>4, PacksExist
<1>6. FreshValues(kv, hd, live, size) = g[live]
  BY <1>2, <1>3 DEF FreshValues, PackValues, PacksTo
<1>7. \A i \in 0..live : g[i] = IF i = 0 THEN buf ELSE PackCol(g[i - 1], kv, hd, i - 1)
  BY <1>5 DEF PacksTo
<1>8. PICK S : S = {i \in 0..live : Held(g[i], kv, hd, i)}
  OBVIOUS
<1>9. 0 \in S
  <2>1. 0 \in 0..live
    BY <1>4
  <2>2. g[0] = buf
    BY <1>7, <2>1
  <2>3. ASSUME NEW c, NEW x, InBlock(kv, hd, c, x)
        PROVE  buf[c * (16 * kv) + x] = Value(hd, 0, c, x)
    <3>1. c * (16 * kv) + x \in 0..(size - 1)
      <4>1. kv \in Nat
        BY DEF Rungs
      <4> QED
        BY <1>1, <2>3, <4>1, BlockPlace
    <3>2. Value(hd, 0, c, x) = Zero
      <4>1. \A pos \in 0..(0 - 1) : FALSE
        OBVIOUS
      <4> QED
        BY <4>1, ValueNone
    <3> QED
      BY <1>2, <3>1, <3>2
  <2>4. buf = [p \in 0..(size - 1) |-> buf[p]]
    BY <1>2
  <2>5. Held(buf, kv, hd, 0)
    BY <1>1, <2>3, <2>4 DEF Held
  <2> QED
    BY <1>8, <2>1, <2>2, <2>5
<1>10. ASSUME NEW i \in S, i < live
       PROVE  i + 1 \in S
  <2>1. i \in 0..live /\ Held(g[i], kv, hd, i)
    BY <1>8
  <2>2. i \in 0..(kv - 1) /\ i + 1 \in 0..live /\ i + 1 # 0 /\ (i + 1) - 1 = i
    BY <1>10, <2>1 DEF Rungs
  <2>3. g[i + 1] = PackCol(g[i], kv, hd, i)
    BY <1>7, <2>2
  <2>4. Held(PackCol(g[i], kv, hd, i), kv, hd, i + 1)
    BY <2>1, <2>2, ColumnPacked
  <2> QED
    BY <1>8, <2>2, <2>3, <2>4
<1>11. S = 0..live
  BY <1>4, <1>8, <1>9, <1>10, Ascent
<1>12. Held(g[live], kv, hd, live)
  <2>1. live \in S
    BY <1>4, <1>11
  <2> QED
    BY <1>8, <2>1
<1> QED
  BY <1>1, <1>6, <1>12

-----------------------------------------------------------------------------
(* A surface grown in place: the blocks from b on have moved.              *)

Growing(f, old, new, hd, live, b) ==
    /\ f = [p \in 0..(new * AlignUp(hd, 2) - 1) |-> f[p]]
    /\ \A c, x : InBlock(new, hd, c, x) /\ c >= b => f[c * (16 * new) + x] = Value(hd, live, c, x)
    /\ \A c, x : InBlock(old, hd, c, x) /\ c < b => f[c * (16 * old) + x] = Value(hd, live, c, x)

\* Where a block begins.
LEMMA BlockStart ==
  ASSUME NEW kv \in Rungs, NEW hd \in Nat \ {0}, NEW b \in 0..LastBlock(hd)
  PROVE  W16Offset(VMat(kv, hd), b * 16, 0, "group") = b * (16 * kv)
<1> DEFINE mm == VMat(kv, hd)
<1>1. kv \in Nat /\ kv >= 32 /\ AlignUp(kv, 8) = kv
  BY DEF Rungs, AlignUp
<1>2. KEff(mm) = kv /\ NPad(mm) = AlignUp(hd, 2) /\ mm.k = kv /\ mm.w = "fp16"
  BY <1>1 DEF KEff, NPad, VMat, EffectiveAtype, FeatureAtom
<1>3. PICK w \in 1..16, c \in Nat : /\ w = Lanes(hd, b) /\ c = b /\ c * 16 + w <= AlignUp(hd, 2)
                                    /\ AlignUp(hd, 2) \in Nat
  <2>1. b \in Nat /\ Lanes(hd, b) \in 1..16 /\ b * 16 + Lanes(hd, b) <= AlignUp(hd, 2)
    BY BlockLanes
  <2> QED
    BY <2>1, BlockLanes
<1>4. (c * 16) \div 16 = c /\ (c * 16) % 16 = 0
  OBVIOUS
<1>5. ~(c * 16 >= NPad(mm) \/ 0 >= mm.k)
  BY <1>1, <1>2, <1>3
<1>6. W16Offset(mm, c * 16, 0, "group") = GroupIndex(mm, c * 16, 0)
  BY <1>5 DEF W16Offset
<1>7. Smaller(NPad(mm) - c * 16, 16) = w
  BY <1>2, <1>3 DEF Lanes
<1>8. Smaller(kv - 0 * 32, 32) = 32
  BY <1>1 DEF Smaller
<1>9. 0 \div 32 = 0 /\ 0 % 32 = 0
  OBVIOUS
<1>10. GroupIndex(mm, c * 16, 0) = c * 16 * kv + 0 * 32 * w + 0 * 32 + 0
  BY <1>2, <1>4, <1>7, <1>8, <1>9 DEF GroupIndex, WeightNGroup, WeightKGroup
<1>11. c * 16 * kv = c * (16 * kv) /\ c * (16 * kv) \in Int /\ 0 * 32 * w = 0
  BY <1>1
<1> QED
  BY <1>3, <1>6, <1>10, <1>11

\* A block is moved to its place under the longer extent, and no other is touched.
LEMMA BlockMoved ==
  ASSUME NEW old \in Rungs, NEW new \in Rungs, old < new, NEW hd \in Nat \ {0},
         NEW live \in 1..old, NEW b \in 0..LastBlock(hd),
         NEW f, Growing(f, old, new, hd, live, b + 1)
  PROVE  Growing(RegrowBlock(f, old, new, hd, live, b * 16), old, new, hd, live, b)
<1>1. old \in Nat /\ new \in Nat /\ live \in Nat
  BY DEF Rungs
<1>2. PICK np \in Nat, last \in Nat : np = AlignUp(hd, 2) /\ last = LastBlock(hd)
  BY BlockLanes
<1>3. PICK w \in 1..16 : w = Lanes(hd, b)
  BY BlockLanes
<1>4. PICK n \in Nat : AlignUp(live, 32) = 32 * n /\ live <= 32 * n /\ 32 * n <= old
  <2>1. /\ AlignUp(live, 32) \in Nat /\ live <= AlignUp(live, 32) /\ AlignUp(live, 32) < live + 32
        /\ AlignUp(live, 32) % 32 = 0
    BY <1>1, AlignedUp
  <2>2. PICK L \in Nat : L = AlignUp(live, 32)
    BY <2>1
  <2>3. L \div 32 \in Nat /\ L = 32 * (L \div 32)
    BY <2>1, <2>2
  <2>4. L <= old
    <3>1. old % 32 = 0
      BY DEF Rungs
    <3> QED
      BY <1>1, <2>1, <2>2, <3>1
  <2> QED
    BY <2>1, <2>2, <2>3, <2>4
<1>5. PICK from \in Nat, to \in Nat : from = b * (16 * old) /\ to = b * (16 * new) /\ from <= to
  <2>1. b \in Nat
    BY <1>2
  <2>2. (16 * old) * b <= (16 * new) * b
    BY <1>1, <2>1, ProductGrows
  <2>3. b * (16 * old) \in Nat /\ b * (16 * new) \in Nat
    BY <1>1, <2>1, ProductNat
  <2> QED
    BY <1>1, <2>1, <2>2, <2>3
<1>6. PICK len \in Nat, whole \in Nat : /\ len = (32 * n) * w /\ whole = w * new
                                        /\ len <= w * old /\ len <= whole
  <2>1. (32 * n) * w <= old * w /\ old * w <= new * w
    BY <1>1, <1>4, ProductGrows
  <2>2. (32 * n) * w \in Nat /\ w * new \in Nat
    BY <1>1, ProductNat
  <2>3. old * w = w * old /\ new * w = w * new /\ old * w \in Int
    BY <1>1
  <2> QED
    BY <2>1, <2>2, <2>3
<1>7. PICK S : S = 0..(new * np - 1)
  OBVIOUS
<1>8. PICK h : h = RegrowBlock(f, old, new, hd, live, b * 16)
  OBVIOUS
<1>9. KEff(VMat(new, hd)) = new
  <2>1. AlignUp(new, 8) = new
    BY DEF Rungs, AlignUp
  <2> QED
    BY <2>1 DEF KEff, VMat, EffectiveAtype, FeatureAtom
<1>10. DOMAIN f = S
  BY <1>2, <1>7 DEF Growing
<1>11. h = Cleared(Moved(f, from, to, len), to + len, w * new - len)
  <2>1. /\ W16Offset(VMat(old, hd), b * 16, 0, "group") = from
        /\ W16Offset(VMat(new, hd), b * 16, 0, "group") = to
    BY <1>5, BlockStart
  <2>2. Smaller(AlignUp(hd, 2) - b * 16, 16) = w
    BY <1>3 DEF Lanes
  <2>3. AlignUp(live, 32) * w = len
    BY <1>4, <1>6
  <2> QED
    BY <1>8, <1>9, <2>1, <2>2, <2>3 DEF RegrowBlock, WeightNGroup, WeightKGroup
<1>12. PICK k : k = Moved(f, from, to, len)
  OBVIOUS
<1>13. k = [p \in S |-> IF p \in to..(to + len - 1) THEN f[p - to + from] ELSE f[p]]
  BY <1>10, <1>12 DEF Moved
<1>14. h = [p \in S |-> IF p \in (to + len)..(to + len + (w * new - len) - 1) THEN Zero ELSE k[p]]
  BY <1>11, <1>12, <1>13 DEF Cleared
<1>15. \A p \in S : p \in Int
  BY <1>7
<1>16. ASSUME NEW p \in S
       PROVE  h[p] = IF p >= to + len /\ p < to + whole THEN Zero
                     ELSE IF p >= to /\ p < to + len THEN f[p - to + from] ELSE f[p]
  <2>1. p \in (to + len)..(to + len + (w * new - len) - 1) <=> p >= to + len /\ p < to + whole
    BY <1>6, <1>15
  <2>2. p \in to..(to + len - 1) <=> p >= to /\ p < to + len
    BY <1>15
  <2> HIDE <1>11, <1>12
  <2> QED
    BY <1>13, <1>14, <2>1, <2>2, Zenon
<1>17. ASSUME NEW c, NEW x, InBlock(new, hd, c, x), c >= b
       PROVE  h[c * (16 * new) + x] = Value(hd, live, c, x)
  <2>1. PICK p : p = c * (16 * new) + x
    OBVIOUS
  <2>2. p \in S /\ x \in 0..(16 * new - 1)
    BY <1>1, <1>2, <1>7, <1>17, <2>1, BlockPlace
  <2>3. c \in Nat /\ x \in Nat
    BY <1>2, <1>17, <2>2 DEF InBlock
  <2>4. CASE c = b /\ x < len
    <3>1. p = to + x
      BY <1>5, <2>1, <2>4
    <3>2. h[p] = f[from + x]
      <4>1. p - to + from = from + x /\ p >= to /\ p < to + len
        BY <2>3, <2>4, <3>1
      <4>2. ~(p >= to + len)
        BY <2>3, <2>4, <3>1
      <4> QED
        BY <1>16, <2>2, <4>1, <4>2
    <3>3. InBlock(old, hd, b, x)
      <4>1. w * old \in Nat /\ x < w * old
        BY <1>1, <1>6, <2>3, <2>4
      <4> QED
        BY <1>2, <1>3, <2>3, <4>1 DEF InBlock
    <3>4. f[from + x] = Value(hd, live, b, x)
      <4>1. b < b + 1
        BY <1>2
      <4> QED
        BY <1>5, <3>3, <4>1 DEF Growing
    <3> QED
      BY <2>1, <2>4, <3>2, <3>4
  <2>5. CASE c = b /\ x >= len
    <3>1. p = to + x
      BY <1>5, <2>1, <2>5
    <3>2. x < whole
      BY <1>3, <1>6, <1>17, <2>3, <2>5 DEF InBlock
    <3>3. h[p] = Zero
      <4>1. p >= to + len /\ p < to + whole
        BY <2>3, <2>5, <3>1, <3>2
      <4> QED
        BY <1>16, <2>2, <4>1
    <3>4. ASSUME NEW pos \in 0..(live - 1), NEW d \in 0..(hd - 1), d \div 16 = c, Off(hd, pos, d) = x
          PROVE  FALSE
      <4>1. pos \in 0..(32 * n - 1)
        BY <1>1, <1>4
      <4>2. Off(hd, pos, d) \in 0..(Lanes(hd, d \div 16) * (32 * n) - 1)
        BY <4>1, OffsetInFront
      <4>3. x \in 0..(w * (32 * n) - 1)
        BY <1>3, <2>5, <3>4, <4>2
      <4>4. w * (32 * n) = len
        BY <1>6
      <4> QED
        BY <2>3, <2>5, <4>3, <4>4
    <3>5. Value(hd, live, c, x) = Zero
      BY <1>1, <3>4, ValueNone
    <3> QED
      BY <2>1, <3>3, <3>5
  <2>6. CASE c # b
    <3>1. c >= b + 1
      BY <1>2, <1>17, <2>3, <2>6
    <3>2. f[p] = Value(hd, live, c, x)
      BY <1>17, <2>1, <3>1 DEF Growing
    <3>3. p >= to + whole
      <4>1. (b + 1) * (16 * new) <= c * (16 * new)
        BY <1>1, <1>2, <2>3, <3>1, ProductGrows
      <4>2. (b + 1) * (16 * new) = to + 16 * new /\ c * (16 * new) \in Int
        BY <1>1, <1>2, <1>5, <2>3
      <4>3. w * new <= 16 * new
        BY <1>1, ProductGrows
      <4> QED
        BY <1>1, <1>6, <2>1, <2>3, <4>1, <4>2, <4>3
    <3>4. h[p] = f[p]
      <4>1. ~(p >= to + len /\ p < to + whole) /\ ~(p >= to /\ p < to + len)
        BY <1>6, <1>15, <2>2, <3>3
      <4> QED
        BY <1>16, <2>2, <4>1
    <3> QED
      BY <2>1, <3>2, <3>4
  <2> QED
    BY <2>3, <2>4, <2>5, <2>6
<1>18. ASSUME NEW c, NEW x, InBlock(old, hd, c, x), c < b
       PROVE  h[c * (16 * old) + x] = Value(hd, live, c, x)
  <2>1. PICK p : p = c * (16 * old) + x
    OBVIOUS
  <2>2. p \in 0..(old * np - 1) /\ x \in 0..(16 * old - 1)
    BY <1>1, <1>2, <1>18, <2>1, BlockPlace
  <2>3. c \in Nat /\ x \in Nat
    BY <1>1, <1>2, <1>18, <2>2 DEF InBlock
  <2>4. p \in S
    <3>1. old * np <= new * np /\ old * np \in Int /\ new * np \in Int
      BY <1>1, ProductGrows
    <3> QED
      BY <1>7, <2>2, <3>1
  <2>5. p < to
    <3>1. (c + 1) * (16 * old) <= b * (16 * old)
      BY <1>1, <1>2, <1>18, <2>3, ProductGrows
    <3>2. (c + 1) * (16 * old) = c * (16 * old) + 16 * old /\ c * (16 * old) \in Int
      BY <1>1, <2>3
    <3> QED
      BY <1>1, <1>5, <2>1, <2>2, <3>1, <3>2
  <2>6. h[p] = f[p]
    <3>1. ~(p >= to + len /\ p < to + whole) /\ ~(p >= to /\ p < to + len)
      BY <1>15, <2>4, <2>5
    <3> QED
      BY <1>16, <2>4, <3>1
  <2>7. f[p] = Value(hd, live, c, x)
    <3>1. c < b + 1
      BY <1>2, <1>18, <2>3
    <3> QED
      BY <1>18, <2>1, <3>1 DEF Growing
  <2> QED
    BY <2>1, <2>6, <2>7
<1>19. h = [p \in S |-> h[p]]
  BY <1>14
<1> QED
  BY <1>2, <1>7, <1>8, <1>17, <1>18, <1>19 DEF Growing

\* The recursion that moves the blocks, the last one first, from one of them on.
MovesFrom(g, buf, old, new, hd, live, d) ==
    g = [b \in d..LastBlock(hd) |->
           RegrowBlock(IF b = LastBlock(hd) THEN buf ELSE g[b + 1], old, new, hd, live, b * 16)]

LEMMA MovesExist ==
  ASSUME NEW buf, NEW old, NEW new, NEW hd \in Nat \ {0}, NEW live
  PROVE  \E g : MovesFrom(g, buf, old, new, hd, live, 0)
<1>1. PICK last \in Nat : last = LastBlock(hd)
  BY BlockLanes
<1>2. PICK S : S = {i \in 0..last : \E g : MovesFrom(g, buf, old, new, hd, live, last - i)}
  OBVIOUS
<1>3. 0 \in S
  <2>1. PICK g : g = [b \in last..last |-> RegrowBlock(buf, old, new, hd, live, b * 16)]
    OBVIOUS
  <2>2. \A b \in last..last : b = last
    BY <1>1
  <2>3. g = [b \in last..last |->
               RegrowBlock(IF b = last THEN buf ELSE g[b + 1], old, new, hd, live, b * 16)]
    BY <2>1, <2>2
  <2>4. MovesFrom(g, buf, old, new, hd, live, last)
    BY <1>1, <2>3 DEF MovesFrom
  <2>5. last - 0 = last
    BY <1>1
  <2> QED
    BY <1>2, <2>4, <2>5
<1>4. ASSUME NEW i \in S, i < last
      PROVE  i + 1 \in S
  <2>1. i \in 0..last /\ \E g : MovesFrom(g, buf, old, new, hd, live, last - i)
    BY <1>2
  <2>2. PICK d \in Nat : d = last - i
    BY <2>1
  <2>3. PICK e \in Nat : e = last - (i + 1) /\ d = e + 1 /\ e < last
    BY <1>4, <2>1, <2>2
  <2>4. PICK g : MovesFrom(g, buf, old, new, hd, live, d)
    BY <2>1, <2>2
  <2>5. PICK top : top = RegrowBlock(g[d], old, new, hd, live, e * 16)
    OBVIOUS
  <2>6. PICK h : h = [b \in e..last |-> IF b = e THEN top ELSE g[b]]
    OBVIOUS
  <2>7. \A b \in e..last : b # e => b \in d..last /\ b + 1 # e
    BY <2>3
  <2>8. \A b \in d..last :
           g[b] = RegrowBlock(IF b = last THEN buf ELSE g[b + 1], old, new, hd, live, b * 16)
    BY <1>1, <2>4 DEF MovesFrom
  <2>9. \A b \in e..last : (b = e => h[b] = top) /\ (b # e => h[b] = g[b])
    BY <2>6
  <2>10. ASSUME NEW b \in e..last
         PROVE  h[b] = RegrowBlock(IF b = last THEN buf ELSE h[b + 1], old, new, hd, live, b * 16)
    <3>1. CASE b = e
      <4>1. b + 1 = d /\ d \in e..last /\ d # e /\ b # last
        BY <2>3, <3>1
      <4>2. h[b + 1] = g[d]
        BY <2>9, <4>1
      <4> QED
        BY <2>5, <2>9, <3>1, <4>1, <4>2
    <3>2. CASE b # e
      <4>1. b \in d..last /\ h[b] = g[b]
        BY <2>7, <2>9, <3>2
      <4>2. b # last => h[b + 1] = g[b + 1]
        <5>1. b # last => b + 1 \in e..last /\ b + 1 # e
          BY <2>3, <4>1
        <5> QED
          BY <2>9, <5>1
      <4> QED
        BY <2>8, <4>1, <4>2
    <3> QED
      BY <3>1, <3>2
  <2>11. MovesFrom(h, buf, old, new, hd, live, e)
    <3>1. PICK h2 : h2 = [b \in e..last |->
                 RegrowBlock(IF b = last THEN buf ELSE h[b + 1], old, new, hd, live, b * 16)]
      OBVIOUS
    <3>2. h = h2
      BY <2>6, <2>10, <3>1
    <3> QED
      BY <1>1, <3>1, <3>2 DEF MovesFrom
  <2>12. i + 1 \in 0..last
    BY <1>4, <2>1
  <2> QED
    BY <1>2, <2>3, <2>11, <2>12
<1>5. last \in S
  <2>1. S = 0..last
    BY <1>2, <1>3, <1>4, Ascent
  <2> QED
    BY <2>1
<1>6. last - last = 0
  OBVIOUS
<1> QED
  BY <1>2, <1>5, <1>6

\* A surface grown in place is the one packed afresh.
LEMMA GrownIsFresh ==
  ASSUME NEW old \in Rungs, NEW new \in Rungs, old < new, NEW hd \in Nat \ {0},
         NEW live \in 1..old, NEW buf, Growing(buf, old, new, hd, live, LastBlock(hd) + 1)
  PROVE  RegrowInPlace(buf, old, new, hd, live) = FreshValues(new, hd, live, new * AlignUp(hd, 2))
<1>1. PICK last \in Nat : last = LastBlock(hd)
  BY BlockLanes
<1>2. PICK g : g = CHOOSE h : MovesFrom(h, buf, old, new, hd, live, 0)
  OBVIOUS
<1>3. MovesFrom(g, buf, old, new, hd, live, 0)
  BY <1>2, MovesExist
<1>4. RegrowInPlace(buf, old, new, hd, live) = g[0]
  BY <1>2 DEF RegrowInPlace, MovesFrom, LastBlock, WeightNGroup
<1>5. \A b \in 0..last :
         g[b] = RegrowBlock(IF b = last THEN buf ELSE g[b + 1], old, new, hd, live, b * 16)
  BY <1>1, <1>3 DEF MovesFrom
<1>6. PICK S : S = {i \in 0..last : Growing(g[last - i], old, new, hd, live, last - i)}
  OBVIOUS
<1>7. 0 \in S
  <2>1. last - 0 = last /\ last \in 0..last
    OBVIOUS
  <2>2. g[last] = RegrowBlock(buf, old, new, hd, live, last * 16)
    BY <1>5, <2>1
  <2>3. Growing(RegrowBlock(buf, old, new, hd, live, last * 16), old, new, hd, live, last)
    BY <1>1, <2>1, BlockMoved
  <2> QED
    BY <1>6, <2>1, <2>2, <2>3
<1>8. ASSUME NEW i \in S, i < last
      PROVE  i + 1 \in S
  <2>1. i \in 0..last /\ Growing(g[last - i], old, new, hd, live, last - i)
    BY <1>6
  <2>2. PICK e \in 0..last : e = last - (i + 1) /\ e + 1 = last - i /\ e # last /\ i + 1 \in 0..last
    BY <1>8, <2>1
  <2>3. g[e] = RegrowBlock(g[e + 1], old, new, hd, live, e * 16)
    BY <1>5, <2>2
  <2>4. Growing(RegrowBlock(g[e + 1], old, new, hd, live, e * 16), old, new, hd, live, e)
    BY <1>1, <2>1, <2>2, BlockMoved
  <2> QED
    BY <1>6, <2>2, <2>3, <2>4
<1>9. Growing(g[0], old, new, hd, live, 0)
  <2>1. S = 0..last
    BY <1>6, <1>7, <1>8, Ascent
  <2>2. last \in S /\ last - last = 0
    BY <2>1
  <2> QED
    BY <1>6, <2>2
<1>10. PICK h, k : h = g[0] /\ k = FreshValues(new, hd, live, new * AlignUp(hd, 2))
  OBVIOUS
<1>11. new \in Nat /\ live \in 0..new
  BY DEF Rungs
<1>12. Held(k, new, hd, live)
  BY <1>10, <1>11, FreshHeld
<1>13. ASSUME NEW p \in 0..(new * AlignUp(hd, 2) - 1)
       PROVE  h[p] = k[p]
  <2>1. PICK c : \E x : InBlock(new, hd, c, x) /\ p = c * (16 * new) + x
    BY BlockOfPlace
  <2>2. PICK x : InBlock(new, hd, c, x) /\ p = c * (16 * new) + x
    BY <2>1
  <2>3. c >= 0
    BY <1>1, <2>2 DEF InBlock
  <2>4. h[p] = Value(hd, live, c, x)
    BY <1>9, <1>10, <2>2, <2>3 DEF Growing
  <2>5. k[p] = Value(hd, live, c, x)
    BY <1>12, <2>2 DEF Held
  <2> QED
    BY <2>4, <2>5
<1>14. h = k
  <2>1. h = [p \in 0..(new * AlignUp(hd, 2) - 1) |-> h[p]]
    BY <1>9, <1>10 DEF Growing
  <2>2. k = [p \in 0..(new * AlignUp(hd, 2) - 1) |-> k[p]]
    BY <1>12 DEF Held
  <2>3. [p \in 0..(new * AlignUp(hd, 2) - 1) |-> h[p]] = [p \in 0..(new * AlignUp(hd, 2) - 1) |-> k[p]]
    BY <1>13
  <2> QED
    BY <2>1, <2>2, <2>3
<1> QED
  BY <1>4, <1>10, <1>14

\* A row of keys, which are added along the channels, stays where it is when
\* there are more of them.
LEMMA KeysStay ==
  ASSUME NEW old \in Rungs, NEW new \in Rungs, NEW hd \in Nat, NEW pos \in Int,
         pos < old, pos < new
  PROVE  KRow(hd, old, pos) = KRow(hd, new, pos)
<1> DEFINE mat(nk) == [m |-> 1, k |-> hd, n |-> nk, w |-> "fp16", a |-> "fp16"]
<1>1. ASSUME NEW nk \in Rungs, pos < nk, NEW d0 \in Int
      PROVE  W16Offset(mat(nk), pos, d0, "group")
               = IF d0 >= hd THEN NoPlace
                 ELSE (pos \div 16) * 16 * AlignUp(hd, 8) + (d0 \div 32) * 32 * 16
                        + (pos % 16) * Smaller(AlignUp(hd, 8) - (d0 \div 32) * 32, 32) + (d0 % 32)
  <2>1. nk \in Nat /\ nk % 16 = 0 /\ AlignUp(nk, 2) = nk
    BY DEF Rungs, AlignUp
  <2>2. KEff(mat(nk)) = AlignUp(hd, 8) /\ NPad(mat(nk)) = nk /\ mat(nk).k = hd /\ mat(nk).w = "fp16"
    BY <2>1 DEF KEff, NPad, EffectiveAtype, FeatureAtom
  <2>3. (pos \div 16) * 16 + 16 <= nk
    BY <1>1, <2>1
  <2>4. Smaller(nk - (pos \div 16) * 16, 16) = 16
    BY <2>1, <2>3 DEF Smaller
  <2>5. ~(pos >= NPad(mat(nk)))
    BY <1>1, <2>1, <2>2
  <2>6. GroupIndex(mat(nk), pos, d0)
          = (pos \div 16) * 16 * AlignUp(hd, 8) + (d0 \div 32) * 32 * 16
              + (pos % 16) * Smaller(AlignUp(hd, 8) - (d0 \div 32) * 32, 32) + (d0 % 32)
    BY <2>2, <2>4 DEF GroupIndex, WeightNGroup, WeightKGroup
  <2> QED
    BY <2>2, <2>5, <2>6 DEF W16Offset
<1>2. ASSUME NEW d \in 0..(hd - 1)
      PROVE  W16Offset(mat(old), pos, (d \div 32) * 32, "group")
               = W16Offset(mat(new), pos, (d \div 32) * 32, "group")
  <2>1. PICK d0 \in Int : d0 = (d \div 32) * 32
    OBVIOUS
  <2>2. W16Offset(mat(old), pos, d0, "group") = W16Offset(mat(new), pos, d0, "group")
    BY <1>1
  <2> QED
    BY <2>1, <2>2
<1> HIDE DEF mat
<1>3. KRow(hd, old, pos) = [d \in 0..(hd - 1) |->
          W16Offset(mat(old), pos, (d \div 32) * 32, "group") + d - (d \div 32) * 32]
  BY DEF KRow, WeightKGroup, mat
<1>4. KRow(hd, new, pos) = [d \in 0..(hd - 1) |->
          W16Offset(mat(new), pos, (d \div 32) * 32, "group") + d - (d \div 32) * 32]
  BY DEF KRow, WeightKGroup, mat
<1> QED
  BY <1>2, <1>3, <1>4

\* Whatever the extents, the head and the positions that are live: values grown
\* in place are the values packed afresh at the longer extent, and no row of
\* keys moves (charsiu_fp16_regrow_vcols, charsiu_fp16_pack_vcol and
\* charsiu_fp16_pack_krow).
THEOREM RegrowAlwaysRepacks == Spec => []RegrowIsRepack
<1>1. AskedGiven => RegrowIsRepack
  <2> SUFFICES ASSUME AskedGiven, asked.kind = "regrow"
               PROVE  RegrowIsRepack
    BY DEF RegrowIsRepack
  <2>1. PICK r \in Regrowths : r = asked.r
    BY RegrowAssumption DEF AskedGiven
  <2>2. r.old \in Rungs /\ r.new \in Rungs /\ r.hd \in Nat /\ r.live \in Nat
    BY DEF Regrowths
  <2>3. PICK old \in Rungs, new \in Rungs : old = r.old /\ new = r.new
    BY <2>2
  <2>4. PICK hd \in Nat, live \in Nat : hd = r.hd /\ live = r.live
    BY <2>2
  <2>5. KEff(VMat(old, hd)) = old /\ KEff(VMat(new, hd)) = new
    <3>1. AlignUp(old, 8) = old /\ AlignUp(new, 8) = new
      BY DEF Rungs, AlignUp
    <3> QED
      BY <3>1 DEF KEff, VMat, EffectiveAtype, FeatureAtom
  <2>6. old \in Nat /\ new \in Nat
    BY DEF Rungs
  <2> DEFINE fresh == FreshValues(old, hd, live, old * AlignUp(hd, 2))
             buf == [p \in 0..(new * AlignUp(hd, 2) - 1) |->
                       IF p \in DOMAIN fresh THEN fresh[p] ELSE Leftover]
  <2>7. ASSUME old < new, ~RegrowRefused(old, new, hd, live)
        PROVE  RegrowInPlace(buf, old, new, hd, live)
                 = FreshValues(new, hd, live, new * AlignUp(hd, 2))
    <3>1. hd \in Nat \ {0} /\ live \in 1..old
      BY <2>6, <2>7 DEF RegrowRefused
    <3>2. Held(fresh, old, hd, live)
      <4>1. live \in 0..old
        BY <3>1
      <4> QED
        BY <3>1, <4>1, FreshHeld
    <3> HIDE DEF fresh
    <3>3. ASSUME NEW c, NEW x, InBlock(old, hd, c, x)
          PROVE  buf[c * (16 * old) + x] = Value(hd, live, c, x)
      <4>1. PICK np \in Nat : np = AlignUp(hd, 2)
        BY <3>1, BlockLanes
      <4>2. PICK p : p = c * (16 * old) + x
        OBVIOUS
      <4>3. p \in 0..(old * np - 1)
        BY <2>6, <3>1, <3>3, <4>1, <4>2, BlockPlace
      <4>4. p \in 0..(new * np - 1)
        <5>1. old * np <= new * np /\ old * np \in Int /\ new * np \in Int
          BY <2>6, <2>7, ProductGrows
        <5> QED
          BY <4>3, <5>1
      <4>5. p \in DOMAIN fresh
        BY <3>2, <4>1, <4>3 DEF Held
      <4>6. buf[p] = fresh[p]
        BY <4>1, <4>4, <4>5
      <4>7. fresh[p] = Value(hd, live, c, x)
        BY <3>2, <3>3, <4>2 DEF Held
      <4> QED
        BY <4>2, <4>6, <4>7
    <3>4. buf = [p \in 0..(new * AlignUp(hd, 2) - 1) |-> buf[p]]
      OBVIOUS
    <3> HIDE DEF buf
    <3>5. ASSUME NEW c, NEW x, InBlock(new, hd, c, x)
          PROVE  ~(c >= LastBlock(hd) + 1)
      BY <3>1, <3>5, BlockLanes DEF InBlock
    <3>6. Growing(buf, old, new, hd, live, LastBlock(hd) + 1)
      BY <3>3, <3>4, <3>5 DEF Growing
    <3> QED
      BY <2>7, <3>1, <3>6, GrownIsFresh
  <2>8. ASSUME live <= old, old < new
        PROVE  KRow(hd, old, live - 1) = KRow(hd, new, live - 1)
    <3>1. live - 1 \in Int /\ live - 1 < old /\ live - 1 < new
      BY <2>6, <2>8
    <3> QED
      BY <3>1, KeysStay
  <2> QED
    BY <2>1, <2>3, <2>4, <2>5, <2>7, <2>8 DEF RegrowIsRepack
<1> QED
  BY <1>1, AlwaysGiven, PTL

-----------------------------------------------------------------------------
(* The pre-tokeniser: how far a run of characters goes.                    *)

Puncts == Chars \ (White \cup Letter \cup Digit)

\* r is where a run of S that begins at j ends, no further than to.
RunTo(t, j, to, S, r) ==
    /\ r \in j..to
    /\ \A k \in j..(r - 1) : t[k] \in S
    /\ r < to => t[r] \notin S

\* A set of numbers has a least one, and the name for it is right.
LEMMA LeastExists ==
  ASSUME NEW S \in SUBSET Nat, S # {}
  PROVE  \E x \in S : \A y \in S : x <= y
<1>1. PICK x \in S : \A y \in S : ~(<<y, x>> \in OpToRel(<, Nat))
  BY NatLessThanWellFounded, WFMin
<1>2. ASSUME NEW y \in S
      PROVE  x <= y
  <2>1. ~(y < x)
    BY <1>1 DEF OpToRel
  <2> QED
    BY <2>1
<1> QED
  BY <1>2

LEMMA LeastIs ==
  ASSUME NEW S \in SUBSET Int, NEW x \in S, \A y \in S : x <= y
  PROVE  Least(S) = x
<1>1. PICK l : l = Least(S)
  OBVIOUS
<1>2. l \in S /\ \A y \in S : l <= y
  BY <1>1 DEF Least
<1>3. l <= x /\ x <= l /\ l \in Int /\ x \in Int
  BY <1>2
<1> QED
  BY <1>1, <1>3

LEMMA GreatestIs ==
  ASSUME NEW S \in SUBSET Int, NEW x \in S, \A y \in S : x >= y
  PROVE  Greatest(S) = x
<1>1. PICK l : l = Greatest(S)
  OBVIOUS
<1>2. l \in S /\ \A y \in S : l >= y
  BY <1>1 DEF Greatest
<1>3. l >= x /\ x >= l /\ l \in Int /\ x \in Int
  BY <1>2
<1> QED
  BY <1>1, <1>3

\* A run that begins at j, and one of punctuation.
LEMMA RunEndIs ==
  ASSUME NEW t, NEW j \in Nat, NEW to \in Nat, j <= to, NEW S
  PROVE  RunTo(t, j, to, S, RunEnd(t, j, to, S))
<1>1. PICK T : T = {to} \cup {k \in j..(to - 1) : t[k] \notin S}
  OBVIOUS
<1>2. T \subseteq Nat /\ T # {}
  BY <1>1
<1>3. PICK r \in T : \A y \in T : r <= y
  BY <1>2, LeastExists
<1>4. RunEnd(t, j, to, S) = r
  <2>1. T \in SUBSET Int
    BY <1>2
  <2>2. Least(T) = r
    BY <1>3, <2>1, LeastIs
  <2> QED
    BY <1>1, <2>2 DEF RunEnd
<1>5. r \in j..to /\ (r < to => t[r] \notin S)
  BY <1>1, <1>3
<1>6. ASSUME NEW k \in j..(r - 1)
      PROVE  t[k] \in S
  <2>1. k \in j..(to - 1) /\ k < r
    BY <1>5
  <2>2. k \notin T
    <3>1. k \in T => r <= k
      BY <1>3
    <3>2. r \in Int /\ k \in Int
      BY <1>2, <2>1
    <3> QED
      BY <2>1, <3>1, <3>2
  <2> QED
    BY <1>1, <2>1, <2>2
<1> QED
  BY <1>4, <1>5, <1>6 DEF RunTo

LEMMA Punctuates ==
  ASSUME NEW ch \in Chars
  PROVE  IsPunct(ch) <=> ch \in Puncts
BY DEF IsPunct, Puncts

LEMMA PunctEndIs ==
  ASSUME NEW t \in Seq(Chars), NEW j \in 1..(Len(t) + 1)
  PROVE  RunTo(t, j, Len(t) + 1, Puncts, PunctEnd(t, j))
<1>1. PICK n \in Nat : n = Len(t)
  OBVIOUS
<1>2. \A k \in 1..n : t[k] \in Chars
  BY <1>1
<1>3. {k \in j..n : ~IsPunct(t[k])} = {k \in j..n : t[k] \notin Puncts}
  BY <1>1, <1>2, Punctuates
<1>4. n = (n + 1) - 1
  BY <1>1
<1>5. PunctEnd(t, j) = RunEnd(t, j, n + 1, Puncts)
  BY <1>1, <1>3, <1>4 DEF PunctEnd, RunEnd
<1> QED
  BY <1>1, <1>5, RunEndIs

-----------------------------------------------------------------------------
(* The regular expression: what one class, and then a branch, may take.    *)

Steps(t, i, items, g) ==
    g = [n \in 0..Len(items) |->
            IF n = 0 THEN {i} ELSE EndsOf(t, g[n - 1], items[n])]

LEMMA MatchesIs ==
  ASSUME NEW t, NEW i, NEW items, NEW h, Steps(t, i, items, h)
  PROVE  \E g : Steps(t, i, items, g) /\ Matches(t, i, items) = g[Len(items)]
<1> DEFINE g == CHOOSE f : Steps(t, i, items, f)
<1>1. Steps(t, i, items, g)
  OBVIOUS
<1>2. Matches(t, i, items) = g[Len(items)]
  BY DEF Matches, Steps
<1> QED
  BY <1>1, <1>2

LEMMA MatchesOne ==
  ASSUME NEW t, NEW i, NEW a
  PROVE  Matches(t, i, <<a>>) = EndsOf(t, {i}, a)
<1> DEFINE items == <<a>>
           h == [n \in 0..1 |-> IF n = 0 THEN {i} ELSE EndsOf(t, {i}, a)]
<1>1. Len(items) = 1 /\ items[1] = a
  OBVIOUS
<1> HIDE DEF items
<1>2. Steps(t, i, items, h)
  <2>1. ASSUME NEW n \in 0..1
        PROVE  h[n] = IF n = 0 THEN {i} ELSE EndsOf(t, h[n - 1], items[n])
    <3>1. CASE n = 0
      BY <3>1
    <3>2. CASE n = 1
      BY <1>1, <3>2
    <3> QED
      BY <3>1, <3>2
  <2> QED
    BY <1>1, <2>1 DEF Steps
<1>3. PICK g : Steps(t, i, items, g) /\ Matches(t, i, items) = g[1]
  BY <1>1, <1>2, MatchesIs
<1>4. g[0] = {i} /\ g[1] = EndsOf(t, g[0], items[1])
  BY <1>1, <1>3 DEF Steps
<1> QED
  BY <1>1, <1>3, <1>4 DEF items

LEMMA MatchesTwo ==
  ASSUME NEW t, NEW i, NEW a, NEW b
  PROVE  Matches(t, i, <<a, b>>) = EndsOf(t, EndsOf(t, {i}, a), b)
<1> DEFINE items == <<a, b>>
           h == [n \in 0..2 |-> IF n = 0 THEN {i} ELSE IF n = 1 THEN EndsOf(t, {i}, a)
                                ELSE EndsOf(t, EndsOf(t, {i}, a), b)]
<1>1. Len(items) = 2 /\ items[1] = a /\ items[2] = b
  OBVIOUS
<1> HIDE DEF items
<1>2. Steps(t, i, items, h)
  <2>1. ASSUME NEW n \in 0..2
        PROVE  h[n] = IF n = 0 THEN {i} ELSE EndsOf(t, h[n - 1], items[n])
    <3>1. CASE n = 0
      BY <3>1
    <3>2. CASE n = 1
      BY <1>1, <3>2
    <3>3. CASE n = 2
      BY <1>1, <3>3
    <3> QED
      BY <3>1, <3>2, <3>3
  <2> QED
    BY <1>1, <2>1 DEF Steps
<1>3. PICK g : Steps(t, i, items, g) /\ Matches(t, i, items) = g[2]
  BY <1>1, <1>2, MatchesIs
<1>4. g[0] = {i} /\ g[1] = EndsOf(t, g[0], items[1]) /\ g[2] = EndsOf(t, g[1], items[2])
  BY <1>1, <1>3 DEF Steps
<1> QED
  BY <1>1, <1>3, <1>4 DEF items

LEMMA MatchesThree ==
  ASSUME NEW t, NEW i, NEW a, NEW b, NEW c
  PROVE  Matches(t, i, <<a, b, c>>) = EndsOf(t, EndsOf(t, EndsOf(t, {i}, a), b), c)
<1> DEFINE items == <<a, b, c>>
           h == [n \in 0..3 |-> IF n = 0 THEN {i} ELSE IF n = 1 THEN EndsOf(t, {i}, a)
                                ELSE IF n = 2 THEN EndsOf(t, EndsOf(t, {i}, a), b)
                                ELSE EndsOf(t, EndsOf(t, EndsOf(t, {i}, a), b), c)]
<1>1. Len(items) = 3 /\ items[1] = a /\ items[2] = b /\ items[3] = c
  OBVIOUS
<1> HIDE DEF items
<1>2. Steps(t, i, items, h)
  <2>1. ASSUME NEW n \in 0..3
        PROVE  h[n] = IF n = 0 THEN {i} ELSE EndsOf(t, h[n - 1], items[n])
    <3>1. CASE n = 0
      BY <3>1
    <3>2. CASE n = 1
      BY <1>1, <3>2
    <3>3. CASE n = 2
      BY <1>1, <3>3
    <3>4. CASE n = 3
      BY <1>1, <3>4
    <3> QED
      BY <3>1, <3>2, <3>3, <3>4
  <2> QED
    BY <1>1, <2>1 DEF Steps
<1>3. PICK g : Steps(t, i, items, g) /\ Matches(t, i, items) = g[3]
  BY <1>1, <1>2, MatchesIs
<1>4. /\ g[0] = {i} /\ g[1] = EndsOf(t, g[0], items[1])
      /\ g[2] = EndsOf(t, g[1], items[2]) /\ g[3] = EndsOf(t, g[2], items[3])
  BY <1>1, <1>3 DEF Steps
<1> QED
  BY <1>1, <1>3, <1>4 DEF items

\* What each kind of class takes from one place, and from several.
LEMMA NoEnds ==
  ASSUME NEW t, NEW A, A = {}, NEW item
  PROVE  EndsOf(t, A, item) = {}
BY DEF EndsOf

LEMMA OneEnd ==
  ASSUME NEW t \in Seq(Chars), NEW s \in 1..(Len(t) + 1), NEW ch
  PROVE  EndsOf(t, {s}, One(ch)) = IF s <= Len(t) /\ t[s] = ch THEN {s + 1} ELSE {}
<1>1. PICK n \in Nat : n = Len(t)
  OBVIOUS
<1>2. ASSUME NEW j \in 1..(n + 1)
      PROVE  j \in EndsOf(t, {s}, One(ch)) <=> j = s + 1 /\ t[s] = ch
  <2>1. j \in EndsOf(t, {s}, One(ch))
          <=> j - s >= 1 /\ j - s <= 1 /\ \A k \in s..(j - 1) : t[k] = ch
    BY <1>1 DEF EndsOf, One, NoLimit
  <2>2. j - s >= 1 /\ j - s <= 1 <=> j = s + 1
    BY <1>1
  <2>3. s..((s + 1) - 1) = {s}
    BY <1>1
  <2> QED
    BY <2>1, <2>2, <2>3
<1>3. EndsOf(t, {s}, One(ch)) \subseteq 1..(n + 1)
  BY <1>1 DEF EndsOf
<1>4. s + 1 \in 1..(n + 1) <=> s <= n
  BY <1>1
<1> QED
  BY <1>1, <1>2, <1>3, <1>4

LEMMA FewEnd ==
  ASSUME NEW t \in Seq(Chars), NEW s \in 1..(Len(t) + 1), NEW S
  PROVE  EndsOf(t, {s}, Few(S))
           = {s} \cup (IF s <= Len(t) /\ t[s] \in S THEN {s + 1} ELSE {})
<1>1. PICK n \in Nat : n = Len(t)
  OBVIOUS
<1>2. ASSUME NEW j \in 1..(n + 1)
      PROVE  j \in EndsOf(t, {s}, Few(S)) <=> j = s \/ (j = s + 1 /\ t[s] \in S)
  <2>1. j \in EndsOf(t, {s}, Few(S))
          <=> j - s >= 0 /\ j - s <= 1 /\ \A k \in s..(j - 1) : t[k] \in S
    BY <1>1 DEF EndsOf, Few, NoLimit
  <2>2. j - s >= 0 /\ j - s <= 1 <=> j = s \/ j = s + 1
    BY <1>1
  <2>3. s..((s + 1) - 1) = {s} /\ s..(s - 1) = {}
    BY <1>1
  <2> QED
    BY <2>1, <2>2, <2>3
<1>3. EndsOf(t, {s}, Few(S)) \subseteq 1..(n + 1)
  BY <1>1 DEF EndsOf
<1>4. s + 1 \in 1..(n + 1) <=> s <= n
  BY <1>1
<1>5. s \in 1..(n + 1)
  BY <1>1
<1> QED
  BY <1>1, <1>2, <1>3, <1>4, <1>5

LEMMA RunTakes ==
  ASSUME NEW t \in Seq(Chars), NEW s \in 1..(Len(t) + 1), NEW S, NEW to \in s..(Len(t) + 1),
         NEW r, RunTo(t, s, to, S, r), NEW j \in s..to
  PROVE  (\A k \in s..(j - 1) : t[k] \in S) <=> j <= r
<1>1. PICK n \in Nat : n = Len(t)
  OBVIOUS
<1>2. r \in s..to /\ (r < to => t[r] \notin S) /\ \A k \in s..(r - 1) : t[k] \in S
  BY DEF RunTo
<1>3. ASSUME \A k \in s..(j - 1) : t[k] \in S, j > r
      PROVE  FALSE
  <2>1. r \in s..(j - 1) /\ r < to
    BY <1>1, <1>2, <1>3
  <2> QED
    BY <1>2, <1>3, <2>1
<1>4. ASSUME j <= r, NEW k \in s..(j - 1)
      PROVE  t[k] \in S
  <2>1. k \in s..(r - 1)
    BY <1>1, <1>2, <1>4
  <2> QED
    BY <1>2, <2>1
<1>5. j <= r \/ j > r
  BY <1>1, <1>2
<1> QED
  BY <1>3, <1>4, <1>5

LEMMA ManyEnd ==
  ASSUME NEW t \in Seq(Chars), NEW s \in 1..(Len(t) + 1), NEW S,
         NEW r, RunTo(t, s, Len(t) + 1, S, r)
  PROVE  /\ EndsOf(t, {s}, Many(S)) = (s + 1)..r
         /\ EndsOf(t, {s}, Maybe(S)) = s..r
<1>1. PICK n \in Nat : n = Len(t)
  OBVIOUS
<1>2. r \in s..(n + 1)
  BY <1>1 DEF RunTo
<1>3. ASSUME NEW j \in 1..(n + 1)
      PROVE  /\ j \in EndsOf(t, {s}, Many(S))
                  <=> j - s >= 1 /\ \A k \in s..(j - 1) : t[k] \in S
             /\ j \in EndsOf(t, {s}, Maybe(S))
                  <=> j - s >= 0 /\ \A k \in s..(j - 1) : t[k] \in S
  BY <1>1 DEF EndsOf, Many, Maybe, NoLimit
<1>4. ASSUME NEW j \in s..(n + 1)
      PROVE  (\A k \in s..(j - 1) : t[k] \in S) <=> j <= r
  <2>1. Len(t) + 1 \in s..(Len(t) + 1) /\ j \in s..(Len(t) + 1)
    BY <1>1
  <2> QED
    BY <2>1, RunTakes
<1>5. /\ EndsOf(t, {s}, Many(S)) \subseteq 1..(n + 1)
      /\ EndsOf(t, {s}, Maybe(S)) \subseteq 1..(n + 1)
  BY <1>1 DEF EndsOf
<1>6. ASSUME NEW j \in 1..(n + 1)
      PROVE  /\ j \in EndsOf(t, {s}, Many(S)) <=> j \in (s + 1)..r
             /\ j \in EndsOf(t, {s}, Maybe(S)) <=> j \in s..r
  <2>1. CASE j < s
    <3>1. ~(j - s >= 0) /\ ~(j - s >= 1) /\ j \notin (s + 1)..r /\ j \notin s..r
      BY <1>1, <1>2, <2>1
    <3> QED
      BY <1>3, <3>1
  <2>2. CASE j >= s
    <3>1. j \in s..(n + 1)
      BY <1>1, <2>2
    <3>2. (\A k \in s..(j - 1) : t[k] \in S) <=> j <= r
      BY <1>4, <3>1
    <3>3. j - s >= 0 /\ (j - s >= 1 <=> j >= s + 1)
      BY <1>1, <2>2
    <3>4. j \in (s + 1)..r <=> j >= s + 1 /\ j <= r
      BY <1>1, <1>2
    <3>5. j \in s..r <=> j <= r
      BY <1>1, <1>2, <2>2
    <3> QED
      BY <1>3, <3>2, <3>3, <3>4, <3>5
  <2> QED
    BY <1>1, <2>1, <2>2
<1>7. (s + 1)..r \subseteq 1..(n + 1) /\ s..r \subseteq 1..(n + 1)
  BY <1>1, <1>2
<1> QED
  BY <1>5, <1>6, <1>7

-----------------------------------------------------------------------------
(* Each rule of the pre-tokeniser, and the branches it stands for.         *)

\* answer is what the first of these branches that matches takes, None if none does.
Same(t, i, answer, first, last) ==
    /\ answer = None => \A b \in first..last : Ends(t, i, b) = {}
    /\ answer # None =>
          \E b \in first..last : /\ Ends(t, i, b) # {}
                                 /\ \A c \in first..(b - 1) : Ends(t, i, c) = {}
                                 /\ Greatest(Ends(t, i, b)) = answer

Lead == Chars \ (Letter \cup Newline \cup Digit)
Digits == [class |-> Digit, min |-> 1, max |-> 3]

LEMMA BranchList ==
  /\ DOMAIN Branches = 1..8
  /\ Branches[1] = <<One("'"), One("s")>>
  /\ Branches[2] = <<One("'"), One("r"), One("e")>>
  /\ Branches[3] = <<Few(Lead), Many(Letter)>>
  /\ Branches[4] = <<Digits>>
  /\ Branches[5] = <<Few({Space}), Many(Puncts), Maybe(Newline)>>
  /\ Branches[6] = <<Maybe(White), Many(Newline)>>
  /\ Branches[7] = <<Many(White)>>
  /\ Branches[8] = <<Many(White)>>
BY DEF Branches, Lead, Digits, Puncts

LEMMA EndsAre ==
  ASSUME NEW t, NEW i
  PROVE  /\ Ends(t, i, 1) = EndsOf(t, EndsOf(t, {i}, One("'")), One("s"))
         /\ Ends(t, i, 2) = EndsOf(t, EndsOf(t, EndsOf(t, {i}, One("'")), One("r")), One("e"))
         /\ Ends(t, i, 3) = EndsOf(t, EndsOf(t, {i}, Few(Lead)), Many(Letter))
         /\ Ends(t, i, 4) = EndsOf(t, {i}, Digits)
         /\ Ends(t, i, 5) = EndsOf(t, EndsOf(t, EndsOf(t, {i}, Few({Space})), Many(Puncts)),
                                   Maybe(Newline))
         /\ Ends(t, i, 6) = EndsOf(t, EndsOf(t, {i}, Maybe(White)), Many(Newline))
         /\ Ends(t, i, 7) = {j \in EndsOf(t, {i}, Many(White)) : j > Len(t) \/ t[j] \in White}
         /\ Ends(t, i, 8) = EndsOf(t, {i}, Many(White))
<1>1. \A b \in {1, 2, 3, 4, 5, 6, 8} : Ends(t, i, b) = Matches(t, i, Branches[b])
  BY DEF Ends, LookAhead
<1>2. Ends(t, i, 7) = {j \in Matches(t, i, Branches[7]) : j > Len(t) \/ t[j] \in White}
  BY DEF Ends, LookAhead
<1>3. /\ Matches(t, i, Branches[4]) = EndsOf(t, {i}, Digits)
      /\ Matches(t, i, Branches[7]) = EndsOf(t, {i}, Many(White))
      /\ Matches(t, i, Branches[8]) = EndsOf(t, {i}, Many(White))
  BY BranchList, MatchesOne
<1>4. /\ Matches(t, i, Branches[1]) = EndsOf(t, EndsOf(t, {i}, One("'")), One("s"))
      /\ Matches(t, i, Branches[3]) = EndsOf(t, EndsOf(t, {i}, Few(Lead)), Many(Letter))
      /\ Matches(t, i, Branches[6]) = EndsOf(t, EndsOf(t, {i}, Maybe(White)), Many(Newline))
  BY BranchList, MatchesTwo
<1>5. /\ Matches(t, i, Branches[2])
           = EndsOf(t, EndsOf(t, EndsOf(t, {i}, One("'")), One("r")), One("e"))
      /\ Matches(t, i, Branches[5])
           = EndsOf(t, EndsOf(t, EndsOf(t, {i}, Few({Space})), Many(Puncts)), Maybe(Newline))
  BY BranchList, MatchesThree
<1> QED
  BY <1>1, <1>2, <1>3, <1>4, <1>5

\* A greatest number of an interval.
LEMMA GreatestOf ==
  ASSUME NEW a \in Int, NEW b \in Int, a <= b
  PROVE  a..b # {} /\ Greatest(a..b) = b
<1>1. a..b \in SUBSET Int /\ b \in a..b /\ \A y \in a..b : b >= y
  OBVIOUS
<1> QED
  BY <1>1, GreatestIs

LEMMA GreatestOne ==
  ASSUME NEW x \in Nat
  PROVE  {x} # {} /\ Greatest({x}) = x /\ x # None
<1>1. {x} \in SUBSET Int /\ x \in {x} /\ \A y \in {x} : x >= y
  OBVIOUS
<1>2. Greatest({x}) = x
  BY <1>1, GreatestIs
<1> QED
  BY <1>1, <1>2 DEF None

\* A class that takes one character or more takes the whole run.
Taken(t, s, S) ==
    IF s <= Len(t) /\ t[s] \in S
    THEN /\ RunEnd(t, s, Len(t) + 1, S) \in (s + 1)..(Len(t) + 1)
         /\ EndsOf(t, {s}, Many(S)) = (s + 1)..RunEnd(t, s, Len(t) + 1, S)
         /\ EndsOf(t, {s}, Many(S)) # {}
         /\ Greatest(EndsOf(t, {s}, Many(S))) = RunEnd(t, s, Len(t) + 1, S)
    ELSE RunEnd(t, s, Len(t) + 1, S) = s /\ EndsOf(t, {s}, Many(S)) = {}

LEMMA ManyTakes ==
  ASSUME NEW t \in Seq(Chars), NEW s \in 1..(Len(t) + 1), NEW S
  PROVE  Taken(t, s, S)
<1>1. PICK n \in Nat : n = Len(t)
  OBVIOUS
<1>2. PICK r : r = RunEnd(t, s, n + 1, S)
  OBVIOUS
<1>3. RunTo(t, s, n + 1, S, r)
  BY <1>1, <1>2, RunEndIs
<1>4. r \in s..(n + 1) /\ (r < n + 1 => t[r] \notin S) /\ \A k \in s..(r - 1) : t[k] \in S
  BY <1>3 DEF RunTo
<1>5. EndsOf(t, {s}, Many(S)) = (s + 1)..r
  BY <1>1, <1>3, ManyEnd
<1>6. CASE s <= n /\ t[s] \in S
  <2>1. r # s
    BY <1>4, <1>6
  <2>2. r \in (s + 1)..(n + 1)
    BY <1>1, <1>4, <2>1
  <2>3. (s + 1)..r # {} /\ Greatest((s + 1)..r) = r
    <3>1. s + 1 \in Int /\ r \in Int /\ s + 1 <= r
      BY <1>1, <2>2
    <3> QED
      BY <3>1, GreatestOf
  <2> QED
    BY <1>1, <1>2, <1>5, <1>6, <2>2, <2>3 DEF Taken
<1>7. CASE ~(s <= n /\ t[s] \in S)
  <2>1. r = s
    <3>1. s <= r - 1 => s \in s..(r - 1) /\ s <= n
      BY <1>1, <1>4
    <3> QED
      BY <1>1, <1>4, <1>7, <3>1
  <2>2. (s + 1)..r = {}
    BY <1>1, <2>1
  <2> QED
    BY <1>1, <1>2, <1>5, <1>7, <2>1, <2>2 DEF Taken
<1> QED
  BY <1>6, <1>7

\* "'s" and "'re".
LEMMA ContractionSame ==
  ASSUME NEW t \in Seq(Chars), NEW i \in 1..Len(t)
  PROVE  Same(t, i, Contraction(t, i), 1, 2)
<1>1. PICK n \in Nat : n = Len(t)
  OBVIOUS
<1>2. PICK p \in Nat : p = i + 1 /\ p \in 1..(n + 1)
  BY <1>1
<1>3. PICK A : A = EndsOf(t, {i}, One("'"))
  OBVIOUS
<1>6. A = IF t[i] = "'" THEN {p} ELSE {}
  <2>1. i \in 1..(Len(t) + 1) /\ i <= Len(t) /\ p = i + 1
    BY <1>1, <1>2
  <2> QED
    BY <1>3, <2>1, OneEnd
<1>7. PICK B : B = EndsOf(t, A, One("r"))
  OBVIOUS
<1>8. Ends(t, i, 1) = EndsOf(t, A, One("s")) /\ Ends(t, i, 2) = EndsOf(t, B, One("e"))
  BY <1>3, <1>7, EndsAre
<1>4. CASE t[i] # "'"
  <2>1. Ends(t, i, 1) = {} /\ Ends(t, i, 2) = {}
    <3>1. A = {}
      BY <1>4, <1>6
    <3>2. B = {} /\ EndsOf(t, A, One("s")) = {}
      BY <1>7, <3>1, NoEnds
    <3>3. EndsOf(t, B, One("e")) = {}
      BY <3>2, NoEnds
    <3> QED
      BY <1>8, <3>2, <3>3, Zenon
  <2>2. Contraction(t, i) = None
    BY <1>4 DEF Contraction
  <2>3. \A b \in 1..2 : b = 1 \/ b = 2
    OBVIOUS
  <2> QED
    BY <2>1, <2>2, <2>3 DEF Same
<1>5. CASE t[i] = "'"
  <2>1. Ends(t, i, 1) = IF p <= n /\ t[p] = "s" THEN {p + 1} ELSE {}
    <3>1. A = {p}
      BY <1>5, <1>6
    <3>2. Ends(t, i, 1) = EndsOf(t, {p}, One("s"))
      BY <1>8, <3>1, Zenon
    <3>3. p \in 1..(Len(t) + 1)
      BY <1>1, <1>2
    <3>4. EndsOf(t, {p}, One("s")) = IF p <= Len(t) /\ t[p] = "s" THEN {p + 1} ELSE {}
      BY <3>3, OneEnd
    <3> QED
      BY <1>1, <3>2, <3>4, Zenon
  <2>2. B = IF p <= n /\ t[p] = "r" THEN {p + 1} ELSE {}
    <3>1. A = {p}
      BY <1>5, <1>6
    <3>2. B = EndsOf(t, {p}, One("r"))
      BY <1>7, <3>1, Zenon
    <3>3. p \in 1..(Len(t) + 1)
      BY <1>1, <1>2
    <3>4. EndsOf(t, {p}, One("r")) = IF p <= Len(t) /\ t[p] = "r" THEN {p + 1} ELSE {}
      BY <3>3, OneEnd
    <3> QED
      BY <1>1, <3>2, <3>4, Zenon
  <2>3. CASE p <= n /\ t[p] = "s"
    <3>1. Contraction(t, i) = p + 1
      BY <1>1, <1>2, <1>5, <2>3 DEF Contraction
    <3>2. Greatest({p + 1}) = p + 1 /\ p + 1 # None
      BY GreatestOne
    <3>3. {p + 1} # {}
      OBVIOUS
    <3>4. 1 \in 1..2 /\ \A c \in 1..(1 - 1) : Ends(t, i, c) = {}
      OBVIOUS
    <3> QED
      BY <2>1, <2>3, <3>1, <3>2, <3>3, <3>4 DEF Same
  <2>4. CASE ~(p <= n /\ t[p] = "s") /\ p <= n /\ t[p] = "r"
    <3>1. PICK q \in Nat : q = p + 1 /\ q \in 1..(n + 1) /\ q = i + 2
      BY <1>1, <1>2, <2>4
    <3>2. Ends(t, i, 2) = IF q <= n /\ t[q] = "e" THEN {q + 1} ELSE {}
      <4>1. B = {q}
        BY <2>2, <2>4, <3>1
      <4>2. Ends(t, i, 2) = EndsOf(t, {q}, One("e"))
        BY <1>8, <4>1, Zenon
      <4>3. q \in 1..(Len(t) + 1)
        BY <1>1, <3>1
      <4>4. EndsOf(t, {q}, One("e")) = IF q <= Len(t) /\ t[q] = "e" THEN {q + 1} ELSE {}
        BY <4>3, OneEnd
      <4> QED
        BY <1>1, <4>2, <4>4, Zenon
    <3>3. Contraction(t, i) = IF q <= n /\ t[q] = "e" THEN q + 1 ELSE None
      BY <1>1, <1>2, <1>5, <2>4, <3>1 DEF Contraction
    <3>4. Ends(t, i, 1) = {}
      BY <2>1, <2>4
    <3>5. Greatest({q + 1}) = q + 1 /\ q + 1 # None
      BY GreatestOne
    <3>6. 2 \in 1..2 /\ (\A b \in 1..2 : b = 1 \/ b = 2) /\ \A c \in 1..(2 - 1) : c = 1
      OBVIOUS
    <3>7. CASE q <= n /\ t[q] = "e"
      BY <3>2, <3>3, <3>4, <3>5, <3>6, <3>7 DEF Same
    <3>8. CASE ~(q <= n /\ t[q] = "e")
      BY <3>2, <3>3, <3>4, <3>6, <3>8 DEF Same
    <3> QED
      BY <3>7, <3>8
  <2>5. CASE ~(p <= n /\ t[p] = "s") /\ ~(p <= n /\ t[p] = "r")
    <3>1. Ends(t, i, 1) = {} /\ Ends(t, i, 2) = {}
      <4>1. B = {}
        BY <2>2, <2>5
      <4>2. EndsOf(t, B, One("e")) = {}
        BY <4>1, NoEnds
      <4> QED
        BY <1>8, <2>1, <2>5, <4>2
    <3>2. Contraction(t, i) = None
      BY <1>1, <1>2, <1>5, <2>5 DEF Contraction
    <3>3. \A b \in 1..2 : b = 1 \/ b = 2
      OBVIOUS
    <3> QED
      BY <3>1, <3>2, <3>3 DEF Same
  <2> QED
    BY <2>3, <2>4, <2>5
<1> QED
  BY <1>4, <1>5

\* One branch, told by its ends.
LEMMA SameOne ==
  ASSUME NEW t, NEW i, NEW answer, NEW b \in Nat,
         answer = None => Ends(t, i, b) = {},
         answer # None => Ends(t, i, b) # {} /\ Greatest(Ends(t, i, b)) = answer
  PROVE  Same(t, i, answer, b, b)
<1>1. b \in b..b /\ (\A c \in b..b : c = b) /\ \A c \in b..(b - 1) : FALSE
  OBVIOUS
<1> QED
  BY <1>1 DEF Same

\* Letters, with a character before them that is none.
LEMMA WordSame ==
  ASSUME NEW t \in Seq(Chars), NEW i \in 1..Len(t)
  PROVE  Same(t, i, Word(t, i), 3, 3)
<1>1. PICK n \in Nat : n = Len(t)
  OBVIOUS
<1>2. PICK s \in Nat : s = IF t[i] \notin Letter \cup Newline \cup Digit THEN i + 1 ELSE i
  BY <1>1
<1>3. s \in 1..(n + 1) /\ t[i] \in Chars /\ i \in 1..(n + 1)
  BY <1>1, <1>2
<1>9. PICK A : A = EndsOf(t, {i}, Few(Lead))
  OBVIOUS
<1>10. Ends(t, i, 3) = EndsOf(t, A, Many(Letter))
  BY <1>9, EndsAre
<1>4. Ends(t, i, 3) = EndsOf(t, {s}, Many(Letter))
  <2>1. CASE t[i] \in Lead
    <3>1. s = i + 1 /\ t[i] \notin Letter
      BY <1>2, <2>1 DEF Lead
    <3>2. \A x : x \in A <=> x = i \/ x = s
      BY <1>1, <1>3, <1>9, <2>1, <3>1, FewEnd
    <3>3. EndsOf(t, {i}, Many(Letter)) = {}
      BY <1>1, <1>3, <3>1, ManyTakes DEF Taken
    <3> QED
      <4>1. PICK item : item = Many(Letter)
        OBVIOUS
      <4>2. EndsOf(t, {i}, item) = {}
        BY <3>3, <4>1, Zenon
      <4>3. EndsOf(t, A, item) = EndsOf(t, {s}, item)
        BY <3>2, <4>2 DEF EndsOf
      <4> QED
        BY <1>10, <4>1, <4>3, Zenon
  <2>2. CASE t[i] \notin Lead
    <3>1. s = i
      BY <1>2, <1>3, <2>2 DEF Lead
    <3>2. A = {i}
      BY <1>1, <1>3, <1>9, <2>2, FewEnd
    <3> QED
      BY <1>10, <3>1, <3>2, Zenon
  <2> QED
    BY <2>1, <2>2
<1>5. Taken(t, s, Letter)
  BY <1>1, <1>3, ManyTakes
<1>6. Word(t, i) = IF s <= n /\ t[s] \in Letter THEN RunEnd(t, s, n + 1, Letter) ELSE None
  BY <1>1, <1>2 DEF Word
<1>7. CASE s <= n /\ t[s] \in Letter
  <2>1. /\ RunEnd(t, s, n + 1, Letter) \in (s + 1)..(n + 1)
        /\ Ends(t, i, 3) = (s + 1)..RunEnd(t, s, n + 1, Letter)
        /\ Ends(t, i, 3) # {}
        /\ Greatest(Ends(t, i, 3)) = Word(t, i)
    BY <1>1, <1>4, <1>5, <1>6, <1>7 DEF Taken
  <2>2. Word(t, i) # None
    BY <1>1, <1>6, <1>7, <2>1 DEF None
  <2> QED
    BY <2>1, <2>2, SameOne
<1>8. CASE ~(s <= n /\ t[s] \in Letter)
  <2>1. Word(t, i) = None /\ Ends(t, i, 3) = {}
    BY <1>1, <1>4, <1>5, <1>6, <1>8 DEF Taken
  <2> QED
    BY <2>1, SameOne
<1> QED
  BY <1>7, <1>8

\* Digits, three at most.
LEMMA NumberSame ==
  ASSUME NEW t \in Seq(Chars), NEW i \in 1..Len(t)
  PROVE  Same(t, i, Number(t, i), 4, 4)
<1>1. PICK n \in Nat : n = Len(t)
  OBVIOUS
<1>2. PICK to \in Nat : to = IF i + 3 <= n + 1 THEN i + 3 ELSE n + 1
  BY <1>1
<1>3. Least({n + 1, i + 3}) = to
  <2>1. {n + 1, i + 3} \in SUBSET Int /\ to \in {n + 1, i + 3}
        /\ \A y \in {n + 1, i + 3} : to <= y
    BY <1>1, <1>2
  <2> QED
    BY <2>1, LeastIs
<1>4. to \in (i + 1)..(n + 1) /\ to <= i + 3
  BY <1>1, <1>2
<1>5. PICK r : r = RunEnd(t, i, to, Digit)
  OBVIOUS
<1>6. RunTo(t, i, to, Digit, r)
  BY <1>4, <1>5, RunEndIs
<1>7. r \in i..to /\ (r < to => t[r] \notin Digit) /\ \A k \in i..(r - 1) : t[k] \in Digit
  BY <1>6 DEF RunTo
<1>8. EndsOf(t, {i}, Digits) = (i + 1)..r
  <2>1. ASSUME NEW j \in 1..(n + 1)
        PROVE  j \in EndsOf(t, {i}, Digits)
                 <=> j - i >= 1 /\ j - i <= 3 /\ \A k \in i..(j - 1) : t[k] \in Digit
    BY <1>1 DEF EndsOf, Digits, NoLimit
  <2>2. EndsOf(t, {i}, Digits) \subseteq 1..(n + 1) /\ (i + 1)..r \subseteq 1..(n + 1)
    BY <1>1, <1>4, <1>7 DEF EndsOf
  <2>3. ASSUME NEW j \in 1..(n + 1)
        PROVE  j \in EndsOf(t, {i}, Digits) <=> j \in (i + 1)..r
    <3>1. j - i >= 1 /\ j - i <= 3 <=> j \in (i + 1)..to
      BY <1>1, <1>2, <1>4
    <3>2. CASE j \in (i + 1)..to
      <4>1. j \in i..to /\ i \in 1..(n + 1) /\ to \in i..(n + 1)
        BY <1>1, <1>4, <3>2
      <4>2. (\A k \in i..(j - 1) : t[k] \in Digit) <=> j <= r
        BY <1>1, <1>6, <4>1, RunTakes
      <4>3. j \in (i + 1)..r <=> j <= r
        BY <1>4, <1>7, <3>2
      <4> QED
        BY <2>1, <3>1, <3>2, <4>2, <4>3
    <3>3. CASE j \notin (i + 1)..to
      <4>1. j \notin (i + 1)..r
        BY <1>4, <1>7, <3>3
      <4>2. j \notin EndsOf(t, {i}, Digits)
        BY <2>1, <3>1, <3>3
      <4> QED
        BY <4>1, <4>2
    <3> QED
      BY <3>2, <3>3
  <2> QED
    BY <2>2, <2>3
<1>9. Ends(t, i, 4) = (i + 1)..r
  BY <1>8, EndsAre
<1>10. CASE t[i] \in Digit
  <2>1. r \in (i + 1)..(n + 1)
    BY <1>4, <1>7, <1>10
  <2>4. i + 1 \in Int /\ r \in Nat /\ r \in Int /\ i + 1 <= r
    BY <1>1, <2>1
  <2>2. Greatest((i + 1)..r) = r /\ (i + 1)..r # {} /\ r # None
    <3>1. r # None
      BY <2>4 DEF None
    <3> QED
      BY <2>4, <3>1, GreatestOf
  <2>3. Number(t, i) = r
    BY <1>1, <1>3, <1>5, <1>10 DEF Number
  <2> QED
    BY <1>9, <2>2, <2>3, SameOne
<1>11. CASE t[i] \notin Digit
  <2>1. r = i
    <3>1. i <= r - 1 => i \in i..(r - 1)
      BY <1>7
    <3> QED
      BY <1>7, <1>11, <3>1
  <2>2. (i + 1)..r = {} /\ Number(t, i) = None
    BY <1>11, <2>1 DEF Number
  <2> QED
    BY <1>9, <2>2, SameOne
<1> QED
  BY <1>10, <1>11

\* Punctuation, a space before it, and the newlines after it.
LEMMA PunctuationTakes ==
  ASSUME NEW t \in Seq(Chars), NEW s \in 1..Len(t), t[s] \in Puncts,
         NEW p, p = PunctEnd(t, s), NEW q, q = RunEnd(t, p, Len(t) + 1, Newline),
         NEW E, E = EndsOf(t, EndsOf(t, {s}, Many(Puncts)), Maybe(Newline))
  PROVE  q \in Nat /\ E # {} /\ Greatest(E) = q
<1>1. PICK n \in Nat : n = Len(t)
  OBVIOUS
<1>2. RunTo(t, s, n + 1, Puncts, p)
  BY <1>1, PunctEndIs
<1>3. p \in (s + 1)..(n + 1) /\ \A k \in s..(p - 1) : t[k] \in Puncts
  BY <1>1, <1>2 DEF RunTo
<1>4. EndsOf(t, {s}, Many(Puncts)) = (s + 1)..p
  BY <1>1, <1>2, ManyEnd
<1>5. RunTo(t, p, n + 1, Newline, q)
  BY <1>1, <1>3, RunEndIs
<1>6. q \in p..(n + 1) /\ \A k \in p..(q - 1) : t[k] \in Newline
  BY <1>5 DEF RunTo
<1>7. \A j \in E : \E u \in (s + 1)..p : j \in Int /\ j >= u /\ j <= n + 1
                                         /\ \A k \in u..(j - 1) : t[k] \in Newline
  BY <1>1, <1>4 DEF EndsOf, Maybe
<1>8. q \in E
  <2>1. q \in 1..(n + 1) /\ q - p >= 0 /\ p \in (s + 1)..p
    BY <1>1, <1>3, <1>6
  <2> QED
    BY <1>1, <1>4, <1>6, <2>1 DEF EndsOf, Maybe, NoLimit
<1>9. ASSUME NEW j \in E
      PROVE  j \in Int /\ q >= j
  <2>1. PICK u \in (s + 1)..p : j \in Int /\ j >= u /\ j <= n + 1
                                /\ \A k \in u..(j - 1) : t[k] \in Newline
    BY <1>7
  <2>2. CASE j <= p
    BY <1>3, <1>6, <2>1, <2>2
  <2>3. CASE j > p
    <3>1. u = p
      <4>1. u < p => u \in s..(p - 1) /\ u \in u..(j - 1)
        BY <1>3, <2>1, <2>3
      <4>2. \A ch : ~(ch \in Newline /\ ch \in Puncts)
        BY DEF Puncts, White
      <4> QED
        BY <1>3, <2>1, <4>1, <4>2
    <3>2. j \in p..(n + 1) /\ p \in 1..(n + 1) /\ n + 1 \in p..(n + 1)
      BY <1>1, <1>3, <2>1, <2>3
    <3>3. j <= q
      BY <1>1, <1>5, <2>1, <3>1, <3>2, RunTakes
    <3> QED
      BY <1>6, <2>1, <3>3
  <2> QED
    BY <1>3, <2>1, <2>2, <2>3
<1>10. E \in SUBSET Int /\ q \in Nat
  <2>1. \A j \in E : j \in Int
    BY <1>9
  <2>2. q \in Nat
    BY <1>3, <1>6
  <2> QED
    BY <2>1, <2>2
<1>11. Greatest(E) = q
  BY <1>8, <1>9, <1>10, GreatestIs
<1> QED
  BY <1>8, <1>10, <1>11

LEMMA PunctuationSame ==
  ASSUME NEW t \in Seq(Chars), NEW i \in 1..Len(t)
  PROVE  Same(t, i, Punctuation(t, i), 5, 5)
<1>1. PICK n \in Nat : n = Len(t)
  OBVIOUS
<1>2. PICK s \in Nat : s = IF t[i] = Space THEN i + 1 ELSE i
  BY <1>1
<1>3. s \in 1..(n + 1) /\ i \in 1..(n + 1)
  BY <1>1, <1>2
<1>4. PICK B : B = EndsOf(t, {s}, Many(Puncts))
  OBVIOUS
<1>8. PICK A : A = EndsOf(t, {i}, Few({Space}))
  OBVIOUS
<1>9. PICK D : D = EndsOf(t, A, Many(Puncts))
  OBVIOUS
<1>10. Ends(t, i, 5) = EndsOf(t, D, Maybe(Newline))
  BY <1>8, <1>9, EndsAre
<1>5. D = B
  <2>1. CASE t[i] = Space
    <3>1. s = i + 1 /\ t[i] \notin Puncts
      BY <1>2, <2>1 DEF Puncts, White
    <3>2. \A x : x \in A <=> x = i \/ x = s
      BY <1>1, <1>3, <1>8, <2>1, <3>1, FewEnd
    <3>3. EndsOf(t, {i}, Many(Puncts)) = {}
      BY <1>1, <1>3, <3>1, ManyTakes DEF Taken
    <3> QED
      <4>1. PICK item : item = Many(Puncts)
        OBVIOUS
      <4>2. EndsOf(t, {i}, item) = {}
        BY <3>3, <4>1, Zenon
      <4>3. EndsOf(t, A, item) = EndsOf(t, {s}, item)
        BY <3>2, <4>2 DEF EndsOf
      <4> QED
        BY <1>4, <1>9, <4>1, <4>3, Zenon
  <2>2. CASE t[i] # Space
    <3>1. s = i
      BY <1>2, <2>2
    <3>2. A = {i}
      BY <1>1, <1>3, <1>8, <2>2, FewEnd
    <3> QED
      BY <1>4, <1>9, <3>1, <3>2, Zenon
  <2> QED
    BY <2>1, <2>2
<1>11. Ends(t, i, 5) = EndsOf(t, B, Maybe(Newline))
  BY <1>5, <1>10
<1>6. CASE s <= n /\ t[s] \in Puncts
  <2>1. PICK q : q = RunEnd(t, PunctEnd(t, s), n + 1, Newline)
    OBVIOUS
  <2>2. q \in Nat /\ Ends(t, i, 5) # {} /\ Greatest(Ends(t, i, 5)) = q
    BY <1>1, <1>3, <1>4, <1>6, <1>11, <2>1, PunctuationTakes
  <2>3. t[s] \in Chars
    BY <1>1, <1>3, <1>6
  <2>4. Punctuation(t, i) = q
    BY <1>1, <1>2, <1>6, <2>1, <2>3, Punctuates DEF Punctuation
  <2>5. q # None
    BY <2>2 DEF None
  <2> QED
    BY <2>2, <2>4, <2>5, SameOne
<1>7. CASE ~(s <= n /\ t[s] \in Puncts)
  <2>1. B = {}
    BY <1>1, <1>3, <1>4, <1>7, ManyTakes DEF Taken
  <2>2. Ends(t, i, 5) = {}
    BY <1>11, <2>1, NoEnds
  <2>3. s <= n => t[s] \in Chars
    BY <1>1, <1>3
  <2>4. Punctuation(t, i) = None
    BY <1>1, <1>2, <1>7, <2>3, Punctuates DEF Punctuation
  <2> QED
    BY <2>2, <2>4, SameOne
<1> QED
  BY <1>6, <1>7

\* Whitespace that has a newline is taken as far as its last one.
LEMMA NewlineEnds ==
  ASSUME NEW t \in Seq(Chars), NEW i \in 1..Len(t),
         NEW e, RunTo(t, i, Len(t) + 1, White, e), NEW j
  PROVE  j \in Ends(t, i, 6) <=> \E k \in i..(e - 1) : t[k] \in Newline /\ j = k + 1
<1>1. PICK n \in Nat : n = Len(t)
  OBVIOUS
<1>2. e \in i..(n + 1) /\ \A k \in i..(e - 1) : t[k] \in White
  BY <1>1 DEF RunTo
<1>3. EndsOf(t, {i}, Maybe(White)) = i..e
  BY <1>1, ManyEnd
<1>4. j \in Ends(t, i, 6)
        <=> /\ j \in 1..(n + 1)
            /\ \E s \in i..e : j - s >= 1 /\ \A k \in s..(j - 1) : t[k] \in Newline
  <2>1. PICK A : A = EndsOf(t, {i}, Maybe(White))
    OBVIOUS
  <2>2. Ends(t, i, 6) = EndsOf(t, A, Many(Newline))
    BY <2>1, EndsAre
  <2>3. A = i..e
    BY <1>3, <2>1, Zenon
  <2> QED
    BY <1>1, <2>2, <2>3 DEF EndsOf, Many, NoLimit
<1>5. ASSUME j \in Ends(t, i, 6)
      PROVE  \E k \in i..(e - 1) : t[k] \in Newline /\ j = k + 1
  <2>1. j \in 1..(n + 1)
    BY <1>4, <1>5
  <2>2. PICK s \in i..e : j - s >= 1 /\ \A k \in s..(j - 1) : t[k] \in Newline
    BY <1>4, <1>5
  <2>3. PICK k \in i..(j - 1) : k = j - 1
    BY <1>2, <2>1, <2>2
  <2>4. t[k] \in Newline /\ j = k + 1
    BY <1>2, <2>1, <2>2, <2>3
  <2>5. ASSUME NEW l \in i..(j - 1)
        PROVE  t[l] \in White
    <3>1. CASE l < s
      BY <1>2, <2>2, <3>1
    <3>2. CASE l >= s
      BY <1>2, <2>1, <2>2, <3>2 DEF White
    <3> QED
      BY <1>2, <2>2, <3>1, <3>2
  <2>6. j \in i..(n + 1) /\ i \in 1..(n + 1) /\ n + 1 \in i..(n + 1)
    BY <1>1, <1>2, <2>1, <2>2
  <2>7. j <= e
    BY <1>1, <2>5, <2>6, RunTakes
  <2>8. k \in i..(e - 1)
    BY <1>2, <2>1, <2>3, <2>7
  <2> QED
    BY <2>4, <2>8
<1>6. ASSUME NEW k \in i..(e - 1), t[k] \in Newline, j = k + 1
      PROVE  j \in Ends(t, i, 6)
  <2>1. j \in 1..(n + 1) /\ k \in i..e /\ j - k >= 1 /\ k..(j - 1) = {k}
    BY <1>1, <1>2, <1>6
  <2> QED
    BY <1>4, <1>6, <2>1
<1> QED
  BY <1>5, <1>6

\* Numbers below a bound have a greatest one.
LEMMA GreatestExists ==
  ASSUME NEW b \in Nat, NEW S \in SUBSET (0..b), S # {}
  PROVE  \E x \in S : \A y \in S : x >= y
<1>1. PICK T : T = {b - y : y \in S}
  OBVIOUS
<1>2. T \in SUBSET Nat /\ T # {}
  <2>1. \A y \in S : b - y \in Nat
    OBVIOUS
  <2> QED
    BY <1>1, <2>1
<1>3. PICK z \in T : \A y \in T : z <= y
  BY <1>2, LeastExists
<1>4. PICK x \in S : z = b - x
  BY <1>1
<1>5. ASSUME NEW y \in S
      PROVE  x >= y
  <2>1. b - y \in T
    BY <1>1
  <2>2. b - x <= b - y /\ x \in Int /\ y \in Int
    BY <1>3, <1>4, <2>1
  <2> QED
    BY <2>2
<1> QED
  BY <1>5

\* Whitespace: to its last newline, or all of it but the place before a word.
LEMMA WhitespaceSame ==
  ASSUME NEW t \in Seq(Chars), NEW i \in 1..Len(t)
  PROVE  Same(t, i, Whitespace(t, i), 6, 8)
<1>1. PICK n \in Nat : n = Len(t)
  OBVIOUS
<1>2. PICK e : e = RunEnd(t, i, n + 1, White)
  OBVIOUS
<1>3. i \in 1..(n + 1) /\ RunTo(t, i, n + 1, White, e)
  BY <1>1, <1>2, RunEndIs
<1>4. e \in i..(n + 1) /\ (e < n + 1 => t[e] \notin White) /\ \A k \in i..(e - 1) : t[k] \in White
  BY <1>3 DEF RunTo
<1>5. EndsOf(t, {i}, Many(White)) = (i + 1)..e
  BY <1>1, <1>3, ManyEnd
<1>6. PICK last : last = {k \in i..(e - 1) : t[k] \in Newline}
  OBVIOUS
<1>7. Ends(t, i, 6) = {k + 1 : k \in last}
  <2>1. \A j : j \in Ends(t, i, 6) <=> \E k \in i..(e - 1) : t[k] \in Newline /\ j = k + 1
    BY <1>1, <1>3, NewlineEnds
  <2> QED
    BY <1>6, <2>1
<1>8. \A j : j \in Ends(t, i, 7) <=> j \in (i + 1)..e /\ (j > n \/ t[j] \in White)
  <2>1. PICK A : A = EndsOf(t, {i}, Many(White))
    OBVIOUS
  <2>2. \A j : j \in Ends(t, i, 7) <=> j \in A /\ (j > Len(t) \/ t[j] \in White)
    BY <2>1, EndsAre
  <2>3. A = (i + 1)..e
    BY <1>5, <2>1, Zenon
  <2> QED
    BY <1>1, <2>2, <2>3
<1>9. Ends(t, i, 8) = (i + 1)..e
  BY <1>5, EndsAre
<1>10. Whitespace(t, i) =
         IF t[i] \notin White THEN None
         ELSE IF last # {} THEN Greatest(last) + 1
         ELSE IF e <= n /\ e - i > 1 THEN e - 1 ELSE e
  BY <1>1, <1>2, <1>6 DEF Whitespace
<1>11. \A b \in 6..8 : b = 6 \/ b = 7 \/ b = 8
  OBVIOUS
<1>12. CASE t[i] \notin White
  <2>1. e = i
    <3>1. i <= e - 1 => i \in i..(e - 1)
      BY <1>4
    <3> QED
      BY <1>4, <1>12, <3>1
  <2>2. last = {} /\ (i + 1)..e = {}
    BY <1>6, <2>1
  <2>3. Ends(t, i, 6) = {} /\ Ends(t, i, 7) = {} /\ Ends(t, i, 8) = {}
    BY <1>7, <1>8, <1>9, <2>2
  <2> QED
    BY <1>10, <1>11, <1>12, <2>3 DEF Same
<1>13. CASE t[i] \in White /\ last # {}
  <2>1. last \in SUBSET (0..(n + 1)) /\ n + 1 \in Nat
    BY <1>1, <1>4, <1>6
  <2>2. PICK g \in last : \A y \in last : g >= y
    BY <1>13, <2>1, GreatestExists
  <2>3. last \in SUBSET Int /\ g \in Nat
    BY <2>1
  <2>4. Greatest(last) = g
    BY <2>2, <2>3, GreatestIs
  <2>5. g + 1 \in Ends(t, i, 6) /\ Ends(t, i, 6) \in SUBSET Int
    BY <1>7, <2>3
  <2>6. \A y \in Ends(t, i, 6) : g + 1 >= y
    BY <1>7, <2>2, <2>3
  <2>7. Greatest(Ends(t, i, 6)) = g + 1
    BY <2>5, <2>6, GreatestIs
  <2>8. Whitespace(t, i) = g + 1 /\ g + 1 # None
    BY <1>10, <1>13, <2>3, <2>4 DEF None
  <2>9. 6 \in 6..8 /\ \A c \in 6..(6 - 1) : FALSE
    OBVIOUS
  <2> QED
    BY <2>5, <2>7, <2>8, <2>9 DEF Same
<1>14. CASE t[i] \in White /\ last = {} /\ e <= n /\ e - i > 1
  <2>1. Ends(t, i, 6) = {}
    BY <1>7, <1>14
  <2>2. Ends(t, i, 7) = (i + 1)..(e - 1)
    <3>1. ASSUME NEW j \in (i + 1)..e
          PROVE  (j > n \/ t[j] \in White) <=> j <= e - 1
      <4>1. j = e \/ j \in i..(e - 1)
        BY <1>4
      <4> QED
        BY <1>1, <1>4, <1>14, <4>1
    <3>2. \A j : j \in Ends(t, i, 7) <=> j \in (i + 1)..e /\ j <= e - 1
      BY <1>8, <3>1
    <3>3. \A j : j \in (i + 1)..(e - 1) <=> j \in (i + 1)..e /\ j <= e - 1
      BY <1>4
    <3> QED
      BY <3>2, <3>3
  <2>3. i + 1 <= e - 1 /\ e - 1 \in Int /\ i + 1 \in Int
    BY <1>4, <1>14
  <2>4. Ends(t, i, 7) # {} /\ Greatest(Ends(t, i, 7)) = e - 1
    BY <2>2, <2>3, GreatestOf
  <2>5. Whitespace(t, i) = e - 1 /\ e - 1 # None
    BY <1>10, <1>14, <2>3 DEF None
  <2>6. 7 \in 6..8 /\ \A c \in 6..(7 - 1) : c = 6
    OBVIOUS
  <2> QED
    BY <2>1, <2>4, <2>5, <2>6 DEF Same
<1>15. CASE t[i] \in White /\ last = {} /\ ~(e <= n /\ e - i > 1)
  <2>1. Ends(t, i, 6) = {}
    BY <1>7, <1>15
  <2>2. e >= i + 1 /\ e \in Int /\ i + 1 \in Int
    <3>1. e = i => e < n + 1
      BY <1>1, <1>4
    <3> QED
      BY <1>4, <1>15, <3>1
  <2>3. (i + 1)..e # {} /\ Greatest((i + 1)..e) = e
    BY <2>2, GreatestOf
  <2>4. Whitespace(t, i) = e /\ e # None
    BY <1>10, <1>15, <2>2 DEF None
  <2>5. CASE e = n + 1
    <3>1. Ends(t, i, 7) = (i + 1)..e
      <4>1. ASSUME NEW j \in (i + 1)..e
            PROVE  j > n \/ t[j] \in White
        <5>1. j = e \/ j \in i..(e - 1)
          BY <1>4
        <5> QED
          BY <1>1, <1>4, <2>5, <5>1
      <4> QED
        BY <1>8, <4>1
    <3>2. 7 \in 6..8 /\ \A c \in 6..(7 - 1) : c = 6
      OBVIOUS
    <3> QED
      BY <2>1, <2>3, <2>4, <3>1, <3>2 DEF Same
  <2>6. CASE e # n + 1
    <3>1. e <= n /\ e = i + 1
      BY <1>1, <1>4, <1>15, <2>2, <2>6
    <3>2. Ends(t, i, 7) = {}
      <4>1. \A j \in (i + 1)..e : j = e
        BY <3>1
      <4>2. ~(e > n) /\ t[e] \notin White
        BY <1>1, <1>4, <3>1
      <4> QED
        BY <1>8, <4>1, <4>2
    <3>3. 8 \in 6..8 /\ \A c \in 6..(8 - 1) : c = 6 \/ c = 7
      OBVIOUS
    <3> QED
      BY <1>9, <2>1, <2>3, <2>4, <3>2, <3>3 DEF Same
  <2> QED
    BY <2>5, <2>6
<1> QED
  BY <1>12, <1>13, <1>14, <1>15

-----------------------------------------------------------------------------
(* The rules in their order.                                               *)

\* The regular expression takes what the first branch that matches takes.
LEMMA RegexTakes ==
  ASSUME NEW t, NEW i, NEW b \in 1..8, Ends(t, i, b) # {}, \A c \in 1..(b - 1) : Ends(t, i, c) = {}
  PROVE  RegexNext(t, i) = Greatest(Ends(t, i, b))
<1>1. PICK hits : hits = {c \in DOMAIN Branches : Ends(t, i, c) # {}}
  OBVIOUS
<1>2. b \in hits /\ hits \in SUBSET Int
  BY <1>1, BranchList
<1>3. \A c \in hits : b <= c
  BY <1>1, BranchList
<1>4. Least(hits) = b
  BY <1>2, <1>3, LeastIs
<1> QED
  BY <1>1, <1>2, <1>4 DEF RegexNext

\* A rule that answers, when those before it do not and their branches match nothing.
LEMMA SameTakes ==
  ASSUME NEW t, NEW i, NEW answer, NEW first \in 1..8, NEW last \in first..8,
         Same(t, i, answer, first, last), answer # None,
         \A c \in 1..(first - 1) : Ends(t, i, c) = {}
  PROVE  RegexNext(t, i) = answer
<1>1. PICK b \in first..last : /\ Ends(t, i, b) # {}
                               /\ \A c \in first..(b - 1) : Ends(t, i, c) = {}
                               /\ Greatest(Ends(t, i, b)) = answer
  BY DEF Same
<1>2. ASSUME NEW c \in 1..(b - 1)
      PROVE  Ends(t, i, c) = {}
  <2>1. c \in 1..(first - 1) \/ c \in first..(b - 1)
    OBVIOUS
  <2> QED
    BY <1>1, <2>1
<1> QED
  BY <1>1, <1>2, RegexTakes

\* The pre-tokeniser takes what the first rule that answers takes.
Answers(t, i) ==
    <<Contraction(t, i), Word(t, i), Number(t, i), Punctuation(t, i), Whitespace(t, i)>>

LEMMA PretokTakes ==
  ASSUME NEW t, NEW i, NEW k \in 1..5, Answers(t, i)[k] # None,
         \A c \in 1..(k - 1) : Answers(t, i)[c] = None
  PROVE  PretokNext(t, i) = Answers(t, i)[k]
<1>1. PICK tried : tried = Answers(t, i)
  OBVIOUS
<1>2. DOMAIN tried = 1..5
  BY <1>1 DEF Answers
<1>3. PICK hits : hits = {c \in DOMAIN tried : tried[c] # None}
  OBVIOUS
<1>4. k \in hits /\ hits \in SUBSET Int
  BY <1>1, <1>2, <1>3
<1>5. \A c \in hits : k <= c
  BY <1>1, <1>2, <1>3
<1>6. Least(hits) = k
  BY <1>4, <1>5, LeastIs
<1> QED
  BY <1>1, <1>3, <1>4, <1>6 DEF PretokNext, Answers

LEMMA PretokIsRegex ==
  ASSUME NEW t \in Seq(Chars), NEW i \in 1..Len(t)
  PROVE  PretokNext(t, i) = RegexNext(t, i)
<1>1. PICK ans : ans = Answers(t, i)
  OBVIOUS
<1>2. /\ ans[1] = Contraction(t, i) /\ ans[2] = Word(t, i) /\ ans[3] = Number(t, i)
      /\ ans[4] = Punctuation(t, i) /\ ans[5] = Whitespace(t, i)
  BY <1>1 DEF Answers
<1>3. /\ Same(t, i, ans[1], 1, 2) /\ Same(t, i, ans[2], 3, 3) /\ Same(t, i, ans[3], 4, 4)
      /\ Same(t, i, ans[4], 5, 5) /\ Same(t, i, ans[5], 6, 8)
  BY <1>2, ContractionSame, WordSame, NumberSame, PunctuationSame, WhitespaceSame
<1>4. /\ ans[1] = None => \A c \in 1..2 : Ends(t, i, c) = {}
      /\ ans[2] = None => \A c \in 3..3 : Ends(t, i, c) = {}
      /\ ans[3] = None => \A c \in 4..4 : Ends(t, i, c) = {}
      /\ ans[4] = None => \A c \in 5..5 : Ends(t, i, c) = {}
      /\ ans[5] = None => \A c \in 6..8 : Ends(t, i, c) = {}
  BY <1>3 DEF Same
<1>5. CASE ans[1] # None
  <2>1. PretokNext(t, i) = ans[1]
    <3>1. 1 \in 1..5 /\ \A c \in 1..(1 - 1) : ans[c] = None
      OBVIOUS
    <3> QED
      BY <1>1, <1>5, <3>1, PretokTakes
  <2>2. RegexNext(t, i) = ans[1]
    <3>1. 1 \in 1..8 /\ 2 \in 1..8 /\ \A c \in 1..(1 - 1) : Ends(t, i, c) = {}
      OBVIOUS
    <3> QED
      BY <1>3, <1>5, <3>1, SameTakes
  <2> QED
    BY <2>1, <2>2
<1>6. CASE ans[1] = None /\ ans[2] # None
  <2>1. PretokNext(t, i) = ans[2]
    <3>1. 2 \in 1..5 /\ \A c \in 1..(2 - 1) : ans[c] = None
      BY <1>6
    <3> QED
      BY <1>1, <1>6, <3>1, PretokTakes
  <2>2. RegexNext(t, i) = ans[2]
    <3>1. 3 \in 1..8 /\ 3 \in 3..8 /\ \A c \in 1..(3 - 1) : Ends(t, i, c) = {}
      BY <1>4, <1>6
    <3> QED
      BY <1>3, <1>6, <3>1, SameTakes
  <2> QED
    BY <2>1, <2>2
<1>7. CASE ans[1] = None /\ ans[2] = None /\ ans[3] # None
  <2>1. PretokNext(t, i) = ans[3]
    <3>1. 3 \in 1..5 /\ \A c \in 1..(3 - 1) : ans[c] = None
      BY <1>7
    <3> QED
      BY <1>1, <1>7, <3>1, PretokTakes
  <2>2. RegexNext(t, i) = ans[3]
    <3>1. 4 \in 1..8 /\ 4 \in 4..8 /\ \A c \in 1..(4 - 1) : Ends(t, i, c) = {}
      BY <1>4, <1>7
    <3> QED
      BY <1>3, <1>7, <3>1, SameTakes
  <2> QED
    BY <2>1, <2>2
<1>8. CASE ans[1] = None /\ ans[2] = None /\ ans[3] = None /\ ans[4] # None
  <2>1. PretokNext(t, i) = ans[4]
    <3>1. 4 \in 1..5 /\ \A c \in 1..(4 - 1) : ans[c] = None
      BY <1>8
    <3> QED
      BY <1>1, <1>8, <3>1, PretokTakes
  <2>2. RegexNext(t, i) = ans[4]
    <3>1. 5 \in 1..8 /\ 5 \in 5..8 /\ \A c \in 1..(5 - 1) : Ends(t, i, c) = {}
      BY <1>4, <1>8
    <3> QED
      BY <1>3, <1>8, <3>1, SameTakes
  <2> QED
    BY <2>1, <2>2
<1>9. CASE \A c \in 1..4 : ans[c] = None
  <2>1. \A c \in 1..5 : Ends(t, i, c) = {}
    BY <1>4, <1>9
  <2>2. CASE ans[5] # None
    <3>1. PretokNext(t, i) = ans[5]
      <4>1. 5 \in 1..5 /\ \A c \in 1..(5 - 1) : ans[c] = None
        BY <1>9
      <4> QED
        BY <1>1, <2>2, <4>1, PretokTakes
    <3>2. RegexNext(t, i) = ans[5]
      <4>1. 6 \in 1..8 /\ 8 \in 6..8 /\ \A c \in 1..(6 - 1) : Ends(t, i, c) = {}
        BY <2>1
      <4> QED
        BY <1>3, <2>2, <4>1, SameTakes
    <3> QED
      BY <3>1, <3>2
  <2>3. CASE ans[5] = None
    <3>1. \A c \in 1..8 : Ends(t, i, c) = {}
      BY <1>4, <2>1, <2>3
    <3>2. {b \in DOMAIN Branches : Ends(t, i, b) # {}} = {}
      BY <3>1, BranchList
    <3>3. RegexNext(t, i) = i + 1
      BY <3>2 DEF RegexNext
    <3>4. {k \in DOMAIN ans : ans[k] # None} = {}
      <4>1. DOMAIN ans = 1..5
        BY <1>1 DEF Answers
      <4> QED
        BY <1>9, <2>3, <4>1
    <3>5. PretokNext(t, i) = i + 1
      BY <1>1, <3>4 DEF PretokNext, Answers
    <3> QED
      BY <3>3, <3>5
  <2> QED
    BY <1>1, <2>2, <2>3
<1> QED
  BY <1>5, <1>6, <1>7, <1>8, <1>9

\* For every text: whatever place of it a word begins at, it is cut where the
\* regular expression cuts it (pretok_next).
THEOREM PretokAlwaysLikeRegex == Spec => []PretokLikeRegex
<1>1. AskedGiven => PretokLikeRegex
  <2> SUFFICES ASSUME AskedGiven, asked.kind = "cut", NEW i \in DOMAIN asked.text
               PROVE  PretokNext(asked.text, i) = RegexNext(asked.text, i)
    BY DEF PretokLikeRegex
  <2>1. PICK t : t = asked.text
    OBVIOUS
  <2>2. t \in Seq(Chars)
    BY <2>1, TextAssumption DEF AskedGiven
  <2>3. i \in 1..Len(t)
    BY <2>1, <2>2
  <2> QED
    BY <2>1, <2>2, <2>3, PretokIsRegex
<1> QED
  BY <1>1, AlwaysGiven, PTL

-----------------------------------------------------------------------------
(* A register stream: its parts, and what each writes.                     *)

WordsOf(s) == {s[i] : i \in DOMAIN s}
\* No register is written twice but 0x1038.
WrittenOnce(s) == \A i, j \in DOMAIN s : s[i][2] = s[j][2] => i = j \/ s[i][2] = "1038"
Run(s, regs) == s \in Seq(WordsOf(s)) /\ Registers(s) \subseteq regs /\ WrittenOnce(s)

PointerRegs == {"1004", "3004", "1038", "4004", "5004"}
FetchRegs == {"100c", "1018", "101c", "1020", "1024", "1028", "102c", "1030", "1034"}
CbufRegs == {"1038", "103c", "1040", "1044"}
FeatureRegs == {"1078", "107c", "1088", "1090", "1094", "1098", "1110", "118c"}
BlockRegs == {"2818", "2820"}
CoreRegs == {"3018", "301c", "3020"}
OutputRegs == {"4010", "4018", "401c", "4020", "4024", "4028", "402c", "4030", "4034", "40ac"}
StepRegs == {"40b8"}
CoefRegs == {"5010", "5014", "5020", "5024"}
EnableRegs == {"1008", "3008", "4008", "5008"}

LEMMA PointersRun == ASSUME NEW job PROVE Run(Pointers(job), PointerRegs)
<1>1. Pointers(job) \in Seq(WordsOf(Pointers(job)))
  BY DEF Pointers, WordsOf
<1>2. Registers(Pointers(job)) \subseteq PointerRegs
  BY DEF Pointers, Registers, PointerRegs
<1>3. WrittenOnce(Pointers(job))
  BY DEF Pointers, WrittenOnce
<1> QED
  BY <1>1, <1>2, <1>3 DEF Run

LEMMA FetchRun == ASSUME NEW job PROVE Run(Fetch(job), FetchRegs)
<1>1. Fetch(job) \in Seq(WordsOf(Fetch(job)))
  BY DEF Fetch, WordsOf
<1>2. Registers(Fetch(job)) \subseteq FetchRegs
  BY DEF Fetch, Registers, FetchRegs
<1>3. WrittenOnce(Fetch(job))
  BY DEF Fetch, WrittenOnce
<1> QED
  BY <1>1, <1>2, <1>3 DEF Run

LEMMA CbufRun == ASSUME NEW job PROVE Run(Cbuf(job), CbufRegs)
<1>1. Cbuf(job) \in Seq(WordsOf(Cbuf(job)))
  BY DEF Cbuf, WordsOf
<1>2. Registers(Cbuf(job)) \subseteq CbufRegs
  BY DEF Cbuf, Registers, CbufRegs
<1>3. WrittenOnce(Cbuf(job))
  BY DEF Cbuf, WrittenOnce
<1> QED
  BY <1>1, <1>2, <1>3 DEF Run

LEMMA FeatureRun == ASSUME NEW job PROVE Run(Feature(job), FeatureRegs)
<1>1. Feature(job) \in Seq(WordsOf(Feature(job)))
  BY DEF Feature, WordsOf
<1>2. Registers(Feature(job)) \subseteq FeatureRegs
  BY DEF Feature, Registers, FeatureRegs
<1>3. WrittenOnce(Feature(job))
  BY DEF Feature, WrittenOnce
<1> QED
  BY <1>1, <1>2, <1>3 DEF Run

LEMMA BlockRun == ASSUME NEW job PROVE Run(WindowBlock(job), BlockRegs)
<1>1. CASE job.mm.w = "int8"
  <2>1. WindowBlock(job) = <<>>
    BY <1>1 DEF WindowBlock
  <2>2. <<>> \in Seq(WordsOf(<<>>)) /\ Registers(<<>>) \subseteq BlockRegs /\ WrittenOnce(<<>>)
    BY DEF WordsOf, Registers, WrittenOnce
  <2> QED
    BY <2>1, <2>2 DEF Run
<1>2. CASE job.mm.w # "int8"
  <2>1. WindowBlock(job) \in Seq(WordsOf(WindowBlock(job)))
    BY <1>2 DEF WindowBlock, WordsOf
  <2>2. Registers(WindowBlock(job)) \subseteq BlockRegs
    BY <1>2 DEF WindowBlock, Registers, BlockRegs
  <2>3. WrittenOnce(WindowBlock(job))
    BY <1>2 DEF WindowBlock, WrittenOnce
  <2> QED
    BY <2>1, <2>2, <2>3 DEF Run
<1> QED
  BY <1>1, <1>2

CoreWords(x, y, z) == <<<<"CORE", "3018", x>>, <<"CORE", "301c", y>>, <<"CORE", "3020", z>>>>

LEMMA CoreRun == ASSUME NEW job PROVE Run(Core(job), CoreRegs)
<1> DEFINE x == IF job.mm.w = "int8" THEN "multiply bytes" ELSE "multiply halves"
           lines == (IF Wide(job) THEN Inw(job) ELSE Rows(job)) - 1
           y == IF Wide(job) THEN <<Rows(job) - 1, Inw(job) - 1>>
                ELSE IF job.mm.w = "int4" THEN <<0, lines>> ELSE <<lines, 0>>
           z == job.mm.n - 1
<1>1. Core(job) = CoreWords(x, y, z)
  BY DEF Core, CoreWords
<1> HIDE DEF x, y, z, lines
<1>2. CoreWords(x, y, z) \in Seq(WordsOf(CoreWords(x, y, z)))
  BY DEF CoreWords, WordsOf
<1>3. Registers(CoreWords(x, y, z)) \subseteq CoreRegs
  BY DEF CoreWords, Registers, CoreRegs
<1>4. WrittenOnce(CoreWords(x, y, z))
  BY DEF CoreWords, WrittenOnce
<1> QED
  BY <1>1, <1>2, <1>3, <1>4 DEF Run

LEMMA OutputRun == ASSUME NEW job PROVE Run(Output(job), OutputRegs)
<1>1. Output(job) \in Seq(WordsOf(Output(job)))
  BY DEF Output, WordsOf
<1>2. Registers(Output(job)) \subseteq OutputRegs
  BY DEF Output, Registers, OutputRegs
<1>3. WrittenOnce(Output(job))
  BY DEF Output, WrittenOnce
<1> QED
  BY <1>1, <1>2, <1>3 DEF Run

LEMMA StepRun == ASSUME NEW job PROVE Run(SurfaceStep(job), StepRegs)
<1>1. SurfaceStep(job) \in Seq(WordsOf(SurfaceStep(job)))
  BY DEF SurfaceStep, WordsOf
<1>2. Registers(SurfaceStep(job)) \subseteq StepRegs
  BY DEF SurfaceStep, Registers, StepRegs
<1>3. WrittenOnce(SurfaceStep(job))
  BY DEF SurfaceStep, WrittenOnce
<1> QED
  BY <1>1, <1>2, <1>3 DEF Run

LEMMA CoefRun == ASSUME NEW job PROVE Run(Coefficients(job), CoefRegs)
<1>1. Coefficients(job) \in Seq(WordsOf(Coefficients(job)))
  BY DEF Coefficients, WordsOf
<1>2. Registers(Coefficients(job)) \subseteq CoefRegs
  BY DEF Coefficients, Registers, CoefRegs
<1>3. WrittenOnce(Coefficients(job))
  BY DEF Coefficients, WrittenOnce
<1> QED
  BY <1>1, <1>2, <1>3 DEF Run

LEMMA EnableRun ==
  /\ Run(Enable, EnableRegs) /\ Registers(Enable) = EnableRegs /\ Len(Enable) = 4
  /\ Enable[1][2] = "1008"
<1>1. Enable \in Seq(WordsOf(Enable))
  BY DEF Enable, WordsOf
<1>2. Registers(Enable) = EnableRegs
  BY DEF Enable, Registers, EnableRegs
<1>3. WrittenOnce(Enable)
  BY DEF Enable, WrittenOnce
<1>4. Len(Enable) = 4 /\ Enable[1][2] = "1008"
  BY DEF Enable
<1> QED
  BY <1>1, <1>2, <1>3, <1>4 DEF Run

\* One stream after another.
Joined(a, b, s) ==
    /\ Len(s) = Len(a) + Len(b)
    /\ \A i \in 1..Len(a) : s[i] = a[i]
    /\ \A i \in 1..Len(b) : s[Len(a) + i] = b[i]
    /\ WordsOf(s) = WordsOf(a) \cup WordsOf(b)

LEMMA JoinRuns ==
  ASSUME NEW a, NEW b, NEW A, NEW B, Run(a, A), Run(b, B), A \cap B \subseteq {"1038"}
  PROVE  Run(a \o b, A \cup B) /\ Joined(a, b, a \o b)
<1>1. PICK X : X = WordsOf(a) \cup WordsOf(b)
  OBVIOUS
<1>2. a \in Seq(X) /\ b \in Seq(X)
  BY <1>1 DEF Run
<1>3. PICK s : s = a \o b
  OBVIOUS
<1>4. PICK n \in Nat, m \in Nat : n = Len(a) /\ m = Len(b)
  BY <1>2
<1>5. s \in Seq(X) /\ Len(s) = n + m
  BY <1>2, <1>3, <1>4
<1>6. \A i \in 1..n : s[i] = a[i]
  BY <1>2, <1>3, <1>4
<1>7. \A i \in 1..m : s[n + i] = b[i]
  <2> SUFFICES ASSUME NEW i \in 1..m
               PROVE  s[n + i] = b[i]
    OBVIOUS
  <2>1. n + i \in 1..(n + m) /\ n + i > n /\ (n + i) - n = i
    OBVIOUS
  <2> QED
    BY <1>2, <1>3, <1>4, <2>1
<1>8. \A i \in 1..(n + m) : i \in 1..n \/ \E j \in 1..m : i = n + j
  <2> SUFFICES ASSUME NEW i \in 1..(n + m), i \notin 1..n
               PROVE  \E j \in 1..m : i = n + j
    OBVIOUS
  <2>1. i - n \in 1..m /\ i = n + (i - n)
    OBVIOUS
  <2> QED
    BY <2>1
<1>9. DOMAIN s = 1..(n + m) /\ DOMAIN a = 1..n /\ DOMAIN b = 1..m
  BY <1>2, <1>4, <1>5
<1>10. WordsOf(s) = WordsOf(a) \cup WordsOf(b)
  <2>1. ASSUME NEW w \in WordsOf(s)
        PROVE  w \in WordsOf(a) \cup WordsOf(b)
    <3>1. PICK i \in 1..(n + m) : w = s[i]
      BY <1>9 DEF WordsOf
    <3>2. CASE i \in 1..n
      BY <1>6, <1>9, <3>1, <3>2 DEF WordsOf
    <3>3. CASE \E j \in 1..m : i = n + j
      <4>1. PICK j \in 1..m : i = n + j
        BY <3>3
      <4>2. w = b[j]
        BY <1>7, <3>1, <4>1
      <4> QED
        BY <1>9, <4>2 DEF WordsOf
    <3> QED
      BY <1>8, <3>2, <3>3
  <2>2. ASSUME NEW w \in WordsOf(a) \cup WordsOf(b)
        PROVE  w \in WordsOf(s)
    <3>1. CASE w \in WordsOf(a)
      <4>1. PICK i \in 1..n : w = a[i]
        BY <1>9, <3>1 DEF WordsOf
      <4>2. i \in 1..(n + m) /\ w = s[i]
        BY <1>6, <4>1
      <4> QED
        BY <1>9, <4>2 DEF WordsOf
    <3>2. CASE w \in WordsOf(b)
      <4>1. PICK i \in 1..m : w = b[i]
        BY <1>9, <3>2 DEF WordsOf
      <4>2. n + i \in 1..(n + m) /\ w = s[n + i]
        BY <1>7, <4>1
      <4> QED
        BY <1>9, <4>2 DEF WordsOf
    <3> QED
      BY <3>1, <3>2
  <2> QED
    BY <2>1, <2>2
<1>11. s \in Seq(WordsOf(s))
  BY <1>1, <1>5, <1>10
<1>12. /\ \A i \in 1..n : a[i][2] \in A
       /\ \A i \in 1..m : b[i][2] \in B
  BY <1>9 DEF Run, Registers
<1>13. Registers(s) \subseteq A \cup B
  <2>1. ASSUME NEW i \in 1..(n + m)
        PROVE  s[i][2] \in A \cup B
    <3>1. CASE i \in 1..n
      BY <1>6, <1>12, <3>1
    <3>2. CASE \E j \in 1..m : i = n + j
      BY <1>7, <1>12, <3>2
    <3> QED
      BY <1>8, <3>1, <3>2
  <2> QED
    BY <1>9, <2>1 DEF Registers
<1>14. WrittenOnce(s)
  <2> SUFFICES ASSUME NEW i \in 1..(n + m), NEW j \in 1..(n + m), s[i][2] = s[j][2], s[i][2] # "1038"
               PROVE  i = j
    BY <1>9 DEF WrittenOnce
  <2>1. CASE i \in 1..n /\ j \in 1..n
    BY <1>6, <1>9, <2>1 DEF Run, WrittenOnce
  <2>2. CASE i \in 1..n /\ j \notin 1..n
    <3>1. PICK y \in 1..m : j = n + y
      BY <1>8, <2>2
    <3>2. s[i][2] \in A /\ s[j][2] \in B
      BY <1>6, <1>7, <1>12, <2>2, <3>1
    <3> QED
      BY <3>2
  <2>3. CASE i \notin 1..n /\ j \in 1..n
    <3>1. PICK x \in 1..m : i = n + x
      BY <1>8, <2>3
    <3>2. s[i][2] \in B /\ s[j][2] \in A
      BY <1>6, <1>7, <1>12, <2>3, <3>1
    <3> QED
      BY <3>2
  <2>4. CASE i \notin 1..n /\ j \notin 1..n
    <3>1. PICK x \in 1..m : i = n + x
      BY <1>8, <2>4
    <3>2. PICK y \in 1..m : j = n + y
      BY <1>8, <2>4
    <3>3. b[x][2] = b[y][2] /\ b[x][2] # "1038"
      BY <1>7, <3>1, <3>2
    <3>4. x = y
      BY <1>9, <3>3 DEF Run, WrittenOnce
    <3> QED
      BY <3>1, <3>2, <3>4
  <2> QED
    BY <2>1, <2>2, <2>3, <2>4
<1> QED
  BY <1>3, <1>4, <1>5, <1>6, <1>7, <1>10, <1>11, <1>13, <1>14 DEF Run, Joined

-----------------------------------------------------------------------------
(* The stream of a job: ten parts, and the enables last.                   *)

Upto2(job) == Pointers(job) \o Fetch(job)
Upto3(job) == Upto2(job) \o Cbuf(job)
Upto4(job) == Upto3(job) \o Feature(job)
Upto5(job) == Upto4(job) \o WindowBlock(job)
Upto6(job) == Upto5(job) \o Core(job)
Upto7(job) == Upto6(job) \o Output(job)
Upto8(job) == Upto7(job) \o SurfaceStep(job)
Body(job) == Upto8(job) \o Coefficients(job)

Regs2 == PointerRegs \cup FetchRegs
Regs3 == Regs2 \cup CbufRegs
Regs4 == Regs3 \cup FeatureRegs
Regs5 == Regs4 \cup BlockRegs
Regs6 == Regs5 \cup CoreRegs
Regs7 == Regs6 \cup OutputRegs
Regs8 == Regs7 \cup StepRegs
BodyRegs == Regs8 \cup CoefRegs

Stacked(job) ==
    /\ Joined(Pointers(job), Fetch(job), Upto2(job))
    /\ Joined(Upto2(job), Cbuf(job), Upto3(job))
    /\ Joined(Upto3(job), Feature(job), Upto4(job))
    /\ Joined(Upto4(job), WindowBlock(job), Upto5(job))
    /\ Joined(Upto5(job), Core(job), Upto6(job))
    /\ Joined(Upto6(job), Output(job), Upto7(job))
    /\ Joined(Upto7(job), SurfaceStep(job), Upto8(job))
    /\ Joined(Upto8(job), Coefficients(job), Body(job))
    /\ Joined(Body(job), Enable, Stream(job))

LEMMA RegistersApart ==
  /\ PointerRegs \cap FetchRegs \subseteq {"1038"} /\ Regs2 \cap CbufRegs \subseteq {"1038"}
  /\ Regs3 \cap FeatureRegs \subseteq {"1038"} /\ Regs4 \cap BlockRegs \subseteq {"1038"}
  /\ Regs5 \cap CoreRegs \subseteq {"1038"} /\ Regs6 \cap OutputRegs \subseteq {"1038"}
  /\ Regs7 \cap StepRegs \subseteq {"1038"} /\ Regs8 \cap CoefRegs \subseteq {"1038"}
  /\ BodyRegs \cap EnableRegs = {}
<1>1. PointerRegs \cap FetchRegs \subseteq {"1038"}
  BY DEF PointerRegs, FetchRegs
<1>2. Regs2 \cap CbufRegs \subseteq {"1038"}
  BY DEF Regs2, PointerRegs, FetchRegs, CbufRegs
<1>3. Regs3 \cap FeatureRegs = {}
  BY DEF Regs3, Regs2, PointerRegs, FetchRegs, CbufRegs, FeatureRegs
<1>4. Regs4 \cap BlockRegs = {}
  BY DEF Regs4, Regs3, Regs2, PointerRegs, FetchRegs, CbufRegs, FeatureRegs, BlockRegs
<1>5. Regs5 \cap CoreRegs = {}
  BY DEF Regs5, Regs4, Regs3, Regs2, PointerRegs, FetchRegs, CbufRegs, FeatureRegs, BlockRegs,
         CoreRegs
<1>6. Regs6 \cap OutputRegs = {}
  BY DEF Regs6, Regs5, Regs4, Regs3, Regs2, PointerRegs, FetchRegs, CbufRegs, FeatureRegs,
         BlockRegs, CoreRegs, OutputRegs
<1>7. Regs7 \cap StepRegs = {}
  BY DEF Regs7, Regs6, Regs5, Regs4, Regs3, Regs2, PointerRegs, FetchRegs, CbufRegs, FeatureRegs,
         BlockRegs, CoreRegs, OutputRegs, StepRegs
<1>8. Regs8 \cap CoefRegs = {}
  BY DEF Regs8, Regs7, Regs6, Regs5, Regs4, Regs3, Regs2, PointerRegs, FetchRegs, CbufRegs,
         FeatureRegs, BlockRegs, CoreRegs, OutputRegs, StepRegs, CoefRegs
<1>9. BodyRegs \cap EnableRegs = {}
  BY DEF BodyRegs, Regs8, Regs7, Regs6, Regs5, Regs4, Regs3, Regs2, PointerRegs, FetchRegs,
         CbufRegs, FeatureRegs, BlockRegs, CoreRegs, OutputRegs, StepRegs, CoefRegs, EnableRegs
<1> QED
  BY <1>1, <1>2, <1>3, <1>4, <1>5, <1>6, <1>7, <1>8, <1>9

LEMMA StreamStacked ==
  ASSUME NEW job
  PROVE  Stacked(job) /\ Run(Body(job), BodyRegs) /\ Run(Stream(job), BodyRegs \cup EnableRegs)
<1>1. Stream(job) = Body(job) \o Enable
  BY DEF Stream, Body, Upto8, Upto7, Upto6, Upto5, Upto4, Upto3, Upto2
<1>2. Run(Upto2(job), Regs2) /\ Joined(Pointers(job), Fetch(job), Upto2(job))
  BY PointersRun, FetchRun, JoinRuns, RegistersApart DEF Upto2, Regs2
<1>3. Run(Upto3(job), Regs3) /\ Joined(Upto2(job), Cbuf(job), Upto3(job))
  BY <1>2, CbufRun, JoinRuns, RegistersApart DEF Upto3, Regs3
<1>4. Run(Upto4(job), Regs4) /\ Joined(Upto3(job), Feature(job), Upto4(job))
  BY <1>3, FeatureRun, JoinRuns, RegistersApart DEF Upto4, Regs4
<1>5. Run(Upto5(job), Regs5) /\ Joined(Upto4(job), WindowBlock(job), Upto5(job))
  BY <1>4, BlockRun, JoinRuns, RegistersApart DEF Upto5, Regs5
<1>6. Run(Upto6(job), Regs6) /\ Joined(Upto5(job), Core(job), Upto6(job))
  BY <1>5, CoreRun, JoinRuns, RegistersApart DEF Upto6, Regs6
<1>7. Run(Upto7(job), Regs7) /\ Joined(Upto6(job), Output(job), Upto7(job))
  BY <1>6, OutputRun, JoinRuns, RegistersApart DEF Upto7, Regs7
<1>8. Run(Upto8(job), Regs8) /\ Joined(Upto7(job), SurfaceStep(job), Upto8(job))
  BY <1>7, StepRun, JoinRuns, RegistersApart DEF Upto8, Regs8
<1>9. Run(Body(job), BodyRegs) /\ Joined(Upto8(job), Coefficients(job), Body(job))
  BY <1>8, CoefRun, JoinRuns, RegistersApart DEF Body, BodyRegs
<1>10. Run(Stream(job), BodyRegs \cup EnableRegs) /\ Joined(Body(job), Enable, Stream(job))
  <2>1. BodyRegs \cap EnableRegs \subseteq {"1038"}
    BY RegistersApart
  <2> QED
    BY <1>1, <1>9, <2>1, EnableRun, JoinRuns
<1> QED
  BY <1>2, <1>3, <1>4, <1>5, <1>6, <1>7, <1>8, <1>9, <1>10 DEF Stacked

\* What a part writes is in the stream.
LEMMA StreamWords ==
  ASSUME NEW job
  PROVE  /\ WordsOf(Fetch(job)) \subseteq WordsOf(Stream(job))
         /\ WordsOf(Cbuf(job)) \subseteq WordsOf(Stream(job))
         /\ WordsOf(Feature(job)) \subseteq WordsOf(Stream(job))
         /\ WordsOf(Output(job)) \subseteq WordsOf(Stream(job))
<1>1. Stacked(job)
  BY StreamStacked
<1>2. /\ WordsOf(Fetch(job)) \subseteq WordsOf(Upto2(job))
      /\ WordsOf(Upto2(job)) \cup WordsOf(Cbuf(job)) = WordsOf(Upto3(job))
      /\ WordsOf(Upto3(job)) \cup WordsOf(Feature(job)) = WordsOf(Upto4(job))
      /\ WordsOf(Upto4(job)) \subseteq WordsOf(Upto5(job))
      /\ WordsOf(Upto5(job)) \subseteq WordsOf(Upto6(job))
      /\ WordsOf(Upto6(job)) \cup WordsOf(Output(job)) = WordsOf(Upto7(job))
      /\ WordsOf(Upto7(job)) \subseteq WordsOf(Upto8(job))
      /\ WordsOf(Upto8(job)) \subseteq WordsOf(Body(job))
      /\ WordsOf(Body(job)) \subseteq WordsOf(Stream(job))
  BY <1>1 DEF Stacked, Joined
<1>3. WordsOf(Upto7(job)) \subseteq WordsOf(Stream(job))
  BY <1>2
<1>4. WordsOf(Upto4(job)) \subseteq WordsOf(Stream(job))
  BY <1>2, <1>3
<1> QED
  BY <1>2, <1>3, <1>4

\* A register that is written once: where, and what it holds.
LEMMA ValueIs ==
  ASSUME NEW s, NEW R, Run(s, R), NEW w \in WordsOf(s), w[2] # "1038"
  PROVE  /\ ValueOf(s, w[2]) = w[3]
         /\ \E p \in DOMAIN s : s[p] = w /\ \A i \in DOMAIN s : s[i][2] = w[2] => i = p
<1>1. PICK p \in DOMAIN s : s[p] = w
  BY DEF WordsOf
<1>2. \A i \in DOMAIN s : s[i][2] = w[2] => i = p
  BY <1>1 DEF Run, WrittenOnce
<1>3. At(s, w[2]) = {p}
  BY <1>1, <1>2 DEF At
<1>4. DOMAIN s \subseteq Int
  BY DEF Run
<1>5. LastAt(s, w[2]) = p
  <2>1. PICK l : l = LastAt(s, w[2])
    OBVIOUS
  <2>2. p \in At(s, w[2]) /\ \A j \in At(s, w[2]) : p >= j
    BY <1>1, <1>3, <1>4
  <2>3. l \in At(s, w[2])
    BY <2>1, <2>2 DEF LastAt
  <2> QED
    BY <1>3, <2>1, <2>3
<1> QED
  BY <1>1, <1>2, <1>5 DEF ValueOf

-----------------------------------------------------------------------------
(* The CBUF windows.                                                       *)

LEMMA WindowValues ==
  ASSUME NEW job
  PROVE  /\ ValueOf(Stream(job), "1040")[1]
              = Start(job) + 4 * Bank + (IF Split(job) THEN Bank ELSE 0)
         /\ ValueOf(Stream(job), "1028")[1] = Surf(job) * Rows(job)
         /\ ValueOf(Stream(job), "1018")
              = Start(job) \div Bank + 4 + (IF Split(job) THEN 1 ELSE 0)
<1>1. PICK s : s = Stream(job)
  OBVIOUS
<1>2. Run(s, BodyRegs \cup EnableRegs)
  BY <1>1, StreamStacked
<1> DEFINE bound == Start(job) + 4 * Bank + (IF Split(job) THEN Bank ELSE 0)
           chosen == Start(job) \div Bank + 4 + (IF Split(job) THEN 1 ELSE 0)
           data == Surf(job) * Rows(job)
<1>3. <<"CNA", "1040", <<bound, Start(job)>>>> \in WordsOf(s)
  <2>1. Cbuf(job)[3] = <<"CNA", "1040", <<bound, Start(job)>>>> /\ 3 \in DOMAIN Cbuf(job)
    BY DEF Cbuf
  <2>2. Cbuf(job)[3] \in WordsOf(Cbuf(job))
    BY <2>1 DEF WordsOf
  <2> QED
    BY <1>1, <2>1, <2>2, StreamWords
<1>4. <<"CNA", "1018", chosen>> \in WordsOf(s)
  <2>1. Fetch(job)[2] = <<"CNA", "1018", chosen>> /\ 2 \in DOMAIN Fetch(job)
    BY DEF Fetch
  <2>2. Fetch(job)[2] \in WordsOf(Fetch(job))
    BY <2>1 DEF WordsOf
  <2> QED
    BY <1>1, <2>1, <2>2, StreamWords
<1>5. <<"CNA", "1028", <<data, KEff(job.mm) - 1>>>> \in WordsOf(s)
  <2>1. Fetch(job)[6] = <<"CNA", "1028", <<data, KEff(job.mm) - 1>>>> /\ 6 \in DOMAIN Fetch(job)
    BY DEF Fetch
  <2>2. Fetch(job)[6] \in WordsOf(Fetch(job))
    BY <2>1 DEF WordsOf
  <2> QED
    BY <1>1, <2>1, <2>2, StreamWords
<1> HIDE DEF bound, chosen, data
<1>6. ValueOf(s, "1040") = <<bound, Start(job)>>
  <2>1. PICK w : w = <<"CNA", "1040", <<bound, Start(job)>>>>
    OBVIOUS
  <2>2. w[2] = "1040" /\ w[3] = <<bound, Start(job)>>
    BY <2>1
  <2>3. ValueOf(s, w[2]) = w[3]
    BY <1>2, <1>3, <2>1, <2>2, ValueIs
  <2> QED
    BY <2>2, <2>3
<1>7. ValueOf(s, "1018") = chosen
  <2>1. PICK w : w = <<"CNA", "1018", chosen>>
    OBVIOUS
  <2>2. w[2] = "1018" /\ w[3] = chosen
    BY <2>1
  <2>3. ValueOf(s, w[2]) = w[3]
    BY <1>2, <1>4, <2>1, <2>2, ValueIs
  <2> QED
    BY <2>2, <2>3
<1>8. ValueOf(s, "1028") = <<data, KEff(job.mm) - 1>>
  <2>1. PICK w : w = <<"CNA", "1028", <<data, KEff(job.mm) - 1>>>>
    OBVIOUS
  <2>2. w[2] = "1028" /\ w[3] = <<data, KEff(job.mm) - 1>>
    BY <2>1
  <2>3. ValueOf(s, w[2]) = w[3]
    BY <1>2, <1>5, <2>1, <2>2, ValueIs
  <2> QED
    BY <2>2, <2>3
<1> QED
  BY <1>1, <1>6, <1>7, <1>8 DEF bound, chosen, data

\* A column of whole blocks of 32 takes no more entries than it has blocks.
LEMMA EntriesFit ==
  ASSUME NEW mm \in Matmuls, mm.k % 32 = 0
  PROVE  EntriesPerRow(mm) \in Nat /\ EntriesPerRow(mm) <= mm.k \div 32
<1>1. PICK q \in Nat : mm.k = 32 * q /\ mm.k \div 32 = q
  <2>1. mm.k \in Nat
    BY Extents
  <2>2. mm.k \div 32 \in Nat /\ mm.k = 32 * (mm.k \div 32)
    BY <2>1
  <2> QED
    BY <2>2
<1>2. PICK a \in {8, 16, 32} : a = FeatureAtom(EffectiveAtype(mm))
  BY DEF FeatureAtom, EffectiveAtype, Matmuls, Formats
<1>3. PICK atoms : atoms = (mm.k + a - 1) \div a
  OBVIOUS
<1>4. atoms \in Nat /\ atoms <= 4 * q
  <2>1. CASE a = 8
    BY <1>1, <1>3, <2>1
  <2>2. CASE a = 16
    BY <1>1, <1>3, <2>2
  <2>3. CASE a = 32
    BY <1>1, <1>3, <2>3
  <2> QED
    BY <2>1, <2>2, <2>3
<1>5. EntriesPerRow(mm) = atoms \div 4 + (IF atoms % 4 = 0 THEN 0 ELSE 1)
  BY <1>2, <1>3 DEF EntriesPerRow
<1> QED
  BY <1>1, <1>4, <1>5

LEMMA WindowsAreApart ==
  ASSUME NEW job \in StreamJobs, SurfaceAdmitted(job), Wide(job), WindowsMeant(job)
  PROVE  WindowsApart(job)
<1>1. PICK mm \in Matmuls : mm = job.mm
  BY DEF StreamJobs
<1>2. PICK m \in Nat : m = mm.m
  BY Extents
<1>3. PICK x \in Nat : x = EntriesPerRow(mm) /\ x <= mm.k \div 32
  BY <1>1, EntriesFit DEF WindowsMeant
<1>4. PICK d \in Nat : d = Surf(job) * Rows(job) /\ d <= 5120
  <2>1. AxisWide(job) /\ Inw(job) = m /\ Rows(job) = 1
    BY <1>1, <1>2 DEF Wide, Inw, Rows
  <2>2. PICK y \in Nat : y = x * m
    BY ProductNat
  <2>3. mm.k \div 32 \in Int /\ (mm.k \div 32) * m <= 5120
    <3>1. (mm.k \div 32) * m <= 5120
      BY <1>1, <1>2, <2>1 DEF SurfaceAdmitted
    <3>2. mm.k \in Nat
      BY Extents
    <3> QED
      BY <3>1, <3>2
  <2>4. x * m <= (mm.k \div 32) * m /\ (mm.k \div 32) * m \in Int
    BY <1>3, <2>3, ProductGrows
  <2>5. y <= 5120
    BY <2>2, <2>3, <2>4
  <2>6. Surf(job) * Rows(job) = y
    BY <1>1, <1>3, <2>1, <2>2 DEF Surf
  <2> QED
    BY <2>5, <2>6
<1>5. PICK split \in {0, 1} : split = IF Split(job) THEN 1 ELSE 0
  OBVIOUS
<1>6. d <= 4096 + 1024 * split
  BY <1>4, <1>5 DEF Split
<1>7. PICK S \in Nat : S = Start(job)
  BY DEF Start, Bank, WindowsMeant
<1>8. /\ ValueOf(Stream(job), "1040")[1] = S + 4096 + 1024 * split
      /\ ValueOf(Stream(job), "1028")[1] = d
      /\ ValueOf(Stream(job), "1018") = S \div 1024 + 4 + split
  BY <1>4, <1>5, <1>7, WindowValues DEF Bank
<1>9. job.window \in {0, 1} /\ W1Bank \in {7, 8}
  BY DEF StreamJobs, WindowsMeant
<1>10. Start([job EXCEPT !.window = 1]) = W1Bank * 1024
  BY DEF StreamJobs, Start, Bank
<1>11. CASE job.window = 0
  <2>1. S = 0 /\ EndBank(job) = 7
    BY <1>7, <1>11 DEF Start, EndBank
  <2> QED
    BY <1>5, <1>6, <1>7, <1>8, <1>9, <1>10, <2>1 DEF WindowsApart, Bank, Banks
<1>12. CASE job.window = 1
  <2>1. S = W1Bank * 1024 /\ EndBank(job) = 14
    BY <1>7, <1>9, <1>12 DEF Start, EndBank, Bank, Banks, Smaller
  <2>2. S \div 1024 = W1Bank
    BY <1>9, <2>1
  <2> QED
    BY <1>5, <1>6, <1>7, <1>8, <1>9, <1>12, <2>1, <2>2 DEF WindowsApart, Bank, Banks
<1> QED
  BY <1>9, <1>11, <1>12

-----------------------------------------------------------------------------
(* Patching the address of the weights.                                    *)

Hit(w) == w[1] = "CNA" /\ w[2] = "1110"
Rewrites(a, b, addr) ==
    /\ Len(a) = Len(b) /\ Len(a) \in Nat
    /\ \A i \in 1..Len(a) : b[i] = IF Hit(a[i]) THEN <<"CNA", "1110", addr>> ELSE a[i]

LEMMA RewriteJoin ==
  ASSUME NEW a1, NEW a2, NEW a, NEW b1, NEW b2, NEW b, NEW addr,
         Joined(a1, a2, a), Joined(b1, b2, b), Rewrites(a1, b1, addr), Rewrites(a2, b2, addr)
  PROVE  Rewrites(a, b, addr)
<1>1. PICK n \in Nat : n = Len(a1) /\ n = Len(b1)
  BY DEF Rewrites
<1>2. PICK m \in Nat : m = Len(a2) /\ m = Len(b2)
  BY DEF Rewrites
<1>3. Len(a) = n + m /\ Len(b) = n + m
  BY <1>1, <1>2 DEF Joined
<1>4. ASSUME NEW i \in 1..(n + m)
      PROVE  b[i] = IF Hit(a[i]) THEN <<"CNA", "1110", addr>> ELSE a[i]
  <2>1. CASE i \in 1..n
    <3>1. a[i] = a1[i] /\ b[i] = b1[i]
      BY <1>1, <2>1 DEF Joined
    <3>2. b1[i] = IF Hit(a1[i]) THEN <<"CNA", "1110", addr>> ELSE a1[i]
      BY <1>1, <2>1 DEF Rewrites
    <3> QED
      BY <3>1, <3>2
  <2>2. CASE i \notin 1..n
    <3>1. PICK j \in 1..m : i = n + j
      <4>1. i - n \in 1..m /\ i = n + (i - n)
        BY <2>2
      <4> QED
        BY <4>1
    <3>2. a[i] = a2[j] /\ b[i] = b2[j]
      BY <1>1, <1>2, <3>1 DEF Joined
    <3>3. b2[j] = IF Hit(a2[j]) THEN <<"CNA", "1110", addr>> ELSE a2[j]
      BY <1>2 DEF Rewrites
    <3> QED
      BY <3>2, <3>3
  <2> QED
    BY <2>1, <2>2
<1> QED
  BY <1>3, <1>4 DEF Rewrites

LEMMA RewriteSame ==
  ASSUME NEW a, NEW R, Run(a, R), "1110" \notin R, NEW b, b = a, NEW addr
  PROVE  Rewrites(a, b, addr)
<1>1. Len(a) \in Nat /\ DOMAIN a = 1..Len(a)
  BY DEF Run
<1>2. \A i \in 1..Len(a) : a[i][2] # "1110"
  BY <1>1 DEF Run, Registers
<1> QED
  BY <1>1, <1>2 DEF Rewrites, Hit

\* Only one part has the address, and it has it once.
LEMMA PartsPatched ==
  ASSUME NEW job \in StreamJobs, NEW addr \in Nat, NEW j, j = [job EXCEPT !.weight = addr]
  PROVE  /\ Pointers(j) = Pointers(job) /\ Fetch(j) = Fetch(job) /\ Cbuf(j) = Cbuf(job)
         /\ WindowBlock(j) = WindowBlock(job) /\ Core(j) = Core(job) /\ Output(j) = Output(job)
         /\ SurfaceStep(j) = SurfaceStep(job) /\ Coefficients(j) = Coefficients(job)
         /\ Rewrites(Feature(job), Feature(j), addr)
<1>1. /\ j.mm = job.mm /\ j.window = job.window /\ j.axis = job.axis /\ j.accOut = job.accOut
      /\ j.in = job.in /\ j.out = job.out /\ j.coef = job.coef /\ j.weight = addr
  BY DEF StreamJobs
<1>2. /\ Wide(j) = Wide(job) /\ Start(j) = Start(job) /\ EndBank(j) = EndBank(job)
  BY <1>1 DEF Wide, AxisWide, Start, EndBank
<1>3. Inw(j) = Inw(job) /\ Rows(j) = Rows(job)
  BY <1>1, <1>2 DEF Inw, Rows
<1>4. Surf(j) = Surf(job)
  BY <1>1, <1>3 DEF Surf
<1>5. Split(j) = Split(job)
  BY <1>2, <1>3, <1>4 DEF Split
<1>6. Pointers(j) = Pointers(job)
  BY <1>2 DEF Pointers
<1>7. Fetch(j) = Fetch(job)
  BY <1>1, <1>2, <1>3, <1>4, <1>5, Zenon DEF Fetch
<1>8. Cbuf(j) = Cbuf(job)
  BY <1>2, <1>3, <1>4, <1>5, Zenon DEF Cbuf
<1>9. WindowBlock(j) = WindowBlock(job)
  BY <1>1, <1>2, Zenon DEF WindowBlock
<1>10. Core(j) = Core(job)
  BY <1>1, <1>2, <1>3, Zenon DEF Core
<1>11. Output(j) = Output(job)
  BY <1>1, <1>2, <1>3 DEF Output
<1>14. SurfaceStep(j) = SurfaceStep(job)
  BY <1>1, <1>2, <1>3 DEF SurfaceStep
<1>15. Coefficients(j) = Coefficients(job)
  BY <1>1, <1>2, <1>3 DEF Coefficients
<1>13. Rewrites(Feature(job), Feature(j), addr)
  <2>1. Len(Feature(job)) = 8 /\ Len(Feature(j)) = 8
    BY DEF Feature
  <2>2. Feature(j)[7] = <<"CNA", "1110", addr>> /\ Hit(Feature(job)[7])
    BY <1>1 DEF Feature, Hit
  <2>3. \A i \in 1..8 : i # 7 => Feature(j)[i] = Feature(job)[i] /\ ~Hit(Feature(job)[i])
    BY <1>1, <1>2, <1>3 DEF Feature, Hit
  <2> QED
    BY <2>1, <2>2, <2>3 DEF Rewrites
<1> QED
  BY <1>6, <1>7, <1>8, <1>9, <1>10, <1>11, <1>13, <1>14, <1>15

LEMMA IsPatched ==
  ASSUME NEW job \in StreamJobs, NEW addr \in Nat
  PROVE  Patched(job, addr)
<1>1. PICK j : j = [job EXCEPT !.weight = addr]
  OBVIOUS
<1>2. Stacked(job) /\ Stacked(j)
  BY StreamStacked
<1>3. Rewrites(Feature(job), Feature(j), addr)
  BY <1>1, PartsPatched
<1>4. /\ Rewrites(Pointers(job), Pointers(j), addr) /\ Rewrites(Fetch(job), Fetch(j), addr)
      /\ Rewrites(Cbuf(job), Cbuf(j), addr)
  <2>1. "1110" \notin PointerRegs /\ "1110" \notin FetchRegs /\ "1110" \notin CbufRegs
    BY DEF PointerRegs, FetchRegs, CbufRegs
  <2>2. Pointers(j) = Pointers(job) /\ Fetch(j) = Fetch(job) /\ Cbuf(j) = Cbuf(job)
    BY <1>1, PartsPatched
  <2> QED
    BY <2>1, <2>2, PointersRun, FetchRun, CbufRun, RewriteSame
<1>5. /\ Rewrites(WindowBlock(job), WindowBlock(j), addr) /\ Rewrites(Core(job), Core(j), addr)
      /\ Rewrites(Output(job), Output(j), addr)
  <2>1. "1110" \notin BlockRegs /\ "1110" \notin CoreRegs /\ "1110" \notin OutputRegs
    BY DEF BlockRegs, CoreRegs, OutputRegs
  <2>2. WindowBlock(j) = WindowBlock(job) /\ Core(j) = Core(job) /\ Output(j) = Output(job)
    BY <1>1, PartsPatched
  <2> QED
    BY <2>1, <2>2, BlockRun, CoreRun, OutputRun, RewriteSame
<1>6. /\ Rewrites(SurfaceStep(job), SurfaceStep(j), addr)
      /\ Rewrites(Coefficients(job), Coefficients(j), addr) /\ Rewrites(Enable, Enable, addr)
  <2>1. "1110" \notin StepRegs /\ "1110" \notin CoefRegs /\ "1110" \notin EnableRegs
    BY DEF StepRegs, CoefRegs, EnableRegs
  <2>2. SurfaceStep(j) = SurfaceStep(job) /\ Coefficients(j) = Coefficients(job)
    BY <1>1, PartsPatched
  <2> QED
    BY <2>1, <2>2, StepRun, CoefRun, EnableRun, RewriteSame
<1>7. Rewrites(Upto2(job), Upto2(j), addr)
  BY <1>2, <1>4, RewriteJoin DEF Stacked
<1>8. Rewrites(Upto3(job), Upto3(j), addr)
  BY <1>2, <1>4, <1>7, RewriteJoin DEF Stacked
<1>9. Rewrites(Upto4(job), Upto4(j), addr)
  BY <1>2, <1>3, <1>8, RewriteJoin DEF Stacked
<1>10. Rewrites(Upto5(job), Upto5(j), addr)
  BY <1>2, <1>5, <1>9, RewriteJoin DEF Stacked
<1>11. Rewrites(Upto6(job), Upto6(j), addr)
  BY <1>2, <1>5, <1>10, RewriteJoin DEF Stacked
<1>12. Rewrites(Upto7(job), Upto7(j), addr)
  BY <1>2, <1>5, <1>11, RewriteJoin DEF Stacked
<1>13. Rewrites(Upto8(job), Upto8(j), addr)
  BY <1>2, <1>6, <1>12, RewriteJoin DEF Stacked
<1>14. Rewrites(Body(job), Body(j), addr)
  BY <1>2, <1>6, <1>13, RewriteJoin DEF Stacked
<1>15. Rewrites(Stream(job), Stream(j), addr)
  BY <1>2, <1>6, <1>14, RewriteJoin DEF Stacked
<1>16. PICK s : s = Stream(job)
  OBVIOUS
<1>17. PICK t : t = Stream(j)
  OBVIOUS
<1>18. Run(s, BodyRegs \cup EnableRegs) /\ Run(t, BodyRegs \cup EnableRegs)
  BY <1>16, <1>17, StreamStacked
<1>19. PICK n \in Nat : n = Len(s) /\ n = Len(t) /\ DOMAIN s = 1..n
  BY <1>15, <1>16, <1>17, <1>18 DEF Rewrites, Run
<1>20. t = [i \in DOMAIN s |-> IF s[i][1] = "CNA" /\ s[i][2] = "1110"
                               THEN <<"CNA", "1110", addr>> ELSE s[i]]
  <2>1. t = [i \in 1..n |-> t[i]]
    BY <1>18, <1>19 DEF Run
  <2>2. \A i \in 1..n : t[i] = IF s[i][1] = "CNA" /\ s[i][2] = "1110"
                               THEN <<"CNA", "1110", addr>> ELSE s[i]
    BY <1>15, <1>16, <1>17, <1>19 DEF Rewrites, Hit
  <2> QED
    BY <1>19, <2>1, <2>2
<1>21. PICK w \in WordsOf(s) : w[1] = "CNA" /\ w[2] = "1110"
  <2>1. PICK u : u = Feature(job)[7]
    OBVIOUS
  <2>2. u[1] = "CNA" /\ u[2] = "1110" /\ 7 \in DOMAIN Feature(job)
    BY <2>1 DEF Feature
  <2>3. u \in WordsOf(Feature(job))
    BY <2>1, <2>2 DEF WordsOf
  <2> QED
    BY <1>16, <2>2, <2>3, StreamWords
<1>22. PICK p \in DOMAIN s : s[p] = w /\ \A i \in DOMAIN s : s[i][2] = w[2] => i = p
  BY <1>18, <1>21, ValueIs
<1>23. {i \in DOMAIN s : s[i][1] = "CNA" /\ s[i][2] = "1110"} = {p}
  BY <1>21, <1>22
<1>24. Cardinality({p}) = 1
  BY FS_Singleton
<1> QED
  BY <1>1, <1>16, <1>17, <1>20, <1>23, <1>24 DEF Patched, PatchWeightAddr

-----------------------------------------------------------------------------
(* A capture merged over a stream: B words, and the enables behind them.   *)

Named(cap, k) == {cap[i][2] : i \in 1..k}
Kept == OurAddresses \cup {"1038"}

\* The stream that is merged over.
Ready(s, B) ==
    /\ s \in Seq(WordsOf(s)) /\ B \in Nat /\ 15 <= B /\ Len(s) = B + 4 /\ WrittenOnce(s)
    /\ \A j \in 0..3 : s[B + 1 + j] = Enable[j + 1]
    /\ \A p \in 1..B : s[p][2] \notin EnableRegs
    /\ s[3][2] = "1038" /\ s[15][2] = "1038"

\* What is true of x once k words were merged, at the place the next goes in.
Placed(x, at, B) ==
    /\ x \in Seq(WordsOf(x)) /\ at \in Nat /\ B + 1 <= at /\ Len(x) = at + 3 /\ WrittenOnce(x)
    /\ \A j \in 0..3 : x[at + j] = Enable[j + 1]
Stays(s, p, cap, k) ==
    \/ s[p][2] \in OurAddresses \/ s[p][2] \notin Named(cap, k)
    \/ s[p][2] = "1038" /\ \E q \in 1..(p - 1) : s[q][2] = "1038"
HeldOver(x, s, B, cap, k) ==
    \A p \in 1..B : x[p][2] = s[p][2] /\ (Stays(s, p, cap, k) => x[p] = s[p])
Added(x, at, B, cap, k) ==
    \A p \in (B + 1)..(at - 1) : x[p][2] \in Named(cap, k) \ Kept
LastNamed(cap, i, k) == \A j \in (i + 1)..k : cap[j][2] # cap[i][2]
Taken1(x, at, cap, k) ==
    \A i \in 1..k : cap[i][2] \notin Kept /\ LastNamed(cap, i, k)
                        => \E p \in 1..(at - 1) : x[p] = cap[i]
Merging(x, at, s, B, cap, k) ==
    /\ Placed(x, at, B) /\ HeldOver(x, s, B, cap, k) /\ Added(x, at, B, cap, k)
    /\ Taken1(x, at, cap, k)

\* 0x1038 is written third and fifteenth, whatever follows.
Opened(s) == Len(s) \in Nat /\ Len(s) >= 15 /\ s[3][2] = "1038" /\ s[15][2] = "1038"

LEMMA OpenedOn ==
  ASSUME NEW a, NEW b, NEW s, Joined(a, b, s), Len(b) \in Nat, Opened(a)
  PROVE  Opened(s)
<1>1. PICK n \in Nat : n = Len(a) /\ n >= 15
  BY DEF Opened
<1>2. Len(s) \in Nat /\ Len(s) >= 15
  BY <1>1 DEF Joined
<1>3. 3 \in 1..n /\ 15 \in 1..n
  BY <1>1
<1>4. s[3] = a[3] /\ s[15] = a[15]
  BY <1>1, <1>3 DEF Joined
<1> QED
  BY <1>2, <1>4 DEF Opened

LEMMA StreamReady ==
  ASSUME NEW job
  PROVE  \E B : Ready(Stream(job), B) /\ EnableAt(Stream(job)) = B + 1
<1>1. PICK s : s = Stream(job)
  OBVIOUS
<1>2. /\ Run(s, BodyRegs \cup EnableRegs) /\ Run(Body(job), BodyRegs) /\ Stacked(job)
  BY <1>1, StreamStacked
<1>3. PICK B \in Nat : B = Len(Body(job)) /\ DOMAIN Body(job) = 1..B
  BY <1>2 DEF Run
<1>4. Len(s) = B + 4 /\ DOMAIN s = 1..(B + 4)
  <2>1. Len(s) = B + 4
    BY <1>1, <1>2, <1>3, EnableRun DEF Stacked, Joined
  <2> QED
    BY <1>2, <2>1 DEF Run
<1>5. \A j \in 0..3 : s[B + 1 + j] = Enable[j + 1]
  <2> SUFFICES ASSUME NEW j \in 0..3
               PROVE  s[B + 1 + j] = Enable[j + 1]
    OBVIOUS
  <2>1. j + 1 \in 1..Len(Enable) /\ B + 1 + j = B + (j + 1)
    BY EnableRun
  <2>2. s[B + (j + 1)] = Enable[j + 1]
    BY <1>1, <1>2, <1>3, <2>1 DEF Stacked, Joined
  <2> QED
    BY <2>1, <2>2
<1>6. \A p \in 1..B : s[p] = Body(job)[p]
  BY <1>1, <1>2, <1>3 DEF Stacked, Joined
<1>7. \A p \in 1..B : s[p][2] \notin EnableRegs
  <2>1. \A p \in 1..B : s[p][2] \in BodyRegs
    BY <1>2, <1>3, <1>6 DEF Run, Registers
  <2> QED
    BY <2>1, RegistersApart
<1>8. 15 <= B /\ s[3][2] = "1038" /\ s[15][2] = "1038"
  <2>1. Len(Pointers(job)) = 5 /\ Len(Fetch(job)) = 9 /\ Len(Cbuf(job)) = 4
    BY DEF Pointers, Fetch, Cbuf
  <2>2. Pointers(job)[3][2] = "1038" /\ Cbuf(job)[1][2] = "1038"
    BY DEF Pointers, Cbuf
  <2>3. Len(Upto2(job)) = 14 /\ Upto2(job)[3] = Pointers(job)[3]
    BY <1>2, <2>1 DEF Stacked, Joined
  <2>4. Len(Upto3(job)) = 18 /\ Upto3(job)[3] = Upto2(job)[3] /\ Upto3(job)[15] = Cbuf(job)[1]
    <3>1. Len(Upto3(job)) = 18 /\ Upto3(job)[3] = Upto2(job)[3]
      BY <1>2, <2>1, <2>3 DEF Stacked, Joined
    <3>2. 1 \in 1..Len(Cbuf(job)) /\ Len(Upto2(job)) + 1 = 15
      BY <2>1, <2>3
    <3>3. Upto3(job)[Len(Upto2(job)) + 1] = Cbuf(job)[1]
      BY <1>2, <3>2 DEF Stacked, Joined
    <3> QED
      BY <3>1, <3>2, <3>3
  <2>5. /\ Len(Feature(job)) \in Nat /\ Len(WindowBlock(job)) \in Nat /\ Len(Core(job)) \in Nat
        /\ Len(Output(job)) \in Nat /\ Len(SurfaceStep(job)) \in Nat
        /\ Len(Coefficients(job)) \in Nat
    BY FeatureRun, BlockRun, CoreRun, OutputRun, StepRun, CoefRun DEF Run
  <2>6. Opened(Upto3(job))
    BY <2>2, <2>3, <2>4 DEF Opened
  <2>7. Opened(Upto4(job)) /\ Opened(Upto5(job)) /\ Opened(Upto6(job))
    BY <1>2, <2>5, <2>6, OpenedOn DEF Stacked
  <2>8. Opened(Upto7(job)) /\ Opened(Upto8(job)) /\ Opened(Body(job))
    BY <1>2, <2>5, <2>7, OpenedOn DEF Stacked
  <2> QED
    BY <1>3, <1>6, <2>8 DEF Opened
<1>9. Ready(s, B)
  BY <1>2, <1>3, <1>4, <1>5, <1>7, <1>8 DEF Ready, Run
<1>10. EnableAt(s) = B + 1
  <2>1. s[B + 1][2] = "1008" /\ B + 1 \in DOMAIN s
    <3>1. s[B + 1 + 0] = Enable[0 + 1]
      BY <1>5
    <3> QED
      BY <1>3, <1>4, <3>1, EnableRun
  <2>2. At(s, "1008") = {B + 1}
    BY <1>2, <2>1 DEF At, Run, WrittenOnce
  <2>3. FirstAt(s, "1008") = B + 1
    <3>1. PICK f : f = FirstAt(s, "1008")
      OBVIOUS
    <3>2. B + 1 \in At(s, "1008") /\ \A j \in At(s, "1008") : B + 1 <= j
      BY <1>3, <2>2
    <3>3. f \in At(s, "1008")
      BY <3>1, <3>2 DEF FirstAt
    <3> QED
      BY <2>2, <3>1, <3>3
  <2> QED
    BY <2>2, <2>3 DEF EnableAt
<1> QED
  BY <1>1, <1>9, <1>10

\* A word inserted moves those behind it.
Slid(x, at, v, y, Y) ==
    /\ y \in Seq(Y) /\ Len(y) = Len(x) + 1 /\ y[at] = v
    /\ \A p \in 1..(at - 1) : y[p] = x[p]
    /\ \A p \in at..Len(x) : y[p + 1] = x[p]

LEMMA Inserted ==
  ASSUME NEW Y, NEW x \in Seq(Y), NEW at \in 1..(Len(x) + 1), NEW v \in Y, NEW y,
         y = InsertAt(x, at, v)
  PROVE  Slid(x, at, v, y, Y)
<1>1. PICK n \in Nat : n = Len(x)
  OBVIOUS
<1>2. PICK a : a = SubSeq(x, 1, at - 1)
  OBVIOUS
<1>3. PICK b : b = SubSeq(x, at, n)
  OBVIOUS
<1>5. /\ a \in Seq(Y) /\ Len(a) = at - 1 /\ \A p \in 1..(at - 1) : a[p] = x[p]
  BY <1>1, <1>2
<1>6. /\ b \in Seq(Y) /\ Len(b) = n - at + 1 /\ \A p \in 1..(n - at + 1) : b[p] = x[at + p - 1]
  BY <1>1, <1>3
<1>7. PICK w : w = a \o <<v>>
  OBVIOUS
<1>8. <<v>> \in Seq(Y) /\ Len(<<v>>) = 1 /\ <<v>>[1] = v
  OBVIOUS
<1>9. /\ w \in Seq(Y) /\ Len(w) = at /\ w[at] = v /\ \A p \in 1..(at - 1) : w[p] = x[p]
  BY <1>5, <1>7, <1>8
<1>10. y = w \o b
  BY <1>1, <1>2, <1>3, <1>7 DEF InsertAt
<1>11. y \in Seq(Y) /\ Len(y) = n + 1
  BY <1>1, <1>6, <1>9, <1>10
<1>12. \A p \in 1..at : y[p] = w[p]
  BY <1>6, <1>9, <1>10
<1>13. ASSUME NEW p \in at..n
       PROVE  y[p + 1] = x[p]
  <2>1. PICK q \in 1..(n - at + 1) : q = p - at + 1 /\ p + 1 = at + q /\ at + q - 1 = p
    BY <1>1
  <2>2. at + q \in 1..(n + 1) /\ at + q > at /\ (at + q) - at = q
    BY <1>1, <2>1
  <2>3. y[at + q] = b[q]
    BY <1>6, <1>9, <1>10, <1>11, <2>1, <2>2
  <2>4. b[q] = x[at + q - 1]
    BY <1>6, <2>1
  <2> QED
    BY <2>1, <2>3, <2>4
<1> QED
  BY <1>1, <1>9, <1>11, <1>12, <1>13 DEF Slid

\* The words named grow by the next.
LEMMA NamedNext ==
  ASSUME NEW cap, NEW k \in Nat
  PROVE  \A r : r \in Named(cap, k + 1) <=> r \in Named(cap, k) \/ r = cap[k + 1][2]
<1>1. \A i \in 1..(k + 1) : i \in 1..k \/ i = k + 1
  OBVIOUS
<1>2. k + 1 \in 1..(k + 1) /\ \A i \in 1..k : i \in 1..(k + 1)
  OBVIOUS
<1> QED
  BY <1>1, <1>2 DEF Named

\* A word that is last of its register stays so unless the next names it again.
LEMMA LastNext ==
  ASSUME NEW cap, NEW k \in Nat, NEW i \in 1..k, LastNamed(cap, i, k + 1)
  PROVE  LastNamed(cap, i, k) /\ cap[k + 1][2] # cap[i][2]
<1>1. k + 1 \in (i + 1)..(k + 1) /\ \A j \in (i + 1)..k : j \in (i + 1)..(k + 1)
  OBVIOUS
<1> QED
  BY <1>1 DEF LastNamed

\* A word at one of our addresses is passed over.
LEMMA MergedPast ==
  ASSUME NEW s, NEW B, NEW x, NEW at, NEW cap, NEW k \in Nat, Ready(s, B),
         Merging(x, at, s, B, cap, k), cap[k + 1][2] \in OurAddresses
  PROVE  Merging(x, at, s, B, cap, k + 1)
<1>1. HeldOver(x, s, B, cap, k + 1)
  <2> SUFFICES ASSUME NEW p \in 1..B
               PROVE  x[p][2] = s[p][2] /\ (Stays(s, p, cap, k + 1) => x[p] = s[p])
    BY DEF HeldOver
  <2>1. x[p][2] = s[p][2] /\ (Stays(s, p, cap, k) => x[p] = s[p])
    BY DEF Merging, HeldOver
  <2>2. Stays(s, p, cap, k + 1) => Stays(s, p, cap, k)
    BY NamedNext DEF Stays
  <2> QED
    BY <2>1, <2>2
<1>2. Added(x, at, B, cap, k + 1)
  <2> SUFFICES ASSUME NEW p \in (B + 1)..(at - 1)
               PROVE  x[p][2] \in Named(cap, k + 1) \ Kept
    BY DEF Added
  <2>1. x[p][2] \in Named(cap, k) \ Kept
    BY DEF Merging, Added
  <2> QED
    BY <2>1, NamedNext
<1>3. Taken1(x, at, cap, k + 1)
  <2> SUFFICES ASSUME NEW i \in 1..(k + 1), cap[i][2] \notin Kept, LastNamed(cap, i, k + 1)
               PROVE  \E p \in 1..(at - 1) : x[p] = cap[i]
    BY DEF Taken1
  <2>1. i \in 1..k
    BY DEF Kept
  <2>2. LastNamed(cap, i, k)
    BY <2>1, LastNext
  <2> QED
    BY <2>1, <2>2 DEF Merging, Taken1
<1> QED
  BY <1>1, <1>2, <1>3 DEF Merging

\* The first place of a register.
LEMMA FirstIs ==
  ASSUME NEW X, NEW x \in Seq(X), NEW reg, At(x, reg) # {}
  PROVE  /\ FirstAt(x, reg) \in DOMAIN x /\ x[FirstAt(x, reg)][2] = reg
         /\ \A j \in DOMAIN x : x[j][2] = reg => FirstAt(x, reg) <= j
<1>1. PICK A : A = At(x, reg)
  OBVIOUS
<1>2. A \in SUBSET Nat /\ A # {}
  BY <1>1 DEF At
<1>3. \E f \in A : \A j \in A : f <= j
  BY <1>2, LeastExists
<1>4. PICK f : f = FirstAt(x, reg)
  OBVIOUS
<1>5. f \in A /\ \A j \in A : f <= j
  BY <1>1, <1>3, <1>4 DEF FirstAt
<1> QED
  BY <1>1, <1>4, <1>5 DEF At

\* A sequence is one of its own words.
LEMMA SeqOfWords ==
  ASSUME NEW Y, NEW y \in Seq(Y)
  PROVE  y \in Seq(WordsOf(y))
<1>1. PICK W : W = WordsOf(y)
  OBVIOUS
<1>2. PICK n \in Nat : n = Len(y) /\ DOMAIN y = 1..n
  OBVIOUS
<1>3. \A p \in 1..n : y[p] \in W
  BY <1>1, <1>2 DEF WordsOf
<1>4. y \in [1..n -> Y]
  BY <1>2
<1>5. y \in [1..n -> W]
  BY <1>3, <1>4
<1> QED
  BY <1>1, <1>5

LEMMA MergedOver ==
  ASSUME NEW s, NEW B, NEW x, NEW at, NEW cap, NEW k \in Nat, Ready(s, B),
         Merging(x, at, s, B, cap, k), NEW v, v = cap[k + 1], v[2] \notin EnableRegs,
         v[2] \notin OurAddresses, At(x, v[2]) # {},
         NEW y, y = [x EXCEPT ![FirstAt(x, v[2])] = v]
  PROVE  Merging(y, at, s, B, cap, k + 1)
<1>1. /\ x \in Seq(WordsOf(x)) /\ at \in Nat /\ B + 1 <= at /\ Len(x) = at + 3 /\ WrittenOnce(x)
      /\ (\A j \in 0..3 : x[at + j] = Enable[j + 1]) /\ B \in Nat /\ 15 <= B
  BY DEF Merging, Placed, Ready
<1>2. DOMAIN x = 1..(at + 3)
  BY <1>1
<1>3. PICK f : f = FirstAt(x, v[2])
  OBVIOUS
<1>4. f \in 1..(at + 3) /\ x[f][2] = v[2] /\ \A j \in 1..(at + 3) : x[j][2] = v[2] => f <= j
  BY <1>1, <1>2, <1>3, FirstIs
<1>5. f \in 1..(at - 1)
  <2>1. ASSUME f \notin 1..(at - 1)
        PROVE  FALSE
    <3>1. PICK j \in 0..3 : f = at + j
      <4>1. f - at \in 0..3 /\ f = at + (f - at)
        BY <1>1, <1>4, <2>1
      <4> QED
        BY <4>1
    <3>2. x[f] = Enable[j + 1]
      BY <1>1, <3>1
    <3>3. j + 1 \in DOMAIN Enable
      BY EnableRun DEF Run
    <3>4. Enable[j + 1][2] \in EnableRegs
      BY <3>3, EnableRun DEF Registers
    <3> QED
      BY <1>4, <3>2, <3>4
  <2> QED
    BY <2>1
<1>6. PICK Y : Y = WordsOf(x) \cup {v}
  OBVIOUS
<1>7. y \in Seq(Y) /\ Len(y) = at + 3 /\ y[f] = v /\ \A p \in 1..(at + 3) : p # f => y[p] = x[p]
  BY <1>1, <1>2, <1>3, <1>4, <1>6
<1>8. DOMAIN y = 1..(at + 3)
  BY <1>1, <1>7
<1>9. \A p \in 1..(at + 3) : y[p][2] = x[p][2]
  BY <1>4, <1>7
<1>10. Placed(y, at, B)
  <2>1. y \in Seq(WordsOf(y))
    BY <1>7, SeqOfWords
  <2>2. WrittenOnce(y)
    BY <1>1, <1>2, <1>8, <1>9 DEF WrittenOnce
  <2>3. \A j \in 0..3 : y[at + j] = Enable[j + 1]
    <3> SUFFICES ASSUME NEW j \in 0..3
                 PROVE  y[at + j] = Enable[j + 1]
      OBVIOUS
    <3>1. at + j \in 1..(at + 3) /\ at + j # f
      BY <1>1, <1>5
    <3> QED
      BY <1>1, <1>7, <3>1
  <2> QED
    BY <1>1, <1>7, <2>1, <2>2, <2>3 DEF Placed
<1>11. HeldOver(y, s, B, cap, k + 1)
  <2> SUFFICES ASSUME NEW p \in 1..B
               PROVE  y[p][2] = s[p][2] /\ (Stays(s, p, cap, k + 1) => y[p] = s[p])
    BY DEF HeldOver
  <2>1. x[p][2] = s[p][2] /\ (Stays(s, p, cap, k) => x[p] = s[p])
    BY DEF Merging, HeldOver
  <2>2. Stays(s, p, cap, k + 1) => Stays(s, p, cap, k)
    BY NamedNext DEF Stays
  <2>3. p \in 1..(at + 3)
    BY <1>1
  <2>4. Stays(s, p, cap, k + 1) => p # f
    <3> SUFFICES ASSUME Stays(s, p, cap, k + 1), p = f
                 PROVE  FALSE
      OBVIOUS
    <3>1. s[p][2] = v[2]
      BY <1>4, <2>1
    <3>2. v[2] \in Named(cap, k + 1)
      BY NamedNext
    <3>3. PICK q \in 1..(p - 1) : s[q][2] = "1038" /\ s[p][2] = "1038"
      BY <3>1, <3>2 DEF Stays
    <3>4. q \in 1..B /\ q \in 1..(at + 3) /\ q < f
      BY <1>1
    <3>5. x[q][2] = v[2]
      BY <3>1, <3>3, <3>4 DEF Merging, HeldOver
    <3> QED
      BY <1>4, <3>4, <3>5
  <2> QED
    BY <1>7, <1>9, <2>1, <2>2, <2>3, <2>4
<1>12. Added(y, at, B, cap, k + 1)
  <2> SUFFICES ASSUME NEW p \in (B + 1)..(at - 1)
               PROVE  y[p][2] \in Named(cap, k + 1) \ Kept
    BY DEF Added
  <2>1. x[p][2] \in Named(cap, k) \ Kept
    BY DEF Merging, Added
  <2>2. p \in 1..(at + 3)
    BY <1>1
  <2> QED
    BY <1>9, <2>1, <2>2, NamedNext
<1>13. Taken1(y, at, cap, k + 1)
  <2> SUFFICES ASSUME NEW i \in 1..(k + 1), cap[i][2] \notin Kept, LastNamed(cap, i, k + 1)
               PROVE  \E p \in 1..(at - 1) : y[p] = cap[i]
    BY DEF Taken1
  <2>1. CASE i = k + 1
    BY <1>5, <1>7, <2>1
  <2>2. CASE i # k + 1
    <3>1. i \in 1..k
      BY <2>2
    <3>2. LastNamed(cap, i, k) /\ v[2] # cap[i][2]
      BY <3>1, LastNext
    <3>3. PICK p \in 1..(at - 1) : x[p] = cap[i]
      BY <3>1, <3>2 DEF Merging, Taken1
    <3>4. p # f /\ p \in 1..(at + 3)
      BY <1>1, <1>4, <3>2, <3>3
    <3> QED
      BY <1>7, <3>3, <3>4
  <2> QED
    BY <2>1, <2>2
<1> QED
  BY <1>10, <1>11, <1>12, <1>13 DEF Merging

LEMMA MergedIn ==
  ASSUME NEW s, NEW B, NEW x, NEW at, NEW cap, NEW k \in Nat, Ready(s, B),
         Merging(x, at, s, B, cap, k), NEW v, v = cap[k + 1], v[2] \notin EnableRegs,
         v[2] \notin OurAddresses, At(x, v[2]) = {}, NEW y, y = InsertAt(x, at, v)
  PROVE  Merging(y, at + 1, s, B, cap, k + 1)
<1>1. /\ x \in Seq(WordsOf(x)) /\ at \in Nat /\ B + 1 <= at /\ Len(x) = at + 3 /\ WrittenOnce(x)
      /\ (\A j \in 0..3 : x[at + j] = Enable[j + 1]) /\ B \in Nat /\ 15 <= B
  BY DEF Merging, Placed, Ready
<1>2. DOMAIN x = 1..(at + 3) /\ at \in 1..(Len(x) + 1)
  BY <1>1
<1>3. \A p \in 1..(at + 3) : x[p][2] # v[2]
  BY <1>2 DEF At
<1>4. PICK Y : Y = WordsOf(x) \cup {v}
  OBVIOUS
<1>5. /\ y \in Seq(Y) /\ Len(y) = at + 4 /\ y[at] = v
      /\ \A p \in 1..(at - 1) : y[p] = x[p]
      /\ \A p \in at..(at + 3) : y[p + 1] = x[p]
  <2>1. x \in Seq(Y) /\ v \in Y
    BY <1>1, <1>4
  <2>2. Slid(x, at, v, y, Y)
    BY <1>2, <2>1, Inserted, Zenon
  <2> QED
    BY <1>1, <2>2 DEF Slid
<1>6. DOMAIN y = 1..(at + 4)
  BY <1>1, <1>5
\* Where a word of y was.
<1>7. \A p \in 1..(at + 4) : p # at =>
         \E o \in 1..(at + 3) : y[p] = x[o] /\ p = IF o < at THEN o ELSE o + 1
  <2> SUFFICES ASSUME NEW p \in 1..(at + 4), p # at
               PROVE  \E o \in 1..(at + 3) : y[p] = x[o] /\ p = IF o < at THEN o ELSE o + 1
    OBVIOUS
  <2>1. CASE p < at
    <3>1. p \in 1..(at - 1) /\ p \in 1..(at + 3)
      BY <1>1, <2>1
    <3> QED
      BY <1>5, <2>1, <3>1
  <2>2. CASE p > at
    <3>1. PICK o \in at..(at + 3) : p = o + 1
      <4>1. p - 1 \in at..(at + 3) /\ p = (p - 1) + 1
        BY <1>1, <2>2
      <4> QED
        BY <4>1
    <3>2. y[p] = x[o]
      BY <1>5, <3>1
    <3>3. o \in 1..(at + 3) /\ ~(o < at)
      BY <1>1
    <3> QED
      BY <3>1, <3>2, <3>3
  <2> QED
    BY <1>1, <2>1, <2>2
<1>8. v[2] # "1038"
  <2>1. x[3][2] = s[3][2]
    BY <1>1 DEF Merging, HeldOver
  <2>2. s[3][2] = "1038" /\ 3 \in 1..(at + 3)
    BY <1>1 DEF Ready
  <2> QED
    BY <1>3, <2>1, <2>2
<1>9. Placed(y, at + 1, B)
  <2>1. y \in Seq(WordsOf(y))
    BY <1>5, SeqOfWords
  <2>2. WrittenOnce(y)
    <3> SUFFICES ASSUME NEW i \in 1..(at + 4), NEW j \in 1..(at + 4), y[i][2] = y[j][2],
                        y[i][2] # "1038"
                 PROVE  i = j
      BY <1>6 DEF WrittenOnce
    <3>1. CASE i = at /\ j = at
      BY <3>1
    <3>2. CASE i = at /\ j # at
      <4>1. PICK o \in 1..(at + 3) : y[j] = x[o]
        BY <1>7, <3>2
      <4> QED
        BY <1>3, <1>5, <3>2, <4>1
    <3>3. CASE i # at /\ j = at
      <4>1. PICK o \in 1..(at + 3) : y[i] = x[o]
        BY <1>7, <3>3
      <4> QED
        BY <1>3, <1>5, <3>3, <4>1
    <3>4. CASE i # at /\ j # at
      <4>1. PICK o \in 1..(at + 3) : y[i] = x[o] /\ i = IF o < at THEN o ELSE o + 1
        BY <1>7, <3>4
      <4>2. PICK u \in 1..(at + 3) : y[j] = x[u] /\ j = IF u < at THEN u ELSE u + 1
        BY <1>7, <3>4
      <4>3. o = u
        BY <1>1, <1>2, <4>1, <4>2 DEF WrittenOnce
      <4> QED
        BY <4>1, <4>2, <4>3
    <3> QED
      BY <3>1, <3>2, <3>3, <3>4
  <2>3. \A j \in 0..3 : y[(at + 1) + j] = Enable[j + 1]
    <3> SUFFICES ASSUME NEW j \in 0..3
                 PROVE  y[(at + 1) + j] = Enable[j + 1]
      OBVIOUS
    <3>1. at + j \in at..(at + 3) /\ (at + 1) + j = (at + j) + 1
      BY <1>1
    <3> QED
      BY <1>1, <1>5, <3>1
  <2>4. at + 1 \in Nat /\ B + 1 <= at + 1 /\ Len(y) = (at + 1) + 3
    <3>1. Len(y) = at + 4
      BY <1>5
    <3> QED
      BY <1>1, <3>1
  <2> QED
    BY <2>1, <2>2, <2>3, <2>4 DEF Placed
<1>10. HeldOver(y, s, B, cap, k + 1)
  <2> SUFFICES ASSUME NEW p \in 1..B
               PROVE  y[p][2] = s[p][2] /\ (Stays(s, p, cap, k + 1) => y[p] = s[p])
    BY DEF HeldOver
  <2>1. x[p][2] = s[p][2] /\ (Stays(s, p, cap, k) => x[p] = s[p])
    BY DEF Merging, HeldOver
  <2>2. Stays(s, p, cap, k + 1) => Stays(s, p, cap, k)
    BY NamedNext DEF Stays
  <2>3. p \in 1..(at - 1)
    BY <1>1
  <2> QED
    BY <1>5, <2>1, <2>2, <2>3
<1>11. Added(y, at + 1, B, cap, k + 1)
  <2> SUFFICES ASSUME NEW p \in (B + 1)..((at + 1) - 1)
               PROVE  y[p][2] \in Named(cap, k + 1) \ Kept
    BY DEF Added
  <2>1. CASE p = at
    <3>1. y[p][2] = v[2]
      BY <1>5, <2>1
    <3> QED
      BY <1>8, <3>1, NamedNext DEF Kept
  <2>2. CASE p # at
    <3>1. p \in (B + 1)..(at - 1) /\ p \in 1..(at - 1)
      BY <1>1, <2>2
    <3>2. x[p][2] \in Named(cap, k) \ Kept
      BY <3>1 DEF Merging, Added
    <3> QED
      BY <1>5, <3>1, <3>2, NamedNext
  <2> QED
    BY <2>1, <2>2
<1>12. Taken1(y, at + 1, cap, k + 1)
  <2> SUFFICES ASSUME NEW i \in 1..(k + 1), cap[i][2] \notin Kept, LastNamed(cap, i, k + 1)
               PROVE  \E p \in 1..((at + 1) - 1) : y[p] = cap[i]
    BY DEF Taken1
  <2>1. CASE i = k + 1
    <3>1. at \in 1..((at + 1) - 1)
      BY <1>1
    <3> QED
      BY <1>5, <2>1, <3>1
  <2>2. CASE i # k + 1
    <3>1. i \in 1..k
      BY <2>2
    <3>2. LastNamed(cap, i, k)
      BY <3>1, LastNext
    <3>3. PICK p \in 1..(at - 1) : x[p] = cap[i]
      BY <3>1, <3>2 DEF Merging, Taken1
    <3>4. p \in 1..((at + 1) - 1)
      BY <1>1
    <3> QED
      BY <1>5, <3>3, <3>4
  <2> QED
    BY <2>1, <2>2
<1> QED
  BY <1>9, <1>10, <1>11, <1>12 DEF Merging

\* The recursion that merges the words of a capture one after the other.
MergesTo(g, s, cap, at, n) ==
    g = [i \in 0..n |-> IF i = 0 THEN [s |-> s, at |-> at] ELSE MergeOne(g[i - 1], cap[i])]

LEMMA MergesExist ==
  ASSUME NEW s, NEW cap, NEW at, NEW n \in Nat
  PROVE  \E g : MergesTo(g, s, cap, at, n)
<1>1. PICK S : S = {i \in 0..n : \E g : MergesTo(g, s, cap, at, i)}
  OBVIOUS
<1>2. PICK first : first = [s |-> s, at |-> at]
  OBVIOUS
<1>3. 0 \in S
  <2>1. PICK g : g = [i \in 0..0 |-> first]
    OBVIOUS
  <2>2. \A i \in 0..0 : i = 0
    OBVIOUS
  <2>3. g = [i \in 0..0 |-> IF i = 0 THEN first ELSE MergeOne(g[i - 1], cap[i])]
    BY <2>1, <2>2
  <2> QED
    BY <1>1, <1>2, <2>3 DEF MergesTo
<1>4. ASSUME NEW i \in S, i < n
      PROVE  i + 1 \in S
  <2>1. i \in 0..n /\ \E g : MergesTo(g, s, cap, at, i)
    BY <1>1
  <2>2. PICK g : MergesTo(g, s, cap, at, i)
    BY <2>1
  <2>3. PICK j \in Nat : j = i + 1 /\ j # 0 /\ j - 1 = i /\ j \in 0..n
    BY <1>4, <2>1
  <2>4. PICK h : h = [k \in 0..j |-> IF k = j THEN MergeOne(g[i], cap[j]) ELSE g[k]]
    OBVIOUS
  <2>5. \A k \in 0..i : g[k] = IF k = 0 THEN first ELSE MergeOne(g[k - 1], cap[k])
    BY <1>2, <2>2 DEF MergesTo
  <2>6. \A k \in 0..j : /\ k # j => k \in 0..i /\ h[k] = g[k]
                        /\ k = j => h[k] = MergeOne(g[i], cap[j])
    BY <2>1, <2>3, <2>4
  <2>7. h[i] = g[i] /\ i # j
    BY <2>1, <2>3, <2>6
  <2>8. ASSUME NEW k \in 0..j
        PROVE  h[k] = IF k = 0 THEN first ELSE MergeOne(h[k - 1], cap[k])
    <3>1. CASE k = j
      BY <2>3, <2>6, <2>7, <3>1
    <3>2. CASE k # j
      <4>1. k \in 0..i /\ h[k] = g[k]
        BY <2>6, <3>2
      <4>2. k # 0 => h[k - 1] = g[k - 1]
        <5>1. k # 0 => k - 1 \in 0..j /\ k - 1 # j
          BY <2>1, <2>3, <4>1
        <5> QED
          BY <2>6, <5>1
      <4> QED
        BY <2>5, <4>1, <4>2
    <3> QED
      BY <3>1, <3>2
  <2>9. h = [k \in 0..j |-> IF k = 0 THEN first ELSE MergeOne(h[k - 1], cap[k])]
    <3>1. PICK h2 : h2 = [k \in 0..j |-> IF k = 0 THEN first ELSE MergeOne(h[k - 1], cap[k])]
      OBVIOUS
    <3>2. h = h2
      BY <2>4, <2>8, <3>1
    <3> QED
      BY <3>1, <3>2
  <2> QED
    BY <1>1, <1>2, <2>3, <2>9 DEF MergesTo
<1>5. S = 0..n
  BY <1>1, <1>3, <1>4, Ascent
<1>6. n \in S
  BY <1>5
<1> QED
  BY <1>1, <1>6

\* The enables are not what a capture holds values of.
Captured(cap, n) == n = Len(cap) /\ \A i \in 1..n : cap[i][2] \notin EnableRegs

\* Nothing is merged yet.
LEMMA MergedNone ==
  ASSUME NEW s, NEW B, Ready(s, B), NEW cap
  PROVE  Merging(s, B + 1, s, B, cap, 0)
<1>1. Placed(s, B + 1, B)
  BY DEF Ready, Placed
<1>2. HeldOver(s, s, B, cap, 0)
  BY DEF HeldOver
<1>3. Added(s, B + 1, B, cap, 0)
  BY DEF Ready, Added
<1>4. Taken1(s, B + 1, cap, 0)
  BY DEF Taken1
<1> QED
  BY <1>1, <1>2, <1>3, <1>4 DEF Merging

\* One more word.
LEMMA MergedOne ==
  ASSUME NEW s, NEW B, Ready(s, B), NEW cap, NEW k \in Nat, NEW x, NEW at,
         Merging(x, at, s, B, cap, k), cap[k + 1][2] \notin EnableRegs
  PROVE  \E y, to : /\ MergeOne([s |-> x, at |-> at], cap[k + 1]) = [s |-> y, at |-> to]
                    /\ Merging(y, to, s, B, cap, k + 1)
<1>1. PICK v : v = cap[k + 1]
  OBVIOUS
<1>2. PICK m : m = [s |-> x, at |-> at]
  OBVIOUS
<1>3. m.s = x /\ m.at = at
  BY <1>2
<1>4. CASE v[2] \in OurAddresses
  <2>1. MergeOne(m, v) = m
    BY <1>4 DEF MergeOne
  <2>2. Merging(x, at, s, B, cap, k + 1)
    BY <1>1, <1>4, MergedPast
  <2> QED
    BY <1>1, <1>2, <2>1, <2>2
<1>5. CASE v[2] \notin OurAddresses /\ At(x, v[2]) # {}
  <2>1. PICK y : y = [x EXCEPT ![FirstAt(x, v[2])] = v]
    OBVIOUS
  <2>2. MergeOne(m, v) = [m EXCEPT !.s[FirstAt(m.s, v[2])] = v]
    BY <1>3, <1>5 DEF MergeOne
  <2>3. [m EXCEPT !.s[FirstAt(m.s, v[2])] = v] = [s |-> y, at |-> at]
    BY <1>2, <1>3, <2>1
  <2>4. Merging(y, at, s, B, cap, k + 1)
    BY <1>1, <1>5, <2>1, MergedOver
  <2> QED
    BY <1>1, <1>2, <2>2, <2>3, <2>4
<1>6. CASE v[2] \notin OurAddresses /\ At(x, v[2]) = {}
  <2>1. PICK y : y = InsertAt(x, at, v)
    OBVIOUS
  <2>2. MergeOne(m, v) = [s |-> y, at |-> at + 1]
    BY <1>3, <1>6, <2>1 DEF MergeOne
  <2>3. Merging(y, at + 1, s, B, cap, k + 1)
    BY <1>1, <1>6, <2>1, MergedIn
  <2> QED
    BY <1>1, <1>2, <2>2, <2>3
<1> QED
  BY <1>4, <1>5, <1>6

LEMMA MergedAll ==
  ASSUME NEW s, NEW B, Ready(s, B), NEW cap, NEW n \in Nat, Captured(cap, n)
  PROVE  \E at : Merging(MergeFrom(s, cap, B + 1), at, s, B, cap, n)
<1>1. PICK g : MergesTo(g, s, cap, B + 1, n)
  BY MergesExist
<1>2. PICK f : f = CHOOSE h : MergesTo(h, s, cap, B + 1, n)
  OBVIOUS
<1>3. MergesTo(f, s, cap, B + 1, n)
  BY <1>1, <1>2
<1>4. MergeFrom(s, cap, B + 1) = f[n].s
  BY <1>2 DEF MergeFrom, MergesTo, Captured
<1>5. PICK S : S = {i \in 0..n : \E x, at : f[i] = [s |-> x, at |-> at]
                                            /\ Merging(x, at, s, B, cap, i)}
  OBVIOUS
<1>6. \A i \in 0..n : f[i] = IF i = 0 THEN [s |-> s, at |-> B + 1] ELSE MergeOne(f[i - 1], cap[i])
  BY <1>3 DEF MergesTo
<1>7. 0 \in S
  BY <1>5, <1>6, MergedNone
<1>8. ASSUME NEW i \in S, i < n
      PROVE  i + 1 \in S
  <2>1. PICK x, at : f[i] = [s |-> x, at |-> at] /\ Merging(x, at, s, B, cap, i)
    BY <1>5
  <2>2. i \in Nat /\ i + 1 \in 0..n /\ i + 1 # 0 /\ (i + 1) - 1 = i /\ i + 1 \in 1..n
    BY <1>5, <1>8
  <2>3. f[i + 1] = MergeOne(f[i], cap[i + 1])
    BY <1>6, <2>2
  <2>4. cap[i + 1][2] \notin EnableRegs
    BY <2>2 DEF Captured
  <2>5. PICK y, to : /\ MergeOne([s |-> x, at |-> at], cap[i + 1]) = [s |-> y, at |-> to]
                     /\ Merging(y, to, s, B, cap, i + 1)
    BY <2>1, <2>2, <2>4, MergedOne
  <2> QED
    BY <1>5, <2>1, <2>2, <2>3, <2>5
<1>9. S = 0..n
  BY <1>5, <1>7, <1>8, Ascent
<1>10. PICK x, at : f[n] = [s |-> x, at |-> at] /\ Merging(x, at, s, B, cap, n)
  <2>1. n \in S
    BY <1>9
  <2> QED
    BY <1>5, <2>1
<1> QED
  BY <1>4, <1>10

\* The last place of a register that is written in one place.
LEMMA OnlyPlace ==
  ASSUME NEW X, NEW t \in Seq(X), WrittenOnce(t), NEW p \in DOMAIN t, t[p][2] # "1038"
  PROVE  ValueOf(t, t[p][2]) = t[p][3]
<1>1. PICK reg : reg = t[p][2]
  OBVIOUS
<1>2. At(t, reg) = {p}
  BY <1>1 DEF At, WrittenOnce
<1>3. PICK l : l = LastAt(t, reg)
  OBVIOUS
<1>4. p \in At(t, reg) /\ \A j \in At(t, reg) : p >= j
  BY <1>2
<1>5. l \in At(t, reg)
  BY <1>3, <1>4 DEF LastAt
<1> QED
  BY <1>1, <1>2, <1>3, <1>5 DEF ValueOf

\* A set of places has a last one.
LEMMA LastExists ==
  ASSUME NEW N \in Nat, NEW A \in SUBSET (1..N), A # {}
  PROVE  \E l \in A : \A j \in A : l >= j
<1>1. PICK T : T = {x \in Nat : N - x \in A}
  OBVIOUS
<1>2. T \in SUBSET Nat /\ T # {}
  <2>1. PICK a \in A : a \in 1..N
    OBVIOUS
  <2>2. N - a \in Nat /\ N - (N - a) = a
    BY <2>1
  <2> QED
    BY <1>1, <2>1, <2>2
<1>3. PICK f \in T : \A j \in T : f <= j
  BY <1>2, LeastExists
<1>4. N - f \in A /\ f \in Nat
  BY <1>1, <1>3
<1>5. ASSUME NEW j \in A
      PROVE  N - f >= j
  <2>1. j \in 1..N /\ N - j \in Nat /\ N - (N - j) = j
    OBVIOUS
  <2>2. N - j \in T
    BY <1>1, <2>1
  <2> QED
    BY <1>3, <1>4, <2>1, <2>2
<1> QED
  BY <1>4, <1>5

\* What a merge leaves as it was: the words whose place is not one of the capture's.
LEMMA ValueStays ==
  ASSUME NEW s, NEW B, Ready(s, B), NEW t, NEW at, NEW cap, NEW n, Merging(t, at, s, B, cap, n),
         NEW p \in 1..B, Stays(s, p, cap, n), s[p][2] # "1038"
  PROVE  ValueOf(t, s[p][2]) = ValueOf(s, s[p][2])
<1>1. /\ s \in Seq(WordsOf(s)) /\ t \in Seq(WordsOf(t)) /\ WrittenOnce(s) /\ WrittenOnce(t)
      /\ B \in Nat /\ at \in Nat /\ B + 1 <= at /\ Len(s) = B + 4 /\ Len(t) = at + 3
  BY DEF Ready, Merging, Placed
<1>2. p \in DOMAIN s /\ p \in DOMAIN t
  BY <1>1
<1>3. t[p] = s[p]
  BY DEF Merging, HeldOver
<1>4. ValueOf(s, s[p][2]) = s[p][3]
  BY <1>1, <1>2, OnlyPlace
<1>5. ValueOf(t, t[p][2]) = t[p][3]
  BY <1>1, <1>2, <1>3, OnlyPlace
<1> QED
  BY <1>3, <1>4, <1>5

\* 0x1038: the capture's value is taken at the first of its two places, and
\* the second is ours.
LEMMA TwiceStays ==
  ASSUME NEW s, NEW B, Ready(s, B), NEW t, NEW at, NEW cap, NEW n, Merging(t, at, s, B, cap, n)
  PROVE  ValueOf(t, "1038") = ValueOf(s, "1038")
<1>1. /\ B \in Nat /\ at \in Nat /\ B + 1 <= at /\ DOMAIN s = 1..(B + 4) /\ DOMAIN t = 1..(at + 3)
  BY DEF Ready, Merging, Placed
<1>2. \A j \in 0..3 : Enable[j + 1][2] # "1038"
  <2>1. \A j \in 0..3 : Enable[j + 1][2] \in EnableRegs
    BY EnableRun DEF Registers, Run
  <2> QED
    BY <2>1 DEF EnableRegs
<1>3. \A p \in 1..(B + 4) : s[p][2] = "1038" => p \in 1..B
  <2> SUFFICES ASSUME NEW p \in 1..(B + 4), p \notin 1..B
               PROVE  s[p][2] # "1038"
    OBVIOUS
  <2>1. PICK j \in 0..3 : p = B + 1 + j
    <3>1. p - (B + 1) \in 0..3 /\ p = B + 1 + (p - (B + 1))
      BY <1>1
    <3> QED
      BY <3>1
  <2> QED
    BY <1>2, <2>1 DEF Ready
<1>4. \A p \in 1..(at + 3) : t[p][2] = "1038" => p \in 1..B
  <2> SUFFICES ASSUME NEW p \in 1..(at + 3), p \notin 1..B
               PROVE  t[p][2] # "1038"
    OBVIOUS
  <2>1. CASE p \in (B + 1)..(at - 1)
    BY <2>1 DEF Merging, Added, Kept
  <2>2. CASE p \notin (B + 1)..(at - 1)
    <3>1. PICK j \in 0..3 : p = at + j
      <4>1. p - at \in 0..3 /\ p = at + (p - at)
        BY <1>1, <2>2
      <4> QED
        BY <4>1
    <3> QED
      BY <1>2, <3>1 DEF Merging, Placed
  <2> QED
    BY <2>1, <2>2
<1>5. \A p \in 1..B : /\ p \in 1..(B + 4) /\ p \in 1..(at + 3) /\ t[p][2] = s[p][2]
  BY <1>1 DEF Merging, HeldOver
<1>6. PICK A : A = At(s, "1038")
  OBVIOUS
<1>7. A = At(t, "1038") /\ A \in SUBSET (1..B) /\ 15 \in A
  <2>1. \A p : p \in A <=> p \in 1..B /\ s[p][2] = "1038"
    BY <1>1, <1>3, <1>5, <1>6 DEF At
  <2>2. \A p : p \in At(t, "1038") <=> p \in 1..B /\ s[p][2] = "1038"
    BY <1>1, <1>4, <1>5 DEF At
  <2>3. 15 \in 1..B /\ s[15][2] = "1038"
    BY <1>1 DEF Ready
  <2> QED
    BY <2>1, <2>2, <2>3
<1>8. PICK l : l = LastAt(s, "1038")
  OBVIOUS
<1>9. l = LastAt(t, "1038")
  BY <1>6, <1>7, <1>8 DEF LastAt
<1>10. l \in A /\ \A j \in A : l >= j
  <2>1. \E x \in A : \A j \in A : x >= j
    BY <1>1, <1>7, LastExists
  <2> QED
    BY <1>6, <1>8, <2>1 DEF LastAt
<1>11. l \in 1..B /\ l >= 15 /\ s[l][2] = "1038"
  BY <1>6, <1>7, <1>10 DEF At
<1>12. Stays(s, l, cap, n)
  <2>1. 3 \in 1..(l - 1) /\ s[3][2] = "1038"
    BY <1>11 DEF Ready
  <2> QED
    BY <1>11, <2>1 DEF Stays
<1>13. t[l] = s[l]
  BY <1>11, <1>12 DEF Merging, HeldOver
<1> QED
  BY <1>8, <1>9, <1>13 DEF ValueOf

\* Where the enables are, their values are the same, whatever came in before.
LEMMA EnablesStay ==
  ASSUME NEW s, NEW B, Ready(s, B), NEW t, NEW at, NEW cap, NEW n, Merging(t, at, s, B, cap, n)
  PROVE  /\ \A j \in 0..3 : ValueOf(t, s[B + 1 + j][2]) = ValueOf(s, s[B + 1 + j][2])
         /\ SubSeq(t, Len(t) - 3, Len(t)) = Enable
<1>1. /\ s \in Seq(WordsOf(s)) /\ t \in Seq(WordsOf(t)) /\ WrittenOnce(s) /\ WrittenOnce(t)
      /\ B \in Nat /\ at \in Nat /\ B + 1 <= at /\ Len(s) = B + 4 /\ Len(t) = at + 3
      /\ \A j \in 0..3 : s[B + 1 + j] = Enable[j + 1] /\ t[at + j] = Enable[j + 1]
  BY DEF Ready, Merging, Placed
<1>2. ASSUME NEW j \in 0..3
      PROVE  ValueOf(t, s[B + 1 + j][2]) = ValueOf(s, s[B + 1 + j][2])
  <2>1. PICK p : p = B + 1 + j
    OBVIOUS
  <2>2. PICK q : q = at + j
    OBVIOUS
  <2>3. p \in DOMAIN s /\ q \in DOMAIN t /\ s[p] = t[q]
    BY <1>1, <2>1, <2>2
  <2>4. s[p][2] # "1038"
    <3>1. Enable[j + 1][2] \in EnableRegs
      BY EnableRun DEF Registers, Run
    <3> QED
      BY <1>1, <2>1, <3>1 DEF EnableRegs
  <2>5. ValueOf(s, s[p][2]) = s[p][3]
    BY <1>1, <2>3, <2>4, OnlyPlace
  <2>6. ValueOf(t, t[q][2]) = t[q][3]
    BY <1>1, <2>3, <2>4, OnlyPlace
  <2> QED
    BY <2>1, <2>3, <2>5, <2>6
<1>3. SubSeq(t, Len(t) - 3, Len(t)) = Enable
  <2>1. PICK W : W = WordsOf(t)
    OBVIOUS
  <2>2. PICK e : e = SubSeq(t, at, at + 3)
    OBVIOUS
  <2>3. Len(t) - 3 = at /\ Len(t) = at + 3
    BY <1>1
  <2>4. Len(e) = 4 /\ e \in Seq(W) /\ \A i \in 1..4 : e[i] = t[at + i - 1]
    BY <1>1, <2>1, <2>2
  <2>5. \A i \in 1..4 : e[i] = Enable[i]
    <3> SUFFICES ASSUME NEW i \in 1..4
                 PROVE  e[i] = Enable[i]
      OBVIOUS
    <3>1. i - 1 \in 0..3 /\ at + i - 1 = at + (i - 1) /\ (i - 1) + 1 = i
      BY <1>1
    <3> QED
      BY <1>1, <2>4, <3>1
  <2>6. PICK V : V = WordsOf(Enable)
    OBVIOUS
  <2>7. Enable \in Seq(V) /\ Len(Enable) = 4
    BY <2>6, EnableRun DEF Run
  <2>8. e = [i \in 1..4 |-> e[i]] /\ Enable = [i \in 1..4 |-> Enable[i]]
    <3>1. PICK f : f = Enable
      OBVIOUS
    <3>2. PICK c \in Nat : c = 4
      OBVIOUS
    <3>3. Len(e) = c /\ e \in Seq(W) /\ Len(f) = c /\ f \in Seq(V)
      BY <2>4, <2>7, <3>1, <3>2
    <3>4. e \in [1..c -> W] /\ f \in [1..c -> V]
      BY <3>3
    <3>5. e = [i \in 1..c |-> e[i]] /\ f = [i \in 1..c |-> f[i]]
      BY <3>4
    <3> QED
      BY <3>1, <3>2, <3>5
  <2>9. e = Enable
    BY <2>5, <2>8
  <2> QED
    BY <2>2, <2>3, <2>9
<1> QED
  BY <1>2, <1>3

\* What the capture alone decides.
LEMMA ValueTaken ==
  ASSUME NEW s, NEW B, Ready(s, B), NEW t, NEW at, NEW X, NEW cap \in Seq(X), NEW n \in Nat,
         n = Len(cap), Merging(t, at, s, B, cap, n), NEW reg \in Registers(cap) \ Kept
  PROVE  ValueOf(t, reg) = ValueOf(cap, reg)
<1>1. /\ t \in Seq(WordsOf(t)) /\ WrittenOnce(t) /\ B \in Nat /\ at \in Nat /\ B + 1 <= at
      /\ Len(t) = at + 3
  BY DEF Ready, Merging, Placed
<1>2. PICK A : A = At(cap, reg)
  OBVIOUS
<1>3. DOMAIN cap = 1..n
  OBVIOUS
<1>4. A \in SUBSET (1..n) /\ A # {}
  BY <1>2, <1>3 DEF At, Registers
<1>5. PICK l : l = LastAt(cap, reg)
  OBVIOUS
<1>6. l \in A /\ \A j \in A : l >= j
  <2>1. \E x \in A : \A j \in A : x >= j
    BY <1>4, LastExists
  <2> QED
    BY <1>2, <1>5, <2>1 DEF LastAt
<1>7. l \in 1..n /\ cap[l][2] = reg
  BY <1>2, <1>4, <1>6 DEF At
<1>8. LastNamed(cap, l, n)
  <2> SUFFICES ASSUME NEW j \in (l + 1)..n, cap[j][2] = cap[l][2]
               PROVE  FALSE
    BY DEF LastNamed
  <2>1. j \in 1..n /\ j > l
    BY <1>7
  <2>2. j \in A
    BY <1>2, <1>3, <1>7, <2>1 DEF At
  <2> QED
    BY <1>6, <1>7, <2>1, <2>2
<1>9. PICK p \in 1..(at - 1) : t[p] = cap[l]
  BY <1>7, <1>8 DEF Merging, Taken1
<1>10. p \in DOMAIN t /\ t[p][2] = reg /\ reg # "1038"
  BY <1>1, <1>7, <1>9 DEF Kept
<1>11. ValueOf(t, reg) = t[p][3]
  BY <1>1, <1>10, OnlyPlace
<1> QED
  BY <1>5, <1>9, <1>11 DEF ValueOf

\* Our own addresses are in every stream, once.
LEMMA AddressesIn ==
  ASSUME NEW job, NEW B, Ready(Stream(job), B), NEW reg \in OurAddresses
  PROVE  \E p \in 1..B : Stream(job)[p][2] = reg
<1>1. PICK s : s = Stream(job)
  OBVIOUS
<1>2. <<"CNA", "1088", job.in>> \in WordsOf(Feature(job))
  <2>1. Feature(job)[3] = <<"CNA", "1088", job.in>> /\ 3 \in DOMAIN Feature(job)
    BY DEF Feature
  <2> QED
    BY <2>1 DEF WordsOf
<1>3. <<"CNA", "1110", job.weight>> \in WordsOf(Feature(job))
  <2>1. Feature(job)[7] = <<"CNA", "1110", job.weight>> /\ 7 \in DOMAIN Feature(job)
    BY DEF Feature
  <2> QED
    BY <2>1 DEF WordsOf
<1>4. <<"DPU", "4018", job.out>> \in WordsOf(Output(job))
  <2>1. Output(job)[2] = <<"DPU", "4018", job.out>> /\ 2 \in DOMAIN Output(job)
    BY DEF Output
  <2> QED
    BY <2>1 DEF WordsOf
<1>5. \E w \in WordsOf(s) : w[2] = reg
  <2>1. CASE reg = "1088"
    BY <1>1, <1>2, <2>1, StreamWords
  <2>2. CASE reg = "1110"
    BY <1>1, <1>3, <2>2, StreamWords
  <2>3. CASE reg = "4018"
    BY <1>1, <1>4, <2>3, StreamWords
  <2> QED
    BY <2>1, <2>2, <2>3 DEF OurAddresses
<1>6. PICK p \in DOMAIN s : s[p][2] = reg
  BY <1>5 DEF WordsOf
<1>7. B \in Nat /\ DOMAIN s = 1..(B + 4)
  BY <1>1 DEF Ready
<1>8. p \in 1..B
  <2>1. ASSUME p \notin 1..B
        PROVE  FALSE
    <3>1. PICK j \in 0..3 : p = B + 1 + j
      <4>1. p - (B + 1) \in 0..3 /\ p = B + 1 + (p - (B + 1))
        BY <1>7, <2>1
      <4> QED
        BY <4>1
    <3>2. s[p] = Enable[j + 1]
      BY <1>1, <3>1 DEF Ready
    <3>3. Enable[j + 1][2] \in EnableRegs
      BY EnableRun DEF Registers, Run
    <3> QED
      BY <1>6, <3>2, <3>3 DEF EnableRegs, OurAddresses
  <2> QED
    BY <2>1
<1> QED
  BY <1>1, <1>6, <1>8

LEMMA IsMerged ==
  ASSUME NEW job, NEW X, NEW cap \in Seq(X), \A i \in 1..Len(cap) : cap[i][2] \notin EnableRegs
  PROVE  Merged(job, cap)
<1>1. PICK s : s = Stream(job)
  OBVIOUS
<1>2. PICK B : Ready(s, B) /\ EnableAt(s) = B + 1
  BY <1>1, StreamReady
<1>3. PICK n \in Nat : n = Len(cap) /\ Captured(cap, n)
  BY DEF Captured
<1>4. PICK t : t = MergeVendor(s, cap)
  OBVIOUS
<1>5. PICK at : Merging(t, at, s, B, cap, n)
  <2>1. t = MergeFrom(s, cap, B + 1)
    BY <1>2, <1>4 DEF MergeVendor
  <2> QED
    BY <1>2, <1>3, <2>1, MergedAll
<1>6. DOMAIN cap = 1..n /\ \A reg : reg \in Registers(cap) <=> reg \in Named(cap, n)
  <2>1. DOMAIN cap = 1..n
    BY <1>3
  <2> QED
    BY <2>1 DEF Registers, Named
<1>7. B \in Nat /\ DOMAIN s = 1..(B + 4)
  BY <1>2 DEF Ready
<1>8. \A reg \in Kept : ValueOf(t, reg) = ValueOf(s, reg)
  <2> SUFFICES ASSUME NEW reg \in Kept
               PROVE  ValueOf(t, reg) = ValueOf(s, reg)
    OBVIOUS
  <2>1. CASE reg = "1038"
    BY <1>2, <1>5, <2>1, TwiceStays
  <2>2. CASE reg \in OurAddresses
    <3>1. PICK p \in 1..B : s[p][2] = reg
      BY <1>1, <1>2, <2>2, AddressesIn
    <3>2. Stays(s, p, cap, n) /\ s[p][2] # "1038"
      BY <2>2, <3>1 DEF Stays, OurAddresses
    <3> QED
      BY <1>2, <1>5, <3>1, <3>2, ValueStays
  <2> QED
    BY <2>1, <2>2 DEF Kept
<1>9. \A reg \in Registers(cap) \ Kept : ValueOf(t, reg) = ValueOf(cap, reg)
  BY <1>2, <1>3, <1>5, ValueTaken
<1>10. \A reg \in Registers(s) \ (Kept \cup Registers(cap)) : ValueOf(t, reg) = ValueOf(s, reg)
  <2> SUFFICES ASSUME NEW reg \in Registers(s), reg \notin Kept, reg \notin Registers(cap)
               PROVE  ValueOf(t, reg) = ValueOf(s, reg)
    OBVIOUS
  <2>1. PICK p \in 1..(B + 4) : s[p][2] = reg
    BY <1>7 DEF Registers
  <2>2. CASE p \in 1..B
    <3>1. Stays(s, p, cap, n) /\ s[p][2] # "1038"
      BY <1>6, <2>1 DEF Stays, Kept
    <3> QED
      BY <1>2, <1>5, <2>1, <2>2, <3>1, ValueStays
  <2>3. CASE p \notin 1..B
    <3>1. PICK j \in 0..3 : p = B + 1 + j
      <4>1. p - (B + 1) \in 0..3 /\ p = B + 1 + (p - (B + 1))
        BY <1>7, <2>3
      <4> QED
        BY <4>1
    <3> QED
      BY <1>2, <1>5, <2>1, <3>1, EnablesStay
  <2> QED
    BY <2>2, <2>3
<1>11. SubSeq(t, Len(t) - 3, Len(t)) = Enable
  BY <1>2, <1>5, EnablesStay
<1> QED
  BY <1>1, <1>4, <1>8, <1>9, <1>10, <1>11 DEF Merged, Kept

\* For every job and every capture that has no enable: the weight address is
\* patched by its one word and gives the stream of that address, the windows
\* of an admitted job are apart, and a capture merged over a stream leaves our
\* addresses and the enables as they were (charsiu_emit_job,
\* charsiu_patch_weight_addr and merge_vendor_values).
THEOREM StreamsAlwaysRight == Spec => []StreamsRight
<1>1. AskedGiven => StreamsRight
  <2> SUFFICES ASSUME AskedGiven, asked.kind = "stream"
               PROVE  /\ Patched(asked.job, 9)
                      /\ SurfaceAdmitted(asked.job) /\ Wide(asked.job) /\ WindowsMeant(asked.job)
                            => WindowsApart(asked.job)
                      /\ Merged(asked.job, asked.capture)
    BY DEF StreamsRight
  <2>1. PICK job, cap : job = asked.job /\ cap = asked.capture
    OBVIOUS
  <2>2. job \in StreamJobs /\ cap \in Captures
    BY <2>1, StreamAssumption DEF AskedGiven
  <2>3. Patched(job, 9)
    <3>1. 9 \in Nat
      OBVIOUS
    <3> QED
      BY <2>2, <3>1, IsPatched
  <2>4. SurfaceAdmitted(job) /\ Wide(job) /\ WindowsMeant(job) => WindowsApart(job)
    BY <2>2, WindowsAreApart
  <2>5. Merged(job, cap)
    <3>1. PICK R : R = STRING \ EnableRegs
      OBVIOUS
    <3>2. PICK X : X = STRING \X R \X STRING
      OBVIOUS
    <3>3. cap \in Seq(X)
      BY <2>2, <3>1, <3>2, StreamAssumption, EnableRun
    <3>4. \A i \in 1..Len(cap) : cap[i][2] \notin EnableRegs
      <4> SUFFICES ASSUME NEW i \in 1..Len(cap)
                   PROVE  cap[i][2] \notin EnableRegs
        OBVIOUS
      <4>1. cap[i] \in X
        BY <3>3
      <4>2. cap[i][2] \in R
        BY <3>2, <4>1
      <4> QED
        BY <3>1, <4>2
    <3> QED
      BY <3>3, <3>4, IsMerged
  <2> QED
    BY <2>1, <2>3, <2>4, <2>5
<1> QED
  BY <1>1, AlwaysGiven, PTL

-----------------------------------------------------------------------------
(* A model that loads.                                                     *)

\* The layers read so far, and the one after them.
NextLayer(f, m, b, i) == WithLayer(b, Layer(f, m, i - 1, b.last), i - 1)
NoLayers == [layers |-> <<>>, last |-> [w \in BOOLEAN |-> -1]]
LayersTo(g, f, m, n) ==
    g = [i \in 0..n |-> IF i = 0 THEN NoLayers ELSE NextLayer(f, m, g[i - 1], i)]

LEMMA LayersExist ==
  ASSUME NEW f, NEW m, NEW n \in Nat
  PROVE  \E g : LayersTo(g, f, m, n)
<1>1. PICK S : S = {i \in 0..n : \E g : LayersTo(g, f, m, i)}
  OBVIOUS
<1>2. PICK first : first = NoLayers
  OBVIOUS
<1>3. 0 \in S
  <2>1. PICK g : g = [i \in 0..0 |-> first]
    OBVIOUS
  <2>2. \A i \in 0..0 : i = 0
    OBVIOUS
  <2>3. g = [i \in 0..0 |-> IF i = 0 THEN first ELSE NextLayer(f, m, g[i - 1], i)]
    BY <2>1, <2>2
  <2> QED
    BY <1>1, <1>2, <2>3 DEF LayersTo
<1>4. ASSUME NEW i \in S, i < n
      PROVE  i + 1 \in S
  <2>1. i \in 0..n /\ \E g : LayersTo(g, f, m, i)
    BY <1>1
  <2>2. PICK g : LayersTo(g, f, m, i)
    BY <2>1
  <2>3. PICK j \in Nat : j = i + 1 /\ j # 0 /\ j - 1 = i /\ j \in 0..n
    BY <1>4, <2>1
  <2>4. PICK h : h = [k \in 0..j |-> IF k = j THEN NextLayer(f, m, g[i], j) ELSE g[k]]
    OBVIOUS
  <2>5. \A k \in 0..i : g[k] = IF k = 0 THEN first ELSE NextLayer(f, m, g[k - 1], k)
    BY <1>2, <2>2 DEF LayersTo
  <2>6. \A k \in 0..j : /\ k # j => k \in 0..i /\ h[k] = g[k]
                        /\ k = j => h[k] = NextLayer(f, m, g[i], j)
    BY <2>1, <2>3, <2>4
  <2>7. h[i] = g[i] /\ i # j
    BY <2>1, <2>3, <2>6
  <2>8. ASSUME NEW k \in 0..j
        PROVE  h[k] = IF k = 0 THEN first ELSE NextLayer(f, m, h[k - 1], k)
    <3>1. CASE k = j
      BY <2>3, <2>6, <2>7, <3>1
    <3>2. CASE k # j
      <4>1. k \in 0..i /\ h[k] = g[k]
        BY <2>6, <3>2
      <4>2. k # 0 => h[k - 1] = g[k - 1]
        <5>1. k # 0 => k - 1 \in 0..j /\ k - 1 # j
          BY <2>1, <2>3, <4>1
        <5> QED
          BY <2>6, <5>1
      <4> QED
        BY <2>5, <4>1, <4>2
    <3> QED
      BY <3>1, <3>2
  <2>9. h = [k \in 0..j |-> IF k = 0 THEN first ELSE NextLayer(f, m, h[k - 1], k)]
    <3>1. PICK h2 : h2 = [k \in 0..j |-> IF k = 0 THEN first ELSE NextLayer(f, m, h[k - 1], k)]
      OBVIOUS
    <3>2. h = h2
      BY <2>4, <2>8, <3>1
    <3> QED
      BY <3>1, <3>2
  <2> QED
    BY <1>1, <1>2, <2>3, <2>9 DEF LayersTo
<1>5. S = 0..n
  BY <1>1, <1>3, <1>4, Ascent
<1>6. n \in S
  BY <1>5
<1> QED
  BY <1>1, <1>6

\* Below n there is no layer of the kind w with a K of its own, or l is one.
Own(ls, n, w, l) ==
    l = -1 \/ (l \in 0..(n - 1) /\ ls[l + 1].wk # Null /\ ls[l + 1].swa = w)
FromEarlier(f, m, ls, j) ==
    \E la : ls[j] = Layer(f, m, j - 1, la) /\ \A w \in BOOLEAN : Own(ls, j - 1, w, la[w])
Loading(b, f, m, n) ==
    /\ \E X : b.layers \in Seq(X)
    /\ Len(b.layers) = n
    /\ b.last \in [BOOLEAN -> Int]
    /\ \A w \in BOOLEAN : Own(b.layers, n, w, b.last[w])
    /\ \A j \in 1..n : FromEarlier(f, m, b.layers, j)

\* What a layer has of its window, wherever its K comes from.
LEMMA LayerHas ==
  ASSUME NEW f, NEW m, NEW l, NEW la
  PROVE  LET L == Layer(f, m, l, la)
             p == Projections(f, m, l)
         IN /\ L.swa = IsWindow(f, m, l) /\ L.wq = p.wq /\ L.wk = p.wk /\ L.wv = p.wv
            /\ L.gate = p.gate /\ L.up = p.up /\ L.split = Splits(f, m) /\ L.n_ff = FfOfLayer(f, m, l)
            /\ L.head_dim = IF IsWindow(f, m, l) THEN m.head_dim_swa ELSE m.head_dim
            /\ L.kv_from = IF p.wk = Null THEN la[IsWindow(f, m, l)] ELSE -1
            /\ L.wo = Tensor(f, "attn_output", l) /\ L.down = Tensor(f, "ffn_down", l)
            /\ L.attn_norm = Tensor(f, "attn_norm", l) /\ L.ffn_norm = Tensor(f, "ffn_norm", l)
            /\ L.bq = Tensor(f, "attn_q.bias", l) /\ L.bk = Tensor(f, "attn_k.bias", l)
            /\ L.bv = Tensor(f, "attn_v.bias", l)
            /\ L.pl_inp_gate = Tensor(f, "inp_gate", l) /\ L.pl_proj = Tensor(f, "proj", l)
BY DEF Layer

\* Layers behind a layer leave it where it is.
LEMMA OwnGrows ==
  ASSUME NEW X, NEW ls \in Seq(X), NEW L, NEW l2, l2 = Append(ls, L), NEW n \in 0..Len(ls),
         NEW w, NEW l, Own(ls, n, w, l)
  PROVE  Own(l2, n, w, l) /\ Own(l2, n + 1, w, l)
<1>1. PICK Y : Y = X \cup {L}
  OBVIOUS
<1>2. \A j \in 1..Len(ls) : l2[j] = ls[j]
  BY <1>1
<1>3. CASE l = -1
  BY <1>3 DEF Own
<1>4. CASE l # -1
  <2>1. l \in 0..(n - 1) /\ ls[l + 1].wk # Null /\ ls[l + 1].swa = w
    BY <1>4 DEF Own
  <2>2. l + 1 \in 1..Len(ls) /\ l \in 0..((n + 1) - 1)
    BY <2>1
  <2>3. l2[l + 1] = ls[l + 1]
    BY <1>2, <2>2
  <2> QED
    BY <2>1, <2>2, <2>3 DEF Own
<1> QED
  BY <1>3, <1>4

LEMMA LoadNext ==
  ASSUME NEW f, NEW m, NEW n \in Nat, NEW b, Loading(b, f, m, n),
         IsWindow(f, m, n) \in BOOLEAN, NEW c, c = NextLayer(f, m, b, n + 1)
  PROVE  Loading(c, f, m, n + 1)
<1>1. PICK ls, la : ls = b.layers /\ la = b.last
  OBVIOUS
<1>2. PICK L : L = Layer(f, m, n, la)
  OBVIOUS
<1>3. PICK X : ls \in Seq(X)
  BY <1>1 DEF Loading
<1>4. Len(ls) = n /\ la \in [BOOLEAN -> Int] /\ \A w \in BOOLEAN : Own(ls, n, w, la[w])
  BY <1>1 DEF Loading
<1>5. PICK l2 : l2 = Append(ls, L)
  OBVIOUS
<1>6. PICK Y : Y = X \cup {L}
  OBVIOUS
<1>7. l2 \in Seq(Y) /\ Len(l2) = n + 1 /\ l2[n + 1] = L
  BY <1>3, <1>4, <1>5, <1>6
<1>8. L.swa \in BOOLEAN
  BY <1>2, LayerHas
<1>9. PICK lb : lb = IF L.wk = Null THEN la ELSE [la EXCEPT ![L.swa] = n]
  OBVIOUS
<1>10. c.layers = l2 /\ c.last = lb
  <2>1. (n + 1) - 1 = n
    OBVIOUS
  <2>2. c = WithLayer(b, L, n)
    BY <1>1, <1>2, <2>1 DEF NextLayer
  <2> QED
    BY <1>1, <1>5, <1>9, <2>2 DEF WithLayer
<1>11. lb \in [BOOLEAN -> Int]
  BY <1>4, <1>8, <1>9
<1>12. ASSUME NEW w \in BOOLEAN
       PROVE  Own(l2, n + 1, w, lb[w])
  <2>1. n \in 0..Len(ls) /\ Own(ls, n, w, la[w])
    BY <1>4
  <2>2. Own(l2, n + 1, w, la[w])
    BY <1>3, <1>5, <2>1, OwnGrows
  <2>3. CASE lb[w] = la[w]
    BY <2>2, <2>3
  <2>4. CASE lb[w] # la[w]
    <3>1. L.wk # Null /\ w = L.swa /\ lb[w] = n
      BY <1>4, <1>8, <1>9, <2>4
    <3> QED
      BY <1>7, <3>1 DEF Own
  <2> QED
    BY <2>3, <2>4
<1>13. ASSUME NEW j \in 1..(n + 1)
       PROVE  FromEarlier(f, m, l2, j)
  <2>1. CASE j = n + 1
    <3>1. (n + 1) - 1 = n /\ n \in 0..Len(ls)
      BY <1>4
    <3>2. \A w \in BOOLEAN : Own(l2, n, w, la[w])
      BY <1>3, <1>4, <1>5, <3>1, OwnGrows
    <3> QED
      BY <1>2, <1>7, <2>1, <3>1, <3>2 DEF FromEarlier
  <2>2. CASE j # n + 1
    <3>1. j \in 1..n /\ j - 1 \in 0..Len(ls)
      BY <1>4, <2>2
    <3>2. PICK lj : ls[j] = Layer(f, m, j - 1, lj) /\ \A w \in BOOLEAN : Own(ls, j - 1, w, lj[w])
      BY <1>1, <3>1 DEF Loading, FromEarlier
    <3>3. l2[j] = ls[j]
      BY <1>3, <1>4, <1>5, <1>6, <3>1
    <3>4. \A w \in BOOLEAN : Own(l2, j - 1, w, lj[w])
      BY <1>3, <1>5, <3>1, <3>2, OwnGrows
    <3> QED
      BY <3>2, <3>3, <3>4 DEF FromEarlier
  <2> QED
    BY <2>1, <2>2
<1> QED
  BY <1>7, <1>10, <1>11, <1>12, <1>13 DEF Loading

LEMMA LayersRead ==
  ASSUME NEW f, NEW m, m.n_layer \in Nat,
         \A l \in 0..(m.n_layer - 1) : IsWindow(f, m, l) \in BOOLEAN
  PROVE  /\ \E X : Layers(f, m) \in Seq(X)
         /\ Len(Layers(f, m)) = m.n_layer
         /\ \A j \in 1..m.n_layer : FromEarlier(f, m, Layers(f, m), j)
<1>1. PICK n \in Nat : n = m.n_layer
  OBVIOUS
<1>2. PICK g : g = CHOOSE h : LayersTo(h, f, m, n)
  OBVIOUS
<1>3. LayersTo(g, f, m, n)
  BY <1>2, LayersExist
<1>4. Layers(f, m) = g[n].layers
  BY <1>1, <1>2 DEF Layers, LayersTo, NextLayer, NoLayers
<1>5. \A i \in 0..n : g[i] = IF i = 0 THEN NoLayers ELSE NextLayer(f, m, g[i - 1], i)
  BY <1>3 DEF LayersTo
<1>6. PICK S : S = {i \in 0..n : Loading(g[i], f, m, i)}
  OBVIOUS
<1>7. 0 \in S
  <2>1. g[0] = NoLayers
    BY <1>5
  <2>2. <<>> \in Seq({}) /\ Len(<<>>) = 0
    OBVIOUS
  <2>3. Loading(NoLayers, f, m, 0)
    BY <2>2 DEF Loading, NoLayers, Own
  <2> QED
    BY <1>6, <2>1, <2>3
<1>8. ASSUME NEW i \in S, i < n
      PROVE  i + 1 \in S
  <2>1. i \in Nat /\ i \in 0..(n - 1) /\ i + 1 \in 0..n /\ i + 1 # 0 /\ (i + 1) - 1 = i
    BY <1>6, <1>8
  <2>2. g[i + 1] = NextLayer(f, m, g[i], i + 1)
    BY <1>5, <2>1
  <2>3. Loading(g[i], f, m, i) /\ IsWindow(f, m, i) \in BOOLEAN
    BY <1>1, <1>6, <2>1
  <2>4. Loading(g[i + 1], f, m, i + 1)
    BY <2>1, <2>2, <2>3, LoadNext
  <2> QED
    BY <1>6, <2>1, <2>4
<1>9. S = 0..n
  BY <1>6, <1>7, <1>8, Ascent
<1>10. Loading(g[n], f, m, n)
  <2>1. n \in S
    BY <1>9
  <2> QED
    BY <1>6, <2>1
<1> QED
  BY <1>1, <1>4, <1>10 DEF Loading

\* A row of numbers has a largest.
LEMMA LargestOf ==
  ASSUME NEW arr \in Seq(Nat), NEW n \in 1..Len(arr)
  PROVE  /\ Largest({arr[i] : i \in 1..n}) \in Nat
         /\ \A i \in 1..n : arr[i] <= Largest({arr[j] : j \in 1..n})
<1>1. PICK N \in Nat : N = n /\ N <= Len(arr)
  OBVIOUS
<1>2. \A i \in 1..N : arr[i] \in Nat
  BY <1>1
<1>3. PICK T : T = {t \in 0..(N - 1) : \E x \in 1..(t + 1) : \A y \in 1..(t + 1) : arr[y] <= arr[x]}
  OBVIOUS
<1>4. 0 \in T
  <2>1. 1 \in 1..(0 + 1) /\ 0 \in 0..(N - 1) /\ \A y \in 1..(0 + 1) : y = 1
    BY <1>1
  <2>2. arr[1] <= arr[1]
    BY <1>1, <1>2
  <2> QED
    BY <1>3, <2>1, <2>2
<1>5. ASSUME NEW t \in T, t < N - 1
      PROVE  t + 1 \in T
  <2>1. t \in Nat /\ t + 1 \in 0..(N - 1)
    BY <1>1, <1>3, <1>5
  <2>2. PICK x \in 1..(t + 1) : \A y \in 1..(t + 1) : arr[y] <= arr[x]
    BY <1>3
  <2>3. \A y \in 1..((t + 1) + 1) : y \in 1..(t + 1) \/ y = t + 2
    BY <2>1
  <2>4. x \in 1..N /\ t + 2 \in 1..N /\ x \in 1..((t + 1) + 1) /\ t + 2 \in 1..((t + 1) + 1)
    BY <1>1, <2>1
  <2>5. arr[x] \in Nat /\ arr[t + 2] \in Nat
    BY <1>2, <2>4
  <2>6. CASE arr[t + 2] <= arr[x]
    <3>1. \A y \in 1..((t + 1) + 1) : arr[y] <= arr[x]
      BY <2>2, <2>3, <2>6
    <3> QED
      BY <1>3, <2>1, <2>4, <3>1
  <2>7. CASE ~(arr[t + 2] <= arr[x])
    <3>1. ASSUME NEW y \in 1..((t + 1) + 1)
          PROVE  arr[y] <= arr[t + 2]
      <4>1. CASE y \in 1..(t + 1)
        <5>1. y \in 1..N
          BY <1>1, <2>1, <4>1
        <5>2. arr[y] \in Nat /\ arr[y] <= arr[x]
          BY <1>2, <2>2, <4>1, <5>1
        <5> QED
          BY <2>5, <2>7, <5>2
      <4>2. CASE y = t + 2
        BY <2>5, <4>2
      <4> QED
        BY <2>3, <4>1, <4>2
    <3> QED
      BY <1>3, <2>1, <2>4, <3>1
  <2> QED
    BY <2>6, <2>7
<1>6. T = 0..(N - 1)
  <2>1. N - 1 \in Nat /\ T \in SUBSET (0..(N - 1))
    BY <1>1, <1>3
  <2> QED
    BY <1>4, <1>5, <2>1, Ascent
<1>7. PICK x \in 1..N : \A y \in 1..N : arr[y] <= arr[x]
  <2>1. N - 1 \in T /\ (N - 1) + 1 = N
    BY <1>1, <1>6
  <2> QED
    BY <1>3, <2>1
<1>8. PICK V : V = {arr[i] : i \in 1..n}
  OBVIOUS
<1>9. PICK v : v = Largest(V)
  OBVIOUS
<1>10. arr[x] \in V /\ \A y \in V : y <= arr[x]
  BY <1>1, <1>7, <1>8
<1>11. v \in V /\ \A y \in V : y <= v
  BY <1>9, <1>10 DEF Largest
<1>12. v \in Nat
  BY <1>1, <1>2, <1>8, <1>11
<1>13. \A i \in 1..n : arr[i] <= v
  BY <1>8, <1>11
<1> QED
  BY <1>8, <1>9, <1>12, <1>13

\* What a model file's shape is made of.
LEMMA KeyIs ==
  ASSUME NEW f, ModelFile(f), NEW key \in Counts, NEW default \in Nat
  PROVE  Key(f, key, default) \in Nat
BY DEF ModelFile, Key

LEMMA ShapeHas ==
  ASSUME NEW f
  PROVE  LET m == Shape(f)
             heads == Key(f, "attention.head_count", 0)
             hd == HeadDim(f, Key(f, "embedding_length", 0), heads)
         IN /\ m.n_layer = Key(f, "block_count", 0) /\ m.n_head = heads
            /\ m.n_head_kv = Key(f, "attention.head_count_kv", heads)
            /\ m.n_ff = FeedForward(f, m.n_layer) /\ m.head_dim = hd.used
            /\ m.n_swa = Swa(f).n /\ m.swa_pattern = Swa(f).pattern
            /\ m.swa_arr = HasArray(f, "attention.sliding_window_pattern[]", m.n_layer)
            /\ m.ok => heads # 0 /\ m.n_ff # 0 /\ m.n_layer # 0
            /\ "loaded" \notin DOMAIN m /\ "layers" \notin DOMAIN m
            /\ {"n_layer", "head_dim", "n_ff", "n_swa", "n_embd_pl"} \subseteq DOMAIN m
BY DEF Shape

LEMMA ShapeIs ==
  ASSUME NEW f, ModelFile(f), Shape(f).ok
  PROVE  LET m == Shape(f)
         IN /\ m.n_layer \in Nat /\ m.n_head \in Nat /\ m.n_head_kv \in Nat
            /\ m.head_dim \in Nat /\ m.head_dim_swa <= m.head_dim
            /\ m.n_ff \in Nat \ {0} /\ m.n_swa \in Nat /\ m.swa_pattern \in Nat
            /\ m.swa_pattern # 0 => m.n_swa # 0
            /\ \A l \in 0..(m.n_layer - 1) : /\ IsWindow(f, m, l) \in BOOLEAN
                                             /\ IsWindow(f, m, l) => m.n_swa > 0
                                             /\ FfOfLayer(f, m, l) <= m.n_ff
<1>1. PICK m : m = Shape(f)
  OBVIOUS
<1>2. 0 \in Nat /\ 6 \in Nat
  OBVIOUS
<1>3. PICK embd \in Nat, heads \in Nat, n \in Nat :
         /\ embd = Key(f, "embedding_length", 0) /\ heads = Key(f, "attention.head_count", 0)
         /\ n = Key(f, "block_count", 0)
  BY <1>2, KeyIs DEF Counts
<1>4. m.n_layer = n /\ m.n_head = heads /\ heads # 0 /\ m.n_ff = FeedForward(f, n) /\ m.n_ff # 0
      /\ n # 0
  BY <1>1, <1>3, ShapeHas
<1>5. m.n_head_kv \in Nat
  <2>1. m.n_head_kv = Key(f, "attention.head_count_kv", heads)
    BY <1>1, <1>3, ShapeHas
  <2> QED
    BY <2>1, KeyIs DEF Counts
<1>6. m.head_dim \in Nat
  <2>1. PICK each \in Nat : each = IF heads = 0 THEN 0 ELSE embd \div heads
    <3>1. embd \div heads \in Nat
      BY <1>4
    <3> QED
      BY <1>4, <3>1
  <2>2. Key(f, "rope.dimension_count", each) \in Nat /\ Key(f, "attention.key_length", 0) \in Nat
    BY <1>2, KeyIs DEF Counts
  <2>3. HeadDim(f, embd, heads).used \in Nat
    BY <2>1, <2>2 DEF HeadDim
  <2> QED
    BY <1>1, <1>3, <2>3, ShapeHas
<1>7. PICK swa : swa = Swa(f)
  OBVIOUS
<1>8. swa.n \in Nat /\ swa.pattern \in Nat /\ (swa.pattern # 0 => swa.n # 0)
  <2>1. PICK keyed \in Nat : keyed = Key(f, "attention.sliding_window", 0)
    BY <1>2, KeyIs DEF Counts
  <2>2. PICK given \in Nat : given = Key(f, "attention.sliding_window_pattern", 6)
    BY <1>2, KeyIs DEF Counts
  <2>3. PICK pattern \in Nat : pattern = IF keyed = 0 THEN 0 ELSE given
    BY <2>1, <2>2
  <2>4. PICK sw \in Nat : sw = Env(f, "CHARSIU_SWA", keyed)
    BY <2>1 DEF ModelFile, Env
  <2>5. PICK forced : forced = IF "CHARSIU_SWA" \notin DOMAIN f.env THEN pattern
                               ELSE IF sw = 0 THEN 0
                               ELSE IF pattern = 0 THEN 6 ELSE pattern
    OBVIOUS
  <2>6. "CHARSIU_SWA" \notin DOMAIN f.env => sw = keyed /\ forced = pattern
    BY <2>4, <2>5 DEF Env
  <2>7. "CHARSIU_SWA" \in DOMAIN f.env =>
            IF sw = 0 THEN forced = 0 ELSE forced = IF pattern = 0 THEN 6 ELSE pattern
    BY <2>5
  <2>8. forced \in Nat /\ (forced # 0 => sw # 0)
    BY <2>3, <2>6, <2>7
  <2>9. swa = [n |-> sw,
               pattern |-> IF sw # 0 THEN Env(f, "CHARSIU_SWA_PATTERN", forced) ELSE forced]
    BY <1>7, <2>1, <2>2, <2>3, <2>4, <2>5 DEF Swa
  <2>10. Env(f, "CHARSIU_SWA_PATTERN", forced) \in Nat
    BY <2>8 DEF ModelFile, Env
  <2> QED
    BY <2>8, <2>9, <2>10
<1>9. m.n_swa = swa.n /\ m.swa_pattern = swa.pattern
      /\ m.swa_arr = HasArray(f, "attention.sliding_window_pattern[]", n)
  BY <1>1, <1>3, <1>7, ShapeHas
<1>10. m.n_ff \in Nat /\ \A l \in 0..(n - 1) : FfOfLayer(f, m, l) <= m.n_ff
  <2>1. PICK key : key = "feed_forward_length[]"
    OBVIOUS
  <2>2. PICK plain \in Nat : plain = Key(f, "feed_forward_length", 0)
    BY <1>2, KeyIs DEF Counts
  <2>3. CASE ~HasArray(f, key, n)
    <3>1. m.n_ff = plain
      BY <1>4, <2>1, <2>2, <2>3 DEF FeedForward
    <3>2. \A l \in 0..(n - 1) : FfOfLayer(f, m, l) = m.n_ff
      BY <1>4, <2>1, <2>3 DEF FfOfLayer
    <3> QED
      BY <3>1, <3>2
  <2>4. CASE HasArray(f, key, n)
    <3>1. PICK arr : arr = f.meta[key]
      OBVIOUS
    <3>2. arr \in Seq(Nat) /\ Len(arr) >= n
      BY <2>1, <2>4, <3>1 DEF ModelFile, HasArray, Key
    <3>3. n \in 1..Len(arr)
      BY <1>4, <3>2
    <3>4. PICK widest : widest = Largest({arr[i] : i \in 1..n})
      OBVIOUS
    <3>5. widest \in Nat /\ \A i \in 1..n : arr[i] <= widest
      BY <3>2, <3>3, <3>4, LargestOf
    <3>6. m.n_ff = IF widest # 0 THEN widest ELSE plain
      BY <1>4, <2>1, <2>2, <2>4, <3>1, <3>4 DEF FeedForward
    <3>7. m.n_ff \in Nat
      BY <3>5, <3>6
    <3>8. ASSUME NEW l \in 0..(n - 1)
          PROVE  FfOfLayer(f, m, l) <= m.n_ff
      <4>1. l + 1 \in 1..n /\ l + 1 \in 1..Len(arr)
        BY <3>2
      <4>2. arr[l + 1] \in Nat /\ arr[l + 1] <= widest
        BY <3>2, <3>5, <4>1
      <4>3. FfOfLayer(f, m, l) = IF arr[l + 1] # 0 THEN arr[l + 1] ELSE m.n_ff
        BY <1>4, <2>1, <2>4, <3>1 DEF FfOfLayer
      <4> QED
        BY <3>5, <3>6, <3>7, <4>2, <4>3
    <3> QED
      BY <3>7, <3>8
  <2> QED
    BY <2>3, <2>4
<1>11. ASSUME NEW l \in 0..(n - 1)
       PROVE  IsWindow(f, m, l) \in BOOLEAN /\ (IsWindow(f, m, l) => m.n_swa > 0)
  <2>1. PICK key : key = "attention.sliding_window_pattern[]"
    OBVIOUS
  <2>2. CASE ~HasArray(f, key, n)
    <3>1. IsWindow(f, m, l) = (m.swa_pattern # 0 /\ l % m.swa_pattern < m.swa_pattern - 1)
      BY <1>9, <2>1, <2>2 DEF IsWindow
    <3>2. IsWindow(f, m, l) \in BOOLEAN
      BY <3>1, Zenon
    <3>3. IsWindow(f, m, l) => m.swa_pattern # 0
      BY <3>1, Zenon
    <3>4. m.n_swa \in Nat /\ (m.swa_pattern # 0 => m.n_swa # 0)
      BY <1>8, <1>9
    <3> QED
      BY <3>2, <3>3, <3>4
  <2>3. CASE HasArray(f, key, n)
    <3>1. PICK arr : arr = f.meta[key]
      OBVIOUS
    <3>2. arr \in Seq(BOOLEAN) /\ Len(arr) >= n
      BY <2>1, <2>3, <3>1 DEF ModelFile, HasArray, Key
    <3>3. l + 1 \in 1..Len(arr)
      BY <3>2
    <3>4. arr[l + 1] \in BOOLEAN
      BY <3>2, <3>3
    <3>5. IsWindow(f, m, l) = (m.n_swa # 0 /\ arr[l + 1])
      BY <1>9, <2>1, <2>3, <3>1 DEF IsWindow
    <3>6. IsWindow(f, m, l) \in BOOLEAN
      BY <3>5, Zenon
    <3>7. IsWindow(f, m, l) => m.n_swa # 0
      BY <3>5, Zenon
    <3>8. m.n_swa \in Nat
      BY <1>8, <1>9
    <3> QED
      BY <3>6, <3>7, <3>8
  <2> QED
    BY <2>2, <2>3
<1> QED
  BY <1>1, <1>4, <1>5, <1>6, <1>8, <1>9, <1>10, <1>11 DEF ModelFile

\* What tells the weights of a layer apart: the last two digits of their codes.
Kinded == [attn_q |-> 10, attn_k |-> 11, attn_v |-> 12, attn_qkv |-> 13, attn_output |-> 14, ffn_gate |-> 28,
           ffn_up |-> 29, ffn_down |-> 30]

LEMMA TensorCode ==
  ASSUME NEW f, NEW name \in DOMAIN Kinded, NEW l \in Nat, Tensor(f, name, l) # Null
  PROVE  Tensor(f, name, l) = 100 * (l + 1) + Kinded[name]
<1>1. PICK k \in 1..30 : k = Kinded[name]
  BY DEF Kinded
<1>2. DOMAIN Names = 1..30
  BY DEF Names
<1>3. Names[k] = name
  BY <1>1 DEF Names, Kinded
<1>4. \A i \in 1..30 : Names[i] = name => i = k
  BY <1>1 DEF Names, Kinded
<1>5. PICK c : c = CHOOSE i \in DOMAIN Names : Names[i] = name
  OBVIOUS
<1>6. c = k
  BY <1>2, <1>3, <1>4, <1>5
<1>7. Tensor(f, name, l) = 100 * (l + 1) + c
  BY <1>5 DEF Tensor
<1> QED
  BY <1>1, <1>6, <1>7

\* The codes of the weights of a layer l, or Null: their kinds, which differ, behind the
\* layer's hundreds.
Coded(ws, t, kinds) ==
    /\ DOMAIN ws = 1..7 /\ DOMAIN kinds = 1..7
    /\ \A i \in 1..7 : ws[i] = Null \/ ws[i] = t + kinds[i]
    /\ \A i \in 1..7 : kinds[i] \in Nat
    /\ \A i, j \in 1..7 : i # j => kinds[i] # kinds[j]

LEMMA CodesApart ==
  ASSUME NEW ws, NEW t \in Nat, NEW kinds, Coded(ws, t, kinds)
  PROVE  \A i, j \in DOMAIN ws : i # j /\ ws[i] # Null => ws[i] # ws[j]
<1> SUFFICES ASSUME NEW i \in 1..7, NEW j \in 1..7, i # j, ws[i] # Null
             PROVE  ws[i] # ws[j]
  BY DEF Coded
<1>1. PICK a \in Nat, b \in Nat : a = kinds[i] /\ b = kinds[j] /\ a # b
  BY DEF Coded
<1>2. ws[i] = t + a /\ (ws[j] = Null \/ ws[j] = t + b)
  BY <1>1 DEF Coded
<1> QED
  BY <1>1, <1>2 DEF Null

KindOf == <<10, 11, 12, 14, 28, 29, 30>>
KindOfSplit == <<31, 32, 33, 14, 34, 35, 30>>

\* No two weights of a layer are one.
LEMMA WeightsDiffer ==
  ASSUME NEW f, NEW m, NEW l \in Nat, NEW la, NEW L, L = Layer(f, m, l, la)
  PROVE  LET ws == LayerWeights(L)
         IN \A i, j \in DOMAIN ws : i # j /\ ws[i] # Null => ws[i] # ws[j]
<1>1. PICK p : p = Projections(f, m, l)
  OBVIOUS
<1>2. /\ L.wq = p.wq /\ L.wk = p.wk /\ L.wv = p.wv /\ L.gate = p.gate /\ L.up = p.up
      /\ L.wo = Tensor(f, "attn_output", l) /\ L.down = Tensor(f, "ffn_down", l)
  BY <1>1, LayerHas
<1>3. PICK t \in Nat : t = 100 * (l + 1)
  OBVIOUS
<1>4. \A name \in DOMAIN Kinded : Tensor(f, name, l) = Null \/ Tensor(f, name, l) = t + Kinded[name]
  BY <1>3, TensorCode
<1>5. (L.wo = Null \/ L.wo = t + 14) /\ (L.down = Null \/ L.down = t + 30)
  <2>1. {"attn_output", "ffn_down"} \subseteq DOMAIN Kinded
        /\ Kinded["attn_output"] = 14 /\ Kinded["ffn_down"] = 30
    BY DEF Kinded
  <2> QED
    BY <1>2, <1>4, <2>1
<1>6. PICK ws : ws = LayerWeights(L)
  OBVIOUS
<1>7. ws = <<L.wq, L.wk, L.wv, L.wo, L.gate, L.up, L.down>>
  BY <1>6 DEF LayerWeights
<1>8. \E kinds : Coded(ws, t, kinds)
  <2>1. CASE f.arch = "phi3"
    <3>1. Len(Names) = 30
      BY DEF Names
    <3>2. \A i \in Nat : \A s : Part(f, l, i, s) = Null \/ Part(f, l, i, s) = t + (30 + i)
      BY <1>3, <3>1 DEF Part
    <3>3. PICK S : S = Splits(f, m)
      OBVIOUS
    <3>4. /\ p.wq = Part(f, l, 1, S[1]) /\ p.wk = Part(f, l, 2, S[2]) /\ p.wv = Part(f, l, 3, S[3])
          /\ p.gate = Part(f, l, 4, S[4]) /\ p.up = Part(f, l, 5, S[5])
      BY <1>1, <2>1, <3>3 DEF Projections
    <3>5. /\ L.wq = Null \/ L.wq = t + 31
          /\ L.wk = Null \/ L.wk = t + 32
          /\ L.wv = Null \/ L.wv = t + 33
          /\ L.gate = Null \/ L.gate = t + 34
          /\ L.up = Null \/ L.up = t + 35
      BY <1>2, <3>2, <3>4
    <3>6. Coded(ws, t, KindOfSplit)
      BY <1>5, <1>7, <3>5 DEF Coded, KindOfSplit
    <3> QED
      BY <3>6
  <2>2. CASE f.arch # "phi3"
    <3>1. /\ L.wq = Tensor(f, "attn_q", l) /\ L.wk = Tensor(f, "attn_k", l)
          /\ L.wv = Tensor(f, "attn_v", l) /\ L.gate = Tensor(f, "ffn_gate", l)
          /\ L.up = Tensor(f, "ffn_up", l)
      BY <1>1, <1>2, <2>2 DEF Projections
    <3>2. {"attn_q", "attn_k", "attn_v", "ffn_gate", "ffn_up"} \subseteq DOMAIN Kinded
          /\ Kinded["attn_q"] = 10 /\ Kinded["attn_k"] = 11 /\ Kinded["attn_v"] = 12
          /\ Kinded["ffn_gate"] = 28 /\ Kinded["ffn_up"] = 29
      BY DEF Kinded
    <3>3. /\ L.wq = Null \/ L.wq = t + 10
          /\ L.wk = Null \/ L.wk = t + 11
          /\ L.wv = Null \/ L.wv = t + 12
          /\ L.gate = Null \/ L.gate = t + 28
          /\ L.up = Null \/ L.up = t + 29
      BY <1>4, <3>1, <3>2
    <3>4. Coded(ws, t, KindOf)
      BY <1>5, <1>7, <3>3 DEF Coded, KindOf
    <3> QED
      BY <3>4
  <2> QED
    BY <2>1, <2>2
<1> QED
  BY <1>3, <1>6, <1>8, CodesApart

\* The slices of each fused weight of a layer that is not refused tile it, where the file
\* has no more rows of it.
LEMMA SlicesTileIt ==
  ASSUME NEW f, NEW m, NEW l \in Nat, NEW la, NEW L, L = Layer(f, m, l, la), LayerOk(f, L, l),
         Complete(f, m), m.n_head \in Nat, m.n_head_kv \in Nat, m.head_dim \in Nat,
         m.n_ff \in Nat \ {0}, f.rows["attn_qkv"] \in Nat, f.rows["ffn_up"] \in Nat
  PROVE  \A name \in {L.split[i].of : i \in DOMAIN L.split} : SlicesTile(f, L.split, name)
<1>1. L.split = Splits(f, m)
  BY LayerHas
<1>2. CASE f.arch # "phi3"
  <2>1. L.split = <<>>
    BY <1>1, <1>2 DEF Splits
  <2>2. DOMAIN L.split = {}
    BY <2>1
  <2> QED
    BY <2>2
<1>3. CASE f.arch = "phi3"
  <2>1. PICK hq \in Nat, hk \in Nat, ff \in Nat :
           hq = KeyRow(m) /\ hk = KeyRows(m) /\ ff = m.n_ff
           /\ hq = m.n_head * m.head_dim /\ hk = m.n_head_kv * m.head_dim
    BY ProductNat DEF KeyRow, KeyRows
  <2>2. PICK a, b, c, d, e :
           /\ a = Slice("attn_qkv", 0, hq) /\ b = Slice("attn_qkv", hq, hk)
           /\ c = Slice("attn_qkv", hq + hk, hk)
           /\ d = Slice("ffn_up", 0, ff) /\ e = Slice("ffn_up", ff, ff)
    OBVIOUS
  <2>3. PICK S : S = L.split
    OBVIOUS
  <2>4. S = <<a, b, c, d, e>>
    BY <1>1, <1>3, <2>1, <2>2, <2>3 DEF Splits, ValueRow
  <2>5. DOMAIN S = 1..5 /\ S[1] = a /\ S[2] = b /\ S[3] = c /\ S[4] = d /\ S[5] = e
    BY <2>4
  <2>6. /\ a.of = "attn_qkv" /\ b.of = "attn_qkv" /\ c.of = "attn_qkv"
        /\ d.of = "ffn_up" /\ e.of = "ffn_up"
    BY <2>2 DEF Slice
  <2>7. /\ SliceRows(a) = 0..(hq - 1) /\ SliceRows(b) = hq..(hq + hk - 1)
        /\ SliceRows(c) = (hq + hk)..(hq + hk + hk - 1)
        /\ SliceRows(d) = 0..(ff - 1) /\ SliceRows(e) = ff..(ff + ff - 1)
    BY <2>1, <2>2 DEF Slice, SliceRows
  <2>8. PICK rq \in Nat, ru \in Nat : rq = f.rows["attn_qkv"] /\ ru = f.rows["ffn_up"]
    OBVIOUS
  <2>9. rq = hq + hk + hk /\ ru = ff + ff
    <3>1. rq <= hq + 2 * hk /\ ru <= 2 * ff
      BY <1>3, <2>1, <2>8 DEF Complete
    <3>2. PICK p : p = Projections(f, m, l)
      OBVIOUS
    <3>3. p.wv = Part(f, l, 3, c) /\ p.up = Part(f, l, 5, e)
      BY <1>1, <1>3, <2>3, <2>5, <3>2 DEF Projections
    <3>4. p.wv # Null /\ p.up # Null
      <4>1. L.wv = p.wv /\ L.up = p.up
        BY <3>2, LayerHas
      <4> QED
        BY <1>3, <4>1 DEF LayerOk
    <3>5. ~(hq + hk + hk > rq) /\ ~(ff + ff > ru)
      BY <2>2, <2>8, <3>3, <3>4 DEF Part, Slice
    <3> QED
      BY <3>1, <3>5
  <2>10. SlicesTile(f, S, "attn_qkv")
    <3>1. PICK of : of = {i \in DOMAIN S : S[i].of = "attn_qkv"}
      OBVIOUS
    <3>2. of = {1, 2, 3}
      BY <2>5, <2>6, <3>1
    <3>3. PICK A, B, C : A = SliceRows(a) /\ B = SliceRows(b) /\ C = SliceRows(c)
      OBVIOUS
    <3>4. A \cap B = {} /\ A \cap C = {} /\ B \cap C = {}
      <4>1. \A x : /\ x \in A => x \in Int /\ 0 <= x /\ x < hq
                   /\ x \in B => x \in Int /\ hq <= x /\ x < hq + hk
                   /\ x \in C => x \in Int /\ hq + hk <= x
        BY <2>7, <3>3
      <4> QED
        BY <4>1
    <3>5. A \cup B \cup C = 0..(rq - 1)
      <4>1. \A x : /\ x \in A <=> x \in Int /\ 0 <= x /\ x < hq
                   /\ x \in B <=> x \in Int /\ hq <= x /\ x < hq + hk
                   /\ x \in C <=> x \in Int /\ hq + hk <= x /\ x < hq + hk + hk
        BY <2>7, <3>3
      <4>2. \A x : x \in 0..(rq - 1) <=> x \in Int /\ 0 <= x /\ x < hq + hk + hk
        BY <2>9
      <4> QED
        BY <4>1, <4>2
    <3>6. \A i, j \in of : i # j => SliceRows(S[i]) \cap SliceRows(S[j]) = {}
      <4>1. SliceRows(S[1]) = A /\ SliceRows(S[2]) = B /\ SliceRows(S[3]) = C
        BY <2>5, <3>3
      <4> QED
        BY <3>2, <3>4, <4>1
    <3>7. UNION {SliceRows(S[i]) : i \in of} = A \cup B \cup C
      BY <2>5, <3>2, <3>3
    <3> QED
      BY <2>8, <3>1, <3>5, <3>6, <3>7 DEF SlicesTile
  <2>11. SlicesTile(f, S, "ffn_up")
    <3>1. PICK of : of = {i \in DOMAIN S : S[i].of = "ffn_up"}
      OBVIOUS
    <3>2. of = {4, 5}
      BY <2>5, <2>6, <3>1
    <3>3. PICK A, B : A = SliceRows(d) /\ B = SliceRows(e)
      OBVIOUS
    <3>4. \A x : /\ x \in A <=> x \in Int /\ 0 <= x /\ x < ff
                 /\ x \in B <=> x \in Int /\ ff <= x /\ x < ff + ff
      BY <2>7, <3>3
    <3>5. A \cup B = 0..(ru - 1)
      <4>1. \A x : x \in 0..(ru - 1) <=> x \in Int /\ 0 <= x /\ x < ff + ff
        BY <2>9
      <4> QED
        BY <3>4, <4>1
    <3>6. \A i, j \in of : i # j => SliceRows(S[i]) \cap SliceRows(S[j]) = {}
      <4>1. A \cap B = {}
        BY <3>4
      <4>2. SliceRows(S[4]) = A /\ SliceRows(S[5]) = B
        BY <2>5, <3>3
      <4> QED
        BY <3>2, <4>1, <4>2
    <3>7. UNION {SliceRows(S[i]) : i \in of} = A \cup B
      BY <2>5, <3>2, <3>3
    <3> QED
      BY <2>8, <3>1, <3>5, <3>6, <3>7 DEF SlicesTile
  <2>12. \A i \in DOMAIN S : S[i].of \in {"attn_qkv", "ffn_up"}
    BY <2>5, <2>6
  <2> QED
    BY <2>3, <2>10, <2>11, <2>12
<1> QED
  BY <1>2, <1>3

\* A layer that is read and not refused can be run.
LEMMA LayerThatRuns ==
  ASSUME NEW f, ModelFile(f), NEW m, m = Shape(f), m.ok,
         NEW ls, ls = Layers(f, m), \A j \in DOMAIN ls : LayerOk(f, ls[j], j - 1),
         Complete(f, m), NEW n \in DOMAIN ls, NEW lm, lm.layers = ls,
         lm.head_dim = m.head_dim, lm.n_ff = m.n_ff, lm.n_swa = m.n_swa,
         lm.n_embd_pl = m.n_embd_pl
  PROVE  LayerRuns(f, lm, n, ls[n])
<1>1. PICK N \in Nat : N = m.n_layer
  BY ShapeIs
<1>2. /\ \E X : ls \in Seq(X)
      /\ Len(ls) = N
      /\ \A j \in 1..N : FromEarlier(f, m, ls, j)
  <2>1. \A l \in 0..(m.n_layer - 1) : IsWindow(f, m, l) \in BOOLEAN
    BY ShapeIs
  <2> QED
    BY <1>1, <2>1, LayersRead
<1>3. DOMAIN ls = 1..N
  BY <1>2
<1>4. PICK la : ls[n] = Layer(f, m, n - 1, la) /\ \A w \in BOOLEAN : Own(ls, n - 1, w, la[w])
  BY <1>2, <1>3 DEF FromEarlier
<1>5. PICK l \in Nat : l = n - 1 /\ l \in 0..(N - 1)
  BY <1>3
<1>6. PICK L : L = ls[n]
  OBVIOUS
<1>7. L = Layer(f, m, l, la) /\ LayerOk(f, L, l)
  BY <1>3, <1>4, <1>5, <1>6
<1>8. PICK win \in BOOLEAN : win = IsWindow(f, m, l)
  BY <1>1, <1>5, ShapeIs
<1>9. /\ L.swa = win /\ L.n_ff = FfOfLayer(f, m, l)
      /\ L.head_dim = IF win THEN m.head_dim_swa ELSE m.head_dim
      /\ L.kv_from = IF L.wk = Null THEN la[win] ELSE -1
      /\ L.attn_norm = Tensor(f, "attn_norm", l) /\ L.ffn_norm = Tensor(f, "ffn_norm", l)
      /\ L.wo = Tensor(f, "attn_output", l) /\ L.down = Tensor(f, "ffn_down", l)
  BY <1>7, <1>8, LayerHas
<1>10. L.wk = Null =>
         LET src == ls[L.kv_from + 1]
         IN L.kv_from \in 0..(n - 2) /\ src.wk # Null /\ src.swa = L.swa /\ src.head_dim = L.head_dim
  <2> SUFFICES ASSUME L.wk = Null
               PROVE  LET src == ls[L.kv_from + 1]
                      IN /\ L.kv_from \in 0..(n - 2) /\ src.wk # Null
                         /\ src.swa = L.swa /\ src.head_dim = L.head_dim
    OBVIOUS
  <2>1. PICK k : k = L.kv_from
    OBVIOUS
  <2>2. k = la[win] /\ k >= 0
    BY <1>7, <1>9, <2>1 DEF LayerOk
  <2>3. Own(ls, l, win, k)
    BY <1>4, <1>5, <2>2
  <2>4. k \in 0..(l - 1) /\ ls[k + 1].wk # Null /\ ls[k + 1].swa = win
    BY <2>2, <2>3 DEF Own
  <2>5. k + 1 \in 1..N /\ (k + 1) - 1 = k
    BY <1>5, <2>4
  <2>6. PICK lb : ls[k + 1] = Layer(f, m, k, lb)
    BY <1>2, <2>5 DEF FromEarlier
  <2>7. PICK src : src = ls[k + 1]
    OBVIOUS
  <2>8. src.swa = IsWindow(f, m, k) /\ src.head_dim = IF IsWindow(f, m, k) THEN m.head_dim_swa ELSE m.head_dim
    BY <2>6, <2>7, LayerHas
  <2>9. IsWindow(f, m, k) = win
    BY <2>4, <2>7, <2>8
  <2>10. src.head_dim = L.head_dim
    BY <1>9, <2>8, <2>9
  <2>11. k \in 0..(n - 2)
    BY <1>3, <1>5, <2>4
  <2>12. src.wk # Null /\ src.swa = L.swa
    BY <1>9, <2>4, <2>7
  <2> QED
    BY <2>1, <2>7, <2>10, <2>11, <2>12
<1>11. L.wk # Null => L.kv_from = -1 /\ (L.q_norm = Null <=> L.k_norm = Null)
  BY <1>7, <1>9 DEF LayerOk
<1>12. L.head_dim <= m.head_dim /\ L.n_ff <= m.n_ff
  <2>1. m.head_dim \in Nat /\ m.head_dim_swa <= m.head_dim
    BY ShapeIs
  <2>2. FfOfLayer(f, m, l) <= m.n_ff
    BY <1>1, <1>5, ShapeIs
  <2> QED
    BY <1>9, <2>1, <2>2
<1>13. \A i, j \in DOMAIN LayerWeights(L) :
          i # j /\ LayerWeights(L)[i] # Null => LayerWeights(L)[i] # LayerWeights(L)[j]
  BY <1>7, WeightsDiffer
<1>16. \A name \in {L.split[i].of : i \in DOMAIN L.split} : SlicesTile(f, L.split, name)
  <2>1. /\ m.n_head \in Nat /\ m.n_head_kv \in Nat /\ m.head_dim \in Nat
        /\ m.n_ff \in Nat \ {0}
    BY ShapeIs
  <2>2. f.rows["attn_qkv"] \in Nat /\ f.rows["ffn_up"] \in Nat
    BY DEF ModelFile
  <2> QED
    BY <1>7, <2>1, <2>2, SlicesTileIt
<1>17. /\ L.bq # Null => Null \notin {L.bk, L.bv}
       /\ L.pl_inp_gate # Null => L.pl_proj # Null /\ lm.n_embd_pl # 0
  <2>1. /\ Tensor(f, "attn_q.bias", l) # Null =>
             Null \notin {Tensor(f, "attn_k.bias", l), Tensor(f, "attn_v.bias", l)}
        /\ Tensor(f, "inp_gate", l) # Null => Tensor(f, "proj", l) # Null /\ m.n_embd_pl # 0
    BY <1>1, <1>5 DEF Complete
  <2>2. /\ L.bq = Tensor(f, "attn_q.bias", l) /\ L.bk = Tensor(f, "attn_k.bias", l)
        /\ L.bv = Tensor(f, "attn_v.bias", l)
        /\ L.pl_inp_gate = Tensor(f, "inp_gate", l) /\ L.pl_proj = Tensor(f, "proj", l)
    BY <1>7, LayerHas
  <2> QED
    BY <2>1, <2>2
<1>14. Null \notin {L.attn_norm, L.wq, L.wo, L.ffn_norm, L.gate, L.up, L.down}
  <2>1. Null \notin {L.wq, L.gate, L.up}
    BY <1>7 DEF LayerOk
  <2>2. {"attn_norm", "attn_output", "ffn_norm", "ffn_down"} \subseteq NeededOfLayer(f)
    BY DEF NeededOfLayer
  <2>3. Null \notin {L.attn_norm, L.wo, L.ffn_norm, L.down}
    BY <1>7, <1>9, <2>2 DEF LayerOk
  <2> QED
    BY <2>1, <2>3
<1>15. L.swa => m.n_swa > 0
  BY <1>1, <1>5, <1>8, <1>9, ShapeIs
<1> QED
  BY <1>6, <1>10, <1>11, <1>12, <1>13, <1>14, <1>15, <1>16, <1>17 DEF LayerRuns

\* A model that loads is made of its file's shape and the layers it reads.
LEMMA LoadedOf ==
  ASSUME NEW f, NEW lm, lm = Load(f), lm.loaded
  PROVE  LET m == Shape(f)
             ls == Layers(f, m)
         IN /\ m.ok /\ lm.layers = ls /\ \A j \in DOMAIN ls : LayerOk(f, ls[j], j - 1)
            /\ lm.head_dim = m.head_dim /\ lm.n_ff = m.n_ff /\ lm.n_swa = m.n_swa
            /\ lm.n_embd_pl = m.n_embd_pl
<1>1. PICK m : m = Shape(f)
  OBVIOUS
<1>2. PICK ls : ls = Layers(f, m)
  OBVIOUS
<1>3. lm # Refused
  <2>1. Refused.loaded = FALSE
    BY DEF Refused
  <2> QED
    BY <2>1
<1>4. lm = LoadAs(f, m)
  BY <1>1 DEF Load
<1>5. m.ok /\ ~\E j \in DOMAIN ls : ~LayerOk(f, ls[j], j - 1)
  BY <1>2, <1>3, <1>4 DEF LoadAs
<1>6. PICK b : /\ lm = Together(m, b) /\ b.layers = ls
               /\ {"layers"} \subseteq DOMAIN b
  BY <1>2, <1>3, <1>4 DEF LoadAs
<1>7. /\ "layers" \notin DOMAIN m
      /\ {"n_layer", "head_dim", "n_ff", "n_swa", "n_embd_pl"} \subseteq DOMAIN m
  BY <1>1, ShapeHas
<1>8. /\ lm.layers = ls /\ lm.head_dim = m.head_dim /\ lm.n_ff = m.n_ff /\ lm.n_swa = m.n_swa
      /\ lm.n_embd_pl = m.n_embd_pl
  BY <1>6, <1>7 DEF Together
<1> QED
  BY <1>1, <1>2, <1>5, <1>8

LEMMA LoadedRun ==
  ASSUME NEW f, ModelFile(f), Load(f).loaded, Complete(f, Shape(f))
  PROVE  Runs(f, Load(f))
<1>1. PICK lm : lm = Load(f)
  OBVIOUS
<1>2. PICK m : m = Shape(f)
  OBVIOUS
<1>3. PICK ls : ls = Layers(f, m)
  OBVIOUS
<1>4. /\ m.ok /\ lm.layers = ls /\ \A j \in DOMAIN ls : LayerOk(f, ls[j], j - 1)
      /\ lm.head_dim = m.head_dim /\ lm.n_ff = m.n_ff /\ lm.n_swa = m.n_swa
      /\ lm.n_embd_pl = m.n_embd_pl
  BY <1>1, <1>2, <1>3, LoadedOf
<1>5. \A n \in DOMAIN ls : LayerRuns(f, lm, n, ls[n])
  BY <1>2, <1>3, <1>4, LayerThatRuns
<1> QED
  BY <1>1, <1>4, <1>5 DEF Runs

-----------------------------------------------------------------------------
(* A file that was cut off.                                                *)

\* What is done over and over: n steps from r, each of what the last one left.
StepsIn(F, n, R) == F \in [1..n -> [R -> R]]
Iterates(g, F, n, r, R) ==
    g \in [0..n -> R] /\ g[0] = r /\ \A i \in 1..n : g[i] = F[i][g[i - 1]]

LEMMA Iterated ==
  ASSUME NEW R, NEW n \in Nat, NEW F, StepsIn(F, n, R), NEW r \in R
  PROVE  \E g : Iterates(g, F, n, r, R)
<1>1. PICK S : S = {k \in 0..n : \E g \in [0..k -> R] :
                                    g[0] = r /\ \A i \in 1..k : g[i] = F[i][g[i - 1]]}
  OBVIOUS
<1>2. 0 \in S
  <2>1. PICK g : g = [i \in 0..0 |-> r]
    OBVIOUS
  <2>2. g \in [0..0 -> R] /\ g[0] = r /\ \A i \in 1..0 : g[i] = F[i][g[i - 1]]
    BY <2>1
  <2> QED
    BY <1>1, <2>2
<1>3. ASSUME NEW k \in S, k < n
      PROVE  k + 1 \in S
  <2>1. PICK j \in 1..n : j = k + 1 /\ j - 1 = k /\ k \in Nat /\ j \in 0..n
    BY <1>1, <1>3
  <2>2. PICK g \in [0..k -> R] : g[0] = r /\ \A i \in 1..k : g[i] = F[i][g[i - 1]]
    BY <1>1
  <2>3. F[j] \in [R -> R] /\ g[k] \in R
    BY <2>1, <2>2 DEF StepsIn
  <2>4. PICK x \in R : x = F[j][g[k]]
    BY <2>3
  <2>5. PICK h : h = [i \in 0..j |-> IF i = j THEN x ELSE g[i]]
    OBVIOUS
  <2>6. \A i \in 0..j : i # j => i \in 0..k
    BY <2>1
  <2>7. h \in [0..j -> R] /\ h[0] = r
    BY <2>1, <2>2, <2>5, <2>6
  <2>8. h[j] = x /\ h[k] = g[k]
    BY <2>1, <2>5
  <2>9. ASSUME NEW i \in 1..j
        PROVE  h[i] = F[i][h[i - 1]]
    <3>1. CASE i = j
      BY <2>1, <2>4, <2>8, <3>1
    <3>2. CASE i # j
      <4>1. i \in 1..k /\ i \in 0..j /\ i - 1 \in 0..j /\ i - 1 # j
        BY <2>1, <3>2
      <4>2. h[i] = g[i] /\ h[i - 1] = g[i - 1]
        BY <2>5, <3>2, <4>1
      <4> QED
        BY <2>2, <4>1, <4>2
    <3> QED
      BY <3>1, <3>2
  <2>10. \E u \in [0..j -> R] : u[0] = r /\ \A i \in 1..j : u[i] = F[i][u[i - 1]]
    BY <2>7, <2>9
  <2> QED
    BY <1>1, <2>1, <2>10
<1>4. S = 0..n
  <2>1. S \in SUBSET (0..n)
    BY <1>1
  <2> QED
    BY <1>2, <1>3, <2>1, Ascent
<1>5. n \in S
  BY <1>4
<1> QED
  BY <1>1, <1>5 DEF Iterates

(* A cursor that has come to p in a file of s bytes, or has found that the *)
(* file ends before.                                                       *)
Cursors == {c \in [at : Nat, bad : BOOLEAN, size : Nat] : c.bad \/ c.at <= c.size}
ComeTo(c, p, s) ==
    c \in Cursors /\ c.size = s /\ (c.bad <=> p > s) /\ (~c.bad => c.at = p)

LEMMA CursorComes ==
  ASSUME NEW c \in Cursors
  PROVE  \E p \in Nat : ComeTo(c, p, c.size)
<1>1. c \in [at : Nat, bad : BOOLEAN, size : Nat] /\ (c.bad \/ c.at <= c.size)
  BY DEF Cursors
<1>2. PICK s \in Nat : s = c.size
  BY <1>1
<1>3. CASE c.bad
  <2>1. s + 1 \in Nat /\ s + 1 > s
    OBVIOUS
  <2>2. ComeTo(c, s + 1, s)
    BY <1>2, <1>3, <2>1 DEF ComeTo
  <2> QED
    BY <1>2, <2>1, <2>2
<1>4. CASE ~c.bad
  <2>1. PICK p \in Nat : p = c.at /\ p <= s
    BY <1>1, <1>2, <1>4
  <2>2. ComeTo(c, p, s)
    BY <1>2, <1>4, <2>1 DEF ComeTo
  <2> QED
    BY <1>2, <2>2
<1> QED
  BY <1>3, <1>4

LEMMA TakeComes ==
  ASSUME NEW p \in Nat, NEW s \in Nat, NEW n \in Nat, NEW c, ComeTo(c, p, s)
  PROVE  ComeTo(Take(c, n), p + n, s)
<1>1. c \in [at : Nat, bad : BOOLEAN, size : Nat] /\ c.size = s
      /\ (c.bad <=> p > s) /\ (~c.bad => c.at = p)
  BY DEF ComeTo, Cursors
<1>2. PICK d : d = Take(c, n)
  OBVIOUS
<1>3. CASE c.bad \/ s - c.at < n
  <2>1. d = [c EXCEPT !.bad = TRUE]
    BY <1>1, <1>2, <1>3 DEF Take
  <2>2. d \in [at : Nat, bad : BOOLEAN, size : Nat] /\ d.bad /\ d.size = s
    BY <1>1, <2>1
  <2>3. p + n > s
    <3>1. CASE c.bad
      BY <1>1, <3>1
    <3>2. CASE ~c.bad
      BY <1>1, <1>3, <3>2
    <3> QED
      BY <3>1, <3>2
  <2> QED
    BY <1>2, <2>2, <2>3 DEF ComeTo, Cursors
<1>4. CASE ~(c.bad \/ s - c.at < n)
  <2>1. d = [c EXCEPT !.at = @ + n]
    BY <1>1, <1>2, <1>4 DEF Take
  <2>2. c.at = p /\ c.at \in Nat /\ ~c.bad /\ p + n <= s
    BY <1>1, <1>4
  <2>3. d \in [at : Nat, bad : BOOLEAN, size : Nat] /\ ~d.bad /\ d.size = s /\ d.at = p + n
    BY <1>1, <2>1, <2>2
  <2> QED
    BY <1>2, <2>2, <2>3 DEF ComeTo, Cursors
<1> QED
  BY <1>3, <1>4

LEMMA TakeStrComes ==
  ASSUME NEW p \in Nat, NEW s \in Nat, NEW n \in Nat, NEW c, ComeTo(c, p, s)
  PROVE  ComeTo(TakeStr(c, n), p + 8 + n, s)
<1>1. PICK d : d = Take(c, 8)
  OBVIOUS
<1>2. p + 8 \in Nat /\ 8 \in Nat
  OBVIOUS
<1>3. ComeTo(d, p + 8, s)
  BY <1>1, <1>2, TakeComes
<1>4. ComeTo(Take(d, n), p + 8 + n, s)
  BY <1>2, <1>3, TakeComes
<1> QED
  BY <1>1, <1>4 DEF TakeStr

\* One that has found the end stays there.
LEMMA LateComes ==
  ASSUME NEW p \in Nat, NEW q \in Nat, p <= q, NEW s \in Nat, NEW c, ComeTo(c, p, s), c.bad
  PROVE  ComeTo(c, q, s)
BY DEF ComeTo

LEMMA BadStays ==
  ASSUME NEW c \in Cursors, c.bad, NEW n
  PROVE  Take(c, n) = c /\ TakeStr(c, n) = c
<1>1. c \in [at : Nat, bad : BOOLEAN, size : Nat]
  BY DEF Cursors
<1>2. [c EXCEPT !.bad = TRUE] = c
  BY <1>1
<1>3. \A k : Take(c, k) = c
  BY <1>2 DEF Take
<1> QED
  BY <1>3 DEF TakeStr

\* The strings of an array, one after the other.
StrsTo(g, c, lens) == g = [i \in 0..Len(lens) |-> IF i = 0 THEN c ELSE TakeStr(g[i - 1], lens[i])]
StrsRead(c, lens) == CHOOSE g : StrsTo(g, c, lens)

LEMMA TakeStrStays ==
  ASSUME NEW c \in Cursors, NEW n \in Nat
  PROVE  TakeStr(c, n) \in Cursors /\ Take(c, n) \in Cursors
<1>1. PICK s \in Nat : s = c.size
  BY DEF Cursors
<1>2. PICK p \in Nat : ComeTo(c, p, s)
  BY <1>1, CursorComes
<1>3. ComeTo(TakeStr(c, n), p + 8 + n, s) /\ ComeTo(Take(c, n), p + n, s)
  BY <1>2, TakeStrComes, TakeComes
<1> QED
  BY <1>3 DEF ComeTo

LEMMA StrsExist ==
  ASSUME NEW c \in Cursors, NEW lens \in Seq(Nat)
  PROVE  StrsTo(StrsRead(c, lens), c, lens)
<1>1. PICK n \in Nat : n = Len(lens)
  OBVIOUS
<1>2. \A i \in 1..n : lens[i] \in Nat
  BY <1>1
<1>3. \A i \in 1..n : \A d \in Cursors : TakeStr(d, lens[i]) \in Cursors
  BY <1>2, TakeStrStays
<1>4. PICK F : F = [i \in 1..n |-> [d \in Cursors |-> TakeStr(d, lens[i])]]
  OBVIOUS
<1>5. StepsIn(F, n, Cursors)
  BY <1>3, <1>4 DEF StepsIn
<1>6. PICK g : g \in [0..n -> Cursors] /\ g[0] = c /\ \A i \in 1..n : g[i] = F[i][g[i - 1]]
  <2>1. PICK g : Iterates(g, F, n, c, Cursors)
    BY <1>5, Iterated
  <2> QED
    BY <2>1 DEF Iterates
<1>7. PICK h : h = [i \in 0..n |-> IF i = 0 THEN c ELSE TakeStr(g[i - 1], lens[i])]
  OBVIOUS
<1>8. ASSUME NEW i \in 0..n
      PROVE  g[i] = h[i]
  <2>1. CASE i = 0
    BY <1>6, <1>7, <2>1
  <2>2. CASE i # 0
    <3>1. i \in 1..n /\ i - 1 \in 0..n
      BY <1>1, <2>2
    <3>2. g[i - 1] \in Cursors /\ g[i] = F[i][g[i - 1]]
      BY <1>6, <3>1
    <3>3. g[i] = TakeStr(g[i - 1], lens[i])
      BY <1>4, <3>1, <3>2
    <3> QED
      BY <1>7, <2>2, <3>3
  <2> QED
    BY <2>1, <2>2
<1>9. g = h
  BY <1>6, <1>7, <1>8
<1>10. StrsTo(g, c, lens)
  BY <1>1, <1>7, <1>9 DEF StrsTo
<1> QED
  BY <1>10 DEF StrsRead

\* Wherever a cursor comes from, they take it as far.
GoesTo(p, q, lens, k) ==
    \A s \in Nat : \A c : ComeTo(c, p, s) => ComeTo(StrsRead(c, lens)[k], q, s)

LEMMA TakeStrsComes ==
  ASSUME NEW p \in Nat, NEW lens \in Seq(Nat)
  PROVE  \E q \in Nat : /\ p <= q
                        /\ \A s \in Nat : \A c : ComeTo(c, p, s) => ComeTo(TakeStrs(c, lens), q, s)
<1>1. PICK n \in Nat : n = Len(lens)
  OBVIOUS
<1>2. \A i \in 1..n : lens[i] \in Nat
  BY <1>1
<1>3. ASSUME NEW s \in Nat, NEW c, ComeTo(c, p, s)
      PROVE  /\ StrsRead(c, lens)[0] = c
             /\ \A i \in 1..n : StrsRead(c, lens)[i] = TakeStr(StrsRead(c, lens)[i - 1], lens[i])
  <2>1. PICK g : g = StrsRead(c, lens)
    OBVIOUS
  <2>2. c \in Cursors
    BY <1>3 DEF ComeTo
  <2>3. StrsTo(g, c, lens)
    BY <2>1, <2>2, StrsExist
  <2>4. \A i \in 0..n : g[i] = IF i = 0 THEN c ELSE TakeStr(g[i - 1], lens[i])
    BY <1>1, <2>3 DEF StrsTo
  <2>5. \A i \in 1..n : i \in 0..n /\ i # 0
    BY <1>1
  <2>6. \A i \in 1..n : g[i] = TakeStr(g[i - 1], lens[i])
    BY <2>4, <2>5
  <2>7. g[0] = c
    BY <2>4
  <2> QED
    BY <2>1, <2>6, <2>7
<1>4. PICK S : S = {k \in 0..n : \E q \in Nat : p <= q /\ GoesTo(p, q, lens, k)}
  OBVIOUS
<1>5. 0 \in S
  <2>1. GoesTo(p, p, lens, 0)
    BY <1>3 DEF GoesTo
  <2>2. p <= p
    OBVIOUS
  <2> QED
    BY <1>4, <2>1, <2>2
<1>6. ASSUME NEW k \in S, k < n
      PROVE  k + 1 \in S
  <2>1. PICK j \in 1..n : j = k + 1 /\ j - 1 = k /\ j \in 0..n
    BY <1>4, <1>6
  <2>2. PICK q \in Nat : p <= q /\ GoesTo(p, q, lens, k)
    BY <1>4
  <2>3. PICK len \in Nat : len = lens[j]
    BY <1>2
  <2>4. PICK q2 \in Nat : q2 = q + 8 + len
    OBVIOUS
  <2>5. ASSUME NEW s \in Nat, NEW c, ComeTo(c, p, s)
        PROVE  ComeTo(StrsRead(c, lens)[j], q2, s)
    <3>1. PICK d : d = StrsRead(c, lens)[k]
      OBVIOUS
    <3>2. ComeTo(d, q, s)
      BY <2>2, <2>5, <3>1 DEF GoesTo
    <3>3. StrsRead(c, lens)[j] = TakeStr(d, len)
      BY <1>3, <2>1, <2>3, <2>5, <3>1
    <3>4. ComeTo(TakeStr(d, len), q2, s)
      BY <2>4, <3>2, TakeStrComes
    <3> QED
      BY <3>3, <3>4
  <2>6. GoesTo(p, q2, lens, j)
    BY <2>5 DEF GoesTo
  <2>7. p <= q2
    BY <2>2, <2>4
  <2> QED
    BY <1>4, <2>1, <2>6, <2>7
<1>7. S = 0..n
  <2>1. S \in SUBSET (0..n)
    BY <1>4
  <2> QED
    BY <1>5, <1>6, <2>1, Ascent
<1>8. PICK q \in Nat : p <= q /\ GoesTo(p, q, lens, n)
  <2>1. n \in S
    BY <1>7
  <2> QED
    BY <1>4, <2>1
<1>9. \A c : TakeStrs(c, lens) = StrsRead(c, lens)[n]
  BY <1>1 DEF TakeStrs, StrsRead, StrsTo
<1> QED
  BY <1>8, <1>9 DEF GoesTo

(* What is read of a value, a key or a tensor: where it leaves the cursor, *)
(* and that it was not refused, unless the file ended.                     *)
Readings == [c : Cursors, ok : BOOLEAN]
GoodTo(r, p, s) == r \in Readings /\ ComeTo(r.c, p, s) /\ (~r.c.bad => r.ok)
Refusing(r) == ~r.ok \/ r.c.bad

Writable(kv) ==
    kv \in KeyValues /\ (kv.type = "array" /\ kv.of \in DOMAIN Width => kv.lens # <<>>)

LEMMA ReadToEnd ==
  ASSUME NEW q \in Nat, NEW s \in Nat, NEW d, ComeTo(d, q, s), NEW r, r = [c |-> d, ok |-> ~d.bad]
  PROVE  GoodTo(r, q, s)
<1>1. d \in Cursors /\ d.bad \in BOOLEAN
  BY DEF ComeTo, Cursors
<1>2. r.c = d /\ r.ok = ~d.bad
  OBVIOUS
<1>3. ~r.c.bad => r.ok
  BY <1>2, Zenon
<1>4. PICK b \in BOOLEAN : b = ~d.bad
  BY <1>1, Zenon
<1>5. r = [c |-> d, ok |-> b]
  BY <1>4, Zenon
<1>6. r \in Readings
  BY <1>1, <1>5 DEF Readings
<1> QED
  BY <1>2, <1>3, <1>6 DEF GoodTo

\* A value that ends at q, if it is of a type that is read.
LEMMA ValueComes ==
  ASSUME NEW kv, Writable(kv), NEW p \in Nat
  PROVE  \/ \A c : ReadValue(c, kv) = [c |-> c, ok |-> FALSE]
         \/ \E q \in Nat : /\ p <= q
                           /\ \A s \in Nat : \A c : ComeTo(c, p, s) => GoodTo(ReadValue(c, kv), q, s)
<1>1. kv.lens \in Seq(Nat) /\ (kv.type = "array" /\ kv.of \in DOMAIN Width => kv.lens # <<>>)
  BY DEF Writable, KeyValues
<1>2. \A t \in DOMAIN Width : Width[t] \in Nat
  BY DEF Width
<1>3. "string" \notin DOMAIN Width /\ "array" \notin DOMAIN Width
  BY DEF Width
<1>4. CASE kv.type \in DOMAIN Width
  <2>1. PICK w \in Nat : w = Width[kv.type]
    BY <1>2, <1>4
  <2>2. ASSUME NEW s \in Nat, NEW c, ComeTo(c, p, s)
        PROVE  GoodTo(ReadValue(c, kv), p + w, s)
    <3>1. PICK d : d = Take(c, w)
      OBVIOUS
    <3>2. ReadValue(c, kv) = [c |-> d, ok |-> TRUE]
      BY <1>3, <1>4, <2>1, <3>1 DEF ReadValue
    <3>3. ComeTo(d, p + w, s)
      BY <2>2, <3>1, TakeComes
    <3>4. d \in Cursors
      BY <3>3 DEF ComeTo
    <3> QED
      BY <3>2, <3>3, <3>4 DEF GoodTo, Readings
  <2>3. p + w \in Nat /\ p <= p + w
    OBVIOUS
  <2> QED
    BY <2>2, <2>3
<1>5. CASE kv.type = "string"
  <2>1. PICK q \in Nat : /\ p <= q
                         /\ \A s \in Nat : \A c : ComeTo(c, p, s) => ComeTo(TakeStrs(c, kv.lens), q, s)
    BY <1>1, TakeStrsComes
  <2>2. ASSUME NEW s \in Nat, NEW c, ComeTo(c, p, s)
        PROVE  GoodTo(ReadValue(c, kv), q, s)
    <3>1. PICK d : d = TakeStrs(c, kv.lens)
      OBVIOUS
    <3>2. ReadValue(c, kv) = [c |-> d, ok |-> ~d.bad]
      BY <1>3, <1>5, <3>1 DEF ReadValue
    <3>3. ComeTo(d, q, s)
      BY <2>1, <2>2, <3>1
    <3> QED
      BY <3>2, <3>3, ReadToEnd
  <2> QED
    BY <2>1, <2>2
<1>6. CASE kv.type = "array" /\ kv.of \in DOMAIN Width
  <2>1. PICK w \in Nat : w = kv.lens[1] * Width[kv.of]
    <3>1. kv.lens # <<>>
      BY <1>1, <1>6
    <3>2. kv.lens[1] \in Nat
      BY <1>1, <3>1
    <3> QED
      BY <1>2, <1>6, <3>2, ProductNat
  <2>2. ASSUME NEW s \in Nat, NEW c, ComeTo(c, p, s)
        PROVE  GoodTo(ReadValue(c, kv), ((p + 4) + 8) + w, s)
    <3>1. PICK d1 : d1 = Take(c, 4)
      OBVIOUS
    <3>2. PICK d2 : d2 = Take(d1, 8)
      OBVIOUS
    <3>3. PICK d : d = Take(d2, w)
      OBVIOUS
    <3>4. ReadValue(c, kv) = [c |-> d, ok |-> ~d.bad]
      BY <1>3, <1>6, <2>1, <3>1, <3>2, <3>3 DEF ReadValue
    <3>5. p + 4 \in Nat /\ (p + 4) + 8 \in Nat /\ 4 \in Nat /\ 8 \in Nat
      OBVIOUS
    <3>6. ComeTo(d1, p + 4, s)
      BY <2>2, <3>1, <3>5, TakeComes
    <3>7. ComeTo(d2, (p + 4) + 8, s)
      BY <3>2, <3>5, <3>6, TakeComes
    <3>8. ComeTo(d, ((p + 4) + 8) + w, s)
      BY <3>3, <3>5, <3>7, TakeComes
    <3> QED
      BY <3>4, <3>8, ReadToEnd
  <2>3. ((p + 4) + 8) + w \in Nat /\ p <= ((p + 4) + 8) + w
    OBVIOUS
  <2> QED
    BY <2>2, <2>3
<1>7. CASE kv.type = "array" /\ kv.of = "string"
  <2>1. PICK p2 \in Nat : p2 = (p + 4) + 8
    OBVIOUS
  <2>2. PICK q \in Nat : /\ p2 <= q
                         /\ \A s \in Nat : \A c : ComeTo(c, p2, s) => ComeTo(TakeStrs(c, kv.lens), q, s)
    BY <1>1, TakeStrsComes
  <2>3. ASSUME NEW s \in Nat, NEW c, ComeTo(c, p, s)
        PROVE  GoodTo(ReadValue(c, kv), q, s)
    <3>1. PICK d1 : d1 = Take(c, 4)
      OBVIOUS
    <3>2. PICK d2 : d2 = Take(d1, 8)
      OBVIOUS
    <3>3. PICK d : d = TakeStrs(d2, kv.lens)
      OBVIOUS
    <3>4. ReadValue(c, kv) = [c |-> d, ok |-> ~d.bad]
      BY <1>3, <1>7, <3>1, <3>2, <3>3 DEF ReadValue
    <3>5. p + 4 \in Nat /\ 4 \in Nat /\ 8 \in Nat
      OBVIOUS
    <3>6. ComeTo(d1, p + 4, s)
      BY <2>3, <3>1, <3>5, TakeComes
    <3>7. ComeTo(d2, p2, s)
      BY <2>1, <3>2, <3>5, <3>6, TakeComes
    <3>8. ComeTo(d, q, s)
      BY <2>2, <3>3, <3>7
    <3> QED
      BY <3>4, <3>8, ReadToEnd
  <2>4. p <= q
    BY <2>1, <2>2
  <2> QED
    BY <2>3, <2>4
<1>8. CASE ~(\/ kv.type \in DOMAIN Width \/ kv.type = "string"
            \/ (kv.type = "array" /\ kv.of \in DOMAIN Width)
            \/ (kv.type = "array" /\ kv.of = "string"))
  <2>1. \A c : ReadValue(c, kv) = [c |-> c, ok |-> FALSE]
    BY <1>8 DEF ReadValue
  <2> QED
    BY <2>1
<1> QED
  BY <1>4, <1>5, <1>6, <1>7, <1>8

\* A key and its value.
KeyStep(kv, r) ==
    LET c == TakeStr(r.c, kv.klen)
        typed == Take(c, 4)
    IN IF ~r.ok \/ c.bad THEN [c |-> c, ok |-> FALSE]
       ELSE IF typed.bad THEN [c |-> typed, ok |-> TRUE]
       ELSE ReadValue(typed, kv)

LEMMA KeyStepStays ==
  ASSUME NEW kv, Writable(kv), NEW r \in Readings
  PROVE  KeyStep(kv, r) \in Readings
<1>1. kv.klen \in Nat /\ r.c \in Cursors
  BY DEF Writable, KeyValues, Readings
<1>2. PICK c : c = TakeStr(r.c, kv.klen)
  OBVIOUS
<1>3. PICK typed : typed = Take(c, 4)
  OBVIOUS
<1>4. c \in Cursors
  BY <1>1, <1>2, TakeStrStays
<1>5. typed \in Cursors
  <2>1. 4 \in Nat
    OBVIOUS
  <2> QED
    BY <1>3, <1>4, <2>1, TakeStrStays
<1>6. ReadValue(typed, kv) \in Readings
  <2>1. PICK s \in Nat : s = typed.size
    BY <1>5 DEF Cursors
  <2>2. PICK p \in Nat : ComeTo(typed, p, s)
    BY <1>5, <2>1, CursorComes
  <2>3. \/ \A d : ReadValue(d, kv) = [c |-> d, ok |-> FALSE]
        \/ \E q \in Nat : /\ p <= q
                          /\ \A z \in Nat : \A d : ComeTo(d, p, z) => GoodTo(ReadValue(d, kv), q, z)
    BY ValueComes
  <2>4. CASE \A d : ReadValue(d, kv) = [c |-> d, ok |-> FALSE]
    <3>1. ReadValue(typed, kv) = [c |-> typed, ok |-> FALSE]
      BY <2>4
    <3> QED
      BY <1>5, <3>1 DEF Readings
  <2>5. CASE \E q \in Nat : /\ p <= q
                            /\ \A z \in Nat : \A d : ComeTo(d, p, z) => GoodTo(ReadValue(d, kv), q, z)
    BY <2>2, <2>5 DEF GoodTo
  <2> QED
    BY <2>3, <2>4, <2>5
<1>7. KeyStep(kv, r) = IF ~r.ok \/ c.bad THEN [c |-> c, ok |-> FALSE]
                       ELSE IF typed.bad THEN [c |-> typed, ok |-> TRUE]
                       ELSE ReadValue(typed, kv)
  BY <1>2, <1>3 DEF KeyStep
<1>8. [c |-> c, ok |-> FALSE] \in Readings /\ [c |-> typed, ok |-> TRUE] \in Readings
  BY <1>4, <1>5 DEF Readings
<1> QED
  BY <1>6, <1>7, <1>8

LEMMA KeyStepRefuses ==
  ASSUME NEW kv, Writable(kv), NEW r \in Readings, Refusing(r)
  PROVE  Refusing(KeyStep(kv, r))
<1>1. r.c \in Cursors
  BY DEF Readings
<1>2. r.c.bad => TakeStr(r.c, kv.klen).bad
  BY <1>1, BadStays
<1>3. ~r.ok \/ TakeStr(r.c, kv.klen).bad
  BY <1>2 DEF Refusing
<1>4. KeyStep(kv, r).ok = FALSE
  BY <1>3 DEF KeyStep
<1> QED
  BY <1>4 DEF Refusing

\* A key that ends at q, or one that no file with it gets past.
KeyEnds(kv, p, q) == \A s \in Nat : \A r : GoodTo(r, p, s) => GoodTo(KeyStep(kv, r), q, s)

LEMMA KeyStepComes ==
  ASSUME NEW kv, Writable(kv), NEW p \in Nat
  PROVE  \/ \A r \in Readings : Refusing(KeyStep(kv, r))
         \/ \E q \in Nat : p <= q /\ KeyEnds(kv, p, q)
<1>1. PICK klen \in Nat : klen = kv.klen
  BY DEF Writable, KeyValues
<1>2. PICK p1 \in Nat, p2 \in Nat : p1 = p + 8 + klen /\ p2 = p1 + 4
  OBVIOUS
<1>3. \/ \A d : ReadValue(d, kv) = [c |-> d, ok |-> FALSE]
      \/ \E q \in Nat : /\ p2 <= q
                        /\ \A s \in Nat : \A d : ComeTo(d, p2, s) => GoodTo(ReadValue(d, kv), q, s)
  BY ValueComes
<1>4. CASE \A d : ReadValue(d, kv) = [c |-> d, ok |-> FALSE]
  <2>1. ASSUME NEW r \in Readings
        PROVE  Refusing(KeyStep(kv, r))
    BY <1>4 DEF KeyStep, Refusing
  <2> QED
    BY <2>1
<1>5. ASSUME NEW q \in Nat, p2 <= q,
             \A s \in Nat : \A d : ComeTo(d, p2, s) => GoodTo(ReadValue(d, kv), q, s)
      PROVE  p <= q /\ KeyEnds(kv, p, q)
  <2>1. p <= q /\ p1 <= q
    BY <1>2, <1>5
  <2>2. ASSUME NEW s \in Nat, NEW r, GoodTo(r, p, s)
        PROVE  GoodTo(KeyStep(kv, r), q, s)
    <3>1. r \in Readings /\ ComeTo(r.c, p, s) /\ (~r.c.bad => r.ok)
      BY <2>2 DEF GoodTo
    <3>2. PICK d : d = r.c
      OBVIOUS
    <3>3. PICK c : c = TakeStr(d, klen)
      OBVIOUS
    <3>4. PICK typed : typed = Take(c, 4)
      OBVIOUS
    <3>5. ComeTo(c, p1, s)
      BY <1>2, <3>1, <3>2, <3>3, TakeStrComes
    <3>6. ComeTo(typed, p2, s)
      <4>1. 4 \in Nat
        OBVIOUS
      <4> QED
        BY <1>2, <3>4, <3>5, <4>1, TakeComes
    <3>7. d.bad => c.bad
      <4>1. d \in Cursors
        BY <3>1, <3>2 DEF Readings
      <4> QED
        BY <3>3, <4>1, BadStays
    <3>8. KeyStep(kv, r) = IF ~r.ok \/ c.bad THEN [c |-> c, ok |-> FALSE]
                           ELSE IF typed.bad THEN [c |-> typed, ok |-> TRUE]
                           ELSE ReadValue(typed, kv)
      BY <1>1, <3>2, <3>3, <3>4 DEF KeyStep
    <3>9. CASE c.bad
      <4>1. KeyStep(kv, r) = [c |-> c, ok |-> FALSE]
        BY <3>8, <3>9
      <4>2. ComeTo(c, q, s)
        BY <2>1, <3>5, <3>9, LateComes
      <4>3. c \in Cursors
        BY <4>2 DEF ComeTo
      <4> QED
        BY <3>9, <4>1, <4>2, <4>3 DEF GoodTo, Readings
    <3>10. CASE ~c.bad /\ typed.bad
      <4>1. KeyStep(kv, r) = [c |-> typed, ok |-> TRUE]
        BY <3>1, <3>2, <3>7, <3>8, <3>10
      <4>2. ComeTo(typed, q, s)
        BY <1>5, <3>6, <3>10, LateComes
      <4>3. typed \in Cursors
        BY <4>2 DEF ComeTo
      <4> QED
        BY <4>1, <4>2, <4>3 DEF GoodTo, Readings
    <3>11. CASE ~c.bad /\ ~typed.bad
      <4>1. KeyStep(kv, r) = ReadValue(typed, kv)
        BY <3>1, <3>2, <3>7, <3>8, <3>11
      <4> QED
        BY <1>5, <3>6, <4>1
    <3> QED
      BY <3>9, <3>10, <3>11
  <2> QED
    BY <2>1, <2>2 DEF KeyEnds
<1> QED
  BY <1>3, <1>4, <1>5

\* The keys, one after the other.
KeysTo(g, kvs, c) ==
    g = [i \in 0..Len(kvs) |-> IF i = 0 THEN [c |-> c, ok |-> TRUE] ELSE KeyStep(kvs[i], g[i - 1])]
KeysRead(kvs, c) == CHOOSE g : KeysTo(g, kvs, c)

LEMMA KeysExist ==
  ASSUME NEW kvs \in Seq(KeyValues), \A i \in DOMAIN kvs : Writable(kvs[i]), NEW c \in Cursors
  PROVE  /\ KeysTo(KeysRead(kvs, c), kvs, c)
         /\ \A i \in 0..Len(kvs) : KeysRead(kvs, c)[i] \in Readings
<1>1. PICK n \in Nat : n = Len(kvs)
  OBVIOUS
<1>2. \A i \in 1..n : \A r \in Readings : KeyStep(kvs[i], r) \in Readings
  BY <1>1, KeyStepStays
<1>3. PICK F : F = [i \in 1..n |-> [r \in Readings |-> KeyStep(kvs[i], r)]]
  OBVIOUS
<1>4. PICK first \in Readings : first = [c |-> c, ok |-> TRUE]
  BY DEF Readings
<1>5. StepsIn(F, n, Readings)
  BY <1>2, <1>3 DEF StepsIn
<1>6. PICK g : g \in [0..n -> Readings] /\ g[0] = first /\ \A i \in 1..n : g[i] = F[i][g[i - 1]]
  <2>1. PICK g : Iterates(g, F, n, first, Readings)
    BY <1>5, Iterated
  <2> QED
    BY <2>1 DEF Iterates
<1>7. ASSUME NEW h, KeysTo(h, kvs, c)
      PROVE  \A i \in 0..n : h[i] \in Readings
  <2>1. \A i \in 0..n : h[i] = IF i = 0 THEN first ELSE KeyStep(kvs[i], h[i - 1])
    BY <1>1, <1>4, <1>7 DEF KeysTo
  <2>2. PICK S : S = {i \in 0..n : h[i] \in Readings}
    OBVIOUS
  <2>3. 0 \in S
    BY <2>1, <2>2
  <2>4. ASSUME NEW k \in S, k < n
        PROVE  k + 1 \in S
    <3>1. k + 1 \in 1..n /\ (k + 1) - 1 = k /\ k + 1 \in 0..n /\ k + 1 # 0
      BY <2>2, <2>4
    <3>2. h[k + 1] = KeyStep(kvs[k + 1], h[k])
      BY <2>1, <3>1
    <3>3. h[k] \in Readings
      BY <2>2
    <3> QED
      BY <1>2, <2>2, <3>1, <3>2, <3>3
  <2>5. S = 0..n
    <3>1. S \in SUBSET (0..n)
      BY <2>2
    <3> QED
      BY <2>3, <2>4, <3>1, Ascent
  <2> QED
    BY <2>2, <2>5
<1>8. PICK h : h = [i \in 0..n |-> IF i = 0 THEN first ELSE KeyStep(kvs[i], g[i - 1])]
  OBVIOUS
<1>9. ASSUME NEW i \in 0..n
      PROVE  g[i] = h[i]
  <2>1. CASE i = 0
    BY <1>6, <1>8, <2>1
  <2>2. CASE i # 0
    <3>1. i \in 1..n /\ i - 1 \in 0..n
      BY <1>1, <2>2
    <3>2. g[i - 1] \in Readings /\ g[i] = F[i][g[i - 1]]
      BY <1>6, <3>1
    <3>3. g[i] = KeyStep(kvs[i], g[i - 1])
      BY <1>3, <3>1, <3>2
    <3> QED
      BY <1>8, <2>2, <3>3
  <2> QED
    BY <2>1, <2>2
<1>10. g = h
  BY <1>6, <1>8, <1>9
<1>11. KeysTo(g, kvs, c)
  BY <1>1, <1>4, <1>8, <1>10 DEF KeysTo
<1>12. KeysTo(KeysRead(kvs, c), kvs, c)
  BY <1>11 DEF KeysRead
<1> QED
  BY <1>1, <1>7, <1>12

\* Whatever file has these keys, they end at q; or it is refused.
KeysEnd(kvs, k, p, q) ==
    \A s \in Nat : \A c : ComeTo(c, p, s) => GoodTo(KeysRead(kvs, c)[k], q, s)
KeysRefuse(kvs, k) == \A c \in Cursors : Refusing(KeysRead(kvs, c)[k])

LEMMA KeysCome ==
  ASSUME NEW kvs \in Seq(KeyValues), \A i \in DOMAIN kvs : Writable(kvs[i]), NEW p \in Nat
  PROVE  \/ KeysRefuse(kvs, Len(kvs))
         \/ \E q \in Nat : p <= q /\ KeysEnd(kvs, Len(kvs), p, q)
<1>1. PICK n \in Nat : n = Len(kvs)
  OBVIOUS
<1>2. ASSUME NEW c \in Cursors
      PROVE  /\ KeysRead(kvs, c)[0] = [c |-> c, ok |-> TRUE]
             /\ \A i \in 1..n : KeysRead(kvs, c)[i] = KeyStep(kvs[i], KeysRead(kvs, c)[i - 1])
             /\ \A i \in 0..n : KeysRead(kvs, c)[i] \in Readings
  <2>1. PICK g : g = KeysRead(kvs, c)
    OBVIOUS
  <2>2. KeysTo(g, kvs, c) /\ \A i \in 0..n : g[i] \in Readings
    BY <1>1, <2>1, KeysExist
  <2>3. \A i \in 0..n : g[i] = IF i = 0 THEN [c |-> c, ok |-> TRUE] ELSE KeyStep(kvs[i], g[i - 1])
    BY <1>1, <2>2 DEF KeysTo
  <2>4. \A i \in 1..n : i \in 0..n /\ i # 0
    BY <1>1
  <2>5. \A i \in 1..n : g[i] = KeyStep(kvs[i], g[i - 1])
    BY <2>3, <2>4
  <2>6. g[0] = [c |-> c, ok |-> TRUE]
    <3>1. 0 \in 0..n
      OBVIOUS
    <3> QED
      BY <2>3, <3>1
  <2> QED
    BY <2>1, <2>2, <2>5, <2>6
<1>3. PICK S : S = {k \in 0..n : KeysRefuse(kvs, k) \/ \E q \in Nat : p <= q /\ KeysEnd(kvs, k, p, q)}
  OBVIOUS
<1>4. 0 \in S
  <2>1. ASSUME NEW s \in Nat, NEW c, ComeTo(c, p, s)
        PROVE  GoodTo(KeysRead(kvs, c)[0], p, s)
    <3>1. c \in Cursors
      BY <2>1 DEF ComeTo
    <3>2. KeysRead(kvs, c)[0] = [c |-> c, ok |-> TRUE]
      BY <1>2, <3>1
    <3> QED
      BY <2>1, <3>1, <3>2 DEF GoodTo, Readings
  <2>2. KeysEnd(kvs, 0, p, p) /\ p <= p
    BY <2>1 DEF KeysEnd
  <2> QED
    BY <1>3, <2>2
<1>5. ASSUME NEW k \in S, k < n
      PROVE  k + 1 \in S
  <2>1. PICK j \in 1..n : j = k + 1 /\ j - 1 = k /\ j \in 0..n /\ k \in 0..n
    BY <1>3, <1>5
  <2>2. PICK kv : kv = kvs[j] /\ Writable(kv)
    BY <1>1
  <2>3. \A c \in Cursors : KeysRead(kvs, c)[j] = KeyStep(kv, KeysRead(kvs, c)[k])
                           /\ KeysRead(kvs, c)[k] \in Readings
    BY <1>2, <2>1, <2>2
  <2>4. CASE KeysRefuse(kvs, k)
    <3>1. ASSUME NEW c \in Cursors
          PROVE  Refusing(KeysRead(kvs, c)[j])
      <4>1. PICK r \in Readings : r = KeysRead(kvs, c)[k]
        BY <2>3
      <4>2. Refusing(r)
        BY <2>4, <4>1 DEF KeysRefuse
      <4> QED
        BY <2>2, <2>3, <4>1, <4>2, KeyStepRefuses
    <3>2. KeysRefuse(kvs, j)
      BY <3>1 DEF KeysRefuse
    <3> QED
      BY <1>3, <2>1, <3>2
  <2>5. ASSUME NEW q \in Nat, p <= q, KeysEnd(kvs, k, p, q)
        PROVE  k + 1 \in S
    <3>1. \/ \A r \in Readings : Refusing(KeyStep(kv, r))
          \/ \E q2 \in Nat : q <= q2 /\ KeyEnds(kv, q, q2)
      BY <2>2, KeyStepComes
    <3>2. CASE \A r \in Readings : Refusing(KeyStep(kv, r))
      <4>1. KeysRefuse(kvs, j)
        BY <2>3, <3>2 DEF KeysRefuse
      <4> QED
        BY <1>3, <2>1, <4>1
    <3>3. ASSUME NEW q2 \in Nat, q <= q2, KeyEnds(kv, q, q2)
          PROVE  k + 1 \in S
      <4>1. ASSUME NEW s \in Nat, NEW c, ComeTo(c, p, s)
            PROVE  GoodTo(KeysRead(kvs, c)[j], q2, s)
        <5>1. c \in Cursors
          BY <4>1 DEF ComeTo
        <5>2. GoodTo(KeysRead(kvs, c)[k], q, s)
          BY <2>5, <4>1 DEF KeysEnd
        <5>3. GoodTo(KeyStep(kv, KeysRead(kvs, c)[k]), q2, s)
          BY <3>3, <5>2 DEF KeyEnds
        <5> QED
          BY <2>3, <5>1, <5>3
      <4>2. KeysEnd(kvs, j, p, q2)
        BY <4>1 DEF KeysEnd
      <4>3. p <= q2
        BY <2>5, <3>3
      <4> QED
        BY <1>3, <2>1, <4>2, <4>3
    <3> QED
      BY <3>1, <3>2, <3>3
  <2> QED
    BY <1>3, <2>4, <2>5
<1>6. S = 0..n
  <2>1. S \in SUBSET (0..n)
    BY <1>3
  <2> QED
    BY <1>4, <1>5, <2>1, Ascent
<1>7. n \in S
  BY <1>6
<1> QED
  BY <1>1, <1>3, <1>7

\* How many values a tensor has: so many rows of its first dimension.
LEMMA ElementsOf ==
  ASSUME NEW t \in TensorInfos
  PROVE  Elements(t) \in Nat /\ \E q \in Nat : Elements(t) = t.dims[1] * q
<1>1. PICK dims : dims = t.dims
  OBVIOUS
<1>2. dims \in Seq(Nat \ {0}) /\ dims # <<>>
  BY <1>1 DEF TensorInfos
<1>3. PICK n \in Nat \ {0} : n = Len(dims)
  BY <1>2
<1>4. PICK d1 \in Nat : d1 = dims[1]
  BY <1>2
<1>5. \A i \in 1..n : dims[i] \in Nat
  BY <1>2, <1>3
<1>6. PICK F : F = [i \in 1..n |-> [x \in Nat |-> x * dims[i]]]
  OBVIOUS
<1>7. StepsIn(F, n, Nat)
  <2>1. \A i \in 1..n : \A x \in Nat : x * dims[i] \in Nat
    BY <1>5, ProductNat
  <2> QED
    BY <1>6, <2>1 DEF StepsIn
<1>8. PICK g : g \in [0..n -> Nat] /\ g[0] = 1 /\ \A i \in 1..n : g[i] = F[i][g[i - 1]]
  <2>1. 1 \in Nat
    OBVIOUS
  <2>2. PICK g : Iterates(g, F, n, 1, Nat)
    BY <1>7, <2>1, Iterated
  <2> QED
    BY <2>2 DEF Iterates
<1>9. \A i \in 1..n : g[i] = g[i - 1] * dims[i]
  <2>1. ASSUME NEW i \in 1..n
        PROVE  g[i] = g[i - 1] * dims[i]
    <3>1. i - 1 \in 0..n
      BY <1>3
    <3>2. g[i - 1] \in Nat
      BY <1>8, <3>1
    <3> QED
      BY <1>6, <1>8, <3>2
  <2> QED
    BY <2>1
<1>10. PICK h : h = [i \in 0..n |-> IF i = 0 THEN 1 ELSE g[i - 1] * dims[i]]
  OBVIOUS
<1>11. g = h
  <2>1. ASSUME NEW i \in 0..n
        PROVE  g[i] = h[i]
    <3>1. CASE i = 0
      BY <1>8, <1>10, <3>1
    <3>2. CASE i # 0
      <4>1. i \in 1..n
        BY <3>2
      <4> QED
        BY <1>9, <1>10, <3>2, <4>1
    <3> QED
      BY <3>1, <3>2
  <2> QED
    BY <1>8, <1>10, <2>1
<1>12. PICK e : e = CHOOSE u : u = [i \in 0..n |-> IF i = 0 THEN 1 ELSE u[i - 1] * dims[i]]
  OBVIOUS
<1>13. e = [i \in 0..n |-> IF i = 0 THEN 1 ELSE e[i - 1] * dims[i]]
  <2>1. g = [i \in 0..n |-> IF i = 0 THEN 1 ELSE g[i - 1] * dims[i]]
    BY <1>10, <1>11
  <2> QED
    BY <1>12, <2>1, Zenon
<1>14. Elements(t) = e[n]
  BY <1>1, <1>3, <1>12 DEF Elements
<1>15. PICK S : S = {k \in 0..(n - 1) : e[k + 1] \in Nat /\ \E q \in Nat : e[k + 1] = d1 * q}
  OBVIOUS
<1>16. \A i \in 0..n : e[i] = IF i = 0 THEN 1 ELSE e[i - 1] * dims[i]
  BY <1>13
<1>17. 0 \in S
  <2>1. 1 \in 0..n /\ 0 \in 0..n /\ 1 - 1 = 0 /\ 1 # 0 /\ 0 \in 0..(n - 1) /\ 0 + 1 = 1
    BY <1>3
  <2>2. e[0] = 1
    BY <1>16, <2>1
  <2>3. e[1] = e[0] * dims[1]
    BY <1>16, <2>1
  <2>4. e[1] = d1 /\ d1 = d1 * 1
    BY <1>4, <2>2, <2>3
  <2> QED
    BY <1>15, <2>1, <2>4
<1>18. ASSUME NEW k \in S, k < n - 1
       PROVE  k + 1 \in S
  <2>1. k \in Nat /\ k + 1 \in 0..(n - 1) /\ (k + 1) + 1 \in 0..n /\ (k + 1) + 1 # 0
        /\ ((k + 1) + 1) - 1 = k + 1 /\ (k + 1) + 1 \in 1..n
    BY <1>3, <1>15, <1>18
  <2>2. PICK q \in Nat : e[k + 1] = d1 * q
    BY <1>15
  <2>3. PICK d \in Nat : d = dims[(k + 1) + 1]
    BY <1>5, <2>1
  <2>4. e[(k + 1) + 1] = e[k + 1] * d
    BY <1>16, <2>1, <2>3
  <2>5. PICK r \in Nat : r = q * d
    BY ProductNat
  <2>6. e[(k + 1) + 1] = d1 * r
    BY <2>2, <2>4, <2>5
  <2>7. d1 * r \in Nat
    BY ProductNat
  <2> QED
    BY <1>15, <2>1, <2>6, <2>7
<1>19. S = 0..(n - 1)
  <2>1. S \in SUBSET (0..(n - 1)) /\ n - 1 \in Nat
    BY <1>3, <1>15
  <2> QED
    BY <1>17, <1>18, <2>1, Ascent
<1>20. n - 1 \in S /\ (n - 1) + 1 = n
  BY <1>3, <1>19
<1> QED
  BY <1>1, <1>4, <1>14, <1>15, <1>20

\* A tensor's bytes are those of its rows.
LEMMA NBytesIs ==
  ASSUME NEW t \in TensorInfos, NEW row, row = [type |-> t.type, ne |-> t.dims[1]]
  PROVE  /\ NBytes(t) \in Nat
         /\ NBytes(t) = IF Known(t) THEN Address(row, Elements(t) \div t.dims[1]) ELSE 0
<1>1. PICK e \in Nat, d \in Nat \ {0} : e = Elements(t) /\ d = t.dims[1]
  <2>1. PICK dims : dims = t.dims /\ dims \in Seq(Nat \ {0}) /\ dims # <<>>
    BY DEF TensorInfos
  <2>2. 1 \in 1..Len(dims)
    BY <2>1
  <2>3. PICK d \in Nat \ {0} : d = t.dims[1]
    BY <2>1, <2>2
  <2>4. PICK e \in Nat : e = Elements(t)
    BY ElementsOf
  <2> QED
    BY <2>3, <2>4
<1>2. PICK q \in Nat : e = d * q
  BY <1>1, ElementsOf
<1>3. e \div d = q
  <2>1. q \in Int /\ 0 \in 0..(d - 1)
    BY <1>1
  <2>2. (q * d + 0) \div d = q
    BY <2>1, DivUnique
  <2>3. q * d + 0 = e
    BY <1>2
  <2> QED
    BY <2>2, <2>3
<1>4. q * d = e
  BY <1>2
<1>5. row.ne = d /\ row.type = t.type
  BY <1>1
<1>6. Address(row, q) = (e \div Traits[t.type].blck) * Traits[t.type].size
  BY <1>4, <1>5 DEF Address
<1>7. CASE Known(t)
  <2>1. t.type \in DOMAIN Traits
    BY <1>7 DEF Known
  <2>2. PICK b \in Nat \ {0}, z \in Nat : b = Traits[t.type].blck /\ z = Traits[t.type].size
    BY <2>1 DEF Traits
  <2>3. NBytes(t) = (e \div b) * z
    BY <1>1, <1>7, <2>2 DEF NBytes
  <2>4. e \div b \in Nat
    BY DivMod
  <2>5. (e \div b) * z \in Nat
    BY <2>4, ProductNat
  <2> QED
    BY <1>1, <1>3, <1>6, <1>7, <2>2, <2>3, <2>5
<1>8. CASE ~Known(t)
  BY <1>8 DEF NBytes
<1> QED
  BY <1>7, <1>8

\* The alignment of the data.
LEMMA AlignmentIs ==
  ASSUME NEW f \in GgufFiles
  PROVE  Alignment(f) \in Nat \ {0}
<1>1. PICK named : named = {i \in DOMAIN f.kvs : f.kvs[i].key = "general.alignment"}
  OBVIOUS
<1>2. PICK k : k = CHOOSE i \in named : \A j \in named : i <= j
  OBVIOUS
<1>3. f.kvs \in Seq(KeyValues)
  BY DEF GgufFiles
<1>4. Alignment(f) = IF named # {} /\ f.kvs[k].type = "u32" /\ f.kvs[k].value # 0
                     THEN f.kvs[k].value ELSE 32
  BY <1>1, <1>2 DEF Alignment
<1>5. CASE named = {}
  BY <1>4, <1>5
<1>6. CASE named # {}
  <2>1. named \in SUBSET Nat
    BY <1>1, <1>3
  <2>2. \E i \in named : \A j \in named : i <= j
    BY <1>6, <2>1, LeastExists
  <2>3. k \in named
    BY <1>2, <2>2
  <2>4. k \in DOMAIN f.kvs
    BY <1>1, <2>3
  <2>5. f.kvs[k] \in KeyValues
    BY <1>3, <2>4
  <2>6. f.kvs[k].value \in Nat
    BY <2>5 DEF KeyValues
  <2> QED
    BY <1>4, <2>6
<1> QED
  BY <1>5, <1>6

LEMMA DataBehind ==
  ASSUME NEW p \in Nat, NEW a \in Nat \ {0}
  PROVE  DataAt(p, a) \in Nat /\ p <= DataAt(p, a)
<1>1. PICK x \in Nat : x = p + a - 1
  OBVIOUS
<1>2. x \div a \in Int /\ x % a \in 0..(a - 1) /\ x = a * (x \div a) + (x % a)
  BY DivMod
<1>3. PICK q \in Int, r \in 0..(a - 1) : q = x \div a /\ r = x % a
  BY <1>2
<1>4. PICK y \in Int : y = a * q
  OBVIOUS
<1>5. x = y + r
  BY <1>2, <1>3, <1>4
<1>6. y \in Nat /\ p <= y
  BY <1>1, <1>5
<1>7. DataAt(p, a) = q * a
  BY <1>1, <1>3 DEF DataAt
<1>8. q * a = y
  BY <1>4
<1> QED
  BY <1>6, <1>7, <1>8

\* A tensor's fields.
FieldsOf(t) == 4 + 8 * Len(t.dims) + 4 + 8
TakenIn(t) == Len(t.dims) <= 4 /\ Blocked(t)
TensorStep(t, r) ==
    LET c == Take(TakeStr(r.c, t.nlen), FieldsOf(t))
    IN [c |-> c, ok |-> r.ok /\ ~c.bad /\ Len(t.dims) <= 4 /\ Blocked(t)]

LEMMA TensorStepIs ==
  ASSUME NEW t \in TensorInfos, NEW r \in Readings
  PROVE  /\ TensorStep(t, r) \in Readings
         /\ TensorStep(t, r).ok => r.ok /\ ~TensorStep(t, r).c.bad /\ TakenIn(t)
         /\ r.ok /\ ~TensorStep(t, r).c.bad /\ TakenIn(t) => TensorStep(t, r).ok
         /\ r.c.bad => TensorStep(t, r).c.bad
         /\ \A p, s \in Nat :
               ComeTo(r.c, p, s) => ComeTo(TensorStep(t, r).c, p + 8 + t.nlen + FieldsOf(t), s)
<1>1. PICK nlen \in Nat, fields \in Nat : nlen = t.nlen /\ fields = FieldsOf(t)
  BY DEF TensorInfos, FieldsOf
<1>2. r.c \in Cursors /\ r.ok \in BOOLEAN
  BY DEF Readings
<1>3. PICK b : b = TakeStr(r.c, nlen)
  OBVIOUS
<1>4. PICK c : c = Take(b, fields)
  OBVIOUS
<1>5. b \in Cursors
  BY <1>2, <1>3, TakeStrStays
<1>6. c \in Cursors
  BY <1>4, <1>5, TakeStrStays
<1>7. PICK step : step = TensorStep(t, r)
  OBVIOUS
<1>8. step = [c |-> c, ok |-> r.ok /\ ~c.bad /\ Len(t.dims) <= 4 /\ Blocked(t)]
  BY <1>1, <1>3, <1>4, <1>7 DEF TensorStep
<1>9. step.c = c /\ step.ok = (r.ok /\ ~c.bad /\ TakenIn(t))
  BY <1>8, Zenon DEF TakenIn
<1>10. step \in Readings
  <2>1. PICK ok \in BOOLEAN : ok = (r.ok /\ ~c.bad /\ Len(t.dims) <= 4 /\ Blocked(t))
    BY Zenon
  <2>2. step = [c |-> c, ok |-> ok]
    BY <1>8, <2>1, Zenon
  <2> QED
    BY <1>6, <2>2 DEF Readings
<1>11. (step.ok => r.ok /\ ~c.bad /\ TakenIn(t)) /\ (r.ok /\ ~c.bad /\ TakenIn(t) => step.ok)
  BY <1>9, Zenon
<1>12. r.c.bad => c.bad
  <2>1. r.c.bad => b = r.c
    BY <1>2, <1>3, BadStays
  <2>2. b.bad => c = b
    BY <1>4, <1>5, BadStays
  <2> QED
    BY <2>1, <2>2
<1>13. ASSUME NEW p \in Nat, NEW s \in Nat, ComeTo(r.c, p, s)
       PROVE  ComeTo(c, p + 8 + nlen + fields, s)
  <2>1. PICK d : d = r.c
    OBVIOUS
  <2>2. PICK p2 \in Nat : p2 = p + 8 + nlen
    OBVIOUS
  <2>3. ComeTo(b, p2, s)
    BY <1>3, <1>13, <2>1, <2>2, TakeStrComes
  <2>4. ComeTo(c, p2 + fields, s)
    BY <1>4, <2>3, TakeComes
  <2> QED
    BY <2>2, <2>4
<1> QED
  BY <1>1, <1>7, <1>9, <1>10, <1>11, <1>12, <1>13

\* The tensors, one after the other.
TensorsTo(g, ts, c) ==
    g = [i \in 0..Len(ts) |-> IF i = 0 THEN [c |-> c, ok |-> TRUE] ELSE TensorStep(ts[i], g[i - 1])]
TensorsRead(ts, c) == CHOOSE g : TensorsTo(g, ts, c)

LEMMA TensorsExist ==
  ASSUME NEW ts \in Seq(TensorInfos), NEW c \in Cursors
  PROVE  /\ TensorsRead(ts, c)[0] = [c |-> c, ok |-> TRUE]
         /\ \A i \in 1..Len(ts) : TensorsRead(ts, c)[i] = TensorStep(ts[i], TensorsRead(ts, c)[i - 1])
         /\ \A i \in 0..Len(ts) : TensorsRead(ts, c)[i] \in Readings
<1>1. PICK n \in Nat : n = Len(ts)
  OBVIOUS
<1>2. \A i \in 1..n : ts[i] \in TensorInfos
  BY <1>1
<1>3. \A i \in 1..n : \A r \in Readings : TensorStep(ts[i], r) \in Readings
  BY <1>2, TensorStepIs
<1>4. PICK F : F = [i \in 1..n |-> [r \in Readings |-> TensorStep(ts[i], r)]]
  OBVIOUS
<1>5. PICK first \in Readings : first = [c |-> c, ok |-> TRUE]
  BY DEF Readings
<1>6. StepsIn(F, n, Readings)
  BY <1>3, <1>4 DEF StepsIn
<1>7. PICK g : g \in [0..n -> Readings] /\ g[0] = first /\ \A i \in 1..n : g[i] = F[i][g[i - 1]]
  <2>1. PICK g : Iterates(g, F, n, first, Readings)
    BY <1>6, Iterated
  <2> QED
    BY <2>1 DEF Iterates
<1>8. PICK h : h = [i \in 0..n |-> IF i = 0 THEN first ELSE TensorStep(ts[i], g[i - 1])]
  OBVIOUS
<1>9. ASSUME NEW i \in 0..n
      PROVE  g[i] = h[i]
  <2>1. CASE i = 0
    BY <1>7, <1>8, <2>1
  <2>2. CASE i # 0
    <3>1. i \in 1..n /\ i - 1 \in 0..n
      BY <1>1, <2>2
    <3>2. g[i - 1] \in Readings /\ g[i] = F[i][g[i - 1]]
      BY <1>7, <3>1
    <3>3. g[i] = TensorStep(ts[i], g[i - 1])
      BY <1>4, <3>1, <3>2
    <3> QED
      BY <1>8, <2>2, <3>3
  <2> QED
    BY <2>1, <2>2
<1>10. g = h
  BY <1>7, <1>8, <1>9
<1>11. TensorsTo(g, ts, c)
  BY <1>1, <1>5, <1>8, <1>10 DEF TensorsTo
<1>12. PICK e : e = TensorsRead(ts, c)
  OBVIOUS
<1>13. TensorsTo(e, ts, c)
  BY <1>11, <1>12 DEF TensorsRead
<1>14. \A i \in 0..n : e[i] = IF i = 0 THEN first ELSE TensorStep(ts[i], e[i - 1])
  BY <1>1, <1>5, <1>13 DEF TensorsTo
<1>15. e[0] = first
  <2>1. 0 \in 0..n
    OBVIOUS
  <2> QED
    BY <1>14, <2>1
<1>16. \A i \in 1..n : e[i] = TensorStep(ts[i], e[i - 1])
  <2>1. \A i \in 1..n : i \in 0..n /\ i # 0
    BY <1>1
  <2> QED
    BY <1>14, <2>1
<1>17. PICK S : S = {i \in 0..n : e[i] \in Readings}
  OBVIOUS
<1>18. 0 \in S
  BY <1>15, <1>17
<1>19. ASSUME NEW k \in S, k < n
       PROVE  k + 1 \in S
  <2>1. k + 1 \in 1..n /\ (k + 1) - 1 = k /\ k + 1 \in 0..n
    BY <1>17, <1>19
  <2>2. e[k + 1] = TensorStep(ts[k + 1], e[k])
    BY <1>16, <2>1
  <2>3. e[k] \in Readings
    BY <1>17
  <2> QED
    BY <1>3, <1>17, <2>1, <2>2, <2>3
<1>20. S = 0..n
  <2>1. S \in SUBSET (0..n)
    BY <1>17
  <2> QED
    BY <1>18, <1>19, <2>1, Ascent
<1>21. \A i \in 0..n : e[i] \in Readings
  BY <1>17, <1>20
<1> QED
  BY <1>1, <1>5, <1>12, <1>15, <1>16, <1>21

\* None of them is read to the end where the first is not reached.
LEMMA TensorsLate ==
  ASSUME NEW ts \in Seq(TensorInfos), ts # <<>>, NEW c \in Cursors
  PROVE  /\ TensorsRead(ts, c)[Len(ts)] \in Readings
         /\ TensorsRead(ts, c)[Len(ts)].ok => ~TensorsRead(ts, c)[Len(ts)].c.bad
         /\ c.bad => ~TensorsRead(ts, c)[Len(ts)].ok
<1>1. PICK n \in Nat \ {0} : n = Len(ts)
  OBVIOUS
<1>2. PICK g : g = TensorsRead(ts, c)
  OBVIOUS
<1>3. /\ g[0] = [c |-> c, ok |-> TRUE]
      /\ \A i \in 1..n : g[i] = TensorStep(ts[i], g[i - 1])
      /\ \A i \in 0..n : g[i] \in Readings
  BY <1>1, <1>2, TensorsExist
<1>4. ASSUME NEW i \in 1..n
      PROVE  (g[i].ok => ~g[i].c.bad) /\ (g[i - 1].c.bad => g[i].c.bad)
  <2>1. i - 1 \in 0..n /\ ts[i] \in TensorInfos
    BY <1>1
  <2>2. PICK r \in Readings : r = g[i - 1]
    BY <1>3, <2>1
  <2>3. PICK t \in TensorInfos : t = ts[i]
    BY <2>1
  <2>4. g[i] = TensorStep(t, r)
    BY <1>3, <2>2, <2>3
  <2> QED
    BY <2>2, <2>4, TensorStepIs
<1>5. ASSUME c.bad
      PROVE  g[n].c.bad
  <2>1. PICK S : S = {i \in 0..n : g[i].c.bad}
    OBVIOUS
  <2>2. 0 \in S
    BY <1>3, <1>5, <2>1
  <2>3. ASSUME NEW k \in S, k < n
        PROVE  k + 1 \in S
    <3>1. k + 1 \in 1..n /\ (k + 1) - 1 = k /\ k + 1 \in 0..n
      BY <2>1, <2>3
    <3>2. g[k].c.bad
      BY <2>1
    <3> QED
      BY <1>4, <2>1, <3>1, <3>2
  <2>4. S = 0..n
    <3>1. S \in SUBSET (0..n)
      BY <2>1
    <3> QED
      BY <2>2, <2>3, <3>1, Ascent
  <2>5. n \in S
    BY <2>4
  <2> QED
    BY <2>1, <2>5
<1>6. n \in 1..n /\ n \in 0..n
  OBVIOUS
<1> QED
  BY <1>1, <1>2, <1>3, <1>4, <1>5, <1>6

\* They end at q, or one of them is not taken and none of the files opens.
TensorsEnd(ts, k, p, q) ==
    \A s \in Nat : \A r0 : ComeTo(r0, p, s) => GoodTo(TensorsRead(ts, r0)[k], q, s)
TensorsRefuse(ts, k) == \A r0 \in Cursors : ~TensorsRead(ts, r0)[k].ok

LEMMA TensorsCome ==
  ASSUME NEW ts \in Seq(TensorInfos), NEW p \in Nat
  PROVE  \/ TensorsRefuse(ts, Len(ts))
         \/ \E q \in Nat : p <= q /\ TensorsEnd(ts, Len(ts), p, q)
<1>1. PICK n \in Nat : n = Len(ts)
  OBVIOUS
<1>2. PICK S : S = {k \in 0..n : TensorsRefuse(ts, k) \/ \E q \in Nat : p <= q /\ TensorsEnd(ts, k, p, q)}
  OBVIOUS
<1>3. 0 \in S
  <2>1. ASSUME NEW s \in Nat, NEW r0, ComeTo(r0, p, s)
        PROVE  GoodTo(TensorsRead(ts, r0)[0], p, s)
    <3>1. r0 \in Cursors
      BY <2>1 DEF ComeTo
    <3>2. TensorsRead(ts, r0)[0] = [c |-> r0, ok |-> TRUE]
      BY <3>1, TensorsExist
    <3> QED
      BY <2>1, <3>1, <3>2 DEF GoodTo, Readings
  <2>2. TensorsEnd(ts, 0, p, p) /\ p <= p
    BY <2>1 DEF TensorsEnd
  <2> QED
    BY <1>2, <2>2
<1>4. ASSUME NEW k \in S, k < n
      PROVE  k + 1 \in S
  <2>1. PICK j \in 1..n : j = k + 1 /\ j - 1 = k /\ j \in 0..n /\ k \in 0..n
    BY <1>2, <1>4
  <2>2. PICK t \in TensorInfos : t = ts[j]
    BY <1>1
  <2>3. \A r0 \in Cursors : TensorsRead(ts, r0)[j] = TensorStep(t, TensorsRead(ts, r0)[k])
                            /\ TensorsRead(ts, r0)[k] \in Readings
    BY <1>1, <2>1, <2>2, TensorsExist
  <2>4. CASE TensorsRefuse(ts, k) \/ ~TakenIn(t)
    <3>1. ASSUME NEW r0 \in Cursors
          PROVE  ~TensorsRead(ts, r0)[j].ok
      <4>1. PICK r \in Readings : r = TensorsRead(ts, r0)[k]
        BY <2>3
      <4>2. ~r.ok \/ ~TakenIn(t)
        BY <2>4, <4>1 DEF TensorsRefuse
      <4>3. TensorsRead(ts, r0)[j] = TensorStep(t, r)
        BY <2>3, <4>1
      <4> QED
        BY <4>2, <4>3, TensorStepIs
    <3>2. TensorsRefuse(ts, j)
      BY <3>1 DEF TensorsRefuse
    <3> QED
      BY <1>2, <2>1, <3>2
  <2>5. ASSUME NEW q \in Nat, p <= q, TensorsEnd(ts, k, p, q), TakenIn(t)
        PROVE  k + 1 \in S
    <3>1. PICK nlen \in Nat, fields \in Nat : nlen = t.nlen /\ fields = FieldsOf(t)
      BY DEF TensorInfos, FieldsOf
    <3>2. PICK q2 \in Nat : q2 = q + 8 + nlen + fields /\ p <= q2
      BY <2>5
    <3>3. ASSUME NEW s \in Nat, NEW r0, ComeTo(r0, p, s)
          PROVE  GoodTo(TensorsRead(ts, r0)[j], q2, s)
      <4>1. r0 \in Cursors
        BY <3>3 DEF ComeTo
      <4>2. PICK r \in Readings : r = TensorsRead(ts, r0)[k]
        BY <2>3, <4>1
      <4>3. GoodTo(r, q, s)
        BY <2>5, <3>3, <4>2 DEF TensorsEnd
      <4>4. ComeTo(r.c, q, s) /\ (~r.c.bad => r.ok)
        BY <4>3 DEF GoodTo
      <4>5. PICK step : step = TensorStep(t, r)
        OBVIOUS
      <4>6. step \in Readings /\ ComeTo(step.c, q2, s) /\ (r.c.bad => step.c.bad)
        BY <3>1, <3>2, <4>4, <4>5, TensorStepIs
      <4>7. ~step.c.bad => step.ok
        BY <2>5, <4>4, <4>5, <4>6, TensorStepIs
      <4>8. GoodTo(step, q2, s)
        BY <4>6, <4>7 DEF GoodTo
      <4> QED
        BY <2>3, <4>1, <4>2, <4>5, <4>8
    <3>4. TensorsEnd(ts, j, p, q2)
      BY <3>3 DEF TensorsEnd
    <3> QED
      BY <1>2, <2>1, <3>2, <3>4
  <2> QED
    BY <1>2, <2>4, <2>5
<1>5. S = 0..n
  <2>1. S \in SUBSET (0..n)
    BY <1>2
  <2> QED
    BY <1>3, <1>4, <2>1, Ascent
<1>6. n \in S
  BY <1>5
<1> QED
  BY <1>1, <1>2, <1>6

\* A file of s bytes with what is in f, as far as it goes.
OfSize(f, s) == [f EXCEPT !.size = s]
HeadRead(f, s) == Take(Cursor(OfSize(f, s)), 24)
KeysIn(f, s) == KeysRead(f.kvs, HeadRead(f, s))[Len(f.kvs)]
TensorsIn(f, s) == TensorsRead(f.tensors, KeysIn(f, s).c)[Len(f.tensors)]
PlacesAt(f, off) == [ok |-> TRUE, at |-> [i \in DOMAIN f.tensors |-> off + f.tensors[i].offset]]
AllFit(f, off, s) ==
    off <= s /\ \A i \in DOMAIN f.tensors : f.tensors[i].offset + NBytes(f.tensors[i]) <= s - off

LEMMA OfSizeIs ==
  ASSUME NEW f \in GgufFiles, NEW s \in Nat
  PROVE  LET h == OfSize(f, s)
         IN h.size = s /\ h.magic = f.magic /\ h.version = f.version /\ h.kvs = f.kvs
            /\ h.tensors = f.tensors
BY DEF OfSize, GgufFiles

LEMMA OpenIs ==
  ASSUME NEW f \in GgufFiles, NEW s \in Nat
  PROVE  LET keys == KeysIn(f, s)
             tensors == TensorsIn(f, s)
             off == DataAt(tensors.c.at, Alignment(f))
         IN Open(OfSize(f, s)) =
              IF /\ s >= 24 /\ f.magic = "GGUF" /\ f.version \in 2..3
                 /\ keys.ok /\ tensors.ok /\ AllFit(f, off, s)
              THEN PlacesAt(f, off) ELSE NotOpened
<1>1. PICK h : h = OfSize(f, s)
  OBVIOUS
<1>2. /\ h.size = s /\ h.magic = f.magic /\ h.version = f.version
      /\ h.kvs = f.kvs /\ h.tensors = f.tensors
  BY <1>1, OfSizeIs
<1>3. PICK kvs, ts : kvs = f.kvs /\ ts = f.tensors
  OBVIOUS
<1>4. PICK head : head = Take(Cursor(h), 24)
  OBVIOUS
<1>5. PICK keys : keys = ReadKeys(h, head)
  OBVIOUS
<1>6. keys = KeysIn(f, s)
  <2>1. ReadKeys(h, head) = KeysRead(kvs, head)[Len(kvs)]
    BY <1>2, <1>3 DEF ReadKeys, KeysRead, KeysTo, KeyStep
  <2> QED
    BY <1>1, <1>3, <1>4, <1>5, <2>1 DEF KeysIn, HeadRead
<1>7. PICK tensors : tensors = ReadTensors(h, keys.c)
  OBVIOUS
<1>8. tensors = TensorsIn(f, s)
  <2>1. PICK c : c = keys.c
    OBVIOUS
  <2>2. ReadTensors(h, c) = TensorsRead(ts, c)[Len(ts)]
    BY <1>2, <1>3 DEF ReadTensors, TensorsRead, TensorsTo, TensorStep, FieldsOf
  <2> QED
    BY <1>3, <1>6, <1>7, <2>1, <2>2 DEF TensorsIn
<1>9. Alignment(h) = Alignment(f)
  BY <1>2 DEF Alignment
<1>10. PICK off : off = DataAt(tensors.c.at, Alignment(f))
  OBVIOUS
<1>11. Open(h) = IF /\ s >= 24 /\ f.magic = "GGUF" /\ f.version \in 2..3
                    /\ keys.ok /\ tensors.ok
                    /\ off <= s
                    /\ \A i \in DOMAIN ts : ts[i].offset + NBytes(ts[i]) <= s - off
                 THEN [ok |-> TRUE, at |-> [i \in DOMAIN ts |-> off + ts[i].offset]]
                 ELSE NotOpened
  BY <1>2, <1>3, <1>4, <1>5, <1>7, <1>9, <1>10 DEF Open
<1> QED
  BY <1>1, <1>3, <1>6, <1>8, <1>10, <1>11 DEF AllFit, PlacesAt

\* The writer's fields.
Wellformed(f) == f \in GgufFiles /\ \A i \in DOMAIN f.kvs : Writable(f.kvs[i])
OpensFrom(f, off) ==
    \A s \in Nat : Open(OfSize(f, s)) = IF AllFit(f, off, s) THEN PlacesAt(f, off) ELSE NotOpened
NeverOpens(f) == \A s \in Nat : Open(OfSize(f, s)) = NotOpened

LEMMA HeadComes ==
  ASSUME NEW f \in GgufFiles, NEW s \in Nat
  PROVE  ComeTo(HeadRead(f, s), 24, s) /\ HeadRead(f, s) \in Cursors
<1>1. PICK h : h = OfSize(f, s)
  OBVIOUS
<1>2. PICK c : c = Cursor(h)
  OBVIOUS
<1>3. c = [at |-> 0, bad |-> FALSE, size |-> s]
  BY <1>1, <1>2, OfSizeIs DEF Cursor
<1>4. ComeTo(c, 0, s)
  BY <1>3 DEF ComeTo, Cursors
<1>5. ComeTo(Take(c, 24), 24, s)
  <2>1. 0 \in Nat /\ 24 \in Nat /\ 0 + 24 = 24
    OBVIOUS
  <2>2. ComeTo(Take(c, 24), 0 + 24, s)
    BY <1>4, <2>1, TakeComes
  <2> QED
    BY <2>1, <2>2
<1>6. ComeTo(HeadRead(f, s), 24, s)
  BY <1>1, <1>2, <1>5 DEF HeadRead
<1> QED
  BY <1>6 DEF ComeTo

\* A file's tensors begin where its fields end: from there on it opens, or it never does.
LEMMA OpensOnce ==
  ASSUME NEW f, Wellformed(f)
  PROVE  NeverOpens(f) \/ \E off \in Nat : OpensFrom(f, off)
<1>1. f \in GgufFiles /\ \A i \in DOMAIN f.kvs : Writable(f.kvs[i])
  BY DEF Wellformed
<1>2. PICK kvs \in Seq(KeyValues), ts \in Seq(TensorInfos) : kvs = f.kvs /\ ts = f.tensors /\ ts # <<>>
  BY <1>1 DEF GgufFiles
<1>3. \A i \in DOMAIN kvs : Writable(kvs[i])
  BY <1>1, <1>2
<1>4. ASSUME NEW s \in Nat
      PROVE  /\ HeadRead(f, s) \in Cursors /\ ComeTo(HeadRead(f, s), 24, s)
             /\ KeysIn(f, s) = KeysRead(kvs, HeadRead(f, s))[Len(kvs)]
             /\ KeysIn(f, s) \in Readings /\ KeysIn(f, s).c \in Cursors
             /\ TensorsIn(f, s) = TensorsRead(ts, KeysIn(f, s).c)[Len(ts)]
             /\ TensorsIn(f, s).ok => ~TensorsIn(f, s).c.bad
             /\ KeysIn(f, s).c.bad => ~TensorsIn(f, s).ok
  <2>1. PICK c \in Cursors : c = HeadRead(f, s)
    BY <1>1, HeadComes
  <2>2. PICK n \in Nat : n = Len(kvs) /\ n \in 0..Len(kvs)
    BY <1>2
  <2>3. PICK keys : keys = KeysRead(kvs, c)[n]
    OBVIOUS
  <2>4. keys \in Readings
    BY <1>3, <2>1, <2>2, <2>3, KeysExist
  <2>5. keys = KeysIn(f, s)
    BY <1>2, <2>1, <2>2, <2>3 DEF KeysIn
  <2>6. PICK d \in Cursors : d = keys.c
    BY <2>4 DEF Readings
  <2>7. TensorsIn(f, s) = TensorsRead(ts, d)[Len(ts)]
    BY <1>2, <2>5, <2>6 DEF TensorsIn
  <2>8. /\ TensorsRead(ts, d)[Len(ts)].ok => ~TensorsRead(ts, d)[Len(ts)].c.bad
        /\ d.bad => ~TensorsRead(ts, d)[Len(ts)].ok
    BY <1>2, TensorsLate
  <2> QED
    BY <1>1, <2>1, <2>2, <2>3, <2>4, <2>5, <2>6, <2>7, <2>8, HeadComes
<1>5. ASSUME \A s \in Nat : ~KeysIn(f, s).ok \/ ~TensorsIn(f, s).ok
      PROVE  NeverOpens(f)
  BY <1>1, <1>5, OpenIs DEF NeverOpens
<1>6. CASE ~(f.magic = "GGUF" /\ f.version \in 2..3)
  BY <1>1, <1>6, OpenIs DEF NeverOpens
<1>7. CASE KeysRefuse(kvs, Len(kvs))
  <2>1. ASSUME NEW s \in Nat
        PROVE  ~KeysIn(f, s).ok \/ ~TensorsIn(f, s).ok
    <3>1. Refusing(KeysIn(f, s))
      BY <1>4, <1>7 DEF KeysRefuse
    <3> QED
      BY <1>4, <3>1 DEF Refusing
  <2> QED
    BY <1>5, <2>1
<1>8. ASSUME NEW p \in Nat, 24 <= p, KeysEnd(kvs, Len(kvs), 24, p),
             f.magic = "GGUF" /\ f.version \in 2..3
      PROVE  NeverOpens(f) \/ \E off \in Nat : OpensFrom(f, off)
  <2>1. TensorsRefuse(ts, Len(ts)) \/ \E q \in Nat : p <= q /\ TensorsEnd(ts, Len(ts), p, q)
    BY TensorsCome
  <2>2. CASE TensorsRefuse(ts, Len(ts))
    <3>1. \A s \in Nat : ~TensorsIn(f, s).ok
      BY <1>4, <2>2 DEF TensorsRefuse
    <3> QED
      BY <1>5, <3>1
  <2>3. ASSUME NEW q \in Nat, p <= q, TensorsEnd(ts, Len(ts), p, q)
        PROVE  \E off \in Nat : OpensFrom(f, off)
    <3>1. PICK a \in Nat \ {0} : a = Alignment(f)
      BY <1>1, AlignmentIs
    <3>2. PICK off \in Nat : off = DataAt(q, a) /\ q <= off
      BY DataBehind
    <3>3. ASSUME NEW s \in Nat
          PROVE  Open(OfSize(f, s)) = IF AllFit(f, off, s) THEN PlacesAt(f, off) ELSE NotOpened
      <4>1. GoodTo(KeysIn(f, s), p, s)
        BY <1>4, <1>8 DEF KeysEnd
      <4>2. ComeTo(KeysIn(f, s).c, p, s) /\ (~KeysIn(f, s).c.bad => KeysIn(f, s).ok)
        BY <4>1 DEF GoodTo
      <4>3. GoodTo(TensorsIn(f, s), q, s)
        BY <1>4, <2>3, <4>2 DEF TensorsEnd
      <4>4. ComeTo(TensorsIn(f, s).c, q, s) /\ (~TensorsIn(f, s).c.bad => TensorsIn(f, s).ok)
        BY <4>3 DEF GoodTo
      <4>5. CASE q > s
        <5>1. ~TensorsIn(f, s).ok
          BY <1>4, <4>4, <4>5 DEF ComeTo
        <5>2. Open(OfSize(f, s)) = NotOpened
          BY <1>1, <5>1, OpenIs
        <5>3. ~AllFit(f, off, s)
          BY <3>2, <4>5 DEF AllFit
        <5> QED
          BY <5>2, <5>3
      <4>6. CASE ~(q > s)
        <5>1. s >= 24 /\ ~(p > s)
          BY <1>8, <2>3, <4>6
        <5>2. KeysIn(f, s).ok
          BY <4>2, <5>1 DEF ComeTo
        <5>3. TensorsIn(f, s).ok /\ TensorsIn(f, s).c.at = q
          BY <4>4, <4>6 DEF ComeTo
        <5>4. DataAt(TensorsIn(f, s).c.at, Alignment(f)) = off
          BY <3>1, <3>2, <5>3
        <5>5. Open(OfSize(f, s)) = IF /\ f.magic = "GGUF" /\ f.version \in 2..3
                                      /\ AllFit(f, off, s)
                                   THEN PlacesAt(f, off) ELSE NotOpened
          BY <1>1, <5>1, <5>2, <5>3, <5>4, OpenIs
        <5> QED
          BY <1>8, <5>5
      <4> QED
        BY <4>5, <4>6
    <3> QED
      BY <3>3 DEF OpensFrom
  <2> QED
    BY <2>1, <2>2, <2>3
<1>9. KeysRefuse(kvs, Len(kvs)) \/ \E p \in Nat : 24 <= p /\ KeysEnd(kvs, Len(kvs), 24, p)
  <2>1. 24 \in Nat
    OBVIOUS
  <2> QED
    BY <1>3, <2>1, KeysCome
<1> QED
  BY <1>6, <1>7, <1>8, <1>9

\* A file as its writer left it opens whole, in the same places however it is cut or
\* lengthened, and not at all where a row of a tensor is missing.
LEMMA WrittenOpensWhole ==
  ASSUME NEW f, Wellformed(f), WrittenOut(f)
  PROVE  OpensWhole(f)
<1>1. f \in GgufFiles
  BY DEF Wellformed
<1>2. PICK ts \in Seq(TensorInfos) : ts = f.tensors /\ ts # <<>>
  BY <1>1 DEF GgufFiles
<1>3. PICK Z \in Nat : Z = f.size
  BY <1>1 DEF GgufFiles
<1>4. PICK longer : longer = Open(OfSize(f, Z + 1))
  OBVIOUS
<1>5. longer.ok /\ \A i \in DOMAIN ts : EndOf(f, longer, i) <= Z
  BY <1>2, <1>3, <1>4 DEF WrittenOut, OfSize
<1>6. longer # NotOpened
  BY <1>5 DEF NotOpened
<1>7. PICK off \in Nat : OpensFrom(f, off)
  <2>1. Z + 1 \in Nat
    OBVIOUS
  <2>2. ~NeverOpens(f)
    BY <1>4, <1>6, <2>1 DEF NeverOpens
  <2> QED
    BY <2>2, OpensOnce
<1>8. PICK places : places = PlacesAt(f, off)
  OBVIOUS
<1>9. longer = places
  <2>1. Z + 1 \in Nat
    OBVIOUS
  <2> QED
    BY <1>4, <1>6, <1>7, <1>8, <2>1 DEF OpensFrom
<1>10. PICK end : end = [i \in DOMAIN ts |-> EndOf(f, places, i)]
  OBVIOUS
<1>11. ASSUME NEW i \in DOMAIN ts
       PROVE  /\ end[i] \in Nat
              /\ \A s \in Nat : (off <= s /\ ts[i].offset + NBytes(ts[i]) <= s - off) <=> end[i] <= s
  <2>1. PICK t \in TensorInfos : t = ts[i]
    BY <1>2
  <2>2. PICK o \in Nat : o = t.offset
    BY <2>1 DEF TensorInfos
  <2>3. PICK row : row = [type |-> t.type, ne |-> t.dims[1]]
    OBVIOUS
  <2>4. PICK b \in Nat : b = NBytes(t)
    BY <2>3, NBytesIs
  <2>5. b = IF Known(t) THEN Address(row, Elements(t) \div t.dims[1]) ELSE 0
    BY <2>3, <2>4, NBytesIs
  <2>6. places.at[i] = off + o
    BY <1>2, <1>8, <2>1, <2>2 DEF PlacesAt
  <2>7. EndOf(f, places, i) = (off + o) + b
    BY <1>2, <2>1, <2>3, <2>5, <2>6 DEF EndOf
  <2>8. end[i] = (off + o) + b
    BY <1>10, <2>7
  <2> QED
    BY <2>1, <2>2, <2>4, <2>8
<1>12. PICK needed : needed = {EndOf(f, places, i) : i \in DOMAIN f.tensors}
  OBVIOUS
<1>13. \A s : (\A e \in needed : e <= s) <=> \A i \in DOMAIN ts : end[i] <= s
  BY <1>2, <1>10, <1>12
<1>14. ASSUME NEW s \in Nat
       PROVE  Open(OfSize(f, s)) = IF \A e \in needed : e <= s THEN places ELSE NotOpened
  <2>1. 1 \in DOMAIN ts
    BY <1>2
  <2>2. AllFit(f, off, s) <=> \A i \in DOMAIN ts : end[i] <= s
    BY <1>2, <1>11, <2>1 DEF AllFit
  <2>3. Open(OfSize(f, s)) = IF AllFit(f, off, s) THEN places ELSE NotOpened
    BY <1>7, <1>8 DEF OpensFrom
  <2> QED
    BY <1>13, <2>2, <2>3
<1>15. Open(f) = places
  <2>1. OfSize(f, Z) = f
    BY <1>1, <1>3 DEF OfSize, GgufFiles
  <2>2. \A i \in DOMAIN ts : end[i] <= Z
    BY <1>5, <1>9, <1>10
  <2> QED
    BY <1>13, <1>14, <2>1, <2>2
<1>16. Open(f).ok
  BY <1>8, <1>15 DEF PlacesAt
<1>17. \A size \in 0..(f.size + 8) :
          Open([f EXCEPT !.size = size]) = IF \A e \in needed : e <= size THEN Open(f) ELSE NotOpened
  BY <1>3, <1>14, <1>15 DEF OfSize
<1> QED
  BY <1>12, <1>15, <1>16, <1>17 DEF OpensWhole

\* For every complete model file whose window heads are no wider than its others:
\* whatever else it has of keys and tensors, what loads can be run (llama_load).  And for every file that was
\* written out whole: cut off anywhere, it opens only if no row of a tensor is missing,
\* and in the places it had (gguf_open).
THEOREM LoadedModelsRun == Spec => []LoadedModelRuns
<1>1. AskedGiven => LoadedModelRuns
  <2>1. ASSUME AskedGiven, asked.kind = "open"
        PROVE  OpensWhole(asked.file)
    <3>1. PICK f \in Written : f = asked.file
      BY <2>1 DEF AskedGiven
    <3>2. f \in GgufFiles /\ WrittenOut(f)
      BY WrittenAssumption
    <3>3. \A i \in DOMAIN f.kvs : Writable(f.kvs[i])
      <4>1. \A i \in DOMAIN f.kvs : f.kvs[i] \in KeyValues
        BY <3>2 DEF GgufFiles
      <4> QED
        BY <4>1, WrittenAssumption DEF Writable
    <3>4. OpensWhole(f)
      BY <3>2, <3>3, WrittenOpensWhole DEF Wellformed
    <3> QED
      BY <3>1, <3>4
  <2>2. ASSUME AskedGiven, asked.kind = "load"
        PROVE  LET f == asked.file
               IN Load(f).loaded /\ Complete(f, Shape(f)) => Runs(f, Load(f))
    <3>1. PICK f \in Files : f = asked.file
      BY <2>2 DEF AskedGiven
    <3>2. Load(f).loaded /\ Complete(f, Shape(f)) => Runs(f, Load(f))
      BY FileAssumption, LoadedRun
    <3> QED
      BY <3>1, <3>2
  <2> QED
    BY <2>1, <2>2 DEF LoadedModelRuns
<1> QED
  BY <1>1, AlwaysGiven, PTL
=============================================================================
