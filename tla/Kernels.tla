------------------------------ MODULE Kernels ------------------------------
(***************************************************************************)
(* The arithmetic of src/gguf.c: what a row of a weight is worth in each   *)
(* of its formats, the kernels that multiply by it -- against floats, or   *)
(* against an activation quantised in blocks of 32 -- and the blocked      *)
(* kernels of attention.                                                   *)
(*                                                                         *)
(* Numbers are residues modulo a prime and a float is a number made of its *)
(* bytes, so two kernels agree on arbitrary bytes where they sum the same  *)
(* products; where the comments promise the order of a sum, the order is   *)
(* compared too.                                                           *)
(***************************************************************************)
EXTENDS Integers, Sequences, FiniteSets

CONSTANT BatchMax   \* CHARSIU_BATCH_MAX: the rows a batched kernel takes

Modulus == 40009
Times(a, b) == (a * b) % Modulus
Total(n, Term(_)) ==
    LET upto[i \in 0..n] == IF i = 0 THEN 0 ELSE (upto[i - 1] + Term(i - 1)) % Modulus
    IN upto[n]

-----------------------------------------------------------------------------
(* Formats.  A weight is [type, ne, data]: ne elements a row, data its     *)
(* bytes, from 0.                                                          *)

Traits ==
    [F32 |-> [blck |-> 1, size |-> 4], F16 |-> [blck |-> 1, size |-> 2],
     BF16 |-> [blck |-> 1, size |-> 2], Q8_0 |-> [blck |-> 32, size |-> 34],
     Q4_0 |-> [blck |-> 32, size |-> 18], Q4_1 |-> [blck |-> 32, size |-> 20],
     Q6_K |-> [blck |-> 256, size |-> 210]]
Plains == {"F32", "F16", "BF16"}

BlocksOfRow(w) == w.ne \div Traits[w.type].blck
Address(w, r) == ((r * w.ne) \div Traits[w.type].blck) * Traits[w.type].size

Signed(b) == IF b >= 128 THEN b - 256 ELSE b
Low(b) == b % 16
High(b) == b \div 16
Short(w, o) == w.data[o] + 256 * w.data[o + 1]
Half(w, o) == Short(w, o) % Modulus
Brain(w, o) == Times(3, Short(w, o) % Modulus)
Single(w, o) == (Short(w, o) + Times(1021, Short(w, o + 2) % Modulus)) % Modulus
PlainAt(w, at, i) ==
    CASE w.type = "F32" -> Single(w, at + 4 * i)
      [] w.type = "F16" -> Half(w, at + 2 * i)
      [] w.type = "BF16" -> Brain(w, at + 2 * i)

(* block_q6_K: ql, qh, scales, d.  Half h of a block has four quarters of  *)
(* 32 codes, whose high bits share a byte.                                 *)
Q6Code(w, o, h, t, l) ==
    LET ql == w.data[o + 64 * h + 32 * (t % 2) + l]
        qh == w.data[o + 128 + 32 * h + l]
    IN (IF t < 2 THEN Low(ql) ELSE High(ql)) + 16 * ((qh \div 4^t) % 4) - 32
Q6Scale(w, o, h, s) == Times(Half(w, o + 208), Signed(w.data[o + 192 + 8 * h + s]))

\* gguf_row_f32, with deq_q6_K
RowF32(w, r) ==
    LET at(i) == Address(w, r) + Traits[w.type].size * (i \div Traits[w.type].blck)
        nibble(o, j) == IF j < 16 THEN Low(w.data[o + j]) ELSE High(w.data[o + j - 16])
    IN [i \in 0..(w.ne - 1) |->
          LET o == at(i)
              j == i % 32
              h == (i % 256) \div 128
              t == (i % 128) \div 32
          IN CASE w.type \in Plains -> PlainAt(w, o, 0)
               [] w.type = "Q8_0" -> Times(Half(w, o), Signed(w.data[o + 2 + j]))
               [] w.type = "Q4_0" -> Times(Half(w, o), nibble(o + 2, j) - 8)
               [] w.type = "Q4_1" -> Times(Half(w, o), nibble(o + 4, j)) + Half(w, o + 2)
               [] w.type = "Q6_K" -> Times(Q6Scale(w, o, h, j \div 16 + 2 * t),
                                           Q6Code(w, o, h, t, j))]

-----------------------------------------------------------------------------
(* Against floats.                                                         *)

\* dot_f32 and its kind: with vectors, eight lanes of every eighth and a tail
SumOrder(neon, n) ==
    LET full == IF neon THEN n - (n % 8) ELSE 0
    IN [lanes |-> [c \in 0..7 |-> [s \in 1..(full \div 8) |-> 8 * (s - 1) + c]],
        tail |-> [i \in 1..(n - full) |-> full + i - 1]]

DotPlain(neon, w, at, x) ==
    LET order == SumOrder(neon, w.ne)
        along(is) == Total(Len(is), LAMBDA i : Times(PlainAt(w, at, is[i + 1]), x[is[i + 1]]))
    IN Total(8, LAMBDA c : along(order.lanes[c])) + along(order.tail)

\* What of a block is summed against x[x0], x[x0 + 1]...: bytes, from p; the low
\* and then the high nibbles of 16 bytes; and 16 lanes of one quarter of a q6_K
\* half.
SignedSum(w, p, x, x0) == Total(32, LAMBDA j : Signed(w.data[p + j]) * x[x0 + j])
NibbleSum(w, p, bias, x, x0) ==
    Total(16, LAMBDA j : (Low(w.data[p + j]) - bias) * x[x0 + j]
                       + (High(w.data[p + j]) - bias) * x[x0 + j + 16])
Q6Sum(w, o, h, t, s, x, x0) ==
    Total(16, LAMBDA j : Q6Code(w, o, h, t, 16 * s + j) * x[x0 + 128 * h + 32 * t + 16 * s + j])
Q6Total(term) == Total(16, LAMBDA i : term[i \div 8, i % 4, (i \div 4) % 2])

\* deq_q6_K into a row of its own, and the row against x
PortableQ6(w, o, x, x0) ==
    LET row == RowF32([w EXCEPT !.ne = 256, !.data = [i \in 0..209 |-> w.data[o + i]]], 0)
    IN Total(256, LAMBDA j : Times(row[j], x[x0 + j]))

\* One block, at byte o, against x[x0]...
DotBlock(neon, w, o, x, x0) ==
    CASE w.type = "Q8_0" -> Times(Half(w, o), SignedSum(w, o + 2, x, x0))
      [] w.type = "Q4_0" -> Times(Half(w, o), NibbleSum(w, o + 2, 8, x, x0))
      [] w.type = "Q4_1" -> Times(Half(w, o), NibbleSum(w, o + 4, 0, x, x0))
                            + Times(Half(w, o + 2), Total(32, LAMBDA j : x[x0 + j]))
      [] w.type = "Q6_K" /\ ~neon -> PortableQ6(w, o, x, x0)
      [] w.type = "Q6_K" /\ neon ->
           Q6Total([h \in 0..1, t \in 0..3, s \in 0..1 |->
                      Times(Q6Scale(w, o, h, s + 2 * t), Q6Sum(w, o, h, t, s, x, x0))])

-----------------------------------------------------------------------------
(* The activation, and the kernels that take it quantised.  What is left   *)
(* of an earlier vector stays until somebody asks for the blocks.          *)

\* As if the blocks of the vector before stayed good.
ActSetKept(a, x) == [a EXCEPT !.f = x]
ActSet(a, x) == [a EXCEPT !.f = x, !.quantised = FALSE, !.q1_valid = FALSE]

Magnitude(x) == IF x < 0 THEN -x ELSE x
Greatest0(S) == CHOOSE x \in S \cup {0} : \A y \in S : y <= x
Quotient(x, d) == IF d = 0 THEN 0 ELSE IF d < 0 THEN (-x) \div (-d) ELSE x \div d

ActBlocks(a) ==
    LET n == Cardinality(DOMAIN a.f)
        nb == (n + 31) \div 32
        x(i) == IF i < n THEN a.f[i] ELSE 0
        block(i) == (32 * i)..(32 * i + 31)
        d == [i \in 0..(nb - 1) |-> Greatest0({Magnitude(x(e)) : e \in block(i)}) \div 127]
    IN IF a.quantised THEN a
       ELSE [a EXCEPT !.quantised = TRUE, !.d = d,
                      !.bs = [i \in 0..(nb - 1) |-> Total(32, LAMBDA j : x(32 * i + j))],
                      !.q = [e \in 0..(32 * nb - 1) |-> Quotient(x(e), d[e \div 32])]]

ActQ1(a) ==
    LET d == Greatest0({Magnitude(a.f[i]) : i \in DOMAIN a.f}) \div 127
    IN IF a.q1_valid THEN a
       ELSE [a EXCEPT !.q1_valid = TRUE, !.d1 = d, !.q1 = [i \in DOMAIN a.f |-> Quotient(a.f[i], d)]]

\* Block i of a row, at byte o, against block i of the activation; a q6_K
\* block spans eight of those.
DotBlockQ(w, o, a, i) ==
    LET scaled(sum) == Times(Times(Half(w, o), a.d[i]), sum)
    IN CASE w.type = "Q8_0" -> scaled(SignedSum(w, o + 2, a.q, 32 * i))
         [] w.type = "Q4_0" -> scaled(NibbleSum(w, o + 2, 8, a.q, 32 * i))
         [] w.type = "Q4_1" -> scaled(NibbleSum(w, o + 4, 0, a.q, 32 * i))
                               + Times(Half(w, o + 2), a.bs[i])
         [] w.type = "Q6_K" ->
              Q6Total([h \in 0..1, t \in 0..3, s \in 0..1 |->
                         Times(Times(Q6Scale(w, o, h, s + 2 * t), a.d[8 * i + 4 * h + t]),
                               Q6Sum(w, o, h, t, s, a.q, 256 * i))])

\* One element of gguf_matvec: row r.
MatvecElement(neon, w, a, r) ==
    LET at(i) == Address(w, r) + Traits[w.type].size * i
        nb == BlocksOfRow(w)
    IN IF w.type \in Plains THEN DotPlain(neon, w, Address(w, r), a.f) % Modulus
       ELSE IF a.quantised THEN Total(nb, LAMBDA i : DotBlockQ(w, at(i), a, i))
       ELSE Total(nb, LAMBDA i : DotBlock(neon, w, at(i), a.f, Traits[w.type].blck * i))

\* One element of the kernels that take m activations to one row.
BatchedElement(w, a, r) ==
    Total(BlocksOfRow(w), LAMBDA i : DotBlockQ(w, Address(w, r) + Traits[w.type].size * i, a, i))

\* gguf_matmul, m activations by rows row0.. of w into y: in runs of BatchMax,
\* and what a run does is decided by its first activation.
Matmul(neon, w, acts, y, ystride, row0, nrows) ==
    LET m == Len(acts)
        first(j) == j - (j % BatchMax)
        length(j) == IF m - first(j) < BatchMax THEN m - first(j) ELSE BatchMax
        batched(j) == /\ length(j) > 1
                      /\ acts[first(j) + 1].quantised
                      /\ w.type \in {"Q4_0", "Q8_0"}
        value(j, r) == IF batched(j) THEN BatchedElement(w, acts[j + 1], r)
                       ELSE MatvecElement(neon, w, acts[j + 1], r)
        written == {<<j, r>> : j \in 0..(m - 1), r \in row0..(row0 + nrows - 1)}
        place(p) == ystride * p[1] + p[2]
    IN [i \in DOMAIN y |->
          IF \E p \in written : place(p) = i
          THEN LET p == CHOOSE p \in written : place(p) = i IN value(p[1], p[2])
          ELSE y[i]]

-----------------------------------------------------------------------------
(* The kernels of attention, four queries at a time.  plain is             *)
(* CHARSIU_PLAIN_ATTN: a pair at a time.                                   *)

Tiled(neon, plain, u, nq) == neon /\ ~plain /\ u < 4 * (nq \div 4)

\* charsiu_qk_f32: how s[u][j] is summed; two keys at a time.
QkScores(neon, plain, nq, nk, hd) ==
    LET step == [lanes |-> [c \in 0..7 |-> [s \in 1..(hd \div 8) |-> 8 * (s - 1) + c]],
                 tail |-> [i \in 1..(hd % 8) |-> (hd - (hd % 8)) + i - 1]]
        tile(u0, j0) == {[at |-> <<u0 + i \div 2, j0 + (i % 2)>>,
                          sum |-> [q |-> u0 + i \div 2, k |-> j0 + (i % 2), order |-> step]]
                           : i \in 0..7}
        one(u, j) == [at |-> <<u, j>>, sum |-> [q |-> u, k |-> j, order |-> SumOrder(neon, hd)]]
        tiles == {t \in (0..nq) \X (0..nk) :
                    /\ t[1] % 4 = 0 /\ t[2] % 2 = 0 /\ t[2] + 2 <= nk
                    /\ t[1] + 4 <= nq /\ Tiled(neon, plain, t[1], nq)}
        left == {p \in (0..(nq - 1)) \X (0..(nk - 1)) :
                    Tiled(neon, plain, p[1], nq) => p[2] >= 2 * (nk \div 2)}
    IN UNION {tile(t[1], t[2]) : t \in tiles} \cup {one(p[1], p[2]) : p \in left}

\* charsiu_axpy_f32: which elements of n it adds fused
AxpyFused(neon, n, i) == neon /\ i < n - (n % 8)

\* charsiu_pv_f32: what is added to acc[u][e], in order; sixteen elements at a
\* time, and those behind the last sixteen by axpys of their own.
PvSums(neon, plain, nq, nk, hd) ==
    LET e0 == hd - (hd % 16)
        keys(fused) == [j \in 1..nk |-> [key |-> j - 1, fused |-> fused]]
    IN [p \in (0..(nq - 1)) \X (0..(hd - 1)) |->
          IF ~Tiled(neon, plain, p[1], nq) THEN keys(AxpyFused(neon, hd, p[2]))
          ELSE IF p[2] < e0 THEN keys(TRUE)
          ELSE keys(AxpyFused(neon, hd - e0, p[2] - e0))]
=============================================================================
