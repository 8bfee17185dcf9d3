------------------------------ MODULE GgufFile ------------------------------
(***************************************************************************)
(* gguf_open of src/gguf.c: the cursor that walks a file's keys and        *)
(* tensors, and what it accepts of a file that ends early.                 *)
(*                                                                         *)
(* A file is [size, magic, version, kvs, tensors].  What a field holds is  *)
(* given, and where it is follows from the fields before it; a field past  *)
(* the end of the file is not read.                                        *)
(*   kvs       [key, klen, type, value, of, lens]: lens are the lengths of *)
(*             the strings of a string or an array of strings, or <<n>>    *)
(*             for n elements of type `of`                                 *)
(*   tensors   [nlen, dims, type, offset]                                  *)
(***************************************************************************)
EXTENDS Kernels

Width == [u8 |-> 1, i8 |-> 1, bool |-> 1, u16 |-> 2, i16 |-> 2, u32 |-> 4, i32 |-> 4,
          f32 |-> 4, u64 |-> 8, i64 |-> 8, f64 |-> 8]

\* struct cur: a field that does not fit sets bad and moves nothing.
Cursor(f) == [at |-> 0, bad |-> FALSE, size |-> f.size]
Take(c, n) ==
    IF c.bad \/ c.size - c.at < n THEN [c EXCEPT !.bad = TRUE] ELSE [c EXCEPT !.at = @ + n]
TakeStr(c, n) == Take(Take(c, 8), n)
TakeStrs(c, lens) ==
    LET upto[i \in 0..Len(lens)] == IF i = 0 THEN c ELSE TakeStr(upto[i - 1], lens[i])
    IN upto[Len(lens)]

\* read_value.  A number that does not fit is found out by who reads next.
ReadValue(c, kv) ==
    LET of == Take(Take(c, 4), 8)
    IN CASE kv.type \in DOMAIN Width -> [c |-> Take(c, Width[kv.type]), ok |-> TRUE]
         [] kv.type = "string" -> LET s == TakeStrs(c, kv.lens) IN [c |-> s, ok |-> ~s.bad]
         [] kv.type = "array" /\ kv.of \in DOMAIN Width ->
              LET s == Take(of, kv.lens[1] * Width[kv.of]) IN [c |-> s, ok |-> ~s.bad]
         [] kv.type = "array" /\ kv.of = "string" ->
              LET s == TakeStrs(of, kv.lens) IN [c |-> s, ok |-> ~s.bad]
         [] OTHER -> [c |-> c, ok |-> FALSE]

ReadKeys(f, c0) ==
    LET key(i) == f.kvs[i]
        upto[i \in 0..Len(f.kvs)] ==
          IF i = 0 THEN [c |-> c0, ok |-> TRUE]
          ELSE LET c == TakeStr(upto[i - 1].c, key(i).klen)
                   typed == Take(c, 4)
               IN IF ~upto[i - 1].ok \/ c.bad THEN [c |-> c, ok |-> FALSE]
                  ELSE IF typed.bad THEN [c |-> typed, ok |-> TRUE]
                  ELSE ReadValue(typed, key(i))
    IN upto[Len(f.kvs)]

\* general.alignment, of the first key of that name
Alignment(f) ==
    LET named == {i \in DOMAIN f.kvs : f.kvs[i].key = "general.alignment"}
        kv == f.kvs[CHOOSE i \in named : \A j \in named : i <= j]
    IN IF named # {} /\ kv.type = "u32" /\ kv.value # 0 THEN kv.value ELSE 32

Elements(t) == LET upto[i \in 0..Len(t.dims)] == IF i = 0 THEN 1 ELSE upto[i - 1] * t.dims[i]
               IN upto[Len(t.dims)]

\* A tensor of a type this build does not know has no bytes and may stay.
Known(t) == t.type \in DOMAIN Traits
NBytes(t) == IF Known(t) THEN (Elements(t) \div Traits[t.type].blck) * Traits[t.type].size ELSE 0
Blocked(t) == Known(t) => Elements(t) % Traits[t.type].blck = 0

ReadTensors(f, c0) ==
    LET fields(t) == 4 + 8 * Len(t.dims) + 4 + 8
        upto[i \in 0..Len(f.tensors)] ==
          IF i = 0 THEN [c |-> c0, ok |-> TRUE]
          ELSE LET t == f.tensors[i]
                   c == Take(TakeStr(upto[i - 1].c, t.nlen), fields(t))
               IN [c |-> c, ok |-> upto[i - 1].ok /\ ~c.bad /\ Len(t.dims) <= 4 /\ Blocked(t)]
    IN upto[Len(f.tensors)]

DataAt(at, alignment) == ((at + alignment - 1) \div alignment) * alignment

\* Where each tensor begins in the file, or that it is not opened.
NotOpened == [ok |-> FALSE, at |-> <<>>]
Open(f) ==
    LET head == Take(Cursor(f), 24)
        keys == ReadKeys(f, head)
        tensors == ReadTensors(f, keys.c)
        off == DataAt(tensors.c.at, Alignment(f))
        fits(t) == t.offset + NBytes(t) <= f.size - off
    IN IF /\ f.size >= 24 /\ f.magic = "GGUF" /\ f.version \in 2..3
          /\ keys.ok /\ tensors.ok
          /\ off <= f.size
          /\ \A i \in DOMAIN f.tensors : fits(f.tensors[i])
       THEN [ok |-> TRUE, at |-> [i \in DOMAIN f.tensors |-> off + f.tensors[i].offset]]
       ELSE NotOpened
=============================================================================
