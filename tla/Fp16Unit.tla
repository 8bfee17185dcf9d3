------------------------------ MODULE Fp16Unit ------------------------------
(***************************************************************************)
(* The fp16 matmul handles of src/npufp16.c: groups of matmuls submitted   *)
(* as one job, waited for later, and read back through the sentinels of    *)
(* src/sentinel.h.  One file descriptor: the jobs run in the order they    *)
(* were submitted, asynchronously with the thread that submits them, and a *)
(* job may stop after any of its tasks.                                    *)
(*                                                                         *)
(* The words of an output buffer are abstracted to one per operation: the  *)
(* sentinel, an answer of the group submitted last (right or wrong), or    *)
(* something older.                                                        *)
(***************************************************************************)
EXTENDS Integers, Sequences, FiniteSets

CONSTANTS Units,      \* the handles
          MaxFaults   \* bound: jobs that stop early, submits that fail

ASSUME UnitAssumption == MaxFaults \in Nat

VARIABLES
    unit,     \* the handles, see UnitType
    queue,    \* the units whose jobs the driver holds, oldest first
    faults    \* history: faults so far, for the bound

unitVars == <<unit, queue, faults>>

Word == {"poison", "right", "wrong", "other"}
NoShape == [m |-> 0, k |-> 0, n |-> 0]

(* One matmul of a group: the shape is the group's.  `is` is the operand   *)
(* surface it ought to be multiplied with, addr the one it is given, reach *)
(* the positions its rows attend to, good that its input rows are right.   *)
Unopened ==
    [cap  |-> [in |-> 0, out |-> 0, reg |-> 0],  \* insz, obsz, regsz
     sig  |-> NoShape,        \* f->regsig: what the register streams do,
     wt   |-> <<>>,           \* ... and the operand address in each
     in   |-> <<>>,           \* f->in: whether each operation's rows are right
     out  |-> <<>>,           \* f->ob, one Word an operation
     last |-> [nops |-> 0, m |-> 0, n |-> 0],    \* f->last, f->pm, f->pn
     ops  |-> <<>>,           \* f->inops
     shape |-> NoShape,       \* ... and their shape
     held |-> FALSE, prepoisoned |-> FALSE, inflight |-> FALSE]

UnitInit ==
    /\ unit = [u \in Units |-> Unopened]
    /\ queue = <<>>
    /\ faults = 0

UnitTypeOK ==
    /\ \A u \in Units :
        /\ Len(unit[u].in) = Len(unit[u].wt)
        /\ \A i \in DOMAIN unit[u].out : unit[u].out[i] \in Word
        /\ {unit[u].held, unit[u].prepoisoned, unit[u].inflight} \subseteq BOOLEAN
    /\ queue \in Seq(Units)
    /\ faults \in 0..MaxFaults

------------------------------------------------------------------------------
Queued(u) == \E i \in DOMAIN queue : queue[i] = u

All(word, ops) == [i \in DOMAIN ops |-> word]
Larger(a, b) == IF a < b THEN b ELSE a

(* bo_prep at the head of a submit over a group nobody waited for, and     *)
(* charsiu_fp16_drain: the job is let finish and its answers are dropped.  *)
CanDrainNow(u) == TRUE                 \* mutant: the drain is forgotten
CanDrain(u) == unit[u].inflight => ~Queued(u)

Drained(f) ==
    IF f.inflight
    THEN [f EXCEPT !.inflight = FALSE, !.held = FALSE, !.prepoisoned = FALSE]
    ELSE f

(* charsiu_fp16_release.                                                   *)
Released(f) ==
    IF f.held THEN [f EXCEPT !.held = FALSE, !.prepoisoned = FALSE] ELSE f

(* want(): the five buffers grow together and are new ones when they do,   *)
(* so what was emitted into them (regsig by f->gen) is gone.  prepoisoned  *)
(* is not touched.                                                         *)
Needs(shape, nops) ==
    [in |-> nops * shape.m * shape.k, out |-> nops * shape.m * shape.n,
     reg |-> nops]
Wanted(f, need) ==
    IF \A b \in DOMAIN need : need[b] <= f.cap[b] THEN f
    ELSE [f EXCEPT !.cap = [b \in DOMAIN need |-> Larger(need[b], f.cap[b])],
                   !.sig = NoShape, !.wt = <<>>,
                   !.out = All("other", f.out)]

(* Mutant: the number of operations alone.                                 *)
PoisonMatchesCount(f, shape, nops) == f.last.nops = nops
(* charsiu_poison_matches.                                                 *)
PoisonMatches(f, shape, nops) ==
    f.last = [nops |-> nops, m |-> shape.m, n |-> shape.n]

(* The buffer when the job goes in: sentinels written now, or by the last  *)
(* poison_and_release if they are where this group's would be.             *)
Poisoned(f, shape, ops) ==
    IF ~(f.prepoisoned /\ PoisonMatches(f, shape, Len(ops)))
    THEN All("poison", ops)
    ELSE [i \in DOMAIN ops |->
            IF /\ f.last = [nops |-> Len(ops), m |-> shape.m, n |-> shape.n]
               /\ f.out[i] = "poison"
            THEN "poison" ELSE "other"]

(* The register streams: emitted when the shape has changed or the buffers *)
(* are new, else only the operand addresses that differ are patched.       *)
Streams(f, shape, ops) ==
    [f EXCEPT !.sig = shape, !.wt = [i \in DOMAIN ops |-> ops[i].addr]]

(* charsiu_fp16_matmul_group_submit up to the ioctl.                       *)
Staged(f, shape, ops) ==
    LET w == Wanted(Released(Drained(f)), Needs(shape, Len(ops)))
    IN  [Streams(w, shape, ops) EXCEPT
            !.prepoisoned = FALSE,
            !.in = [i \in DOMAIN ops |-> ops[i].good],
            !.out = Poisoned(w, shape, ops)]

Submitted(f, shape, ops) ==
    [Staged(f, shape, ops) EXCEPT
        !.ops = ops, !.shape = shape, !.inflight = TRUE]

(* A submit whose operands are not laid out as the shape says is refused   *)
(* before the buffers are touched.                                         *)
Refused(f) == Released(Drained(f))

(* charsiu_fp16_matmul_group_wait once the fence is signalled; `borrow` is *)
(* a group whose answers stay in the buffer.                               *)
Waited(f, borrow) ==
    [f EXCEPT !.inflight = FALSE, !.held = borrow,
              !.last = [nops |-> Len(f.ops), m |-> f.shape.m, n |-> f.shape.n]]
Bad(f) == \E i \in DOMAIN f.out : f.out[i] = "poison"

(* charsiu_fp16_poison_and_release.                                        *)
PoisonReleased(f) ==
    IF f.held
    THEN [f EXCEPT !.out = All("poison", f.out), !.held = FALSE,
                   !.prepoisoned = TRUE]
    ELSE f

------------------------------------------------------------------------------
(* The hardware runs the oldest job, or as many of its tasks as it gets to.*)
(* Right(u, i): whether operation i of u, run now, has the right answer.   *)
Answers(u, Right(_, _), upto) ==
    [i \in DOMAIN unit[u].out |->
        IF i > upto THEN unit[u].out[i]
        ELSE IF Right(u, i) THEN "right" ELSE "wrong"]

Run(Right(_, _)) ==
    /\ queue # <<>>
    /\ LET u == Head(queue)
       IN \E upto \in 0..Len(unit[u].ops) :
            /\ upto < Len(unit[u].ops) => faults < MaxFaults
            /\ faults' = faults + IF upto < Len(unit[u].ops) THEN 1 ELSE 0
            /\ unit' = [unit EXCEPT ![u].out = Answers(u, Right, upto)]
    /\ queue' = Tail(queue)
==============================================================================
