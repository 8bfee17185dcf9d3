----------------------------- MODULE ParallelFor -----------------------------
(***************************************************************************)
(* What charsiu_parallel_for promises its caller, with no threads in it: a *)
(* call over [0, n) runs every row of the range once, in any order and in  *)
(* any grouping, and returns only when none is left.                       *)
(***************************************************************************)
EXTENDS Integers

CONSTANT MaxRows   \* the widest range a call may ask for

VARIABLES
    busy,   \* a call is in progress
    todo    \* the rows of that call that have not run yet

pfVars == <<busy, todo>>

PFTypeOK ==
    /\ busy \in BOOLEAN
    /\ todo \in SUBSET (0 .. MaxRows - 1)

PFInit ==
    /\ busy = FALSE
    /\ todo = {}

\* The caller asks for the range [0, n).
PFCall ==
    /\ ~busy
    /\ busy' = TRUE
    /\ \E n \in 0 .. MaxRows : todo' = 0 .. n - 1

\* Somebody runs a group of rows nobody has run.
PFRun ==
    /\ busy
    /\ todo' \in SUBSET todo /\ todo' # todo
    /\ UNCHANGED busy

\* The call returns: nothing is left to do.
PFReturn ==
    /\ busy
    /\ todo = {}
    /\ busy' = FALSE
    /\ UNCHANGED todo

PFNext == PFCall \/ PFRun \/ PFReturn

PFSpec == PFInit /\ [][PFNext]_pfVars
==============================================================================
