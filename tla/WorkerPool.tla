------------------------------ MODULE WorkerPool ------------------------------
(***************************************************************************)
(* The thread pool of src/llama.c: a mutex, two condition variables and    *)
(* one job description in g_pool that every worker reads outside the       *)
(* mutex.  pool_run and matvec_again hand it jobs; worker() splits them.   *)
(*                                                                         *)
(* A critical section that touches g_pool in one go is one action.  The    *)
(* caller's, which writes the job field by field while workers could be    *)
(* reading, is three: CallPool, Arm, Publish.                              *)
(***************************************************************************)
EXTENDS Integers, FiniteSets

CONSTANTS
    MaxThreads,   \* the most threads pool_start is asked for
    MaxRows,      \* the widest range a call asks for
    Grains,       \* the grains callers pass
    GenLimit      \* g_pool.gen counts modulo this (2^32 in the build)

ASSUME PoolAssumption ==
    /\ MaxThreads \in Nat \ {0}
    /\ MaxRows \in Nat
    /\ Grains \subseteq Nat \ {0} /\ Grains # {}
    /\ GenLimit \in Nat /\ GenLimit > 1

Thread == 0 .. MaxThreads - 1
Row == 0 .. MaxRows - 1
None == -1                     \* a NULL pointer
NoWork == <<"callback", None>>
Serial == {0, 1}               \* names a call: it and the one before differ

VARIABLES
    dynamic,    \* pool_dynamic()'s memo: CHARSIU_POOL_DYNAMIC
    n,          \* g_pool.n; 0 until pool_start
    created,    \* the threads pthread_create gave
    holder,     \* the caller holds g_pool.mu
    gen, done,  \* g_pool.gen, g_pool.done
    fn,         \* the call whose callback g_pool.fn and ctx are, or None
    mv,         \* the call whose matrix g_pool.w, nt, a and y are, or None
    nrows, next, chunk,
    cpc,        \* where the calling thread is
    call,       \* the call in progress, or the last one
    pc,         \* where each worker is
    mygen,      \* worker()'s local
    from, len,  \* the range pool_do was handed
    did,        \* the call whose work pool_do picked for that range
    times       \* how often the call in progress has run each row

shared == <<gen, done, fn, mv, nrows, next, chunk>>
local == <<pc, mygen, from, len, did>>
setup == <<dynamic, n, created>>
vars == <<setup, holder, shared, cpc, call, local, times>>

\* A worker that is between waking for a job and reporting it done.
Working == {"begin", "claim", "runChunk", "runShare", "report"}
Running == {"runChunk", "runShare"}

Lesser(a, b) == IF a < b THEN a ELSE b
CeilDiv(a, b) == (a + b - 1) \div b
RangeOf(w) == from[w] .. from[w] + len[w] - 1
------------------------------------------------------------------------------
Init ==
    /\ dynamic \in BOOLEAN
    /\ n = 0 /\ created = {}
    /\ holder = FALSE
    /\ gen = 0 /\ done = 0 /\ fn = None /\ mv = None
    /\ nrows = 0 /\ next = 0 /\ chunk = 0
    /\ cpc = "idle"
    /\ call = [kind |-> "callback", id |-> 0, n |-> 0, grain |-> 1]
    /\ pc = [w \in Thread |-> "absent"]
    /\ mygen = [w \in Thread |-> 0]
    /\ from = [w \in Thread |-> 0] /\ len = [w \in Thread |-> 0]
    /\ did = [w \in Thread |-> NoWork]
    /\ times = [r \in Row |-> 0]

\* pool_start: one worker per thread asked for, none for one.  What
\* pthread_create answers is not looked at, so any of them may be missing.
PoolStart ==
    /\ n = 0 /\ cpc = "idle"
    /\ n' \in 1 .. MaxThreads
    /\ created' \in SUBSET (0 .. n' - 1)
    /\ n' = 1 => created' = {}
    /\ pc' = [w \in Thread |-> IF w \in created' THEN "lock" ELSE "absent"]
    /\ UNCHANGED <<dynamic, holder, shared, cpc, call, mygen, from, len, did,
                   times>>
------------------------------------------------------------------------------
(* The caller.                                                             *)

NewCall(kind, rows, grain) ==
    /\ call' = [kind |-> kind, id |-> 1 - call.id, n |-> rows, grain |-> grain]
    /\ UNCHANGED times

Requests == {<<"callback", g>> : g \in Grains} \cup {<<"matvec", 1>>}

\* One thread, or no pool yet: the caller runs the range itself.
CallInline ==
    /\ n <= 1 /\ cpc = "idle"
    /\ \E q \in Requests, rows \in 1 .. MaxRows : NewCall(q[1], rows, q[2])
    /\ cpc' = "inline"
    /\ UNCHANGED <<setup, holder, shared, local>>

RunInline ==
    /\ cpc = "inline"
    /\ times' = [r \in Row |-> IF r < call.n THEN times[r] + 1 ELSE times[r]]
    /\ cpc' = "ran"
    /\ UNCHANGED <<setup, holder, shared, call, local>>

ReturnInline ==
    /\ cpc = "ran"
    /\ cpc' = "idle"
    /\ times' = [r \in Row |-> 0]
    /\ UNCHANGED <<setup, holder, shared, call, local>>

\* pool_run, and the tail of matvec_again: take the mutex, name the work.
CallPool ==
    /\ n > 1 /\ cpc = "idle" /\ ~holder
    /\ \E q \in Requests, rows \in 1 .. MaxRows : NewCall(q[1], rows, q[2])
    /\ holder' = TRUE
    /\ IF call'.kind = "callback"
       THEN fn' = call'.id /\ UNCHANGED mv
       ELSE fn' = None /\ mv' = call'.id
    /\ cpc' = "arm"
    /\ UNCHANGED <<setup, gen, done, nrows, next, chunk, local>>

\* pool_arm's chunk: about four a thread, never below one item, rounded up to
\* the grain; 0 is the static split.
Items(rows) == LET each == rows \div (4 * n) IN IF each > 0 THEN each ELSE 1
ArmedChunk(rows, grain) ==
    IF dynamic THEN CeilDiv(Items(rows), grain) * grain ELSE 0

PoolArmKeepsDone ==
    /\ nrows' = call.n /\ next' = 0 /\ chunk' = ArmedChunk(call.n, call.grain)
    /\ UNCHANGED done
PoolArmNotForMatvec ==
    IF call.kind = "matvec"
    THEN nrows' = call.n /\ done' = 0 /\ UNCHANGED <<next, chunk>>
    ELSE /\ nrows' = call.n /\ next' = 0 /\ chunk' = ArmedChunk(call.n, call.grain)
         /\ done' = 0
PoolArm ==
    /\ nrows' = call.n
    /\ next' = 0
    /\ chunk' = ArmedChunk(call.n, call.grain)
    /\ done' = 0

Arm ==
    /\ cpc = "arm"
    /\ PoolArm
    /\ cpc' = "publish"
    /\ UNCHANGED <<setup, holder, gen, fn, mv, call, local, times>>

SignalOne(sleepers) ==
    [w \in Thread |-> IF w \in sleepers /\ \A v \in sleepers : w <= v
                     THEN "lock" ELSE pc[w]]
Woken(sleepers) == [w \in Thread |-> IF w \in sleepers THEN "lock" ELSE pc[w]]
Asleep == {w \in Thread : pc[w] = "asleep"}

\* The broadcast wakes every worker; the caller finds done < n and sleeps,
\* which lets the mutex go.
Publish ==
    /\ cpc = "publish"
    /\ gen' = (gen + 1) % GenLimit
    /\ pc' = Woken(Asleep)
    /\ cpc' = "asleep"
    /\ holder' = FALSE
    /\ UNCHANGED <<setup, done, fn, mv, nrows, next, chunk, call, mygen, from,
                   len, did, times>>

\* pthread_cond_wait may return with nobody having signalled.
CallerWakes ==
    /\ cpc = "asleep"
    /\ cpc' = "woken"
    /\ UNCHANGED <<setup, holder, shared, call, local, times>>

AllButOneDone == done >= n - 1
AllDone == done >= n

CallerSleeps ==
    /\ cpc = "woken" /\ ~AllDone
    /\ cpc' = "asleep"
    /\ UNCHANGED <<setup, holder, shared, call, local, times>>

\* pool_run clears fn on the way out; matvec_again found it clear.
ReturnPool ==
    /\ cpc = "woken" /\ AllDone
    /\ fn' = None
    /\ cpc' = "idle"
    /\ times' = [r \in Row |-> 0]
    /\ UNCHANGED <<setup, holder, gen, done, mv, nrows, next, chunk, call, local>>
------------------------------------------------------------------------------
(* One worker.                                                             *)

\* Nothing new: sleep on cv_work.
WorkerSleeps(w) ==
    /\ pc[w] = "lock" /\ ~holder /\ gen = mygen[w]
    /\ pc' = [pc EXCEPT ![w] = "asleep"]
    /\ UNCHANGED <<setup, holder, shared, cpc, call, mygen, from, len, did, times>>

\* A wake nobody sent.
WorkerWakes(w) ==
    /\ pc[w] = "asleep"
    /\ pc' = [pc EXCEPT ![w] = "lock"]
    /\ UNCHANGED <<setup, holder, shared, cpc, call, mygen, from, len, did, times>>

TakeJob(w) ==
    /\ pc[w] = "lock" /\ ~holder /\ gen # mygen[w]
    /\ mygen' = [mygen EXCEPT ![w] = gen]
    /\ pc' = [pc EXCEPT ![w] = "begin"]
    /\ UNCHANGED <<setup, holder, shared, cpc, call, from, len, did, times>>

\* What pool_do will run: the callback if there is one, else the matrix.
Dispatch == IF fn # None THEN <<"callback", fn>> ELSE <<"matvec", mv>>

HandRange(w, r0, rows, how) ==
    /\ from' = [from EXCEPT ![w] = r0]
    /\ len' = [len EXCEPT ![w] = rows]
    /\ did' = [did EXCEPT ![w] = Dispatch]
    /\ pc' = [pc EXCEPT ![w] = how]

NoRange(w) ==
    /\ pc' = [pc EXCEPT ![w] = "report"]
    /\ UNCHANGED <<from, len, did>>

\* The atomic fetch_add on the cursor, and the range it bought.
CursorByOne == next + 1
CursorBumped == next + chunk
ClaimChunk(w) ==
    /\ pc[w] = "claim" \/ (pc[w] = "begin" /\ chunk > 0)
    /\ next' = CursorBumped
    /\ IF next < nrows
       THEN HandRange(w, next, Lesser(nrows - next, chunk), "runChunk")
       ELSE NoRange(w)
    /\ UNCHANGED <<setup, holder, gen, done, fn, mv, nrows, chunk, cpc, call,
                   mygen, times>>

\* The static split: an equal contiguous share for each thread id.
ShareSize == CeilDiv(nrows, n)
ShareToTheEnd(w) == IF ShareSize * w >= nrows THEN 0 ELSE nrows - ShareSize * w
ShareLen(w) ==
    IF ShareSize * w >= nrows THEN 0 ELSE Lesser(nrows - ShareSize * w, ShareSize)

TakeShare(w) ==
    /\ pc[w] = "begin" /\ chunk = 0
    /\ IF ShareLen(w) > 0
       THEN HandRange(w, ShareSize * w, ShareLen(w), "runShare")
       ELSE NoRange(w)
    /\ UNCHANGED <<setup, holder, shared, cpc, call, mygen, times>>

\* pool_do has come back from the range; the range's locals are dead.
RunRange(w) ==
    /\ pc[w] \in Running
    /\ times' = [r \in Row |-> IF r \in RangeOf(w) THEN times[r] + 1 ELSE times[r]]
    /\ pc' = [pc EXCEPT ![w] = IF pc[w] = "runChunk" THEN "claim" ELSE "report"]
    /\ from' = [from EXCEPT ![w] = 0] /\ len' = [len EXCEPT ![w] = 0]
    /\ did' = [did EXCEPT ![w] = NoWork]
    /\ UNCHANGED <<setup, holder, shared, cpc, call, mygen>>

\* ++done under the mutex; the last one in signals the caller.
Report(w) ==
    /\ pc[w] = "report" /\ ~holder
    /\ done' = done + 1
    /\ cpc' = IF done' = n /\ cpc = "asleep" THEN "woken" ELSE cpc
    /\ pc' = [pc EXCEPT ![w] = "lock"]
    /\ UNCHANGED <<setup, holder, gen, fn, mv, nrows, next, chunk, call, mygen,
                   from, len, did, times>>
------------------------------------------------------------------------------
Caller ==
    \/ CallInline \/ RunInline \/ ReturnInline
    \/ CallPool \/ Arm \/ Publish \/ CallerWakes \/ CallerSleeps \/ ReturnPool

Worker(w) ==
    \/ WorkerSleeps(w) \/ WorkerWakes(w) \/ TakeJob(w)
    \/ ClaimChunk(w) \/ TakeShare(w) \/ RunRange(w) \/ Report(w)

Next == PoolStart \/ Caller \/ \E w \in Thread : Worker(w)

\* The scheduler runs every thread that can run, a callback comes back from
\* its range, and nothing else is owed: no call has to be made and no
\* condition variable has to wake anybody unasked.
Fairness ==
    /\ WF_vars(RunInline \/ ReturnInline)
    /\ WF_vars(Arm \/ Publish \/ CallerSleeps \/ ReturnPool)
    /\ \A w \in Thread :
          WF_vars(WorkerSleeps(w) \/ TakeJob(w) \/ ClaimChunk(w) \/ TakeShare(w)
                  \/ RunRange(w) \/ Report(w))

Spec == Init /\ [][Next]_vars
FairSpec == Spec /\ Fairness
------------------------------------------------------------------------------
(* Properties.                                                             *)

PoolTypes ==
    /\ dynamic \in BOOLEAN
    /\ n \in 0 .. MaxThreads /\ created \in SUBSET Thread
    /\ holder \in BOOLEAN
    /\ gen \in 0 .. GenLimit - 1 /\ done \in 0 .. n
    /\ fn \in Serial \cup {None} /\ mv \in Serial \cup {None}
    /\ nrows \in 0 .. MaxRows /\ next \in Nat /\ chunk \in Nat

CallerTypes ==
    /\ cpc \in {"idle", "inline", "ran", "arm", "publish", "asleep", "woken"}
    /\ call \in [kind : {"callback", "matvec"}, id : Serial,
                 n : 0 .. MaxRows, grain : Grains \cup {1}]
    /\ times \in [Row -> Nat]

WorkerTypes ==
    /\ pc \in [Thread -> {"absent", "lock", "asleep"} \cup Working]
    /\ mygen \in [Thread -> 0 .. GenLimit - 1]
    /\ from \in [Thread -> Nat] /\ len \in [Thread -> 0 .. MaxRows]
    /\ did \in [Thread -> {"callback", "matvec"} \X (Serial \cup {None})]

\* Types: every field stays in its range; in particular no thread of the pool
\* reports twice, so that done never passes n.
TypeOK == PoolTypes /\ CallerTypes /\ WorkerTypes

\* g_pool is read by worker() with no lock held.  That is safe only because no
\* worker is ever inside a job the caller has left: a working thread has the
\* current generation, the caller waits for it, and the range it was handed is
\* the work of the call in progress and of no earlier one.
NoWorkerOutlivesItsCall ==
    \A w \in Thread : pc[w] \in Working =>
        /\ cpc \in {"asleep", "woken"}
        /\ mygen[w] = gen
        /\ pc[w] \in Running => did[w] = <<call.kind, call.id>>

\* Two workers are never handed a row in common, and none is handed a row the
\* job does not have: each row writes its own part of the output, unlocked.
RangesDisjoint ==
    \A w \in Thread : pc[w] \in Running =>
        /\ RangeOf(w) \subseteq 0 .. call.n - 1
        /\ \A v \in Thread \ {w} : pc[v] \in Running =>
              RangeOf(v) \cap RangeOf(w) = {}

\* A row running now has not run before in this call.
RowsRunOnce ==
    \A w \in Thread : pc[w] \in Running => \A r \in RangeOf(w) : times[r] = 0

\* The pool implements charsiu_parallel_for: rows run once each and a call
\* returns with none left, whichever split and whichever entry it came by.
Busy == cpc # "idle"
Todo == IF Busy THEN {r \in Row : r < call.n /\ times[r] = 0} ELSE {}
PF == INSTANCE ParallelFor WITH busy <- Busy, todo <- Todo
ImplementsParallelFor == PF!PFSpec

\* With every thread pool_start asked for, a call comes back.
AllCreated == n > 1 => created = 0 .. n - 1
EveryCallReturns == (Busy /\ AllCreated) ~> ~Busy
==============================================================================
