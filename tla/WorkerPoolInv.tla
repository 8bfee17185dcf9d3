---------------------------- MODULE WorkerPoolInv ----------------------------
(***************************************************************************)
(* The inductive invariant of WorkerPool, as a conjunction of named parts: *)
(* what makes it safe for worker() to read g_pool with no lock held.       *)
(***************************************************************************)
EXTENDS WorkerPool

\* A thread exists exactly when pool_start made it, and none does for n <= 1.
ThreadsInv ==
    /\ created \subseteq 0 .. n - 1
    /\ n <= 1 => created = {}
    /\ n = 0 => gen = 0 /\ \A w \in Thread : mygen[w] = 0
    /\ \A w \in Thread : pc[w] = "absent" <=> w \notin created

\* Where the caller is says who holds the mutex and whether there is a pool.
CallerInv ==
    /\ holder <=> cpc \in {"arm", "publish"}
    /\ cpc \in {"arm", "publish", "asleep", "woken"} => n > 1
    /\ cpc \in {"inline", "ran"} => n <= 1

InCall == cpc \in {"asleep", "woken"}

\* Between jobs every worker has seen the last generation and is in none.
QuietInv ==
    ~InCall => \A w \in created : pc[w] \notin Working /\ mygen[w] = gen

\* The threads that have reported the job in progress; done counts them.
Finished == {w \in created : pc[w] \notin Working /\ mygen[w] = gen}
InJob == \A w \in Thread : pc[w] \in Working => mygen[w] = gen
CountInv ==
    /\ InJob
    /\ InCall => done = Cardinality(Finished)
    /\ cpc = "publish" => done = 0

\* From Arm on g_pool describes the call, and from CallPool on pool_do would
\* run its work.
JobInv ==
    /\ cpc \in {"publish", "asleep", "woken"} =>
          /\ nrows = call.n
          /\ dynamic <=> chunk > 0
    /\ cpc = "publish" => next = 0
    /\ cpc \in {"arm", "publish", "asleep", "woken"} =>
          Dispatch = <<call.kind, call.id>>
    /\ \A w \in Thread : pc[w] \in Running => did[w] = <<call.kind, call.id>>

\* No row has run before the call's work is out.
FreshInv ==
    cpc \in {"idle", "inline", "arm", "publish"} => \A r \in Row : times[r] = 0

RanInlineInv == cpc = "ran" => \A r \in Row : times[r] = IF r < call.n THEN 1 ELSE 0

\* The two splits never mix.
SplitInv ==
    \A w \in Thread :
        /\ pc[w] \in {"claim", "runChunk"} => dynamic
        /\ pc[w] = "runShare" => ~dynamic

\* The cursor: rows it has not reached are untouched; a row it has passed has
\* run once or is in exactly one worker's hands; whoever stops has seen it pass
\* the end.
Chunks == {w \in Thread : pc[w] = "runChunk"}
CursorInv ==
    (InCall /\ dynamic) =>
        /\ \A w \in Chunks : from[w] + len[w] <= next /\ from[w] + len[w] <= nrows
        /\ \A v, w \in Chunks : v # w => RangeOf(v) \cap RangeOf(w) = {}
        /\ \A w \in Chunks : \A r \in RangeOf(w) : times[r] = 0
        /\ \A r \in Row : r >= next \/ r >= nrows => times[r] = 0
        /\ \A r \in Row : r < next /\ r < nrows =>
              times[r] = 1 \/ \E w \in Chunks : r \in RangeOf(w)
        /\ \A w \in created :
              pc[w] = "report" \/ w \in Finished => next >= nrows

\* The static split: a worker's share has run when it has, and not before.
ShareRows(w) == {r \in Row : r < nrows /\ ShareSize * w <= r /\ r < ShareSize * (w + 1)}
ShareInv ==
    (InCall /\ ~dynamic) =>
        /\ \A w \in Thread : pc[w] = "runShare" =>
              from[w] = ShareSize * w /\ len[w] = ShareLen(w)
        /\ \A w \in 0 .. n - 1 : \A r \in ShareRows(w) :
              times[r] = IF pc[w] = "report" \/ w \in Finished THEN 1 ELSE 0
        /\ \A r \in Row : r >= nrows => times[r] = 0

IInv ==
    /\ PoolTypes /\ CallerTypes /\ WorkerTypes
    /\ ThreadsInv /\ CallerInv /\ QuietInv /\ CountInv /\ JobInv
    /\ FreshInv /\ RanInlineInv /\ SplitInv /\ CursorInv /\ ShareInv
==============================================================================
