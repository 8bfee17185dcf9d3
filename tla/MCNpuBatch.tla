----------------------------- MODULE MCNpuBatch -----------------------------
(***************************************************************************)
(* One decoder layer on two devices.  q is split over both, k is dealt to  *)
(* the first alone and v, which AWQ scales by a factor of its own, to the  *)
(* second; wo, of two ranges, and gate go to the second and up to the      *)
(* first, the deal under which a key that outlived its leader was met.     *)
(***************************************************************************)
EXTENDS NpuBatch, TLC

MCTensors == {"q", "k", "v", "o", "gate", "up"}
MCDeal ==
    LET two(d1, d2) == (<<0, 0>> :> d1) @@ (<<1, 0>> :> d2)
    IN [t \in MCTensors |->
          CASE t = "q" -> two(0, 1)
            [] t = "k" -> two(0, 0)
            [] t = "v" -> two(1, 1)
            [] t = "o" -> (<<0, 0>> :> 1) @@ (<<0, 1>> :> 1)
            [] t = "gate" -> two(1, 1)
            [] t = "up" -> two(0, 0)]
MCWide == [t \in MCTensors |-> IF t \in {"q", "o"} THEN 1 ELSE 2]
MCFactor == [t \in MCTensors |-> IF t = "v" THEN "awq" ELSE "none"]

Leads(t, x) == [t |-> t, x |-> x, same |-> FALSE, defer |-> TRUE]
Follows(t, x) == [t |-> t, x |-> x, same |-> TRUE, defer |-> TRUE]
Plain(t, x) == [t |-> t, x |-> x, same |-> FALSE, defer |-> FALSE]
MCLayer ==
    << [calls |-> <<Leads("q", "bxb"), Follows("k", "bxb"), Follows("v", "bxb")>>,
        flush |-> TRUE],
       [calls |-> <<Plain("o", "bao")>>, flush |-> FALSE],
       [calls |-> <<Leads("gate", "bxb"), Follows("up", "bxb")>>, flush |-> TRUE] >>
\* The surface of k at the wider batch is past what the path takes.
MCTaken == (2 :> MCTensors) @@ (4 :> MCTensors \ {"k"})
=============================================================================
