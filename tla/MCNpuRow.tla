------------------------------ MODULE MCNpuRow ------------------------------
(***************************************************************************)
(* Four tensors of a layer under five ways of starting the device.  q and k *)
(* share an input of 6 columns, which are three slices of 2 when they are  *)
(* grouped and two of 4 or fewer when not; the head is wide and narrow,    *)
(* and o carries an AWQ factor; one of the five splits q and o with the CPU.*)
(***************************************************************************)
EXTENDS NpuRow, TLC

MCTensors == {"q", "k", "head", "o"}
Of(n, k, awq) == [n |-> n, k |-> k, awq |-> awq]
MCShape == [w \in MCTensors |->
    CASE w = "q" -> Of(4, 6, "none") [] w = "k" -> Of(2, 6, "none")
      [] w = "head" -> Of(6, 3, "none") [] w = "o" -> Of(4, 4, "awq")]

Plain == [kmax |-> 2, nmax |-> 2, even |-> TRUE, kfit |-> FALSE, group |-> 2,
          groupfit |-> FALSE, w4 |-> TRUE, atom |-> 1, ndev |-> 2,
          index |-> FALSE, split |-> FALSE, cap |-> 4, maxn |-> 6]
MCConfigs ==
    {Plain,
     [Plain EXCEPT !.w4 = FALSE, !.kmax = 4],
     [Plain EXCEPT !.kmax = 4, !.group = 4, !.kfit = TRUE],
     [Plain EXCEPT !.kmax = 4, !.group = 4, !.groupfit = TRUE,
                   !.split = TRUE, !.index = TRUE],
     [Plain EXCEPT !.ndev = 1, !.cap = 2]}

MCCalls == {<<"q", "k">>, <<"o", "head">>}
=============================================================================
