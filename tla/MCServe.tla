------------------------------ MODULE MCServe ------------------------------
(***************************************************************************)
(* Two clients whose conversations begin alike, differ early, or do not    *)
(* fit; the models are MCSpecDecode's: each looks at every token and at    *)
(* its place.                                                              *)
(***************************************************************************)
EXTENDS Serve

CONSTANTS TokA, TokB

MCToken == {TokA, TokB, Eog}

Weight(t, i) == CASE t = TokA -> i [] t = TokB -> 2 * i + 1 [] OTHER -> 3 * i + 2
Fingerprint(s) ==
    LET sum[i \in 0..Len(s)] == IF i = 0 THEN 0 ELSE sum[i - 1] + Weight(s[i], i)
    IN sum[Len(s)] % 3

MCModels == {m \in [0..2 -> MCToken] : m[0] = TokA /\ {m[1], m[2]} = {TokB, Eog}}
MCArgmax(m, s) == m[Fingerprint(s)]

MCWarm == <<TokB>>

Chat(ids, ngen) == [route |-> "chat", ids |-> ids, ngen |-> ngen]
MCRequests ==
    {Chat(<<TokA, TokB>>, 2), Chat(<<TokA, TokB, TokA>>, 1),
     Chat(<<TokB, TokB, TokA>>, 4), Chat(<<TokA, TokB, TokA, TokA, TokB>>, 1),
     Chat(<<TokA, TokB, TokA, TokB, TokA, TokB>>, 1), Chat(<<>>, 1),
     [route |-> "count", ids |-> <<TokA, TokB>>, ngen |-> 1],
     [route |-> "other", ids |-> <<>>, ngen |-> 1]}
=============================================================================
