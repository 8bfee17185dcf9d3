---------------------------- MODULE MCSpecDecode ----------------------------
(***************************************************************************)
(* SpecDecode over two words and an end of turn.  A model here looks at    *)
(* every token it attends to and at its place, so that one wrong, missing  *)
(* or misplaced row can change what it says next.                          *)
(***************************************************************************)
EXTENDS SpecDecode

CONSTANTS TokA, TokB

MCToken == {TokA, TokB, Eog}

Weight(t, i) == CASE t = TokA -> i [] t = TokB -> 2 * i + 1 [] OTHER -> 3 * i + 2
Fingerprint(s) ==
    LET sum[i \in 0..Len(s)] == IF i = 0 THEN 0 ELSE sum[i - 1] + Weight(s[i], i)
    IN sum[Len(s)] % 3

MCModels == {m \in [0..2 -> MCToken] : m[0] = TokA}
MCArgmax(m, s) == m[Fingerprint(s)]

MCPrompts == {<<TokA, TokB>>, <<TokA, TokB, TokA>>,
              <<TokB, TokA, TokB, TokA, TokB, TokA, TokB, TokA, TokB>>}

Options(drafts, noise, attnNpu, again, envelope) ==
    [k |-> drafts, junk |-> noise, mirror |-> attnNpu, repeat |-> again,
     rail |-> envelope]

(* Every way to start the program in which the mirror serves one prompt at *)
(* a time and speculation one turn at a time.                              *)
MCConfigs == {Options(0, FALSE, "off", FALSE, FALSE),
              Options(0, FALSE, "auto", TRUE, TRUE),
              Options(0, FALSE, "on", TRUE, FALSE),
              Options(3, FALSE, "off", TRUE, TRUE),
              Options(2, TRUE, "off", TRUE, TRUE)}

(* A conversation with the default options, and one with --spec.           *)
MCChat == {Options(0, FALSE, "auto", FALSE, TRUE)}
MCSpecChat == {Options(3, FALSE, "off", FALSE, TRUE)}
=============================================================================
