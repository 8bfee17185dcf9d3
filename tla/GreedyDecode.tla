---------------------------- MODULE GreedyDecode ----------------------------
(***************************************************************************)
(* What a conversation with charsiu promises whoever reads it: a prompt is *)
(* answered with the model's own greedy continuation of everything said so *)
(* far, token for token, until the model ends its turn or the reply has    *)
(* its n_gen tokens (the plain loop of tools/charsiu_run.c, temperature    *)
(* 0).  Nothing of the KV cache, of the batched forward, of the fp16       *)
(* mirror or of speculation appears here.                                  *)
(***************************************************************************)
EXTENDS Naturals, Sequences

CONSTANTS
    Token,         \* the vocabulary
    Eog,           \* the token that ends a turn
    Prompts,       \* what may be asked: non-empty sequences of tokens
    Models,        \* the language models considered
    Argmax(_, _),  \* Argmax(m, s): the likeliest token of model m after s
    NGen           \* -n: the most tokens a reply has

VARIABLES
    model,    \* the model loaded, one of Models
    text,     \* the conversation: prompts and replies in order
    talking,  \* a prompt has been given and is being answered
    said      \* how many tokens of the reply have been printed

vars == <<model, text, talking, said>>

Init ==
    /\ model \in Models
    /\ text = <<>>
    /\ talking = FALSE
    /\ said = 0

Ask ==
    /\ ~talking
    /\ \E p \in Prompts : text' = text \o p
    /\ talking' = TRUE
    /\ said' = 0
    /\ UNCHANGED model

Say ==
    /\ talking
    /\ said < NGen
    /\ Argmax(model, text) # Eog
    /\ text' = Append(text, Argmax(model, text))
    /\ said' = said + 1
    /\ UNCHANGED <<model, talking>>

(* The turn is over; --repeat forgets the conversation, -i keeps it.       *)
Hush ==
    /\ talking
    /\ said = NGen \/ Argmax(model, text) = Eog
    /\ talking' = FALSE
    /\ text' \in {text, <<>>}
    /\ UNCHANGED <<model, said>>

Next == Ask \/ Say \/ Hush

Spec == Init /\ [][Next]_vars
=============================================================================
