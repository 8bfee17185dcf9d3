------------------------------ MODULE Endpoint ------------------------------
(***************************************************************************)
(* What charsiu_serve promises each of its clients, whoever else is being  *)
(* served: a conversation that fits is answered with the model's greedy    *)
(* continuation of that conversation alone, cut at the tokens asked for or *)
(* at the end of the context.                                              *)
(***************************************************************************)
EXTENDS Integers, Sequences

CONSTANTS
    Token,         \* the vocabulary
    Eog,           \* the token that ends a turn
    Models,        \* the language models considered
    Argmax(_, _),  \* Argmax(m, s): the likeliest token of model m after s
    Clients,
    Requests,      \* records: route, ids (what the messages encode to), ngen
    NCtx,          \* the context that /health reports
    Headroom       \* tokens of it a conversation must leave free

VARIABLES
    model,     \* the model served
    asked,     \* per client: its request, or NoRequest
    said,      \* per client: the reply so far
    answered   \* per client: how the request ended, and the tokens counted

vars == <<model, asked, said, answered>>

NoAnswer == [how |-> "no", n |-> 0]
NoRequest == [route |-> "none", ids |-> <<>>, ngen |-> 0]

Fits(r) == r.ids # <<>> /\ Len(r.ids) + Headroom < NCtx
Limit(r) ==
    IF Len(r.ids) + r.ngen >= NCtx THEN NCtx - Len(r.ids) - 1 ELSE r.ngen

Init ==
    /\ model \in Models
    /\ asked = [c \in Clients |-> NoRequest]
    /\ said = [c \in Clients |-> <<>>]
    /\ answered = [c \in Clients |-> NoAnswer]

Waiting(c) == asked[c] # NoRequest /\ answered[c] = NoAnswer
Next1(c) == Argmax(model, asked[c].ids \o said[c])

Ask(c) ==
    /\ asked[c] = NoRequest
    /\ \E r \in Requests : asked' = [asked EXCEPT ![c] = r]
    /\ UNCHANGED <<model, said, answered>>

Say(c) ==
    /\ Waiting(c)
    /\ asked[c].route = "chat" /\ Fits(asked[c])
    /\ Len(said[c]) < Limit(asked[c])
    /\ Next1(c) # Eog
    /\ said' = [said EXCEPT ![c] = Append(@, Next1(c))]
    /\ UNCHANGED <<model, asked, answered>>

Over(c) == Len(said[c]) = Limit(asked[c]) \/ Next1(c) = Eog

Ended(how) == [how |-> how, n |-> 0]

(* The request is over: a reply that is complete, the number of tokens of  *)
(* a conversation, a refusal of what does not fit, or a failure to serve.  *)
End(c) ==
    /\ Waiting(c)
    /\ \/ /\ asked[c].route = "chat" /\ Fits(asked[c]) /\ Over(c)
          /\ answered' = [answered EXCEPT ![c] = Ended("done")]
       \/ /\ asked[c].route = "chat" /\ ~Fits(asked[c])
          /\ answered' = [answered EXCEPT ![c] = Ended("refused")]
       \/ /\ asked[c].route = "count"
          /\ answered' = [answered EXCEPT ![c] = [how |-> "counted", n |-> Len(asked[c].ids)]]
       \/ /\ said[c] = <<>>
          /\ answered' = [answered EXCEPT ![c] = Ended("failed")]
    /\ UNCHANGED <<model, asked, said>>

(* The client has its answer, or has stopped waiting for one.              *)
Leave(c) ==
    /\ asked[c] # NoRequest
    /\ asked' = [asked EXCEPT ![c] = NoRequest]
    /\ said' = [said EXCEPT ![c] = <<>>]
    /\ answered' = [answered EXCEPT ![c] = NoAnswer]
    /\ UNCHANGED model

Next == \E c \in Clients : Ask(c) \/ Say(c) \/ End(c) \/ Leave(c)

Spec == Init /\ [][Next]_vars
=============================================================================
