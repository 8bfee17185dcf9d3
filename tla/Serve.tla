------------------------------- MODULE Serve -------------------------------
(***************************************************************************)
(* tools/charsiu_serve.c: one thread that serves one connection at a time  *)
(* over one KV cache, keeping from a request to the next what their        *)
(* conversations begin with in common.  Sampling is at temperature 0.      *)
(*                                                                         *)
(* A request is what its body comes to: the route, the tokens its messages *)
(* encode to (none: no messages), and max_tokens.                          *)
(***************************************************************************)
EXTENDS KvCache, SequencesExt, FiniteSetsExt

CONSTANTS
    Eog,
    Clients,
    Requests,
    Headroom,     \* 8: tokens that must be left free
    CachedMax,    \* 16384: the tokens CACHED has room for
    Warm,         \* what "hello" encodes to, at most four tokens
    MaxAsks,      \* bound: connections made
    MaxFailures   \* bound: allocations that fail

ASSUME ServeAssumption ==
    /\ Eog \in Token
    /\ Headroom \in Nat /\ CachedMax \in Nat
    /\ Warm \in Seq(Token) /\ Len(Warm) <= 4
    /\ \A r \in Requests : /\ r.route \in {"chat", "count", "other"}
                           /\ r.ids \in Seq(Token) /\ r.ngen \in 1..4096

VARIABLES
    pc,        \* where the one thread is
    st,        \* ST: there is a state
    fed,       \* warm-up and prompt: the tokens fed so far
    cached,    \* CACHED[0..CACHED_N)
    hold,      \* the device is kept at its speed and voltage
    queue,     \* connections not yet accepted, in order
    conn,      \* the client being served, or NoClient
    req,       \* its request
    client,    \* per client: "away", "connected", "sent", "gone" or "closed"
    asked,     \* per client: the request it has sent
    said,      \* per client: the tokens written to it
    answered,  \* per client: how its request ended
    asks, failures

thread == <<pc, st, fed, cached, hold, conn, req>>
outside == <<queue, client, asked, asks>>
replies == <<said, answered>>
vars == <<cacheVars, thread, outside, replies, failures>>

NoClient == "nobody"
NoAnswer == [how |-> "no", n |-> 0]
NoRequest == [route |-> "none", ids |-> <<>>, ngen |-> 0]
mirrorVars == <<mirror, packed, mirrorIs>>

Init ==
    /\ CacheInit
    /\ pc = "warm" /\ st = TRUE /\ fed = 0 /\ cached = <<>> /\ hold = TRUE
    /\ queue = <<>> /\ conn = NoClient /\ req = NoRequest
    /\ client = [c \in Clients |-> "away"]
    /\ asked = [c \in Clients |-> NoRequest]
    /\ said = [c \in Clients |-> <<>>]
    /\ answered = [c \in Clients |-> NoAnswer]
    /\ asks = 0
    /\ failures = 0

-----------------------------------------------------------------------------
(* The clients.  The listening socket is there once the server is warm.    *)
Connect(c) ==
    /\ pc \notin {"warm", "reopen"}
    /\ client[c] = "away"
    /\ asks < MaxAsks
    /\ client' = [client EXCEPT ![c] = "connected"]
    /\ queue' = Append(queue, c)
    /\ asks' = asks + 1
    /\ UNCHANGED <<cacheVars, thread, asked, replies, failures>>

Send(c) ==
    /\ client[c] = "connected"
    /\ \E r \in Requests : asked' = [asked EXCEPT ![c] = r]
    /\ client' = [client EXCEPT ![c] = "sent"]
    /\ UNCHANGED <<cacheVars, thread, queue, asks, replies, failures>>

(* It goes before or after it has sent; what is written to it is lost.     *)
HangUp(c) ==
    /\ client[c] \in {"connected", "sent"}
    /\ client' = [client EXCEPT ![c] = "gone"]
    /\ said' = [said EXCEPT ![c] = <<>>]
    /\ answered' = [answered EXCEPT ![c] = NoAnswer]
    /\ UNCHANGED <<cacheVars, thread, queue, asked, asks, failures>>

(* A closed connection is forgotten.                                       *)
Leave(c) ==
    /\ client[c] = "closed"
    /\ client' = [client EXCEPT ![c] = "away"]
    /\ asked' = [asked EXCEPT ![c] = NoRequest]
    /\ said' = [said EXCEPT ![c] = <<>>]
    /\ answered' = [answered EXCEPT ![c] = NoAnswer]
    /\ UNCHANGED <<cacheVars, thread, queue, asks, failures>>

-----------------------------------------------------------------------------
(* main, up to the listening socket.  A token is fed to stage the weights, *)
(* and the state it was fed to is given up for a fresh one, or for none.   *)
FreshState ==
    /\ rows' = Blank /\ pos' = 0
    /\ logits' = CHOOSE t \in Token : TRUE    \* nothing reads it before it is set
    /\ UNCHANGED <<model, mirrorVars>>

WarmUp ==
    /\ pc = "warm"
    /\ IF fed < Len(Warm)
       THEN Forward(Warm[fed + 1]) /\ fed' = fed + 1 /\ UNCHANGED <<pc, st, hold>>
       ELSE FreshState /\ pc' = "reopen" /\ st' = FALSE /\ hold' = FALSE /\ UNCHANGED fed
    /\ UNCHANGED <<cached, conn, req, outside, replies, failures>>

Reopen ==
    /\ pc = "reopen"
    /\ \/ st' = TRUE /\ UNCHANGED failures
       \/ st' = FALSE /\ failures < MaxFailures /\ failures' = failures + 1
    /\ pc' = "accept"
    /\ hold' = FALSE
    /\ UNCHANGED <<cacheVars, fed, cached, conn, req, outside, replies>>

-----------------------------------------------------------------------------
(* serve_one, up to the route.                                             *)
Accept ==
    /\ pc = "accept"
    /\ queue # <<>>
    /\ conn' = Head(queue)
    /\ queue' = Tail(queue)
    /\ pc' = "read"
    /\ UNCHANGED <<cacheVars, st, fed, cached, hold, req, client, asked, asks,
                   replies, failures>>

TellCount(c, n) ==
    answered' = IF client[c] = "sent"
                THEN [answered EXCEPT ![c] = [how |-> "counted", n |-> n]] ELSE answered
Tell(c, what) ==
    answered' = IF client[c] = "sent"
                THEN [answered EXCEPT ![c] = [how |-> what, n |-> 0]] ELSE answered

(* Mutant: a client that went is waited for.                               *)
ReadRequestWaits ==
    /\ pc = "read"
    /\ asked[conn] # NoRequest
    /\ req' = asked[conn]
    /\ pc' = asked[conn].route
    /\ UNCHANGED <<cacheVars, st, fed, cached, hold, conn, outside, replies, failures>>

(* The request is read, the client went before sending one, or there is no *)
(* room for its body.                                                      *)
ReadRequest ==
    /\ pc = "read"
    /\ \/ /\ asked[conn] # NoRequest
          /\ req' = asked[conn]
          /\ pc' = asked[conn].route
          /\ UNCHANGED <<answered, failures>>
       \/ /\ client[conn] = "gone" /\ asked[conn] = NoRequest
          /\ pc' = "close"
          /\ UNCHANGED <<req, answered, failures>>
       \/ /\ asked[conn] # NoRequest /\ asked[conn].route # "other"
          /\ failures < MaxFailures /\ failures' = failures + 1
          /\ Tell(conn, "failed")
          /\ pc' = "close"
          /\ UNCHANGED req
    /\ UNCHANGED <<cacheVars, st, fed, cached, hold, conn, outside, said>>

CountTokens ==
    /\ pc = "count"
    /\ TellCount(conn, Len(req.ids))
    /\ pc' = "close"
    /\ UNCHANGED <<cacheVars, st, fed, cached, hold, conn, req, outside, said, failures>>

(* The other routes answer without the model.                              *)
Other ==
    /\ pc = "other"
    /\ Tell(conn, "served")
    /\ pc' = "close"
    /\ UNCHANGED <<cacheVars, st, fed, cached, hold, conn, req, outside, said, failures>>

-----------------------------------------------------------------------------
(* chat.                                                                   *)
TooLong(ids) == Len(ids) < 1 \/ Len(ids) + Headroom >= NCtx

NGen(r) == IF Len(r.ids) + r.ngen >= NCtx THEN NCtx - Len(r.ids) - 1 ELSE r.ngen

(* Mutant: the lengths alone are compared.                                 *)
SharedByLength(ids) == 0..Min({Len(cached), Len(ids) - 1})

(* The longest common beginning that leaves a token to feed and that the   *)
(* cache still holds.                                                      *)
Shared(ids) == {n \in 0..Min({Len(cached), Len(ids) - 1}) :
                  \A i \in 1..n : cached[i] = ids[i]}

Keep(ids) == Min({Max(Shared(ids)), pos})

(* Mutant: CACHED_N is left where it was.                                  *)
CutNot(n) == cached

Cut(n) == SubSeq(cached, 1, n)

RefuseChat ==
    /\ pc = "chat"
    /\ req.ids = <<>>
    /\ Tell(conn, "refused")
    /\ pc' = "close"
    /\ UNCHANGED <<cacheVars, st, fed, cached, hold, conn, req, outside, said, failures>>

OpenState ==
    /\ pc = "chat"
    /\ req.ids # <<>>
    /\ ~st
    /\ \/ /\ st' = TRUE
          /\ hold' = TRUE
          /\ FreshState
          /\ UNCHANGED <<pc, answered, failures>>
       \/ /\ failures < MaxFailures /\ failures' = failures + 1
          /\ Tell(conn, "failed")
          /\ pc' = "close"
          /\ UNCHANGED <<cacheVars, st, hold>>
    /\ cached' = <<>>
    /\ UNCHANGED <<fed, conn, req, outside, said>>

(* The hold is taken back, and the prompt is refused or begun.             *)
BeginChat ==
    /\ pc = "chat"
    /\ req.ids # <<>>
    /\ st
    /\ hold' = TRUE
    /\ IF TooLong(req.ids)
       THEN /\ Tell(conn, "refused")
            /\ pc' = "close"
            /\ UNCHANGED <<pos, cached, fed>>
       ELSE /\ pos' = Keep(req.ids)
            /\ cached' = Cut(pos')
            /\ fed' = pos'
            /\ pc' = "prompt"
            /\ UNCHANGED answered
    /\ UNCHANGED <<model, rows, logits, mirrorVars, st, conn, req, outside, said, failures>>

(* feed: CACHED takes a token while it has room.                           *)
Feed(tok) ==
    /\ Forward(tok)
    /\ cached' = IF Len(cached) < CachedMax THEN Append(cached, tok) ELSE cached

FeedPrompt ==
    /\ pc = "prompt"
    /\ Feed(req.ids[fed + 1])
    /\ fed' = fed + 1
    /\ pc' = IF fed' = Len(req.ids) THEN "say" ELSE "prompt"
    /\ UNCHANGED <<st, hold, conn, req, outside, replies, failures>>

(* A turn of the loop: the token is written, and fed to have the next.     *)
Produced == pos - Len(req.ids)

Say ==
    /\ pc = "say"
    /\ Produced < NGen(req)
    /\ logits # Eog
    /\ said' = IF client[conn] = "sent" THEN [said EXCEPT ![conn] = Append(@, logits)]
               ELSE said
    /\ Feed(logits)
    /\ UNCHANGED <<pc, st, fed, hold, conn, req, outside, answered, failures>>

FinishReply ==
    /\ pc = "say"
    /\ Produced = NGen(req) \/ logits = Eog
    /\ Tell(conn, "done")
    /\ pc' = "close"
    /\ UNCHANGED <<cacheVars, st, fed, cached, hold, conn, req, outside, said, failures>>

(* Mutant: the hold is let go only after a chat.                           *)
CloseChatOnly ==
    /\ pc = "close"
    /\ client' = [client EXCEPT ![conn] = "closed"]
    /\ hold' = IF st /\ fed > 0 THEN FALSE ELSE hold
    /\ pc' = "accept"
    /\ fed' = 0 /\ conn' = NoClient /\ req' = NoRequest
    /\ UNCHANGED <<cacheVars, st, cached, queue, asked, asks, replies, failures>>

(* The connection is closed and, if there is a state, the hold let go.     *)
Close ==
    /\ pc = "close"
    /\ client' = [client EXCEPT ![conn] = "closed"]
    /\ hold' = IF st THEN FALSE ELSE hold
    /\ pc' = "accept"
    /\ fed' = 0 /\ conn' = NoClient /\ req' = NoRequest
    /\ UNCHANGED <<cacheVars, st, cached, queue, asked, asks, replies, failures>>

Server ==
    \/ WarmUp \/ Reopen \/ Accept \/ ReadRequest \/ CountTokens \/ Other
    \/ RefuseChat \/ OpenState \/ BeginChat \/ FeedPrompt \/ Say \/ FinishReply
    \/ Close

Next ==
    \/ Server
    \/ \E c \in Clients : Connect(c) \/ Send(c) \/ HangUp(c) \/ Leave(c)

Spec == Init /\ [][Next]_vars

(* The server's thread runs, and a client that has connected sends its     *)
(* request or goes away: the code reads a socket with no time limit.       *)
FairSpec ==
    /\ Spec
    /\ WF_vars(Server)
    /\ \A c \in Clients : WF_vars(Send(c) \/ HangUp(c))

-----------------------------------------------------------------------------
TypeOK ==
    /\ CacheTypeOK
    /\ pc \in {"warm", "reopen", "accept", "read", "chat", "count", "other",
              "prompt", "say", "close"}
    /\ st \in BOOLEAN /\ hold \in BOOLEAN
    /\ fed \in 0..NCtx
    /\ cached \in Seq(Token) /\ Len(cached) <= CachedMax
    /\ queue \in Seq(Clients) /\ IsInjective(queue)
    /\ conn \in Clients \cup {NoClient}
    /\ req \in Requests \cup {NoRequest}
    /\ client \in [Clients -> {"away", "connected", "sent", "gone", "closed"}]
    /\ asked \in [Clients -> Requests \cup {NoRequest}]
    /\ said \in [Clients -> Seq(Token)]
    /\ answered \in [Clients ->
          [how : {"no", "done", "refused", "failed", "served", "counted"}, n : 0..NCtx]]
    /\ asks \in 0..MaxAsks
    /\ failures \in 0..MaxFailures

(* What CACHED says the cache holds is what the cache holds, whatever was  *)
(* served, refused or failed in between: "never claim more than the cache  *)
(* holds" (charsiu_serve.c:405).                                           *)
RememberedIsHeld ==
    /\ Len(cached) <= pos
    /\ \A i \in DOMAIN cached : cached[i] = rows[i - 1]

(* The device is held at speed for every token that is fed, and is never   *)
(* held while the server waits for a connection.                           *)
HoldOnlyWhileServing ==
    /\ pc = "accept" => ~hold
    /\ pc \in {"warm", "prompt", "say"} => hold

(* Each client is answered as if it were alone: the prefix that is kept    *)
(* from another conversation, the state that failed and was made again,    *)
(* and the clients that left half way do not show in a reply.              *)
Heard(c) == client[c] = "sent" \/ (client[c] = "closed" /\ answered[c] # NoAnswer)

E == INSTANCE Endpoint WITH
        Requests <- {r \in Requests : r.route # "other"},
        asked <- [c \in Clients |-> IF Heard(c) /\ asked[c].route # "other"
                                    THEN asked[c] ELSE NoRequest],
        said <- [c \in Clients |-> IF Heard(c) THEN said[c] ELSE <<>>],
        answered <- [c \in Clients |-> IF Heard(c) /\ asked[c].route # "other"
                                       THEN answered[c] ELSE NoAnswer]

ImplementsEndpoint == E!Spec

(* Every connection is answered or, when its client went, closed.          *)
EveryClientAnswered ==
    \A c \in Clients : client[c] = "connected" ~> client[c] = "closed"
=============================================================================
