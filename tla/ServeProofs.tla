----------------------------- MODULE ServeProofs -----------------------------
(***************************************************************************)
(* What charsiu_serve keeps between requests, for every set of clients,    *)
(* requests and models: ServeInv is inductive, and RememberedIsHeld and    *)
(* HoldOnlyWhileServing follow from it.  Then EndInv on top of it: Serve   *)
(* implements Endpoint, so each client is answered as if it were alone.    *)
(***************************************************************************)
EXTENDS Serve, KvCacheProofs

-----------------------------------------------------------------------------
(* The invariant.                                                          *)

(* What a step reads is of its kind: a request that was sent is a request, *)
(* the connection that is read is a client's, and there is a token left to *)
(* feed while the prompt is fed.                                           *)
KindsInv ==
    /\ rows \in [Places -> Token \cup {NoToken}]
    /\ pos \in 0..NCtx
    /\ logits \in Token /\ model \in Models
    /\ cached \in Seq(Token)
    /\ fed \in Nat
    /\ queue \in Seq(Clients)
    /\ req \in Requests \cup {NoRequest}
    /\ asked \in [Clients -> Requests \cup {NoRequest}]
    /\ pc = "read" => conn \in Clients
    /\ pc = "prompt" => fed < Len(req.ids)

(* While tokens are fed, CACHED is either full or as long as the cache: a  *)
(* token appended to it is the token of the row just written.              *)
PrefixInv ==
    /\ RememberedIsHeld
    /\ pc = "warm" => cached = <<>>
    /\ pc \in {"prompt", "say"} /\ Len(cached) < CachedMax => Len(cached) = pos

(* Close lets the hold go only if there is a state; without one nobody has *)
(* taken it.                                                               *)
HoldInv ==
    /\ st \in BOOLEAN /\ hold \in BOOLEAN
    /\ ~st => ~hold
    /\ HoldOnlyWhileServing

ServeInv == KindsInv /\ PrefixInv /\ HoldInv

-----------------------------------------------------------------------------
(* Lemmas.                                                                 *)

\* The requests of the clients, and none, have tokens in them.
LEMMA RequestIds ==
  ASSUME NEW r \in Requests \cup {NoRequest}
  PROVE  r.ids \in Seq(Token)
<1>1. CASE r \in Requests
  BY <1>1, ServeAssumption
<1>2. CASE r = NoRequest
  BY <1>2 DEF NoRequest
<1> QED
  BY <1>1, <1>2

\* What chat keeps of the cache: no more than CACHED or the cache has, and less
\* than the conversation.
LEMMA KeepFacts ==
  ASSUME NEW ids \in Seq(Token), Len(ids) >= 1, cached \in Seq(Token), pos \in Nat
  PROVE  /\ Keep(ids) \in Nat
         /\ Keep(ids) <= Len(cached) /\ Keep(ids) <= pos /\ Keep(ids) < Len(ids)
<1> DEFINE most == Min({Len(cached), Len(ids) - 1})
<1>1. /\ most \in Nat
      /\ most <= Len(cached) /\ most <= Len(ids) - 1
  <2>1. Len(cached) \in Nat /\ Len(ids) - 1 \in Nat
    BY LenProperties
  <2>2. Len(cached) \in Int /\ Len(ids) - 1 \in Int
    BY <2>1
  <2>3. /\ most \in {Len(cached), Len(ids) - 1}
        /\ most <= Len(cached) /\ most <= Len(ids) - 1
    BY <2>2, MinOfTwo, Zenon
  <2> QED
    BY <2>1, <2>3
<1> HIDE DEF most
<1>2. Shared(ids) \in SUBSET (0..most) /\ 0 \in Shared(ids)
  BY <1>1 DEF Shared, most
<1>3. Max(Shared(ids)) \in 0..most
  BY <1>1, <1>2, MaxOfBounded
<1>4. Keep(ids) \in {Max(Shared(ids)), pos} /\ Keep(ids) <= Max(Shared(ids)) /\ Keep(ids) <= pos
  <2>1. Max(Shared(ids)) \in Int /\ pos \in Int
    BY <1>1, <1>3
  <2> QED
    BY <2>1, MinOfTwo, Zenon DEF Keep
<1>5. Len(ids) \in Nat /\ Len(cached) \in Nat
  BY LenProperties
<1> QED
  BY <1>1, <1>3, <1>4, <1>5

\* A state that is given up or opened is blank.
LEMMA FreshFacts ==
  ASSUME FreshState
  PROVE  /\ rows' \in [Places -> Token \cup {NoToken}]
         /\ pos' = 0 /\ pos' \in 0..NCtx
         /\ logits' \in Token /\ model' = model
<1>1. logits' \in Token
  BY ServeAssumption DEF FreshState
<1> QED
  BY <1>1, KvAssumption DEF FreshState, Blank

-----------------------------------------------------------------------------
(* Every step keeps the kinds.                                             *)

\* The server starts with everything of its kind.
LEMMA InitKinds ==
  ASSUME Init
  PROVE  KindsInv
<1>1. rows \in [Places -> Token \cup {NoToken}] /\ pos \in 0..NCtx
  BY KvAssumption DEF Init, CacheInit, Blank
<1>2. asked \in [Clients -> Requests \cup {NoRequest}]
  BY DEF Init
<1> QED
  BY <1>1, <1>2 DEF Init, CacheInit, KindsInv

\* The steps of the clients.
LEMMA ClientKinds ==
  ASSUME KindsInv, NEW c \in Clients, Connect(c) \/ Send(c) \/ HangUp(c) \/ Leave(c)
  PROVE  KindsInv'
<1>1. UNCHANGED <<cacheVars, thread>>
  BY DEF Connect, Send, HangUp, Leave
<1>2. queue' = Append(queue, c) \/ queue' = queue
  BY DEF Connect, Send, HangUp, Leave
<1>3. queue' \in Seq(Clients)
  BY <1>2, AppendProperties DEF KindsInv
<1>4. asked' \in [Clients -> Requests \cup {NoRequest}]
  BY DEF Connect, Send, HangUp, Leave, KindsInv
<1> QED
  BY <1>1, <1>3, <1>4 DEF KindsInv, cacheVars, thread

\* The steps of the server that change neither the cache nor the connections.
LEMMA QuietKinds ==
  ASSUME KindsInv,
         Reopen \/ CountTokens \/ Other \/ RefuseChat \/ FinishReply \/ Close
  PROVE  KindsInv'
<1>1. UNCHANGED <<cacheVars, cached, queue, asked>>
  BY DEF Reopen, CountTokens, Other, RefuseChat, FinishReply, Close, outside
<1>2. fed' \in {fed, 0} /\ req' \in {req, NoRequest}
  BY DEF Reopen, CountTokens, Other, RefuseChat, FinishReply, Close
<1>3. pc' \in {"accept", "close"}
  BY DEF Reopen, CountTokens, Other, RefuseChat, FinishReply, Close
<1> QED
  BY <1>1, <1>2, <1>3 DEF KindsInv, cacheVars

\* The warm-up keeps the kinds.
LEMMA WarmUpKinds ==
  ASSUME ModelsAnswer, KindsInv, WarmUp
  PROVE  KindsInv'
<1>1. UNCHANGED <<cached, queue, asked, req, conn>> /\ pc' \in {"warm", "reopen"}
  BY DEF WarmUp, outside
<1>2. fed' \in Nat
  BY DEF WarmUp, KindsInv
<1>3. /\ rows' \in [Places -> Token \cup {NoToken}] /\ pos' \in 0..NCtx
      /\ logits' \in Token /\ model' = model
  <2>1. CASE fed < Len(Warm)
    <3>1. Warm[fed + 1] \in Token /\ Forward(Warm[fed + 1])
      BY <2>1, ServeAssumption DEF WarmUp, KindsInv
    <3> QED
      BY <3>1, ForwardFacts DEF KindsInv, CacheKinds
  <2>2. CASE ~(fed < Len(Warm))
    BY <2>2, FreshFacts DEF WarmUp
  <2> QED
    BY <2>1, <2>2
<1> QED
  BY <1>1, <1>2, <1>3 DEF KindsInv

\* So does taking a connection.
LEMMA AcceptKinds ==
  ASSUME KindsInv, Accept
  PROVE  KindsInv'
<1>1. UNCHANGED <<cacheVars, cached, fed, asked, req>> /\ pc' = "read"
  BY DEF Accept
<1>2. conn' \in Clients /\ queue' \in Seq(Clients)
  BY DEF Accept, KindsInv
<1> QED
  BY <1>1, <1>2 DEF KindsInv, cacheVars

\* So does reading its request.
LEMMA ReadRequestKinds ==
  ASSUME KindsInv, ReadRequest
  PROVE  KindsInv' /\ pc' \in {"chat", "count", "other", "close"}
<1>1. UNCHANGED <<cacheVars, cached, fed, queue, asked>>
  BY DEF ReadRequest, outside
<1>2. asked[conn] \in Requests \cup {NoRequest}
  BY DEF ReadRequest, KindsInv
<1>3. req' \in Requests \cup {NoRequest}
  BY <1>2 DEF ReadRequest, KindsInv
<1>4. pc' \in {"chat", "count", "other", "close"}
  BY <1>2, ServeAssumption DEF ReadRequest
<1> QED
  BY <1>1, <1>3, <1>4 DEF KindsInv, cacheVars

\* So does opening the state a request is answered with.
LEMMA OpenStateKinds ==
  ASSUME KindsInv, OpenState
  PROVE  KindsInv'
<1>1. UNCHANGED <<fed, queue, asked, req>> /\ cached' = <<>> /\ pc' \in {"chat", "close"}
  BY DEF OpenState, outside
<1>2. /\ rows' \in [Places -> Token \cup {NoToken}] /\ pos' \in 0..NCtx
      /\ logits' \in Token /\ model' = model
  BY FreshFacts DEF OpenState, KindsInv, cacheVars
<1> QED
  BY <1>1, <1>2 DEF KindsInv

\* The conversation that is begun, and how much of the cache it keeps.
LEMMA BeginFacts ==
  ASSUME KindsInv, BeginChat, ~TooLong(req.ids)
  PROVE  /\ pos' \in 0..NCtx /\ pos' <= pos /\ pos' <= Len(cached)
         /\ pos' < Len(req.ids)
         /\ cached' \in Seq(Token) /\ Len(cached') = pos'
         /\ \A i \in 1..pos' : cached'[i] = cached[i]
<1>1. req.ids \in Seq(Token) /\ Len(req.ids) >= 1
  <2>1. req.ids \in Seq(Token)
    BY RequestIds DEF KindsInv
  <2> QED
    BY <2>1, LenProperties DEF TooLong
<1>2. pos \in Nat /\ cached \in Seq(Token)
  BY DEF KindsInv
<1>3. pos' = Keep(req.ids) /\ cached' = Cut(pos')
  BY DEF BeginChat
<1>4. /\ pos' \in Nat /\ pos' <= Len(cached)
      /\ pos' <= pos /\ pos' < Len(req.ids)
  BY <1>1, <1>2, <1>3, KeepFacts
<1>5. pos' \in 0..NCtx
  BY <1>4, KvAssumption DEF KindsInv
<1>6. \A i \in 1..pos' : cached[i] \in Token
  BY <1>2, <1>4, ElementOfSeq, LenProperties
<1>7. /\ cached' \in Seq(Token) /\ Len(cached') = pos'
      /\ \A i \in 1..pos' : cached'[i] = cached[i]
  BY <1>2, <1>3, <1>4, <1>6 DEF Cut
<1> QED
  BY <1>4, <1>5, <1>7

\* So does finding how much of a prompt is cached, and rolling back to it.
LEMMA BeginChatKinds ==
  ASSUME KindsInv, BeginChat
  PROVE  KindsInv'
<1>1. UNCHANGED <<model, rows, logits, queue, asked, req>>
  BY DEF BeginChat, outside
<1>2. CASE TooLong(req.ids)
  <2>1. UNCHANGED <<pos, cached, fed>> /\ pc' = "close"
    BY <1>2 DEF BeginChat
  <2> QED
    BY <1>1, <2>1 DEF KindsInv
<1>3. CASE ~TooLong(req.ids)
  <2>1. fed' = pos' /\ pc' = "prompt"
    BY <1>3 DEF BeginChat
  <2>2. pos' \in 0..NCtx /\ fed' \in Nat /\ fed' < Len(req.ids) /\ cached' \in Seq(Token)
    BY <1>3, <2>1, BeginFacts
  <2> QED
    BY <1>1, <2>1, <2>2 DEF KindsInv
<1> QED
  BY <1>2, <1>3

\* What CACHED is after a token was fed.
LEMMA FeedFacts ==
  ASSUME ModelsAnswer, KindsInv, NEW tok \in Token, Feed(tok)
  PROVE  /\ rows' \in [Places -> Token \cup {NoToken}] /\ pos' \in 0..NCtx
         /\ logits' \in Token /\ model' = model
         /\ cached' \in Seq(Token)
<1>1. Forward(tok)
  BY DEF Feed
<1>2. cached' \in Seq(Token)
  BY DEF Feed, KindsInv
<1> QED
  BY <1>1, <1>2, ForwardFacts DEF KindsInv, CacheKinds

\* The token of the prompt that is fed is one.
LEMMA PromptToken ==
  ASSUME KindsInv, FeedPrompt
  PROVE  req.ids[fed + 1] \in Token
<1>1. req.ids \in Seq(Token) /\ fed \in Nat /\ fed < Len(req.ids)
  BY RequestIds DEF KindsInv, FeedPrompt
<1>2. fed + 1 \in 1..Len(req.ids)
  BY <1>1, LenProperties
<1> QED
  BY <1>1, <1>2, ElementOfSeq

\* So does feeding a token of the prompt.
LEMMA FeedPromptKinds ==
  ASSUME ModelsAnswer, KindsInv, FeedPrompt
  PROVE  KindsInv'
<1>1. UNCHANGED <<queue, asked, req>> /\ fed' = fed + 1 /\ pc' \in {"prompt", "say"}
  BY DEF FeedPrompt, outside
<1>2. pc' = "prompt" => fed' < Len(req.ids)
  <2>1. req.ids \in Seq(Token) /\ fed \in Nat /\ fed < Len(req.ids)
    BY RequestIds DEF KindsInv, FeedPrompt
  <2> QED
    BY <1>1, <2>1, LenProperties DEF FeedPrompt
<1>3. /\ rows' \in [Places -> Token \cup {NoToken}] /\ pos' \in 0..NCtx
      /\ logits' \in Token /\ model' = model
      /\ cached' \in Seq(Token)
  BY PromptToken, FeedFacts DEF FeedPrompt
<1> QED
  BY <1>1, <1>2, <1>3 DEF KindsInv

\* So does a token of the reply.
LEMMA SayKinds ==
  ASSUME ModelsAnswer, KindsInv, Say
  PROVE  KindsInv'
<1>1. UNCHANGED <<pc, fed, queue, asked, req, conn>> /\ pc = "say"
  BY DEF Say, outside
<1>2. /\ rows' \in [Places -> Token \cup {NoToken}] /\ pos' \in 0..NCtx
      /\ logits' \in Token /\ model' = model
      /\ cached' \in Seq(Token)
  BY FeedFacts DEF Say, KindsInv
<1> QED
  BY <1>1, <1>2 DEF KindsInv

-----------------------------------------------------------------------------
(* CACHED never claims more than the cache holds.                          *)

\* Nothing that leaves the cache, CACHED and where the thread feeds alone can
\* disturb it.
LEMMA PrefixStutter ==
  ASSUME PrefixInv, UNCHANGED <<rows, pos, cached>>,
         pc' = pc \/ pc' \notin {"warm", "prompt", "say"}
  PROVE  PrefixInv'
BY DEF PrefixInv, RememberedIsHeld

\* Nothing is remembered at the start.
LEMMA InitPrefix ==
  ASSUME Init
  PROVE  PrefixInv
<1>1. cached = <<>> /\ pos = 0 /\ pc = "warm"
  BY DEF Init, CacheInit
<1>2. Len(cached) = 0 /\ DOMAIN cached = {}
  BY <1>1
<1> QED
  BY <1>1, <1>2 DEF PrefixInv, RememberedIsHeld

\* The warm-up remembers nothing.
LEMMA WarmUpPrefix ==
  ASSUME ModelsAnswer, KindsInv, PrefixInv, WarmUp
  PROVE  PrefixInv'
<1>1. cached' = <<>> /\ pc' \in {"warm", "reopen"}
  BY DEF WarmUp, PrefixInv
<1>2. pos' \in 0..NCtx
  <2>1. CASE fed < Len(Warm)
    <3>1. Warm[fed + 1] \in Token /\ Forward(Warm[fed + 1])
      BY <2>1, ServeAssumption DEF WarmUp, KindsInv
    <3> QED
      BY <3>1, ForwardFacts DEF KindsInv, CacheKinds
  <2>2. CASE ~(fed < Len(Warm))
    BY <2>2, FreshFacts DEF WarmUp
  <2> QED
    BY <2>1, <2>2
<1>3. Len(cached') = 0 /\ DOMAIN cached' = {}
  BY <1>1
<1> QED
  BY <1>1, <1>2, <1>3, KvAssumption DEF PrefixInv, RememberedIsHeld

\* A state that is opened anew remembers nothing.
LEMMA OpenStatePrefix ==
  ASSUME KindsInv, OpenState
  PROVE  PrefixInv'
<1>1. cached' = <<>> /\ pc' \in {"chat", "close"}
  BY DEF OpenState
<1>2. pos' \in 0..NCtx
  BY FreshFacts DEF OpenState, KindsInv, cacheVars
<1>3. Len(cached') = 0 /\ DOMAIN cached' = {}
  BY <1>1
<1> QED
  BY <1>1, <1>2, <1>3, KvAssumption DEF PrefixInv, RememberedIsHeld

\* Chat cuts CACHED and the cache at the same place.
LEMMA BeginChatPrefix ==
  ASSUME KindsInv, PrefixInv, BeginChat
  PROVE  PrefixInv'
<1>1. CASE TooLong(req.ids)
  <2>1. UNCHANGED <<rows, pos, cached>> /\ pc' = "close"
    BY <1>1 DEF BeginChat
  <2> QED
    BY <2>1, PrefixStutter
<1>2. CASE ~TooLong(req.ids)
  <2>1. rows' = rows /\ pc' = "prompt"
    BY <1>2 DEF BeginChat
  <2>2. /\ pos' \in 0..NCtx /\ pos' <= Len(cached)
        /\ cached' \in Seq(Token) /\ Len(cached') = pos'
        /\ \A i \in 1..pos' : cached'[i] = cached[i]
    BY <1>2, BeginFacts
  <2>3. DOMAIN cached' = 1..pos' /\ DOMAIN cached = 1..Len(cached) /\ Len(cached) \in Nat
    BY <2>2, LenProperties DEF KindsInv
  <2>4. \A i \in DOMAIN cached' : cached'[i] = rows'[i - 1]
    BY <2>1, <2>2, <2>3 DEF PrefixInv, RememberedIsHeld
  <2>5. Len(cached') <= pos'
    BY <2>2, KvAssumption
  <2> QED
    BY <2>1, <2>2, <2>4, <2>5 DEF PrefixInv, RememberedIsHeld
<1> QED
  BY <1>1, <1>2

\* A token that is fed goes to the row that its place in CACHED names; a full
\* CACHED is left alone, and its rows are below the one written.
LEMMA FeedPrefix ==
  ASSUME ModelsAnswer, KindsInv, PrefixInv, NEW tok \in Token, Feed(tok),
         pc \in {"prompt", "say"}, pc' \in {"prompt", "say"}
  PROVE  PrefixInv'
<1>1. /\ pos \in Nat /\ pos < NCtx /\ pos' = pos + 1
      /\ rows'[pos] = tok
      /\ \A p \in Places : p # pos => rows'[p] = rows[p]
  BY ForwardFacts DEF Feed, KindsInv, CacheKinds
<1>2. /\ Len(cached) \in Nat /\ Len(cached) <= pos /\ DOMAIN cached = 1..Len(cached)
  BY LenProperties DEF KindsInv, PrefixInv, RememberedIsHeld
<1>3. \A i \in 1..Len(cached) : cached[i] = rows'[i - 1]
  <2>1. \A i \in 1..Len(cached) : i - 1 \in Places /\ i - 1 # pos
    BY <1>1, <1>2, KvAssumption DEF Places
  <2>2. \A i \in 1..Len(cached) : cached[i] = rows[i - 1]
    BY <1>2 DEF PrefixInv, RememberedIsHeld
  <2> QED
    BY <1>1, <2>1, <2>2
<1>4. CASE Len(cached) < CachedMax
  <2>1. Len(cached) = pos
    BY <1>4 DEF PrefixInv
  <2>2. cached' = Append(cached, tok)
    BY <1>4 DEF Feed
  <2>3. /\ Len(cached') = pos + 1 /\ DOMAIN cached' = 1..(pos + 1)
        /\ cached'[pos + 1] = tok
        /\ \A i \in 1..Len(cached) : cached'[i] = cached[i]
    BY <2>1, <2>2, <1>2, AppendProperties, LenProperties DEF KindsInv
  <2>4. \A i \in 1..(pos + 1) : cached'[i] = rows'[i - 1]
    BY <1>1, <1>3, <2>1, <2>3
  <2> QED
    BY <1>1, <2>3, <2>4 DEF PrefixInv, RememberedIsHeld
<1>5. CASE ~(Len(cached) < CachedMax)
  <2>1. cached' = cached
    BY <1>5 DEF Feed
  <2>2. Len(cached') <= pos'
    BY <1>1, <1>2, <2>1
  <2>3. \A i \in DOMAIN cached' : cached'[i] = rows'[i - 1]
    BY <1>2, <1>3, <2>1
  <2>4. ~(Len(cached') < CachedMax)
    BY <1>5, <2>1
  <2>5. pc' # "warm"
    OBVIOUS
  <2> QED
    BY <2>2, <2>3, <2>4, <2>5 DEF PrefixInv, RememberedIsHeld
<1> QED
  BY <1>4, <1>5

\* A token fed is remembered where it was written.
LEMMA FeedPromptPrefix ==
  ASSUME ModelsAnswer, KindsInv, PrefixInv, FeedPrompt
  PROVE  PrefixInv'
<1>1. pc = "prompt" /\ pc' \in {"prompt", "say"} /\ Feed(req.ids[fed + 1])
  BY DEF FeedPrompt
<1> QED
  BY <1>1, PromptToken, FeedPrefix

\* So is a token said.
LEMMA SayPrefix ==
  ASSUME ModelsAnswer, KindsInv, PrefixInv, Say
  PROVE  PrefixInv'
<1>1. pc = "say" /\ pc' = "say" /\ Feed(logits) /\ logits \in Token
  BY DEF Say, KindsInv
<1> QED
  BY <1>1, FeedPrefix

-----------------------------------------------------------------------------
(* The hold.                                                               *)

\* The device is not held at the start.
LEMMA InitHold ==
  ASSUME Init
  PROVE  HoldInv
BY DEF Init, HoldInv, HoldOnlyWhileServing

\* A step that leaves the hold and the state alone, and begins no feeding.
LEMMA HoldStutter ==
  ASSUME HoldInv, UNCHANGED <<st, hold>>,
         pc' = pc \/ pc' \notin {"accept", "warm", "prompt", "say"}
  PROVE  HoldInv'
BY DEF HoldInv, HoldOnlyWhileServing

\* Whatever the thread does, the device is held only while it serves.
LEMMA ServerHold ==
  ASSUME KindsInv, HoldInv, Server
  PROVE  HoldInv'
<1>1. CASE WarmUp
  BY <1>1 DEF WarmUp, HoldInv, HoldOnlyWhileServing
<1>2. CASE Reopen
  BY <1>2 DEF Reopen, HoldInv, HoldOnlyWhileServing
<1>3. CASE Accept
  BY <1>3, HoldStutter DEF Accept
<1>4. CASE ReadRequest
  <2>1. pc' \in {"chat", "count", "other", "close"} /\ UNCHANGED <<st, hold>>
    BY <1>4, ReadRequestKinds DEF ReadRequest
  <2> QED
    BY <2>1, HoldStutter
<1>5. CASE CountTokens \/ Other \/ RefuseChat \/ FinishReply
  BY <1>5, HoldStutter DEF CountTokens, Other, RefuseChat, FinishReply
<1>6. CASE OpenState
  <2>1. CASE st' = TRUE /\ hold' = TRUE /\ pc' = "chat"
    BY <2>1 DEF HoldInv, HoldOnlyWhileServing
  <2>2. CASE UNCHANGED <<st, hold>> /\ pc' = "close"
    BY <2>2, HoldStutter
  <2> QED
    BY <1>6, <2>1, <2>2 DEF OpenState
<1>7. CASE BeginChat
  <2>1. st /\ st' = st /\ hold' = TRUE /\ pc' \in {"close", "prompt"}
    BY <1>7 DEF BeginChat
  <2> QED
    BY <2>1 DEF HoldInv, HoldOnlyWhileServing
<1>8. CASE FeedPrompt
  <2>1. pc = "prompt" /\ pc' \in {"prompt", "say"} /\ UNCHANGED <<st, hold>>
    BY <1>8 DEF FeedPrompt
  <2> QED
    BY <2>1 DEF HoldInv, HoldOnlyWhileServing
<1>9. CASE Say
  BY <1>9, HoldStutter DEF Say
<1>10. CASE Close
  <2>1. st' = st /\ hold' = (IF st THEN FALSE ELSE hold) /\ pc' = "accept"
    BY <1>10 DEF Close
  <2> QED
    BY <2>1 DEF HoldInv, HoldOnlyWhileServing
<1> QED
  BY <1>1, <1>2, <1>3, <1>4, <1>5, <1>6, <1>7, <1>8, <1>9, <1>10 DEF Server

-----------------------------------------------------------------------------
(* The invariant holds.                                                    *)

\* Every step of the thread keeps the kinds and what is remembered.
LEMMA ServerStep ==
  ASSUME ModelsAnswer, KindsInv, PrefixInv, Server
  PROVE  KindsInv' /\ PrefixInv'
<1>1. CASE WarmUp
  BY <1>1, WarmUpKinds, WarmUpPrefix
<1>2. CASE Reopen \/ CountTokens \/ Other \/ RefuseChat \/ FinishReply \/ Close
  <2>1. UNCHANGED <<rows, pos, cached>> /\ pc' \in {"accept", "close"}
    BY <1>2 DEF Reopen, CountTokens, Other, RefuseChat, FinishReply, Close, cacheVars
  <2> QED
    BY <1>2, <2>1, QuietKinds, PrefixStutter
<1>3. CASE Accept
  <2>1. UNCHANGED <<rows, pos, cached>> /\ pc' = "read"
    BY <1>3 DEF Accept, cacheVars
  <2> QED
    BY <1>3, <2>1, AcceptKinds, PrefixStutter
<1>4. CASE ReadRequest
  <2>1. UNCHANGED <<rows, pos, cached>> /\ pc' \in {"chat", "count", "other", "close"}
    BY <1>4, ReadRequestKinds DEF ReadRequest, cacheVars
  <2> QED
    BY <1>4, <2>1, ReadRequestKinds, PrefixStutter
<1>5. CASE OpenState
  BY <1>5, OpenStateKinds, OpenStatePrefix
<1>6. CASE BeginChat
  BY <1>6, BeginChatKinds, BeginChatPrefix
<1>7. CASE FeedPrompt
  BY <1>7, FeedPromptKinds, FeedPromptPrefix
<1>8. CASE Say
  BY <1>8, SayKinds, SayPrefix
<1> QED
  BY <1>1, <1>2, <1>3, <1>4, <1>5, <1>6, <1>7, <1>8 DEF Server

\* The clients touch nothing the invariant is about but the queue and what
\* they have asked.
LEMMA ClientStep ==
  ASSUME ServeInv, NEW c \in Clients,
         Connect(c) \/ Send(c) \/ HangUp(c) \/ Leave(c)
  PROVE  ServeInv'
<1>1. UNCHANGED <<rows, pos, cached, pc, st, hold>>
  BY DEF Connect, Send, HangUp, Leave, cacheVars, thread
<1>2. KindsInv'
  BY ClientKinds DEF ServeInv
<1>3. PrefixInv' /\ HoldInv'
  BY <1>1, PrefixStutter, HoldStutter DEF ServeInv
<1> QED
  BY <1>2, <1>3 DEF ServeInv

(* Whatever is served, refused or fails, in whatever order, the invariant  *)
(* of the one thread of charsiu_serve.c is kept.                           *)
THEOREM ServeInvariance ==
  ASSUME ModelsAnswer
  PROVE  Spec => []ServeInv
<1>1. Init => ServeInv
  BY InitKinds, InitPrefix, InitHold DEF ServeInv
<1>2. ServeInv /\ [Next]_vars => ServeInv'
  <2> SUFFICES ASSUME ServeInv, [Next]_vars
               PROVE  ServeInv'
    OBVIOUS
  <2>1. CASE Server
    BY <2>1, ServerStep, ServerHold DEF ServeInv
  <2>2. CASE \E c \in Clients : Connect(c) \/ Send(c) \/ HangUp(c) \/ Leave(c)
    BY <2>2, ClientStep
  <2>3. CASE UNCHANGED vars
    <3>1. UNCHANGED <<cacheVars, thread, queue, asked>>
      BY <2>3 DEF vars, outside
    <3>2. KindsInv'
      BY <3>1 DEF ServeInv, KindsInv, cacheVars, thread
    <3>3. PrefixInv' /\ HoldInv'
      BY <3>1, PrefixStutter, HoldStutter DEF ServeInv, cacheVars, thread
    <3> QED
      BY <3>2, <3>3 DEF ServeInv
  <2> QED
    BY <2>1, <2>2, <2>3 DEF Next
<1> QED
  BY <1>1, <1>2, PTL DEF Spec

(* What CACHED says the cache holds is what it holds, for every model, set *)
(* of requests and number of clients: "never claim more than the cache     *)
(* holds" (charsiu_serve.c:405).                                           *)
THEOREM CacheIsRemembered ==
  ASSUME ModelsAnswer
  PROVE  Spec => []RememberedIsHeld
<1>1. ServeInv => RememberedIsHeld
  BY DEF ServeInv, PrefixInv
<1> QED
  BY <1>1, ServeInvariance, PTL

(* charsiu_serve.c keeps the device at speed for every token it feeds and  *)
(* lets it go before it waits for a connection, also where there is no     *)
(* state to let it go with.                                                *)
THEOREM HoldIsReturned ==
  ASSUME ModelsAnswer
  PROVE  Spec => []HoldOnlyWhileServing
<1>1. ServeInv => HoldOnlyWhileServing
  BY DEF ServeInv, HoldInv
<1> QED
  BY <1>1, ServeInvariance, PTL


-----------------------------------------------------------------------------
(* The invariant.                                                          *)

Live == {"connected", "sent", "gone"}
Serving == pc \notin {"warm", "reopen", "accept"}

Answer == [how : {"no", "done", "refused", "failed", "served", "counted"}, n : Nat]

OutsideKinds ==
    /\ client \in [Clients -> Live \cup {"away", "closed"}]
    /\ said \in [Clients -> Seq(Token)]
    /\ answered \in [Clients -> Answer]

(* A connection that waits, or is served, is in one place only, and is not *)
(* closed.                                                                 *)
LineInv ==
    /\ \A i, j \in 1..Len(queue) : queue[i] = queue[j] => i = j
    /\ \A i \in 1..Len(queue) : client[queue[i]] \in Live /\ (Serving => queue[i] # conn)
    /\ Serving => conn \in Clients /\ client[conn] \in Live

(* What is served is what the connection has asked, on the right route.    *)
RouteInv ==
    /\ Serving /\ pc # "read" => client[conn] # "connected"
    /\ pc \in {"chat", "count", "other", "prompt", "say"} =>
         req \in Requests /\ req = asked[conn]
    /\ pc = "count" => req.route = "count"
    /\ pc = "other" => req.route = "other"
    /\ pc \in {"chat", "prompt", "say"} => req.route = "chat"
    /\ pc \in {"prompt", "say"} => ~TooLong(req.ids)

(* Who has asked, and who has been told what.                              *)
ClientInv(c) ==
    /\ client[c] \in {"away", "connected"} => asked[c] = NoRequest
    /\ client[c] = "sent" => asked[c] \in Requests
    /\ client[c] \in {"away", "connected", "gone"} => said[c] = <<>> /\ answered[c] = NoAnswer
    /\ client[c] = "sent" /\ answered[c] # NoAnswer => pc = "close" /\ c = conn
    /\ client[c] = "sent" /\ said[c] # <<>> => pc \in {"say", "close"} /\ c = conn
    /\ said[c] # <<>> => asked[c].route = "chat"
    /\ client[c] = "closed" /\ answered[c] # NoAnswer => asked[c] \in Requests
    /\ pc = "close" /\ c = conn /\ client[c] = "sent" => answered[c] # NoAnswer

(* The rows hold the conversation of the client that hears the reply, and  *)
(* the logits are the model's after it.                                    *)
ReplyInv ==
    /\ pc = "prompt" => pos = fed /\ \A i \in 1..fed : rows[i - 1] = req.ids[i]
    /\ pc = "say" /\ client[conn] = "sent" =>
         /\ pos = Len(req.ids \o said[conn])
         /\ \A i \in 1..pos : rows[i - 1] = (req.ids \o said[conn])[i]
         /\ logits = Argmax(model, req.ids \o said[conn])

EndInv == /\ OutsideKinds /\ LineInv /\ RouteInv
          /\ \A c \in Clients : ClientInv(c)
          /\ ReplyInv

-----------------------------------------------------------------------------
(* Requests, answers and lines.                                            *)

\* To have asked nothing is not a request.
LEMMA NothingAsked ==
         /\ NoRequest \notin Requests /\ NoRequest.route = "none"
         /\ \A r \in Requests : r.route \in {"chat", "count", "other"}
<1>1. \A r \in Requests : r.route \in {"chat", "count", "other"}
  BY ServeAssumption
<1>2. NoRequest.route = "none"
  BY DEF NoRequest
<1> QED
  BY <1>1, <1>2

\* What a client is told is an answer.
LEMMA AnswerFacts ==
  ASSUME NEW what \in {"done", "refused", "failed", "served", "counted"}, NEW n \in Nat
  PROVE  /\ [how |-> what, n |-> n] \in Answer
         /\ [how |-> what, n |-> n] # NoAnswer
<1>1. what # "no"
  OBVIOUS
<1>2. [how |-> what, n |-> n] \in Answer
  BY DEF Answer
<1>3. [how |-> what, n |-> n].how = what /\ NoAnswer.how = "no"
  BY DEF NoAnswer
<1> QED
  BY <1>1, <1>2, <1>3, Zenon

\* A row whose store holds a sequence up to it answers for that sequence.
LEMMA AfterSequence ==
  ASSUME NEW store, NEW s \in Seq(Token), NEW n \in Nat, n + 1 = Len(s),
         \A i \in 1..(n + 1) : store[i - 1] = s[i]
  PROVE  After(store, n) = Argmax(model, s)
<1>1. s = [i \in 1..(n + 1) |-> s[i]]
  BY LenProperties
<1>2. [i \in 1..(n + 1) |-> s[i]] = [i \in 1..(n + 1) |-> store[i - 1]]
  OBVIOUS
<1>3. Attended(store, n) = s
  BY <1>1, <1>2 DEF Attended
<1> QED
  BY <1>3 DEF After

\* A line that is extended by a token.
LEMMA LineGrows ==
  ASSUME NEW s \in Seq(Token), NEW t \in Seq(Token), NEW tok \in Token
  PROVE  /\ s \o t \in Seq(Token) /\ s \o Append(t, tok) \in Seq(Token)
         /\ Len(s \o t) \in Nat
         /\ Len(s \o Append(t, tok)) = Len(s \o t) + 1
         /\ \A i \in 1..Len(s \o t) : (s \o Append(t, tok))[i] = (s \o t)[i]
         /\ (s \o Append(t, tok))[Len(s \o t) + 1] = tok
<1>1. Append(t, tok) = t \o <<tok>> /\ <<tok>> \in Seq(Token)
  BY AppendIsConcat
<1>2. s \o Append(t, tok) = (s \o t) \o <<tok>>
  BY <1>1, ConcatAssociative
<1>3. s \o t \in Seq(Token) /\ Len(s \o t) \in Nat
  BY ConcatProperties, LenProperties
<1> DEFINE line == s \o t
<1> HIDE DEF line
<1>4. line \in Seq(Token) /\ Len(line) \in Nat
  BY <1>3 DEF line
<1>5. Append(line, tok) = line \o <<tok>>
  BY <1>4, AppendIsConcat
<1>6. /\ Append(line, tok) \in Seq(Token) /\ Len(Append(line, tok)) = Len(line) + 1
      /\ \A i \in 1..Len(line) : Append(line, tok)[i] = line[i]
      /\ Append(line, tok)[Len(line) + 1] = tok
  BY <1>4, AppendProperties
<1>7. s \o Append(t, tok) = Append(line, tok)
  BY <1>2, <1>5 DEF line
<1> QED
  BY <1>3, <1>6, <1>7 DEF line

\* What chat keeps of the cache is a beginning of the conversation.
LEMMA KeptAgrees ==
  ASSUME NEW ids \in Seq(Token), Len(ids) >= 1, cached \in Seq(Token), pos \in Nat,
         RememberedIsHeld
  PROVE  \A i \in 1..Keep(ids) : rows[i - 1] = ids[i]
<1> DEFINE most == Min({Len(cached), Len(ids) - 1})
<1>1. most \in Nat
  <2>1. Len(cached) \in Nat /\ Len(ids) - 1 \in Nat
    BY LenProperties
  <2>2. Len(cached) \in Int /\ Len(ids) - 1 \in Int
    BY <2>1
  <2>3. most \in {Len(cached), Len(ids) - 1}
    BY <2>2, MinOfTwo, Zenon
  <2> QED
    BY <2>1, <2>3
<1> HIDE DEF most
<1>2. Shared(ids) \in SUBSET (0..most) /\ 0 \in Shared(ids)
  BY <1>1 DEF Shared, most
<1>3. Max(Shared(ids)) \in Shared(ids) /\ Max(Shared(ids)) \in Nat
  <2>1. Max(Shared(ids)) \in Shared(ids)
    BY <1>1, <1>2, MaxOfBounded
  <2>2. Max(Shared(ids)) \in 0..most
    BY <1>2, <2>1
  <2> QED
    BY <1>1, <2>1, <2>2
<1>4. Keep(ids) <= Max(Shared(ids)) /\ Keep(ids) \in Nat /\ Keep(ids) <= Len(cached)
  <2>1. Max(Shared(ids)) \in Int /\ pos \in Int
    BY <1>3
  <2>2. Keep(ids) <= Max(Shared(ids))
    BY <2>1, MinOfTwo, Zenon DEF Keep
  <2> QED
    BY <2>2, KeepFacts
<1>5. \A i \in 1..Max(Shared(ids)) : cached[i] = ids[i]
  BY <1>3 DEF Shared
<1>6. \A i \in 1..Len(cached) : cached[i] = rows[i - 1]
  BY LenProperties DEF RememberedIsHeld
<1>7. \A i \in 1..Keep(ids) : i \in 1..Max(Shared(ids)) /\ i \in 1..Len(cached)
  <2>1. Len(cached) \in Nat
    BY LenProperties
  <2> QED
    BY <1>3, <1>4, <2>1
<1> QED
  BY <1>5, <1>6, <1>7
-----------------------------------------------------------------------------
(* The steps of the server.                                                *)

\* Nothing a client sees or does is touched, and the connection stays.
LEMMA SameConnection ==
  ASSUME EndInv, UNCHANGED <<client, asked, said, answered, queue, conn>>,
         Serving, Serving', pc # "close", pc' # "close", pc # "say" \/ pc' = "say"
  PROVE  OutsideKinds' /\ LineInv' /\ \A c \in Clients : ClientInv(c)'
<1>1. OutsideKinds'
  BY DEF EndInv, OutsideKinds
<1>2. LineInv'
  BY DEF EndInv, LineInv
<1>3. ASSUME NEW c \in Clients
      PROVE  ClientInv(c)'
  BY DEF EndInv, ClientInv
<1> QED
  BY <1>1, <1>2, <1>3

\* A request that is answered, or whose client went, is to be closed.
LEMMA Answers ==
  ASSUME EndInv, Serving, pc # "close", pc' = "close", client[conn] \in {"sent", "gone"},
         UNCHANGED <<client, asked, said, queue, conn>>,
         NEW a \in Answer, a # NoAnswer,
         answered' = IF client[conn] = "sent" THEN [answered EXCEPT ![conn] = a]
                     ELSE answered
  PROVE  EndInv'
<1>1. conn \in Clients /\ answered \in [Clients -> Answer]
  BY DEF EndInv, LineInv, OutsideKinds
<1>2. /\ answered' \in [Clients -> Answer]
      /\ \A c \in Clients : c # conn => answered'[c] = answered[c]
      /\ client[conn] = "sent" => answered'[conn] = a
      /\ client[conn] = "gone" => answered'[conn] = answered[conn]
  BY <1>1
<1>3. OutsideKinds'
  BY <1>2 DEF EndInv, OutsideKinds
<1>4. LineInv'
  BY DEF EndInv, LineInv, Serving
<1>5. RouteInv' /\ ReplyInv'
  BY DEF RouteInv, ReplyInv, Serving
<1>6. ASSUME NEW c \in Clients
      PROVE  ClientInv(c)'
  <2>1. ClientInv(c)
    BY DEF EndInv
  <2>2. CASE c = conn
    BY <1>2, <2>1, <2>2 DEF ClientInv
  <2>3. CASE c # conn
    BY <1>2, <2>1, <2>3 DEF ClientInv
  <2> QED
    BY <2>2, <2>3
<1> QED
  BY <1>3, <1>4, <1>5, <1>6 DEF EndInv

\* Before there is a listening socket nobody is served.
LEMMA WarmUpEnd ==
  ASSUME EndInv, WarmUp \/ Reopen
  PROVE  EndInv'
<1>1. /\ UNCHANGED <<client, asked, said, answered, queue, conn>>
      /\ ~Serving /\ ~Serving' /\ pc' \in {"warm", "reopen", "accept"}
      /\ pc \in {"warm", "reopen", "accept"}
  BY DEF WarmUp, Reopen, outside, replies, Serving
<1>2. OutsideKinds' /\ LineInv' /\ RouteInv' /\ ReplyInv'
  BY <1>1 DEF EndInv, OutsideKinds, LineInv, RouteInv, ReplyInv
<1>3. ASSUME NEW c \in Clients
      PROVE  ClientInv(c)'
  BY <1>1 DEF EndInv, ClientInv
<1> QED
  BY <1>2, <1>3 DEF EndInv

\* The connection that waited longest is served, and waits no more.
LEMMA AcceptEnd ==
  ASSUME KindsInv, EndInv, Accept
  PROVE  EndInv'
<1>1. /\ UNCHANGED <<client, asked, said, answered>>
      /\ pc = "accept" /\ pc' = "read" /\ queue # <<>>
      /\ conn' = Head(queue) /\ queue' = Tail(queue)
  BY DEF Accept, replies
<1>2. queue \in Seq(Clients)
  BY DEF KindsInv
<1>3. /\ Len(queue) \in Nat /\ Len(queue) >= 1 /\ Head(queue) = queue[1]
      /\ Head(queue) \in Clients
      /\ Len(queue') = Len(queue) - 1
      /\ \A i \in 1..Len(queue') : queue'[i] = queue[i + 1]
  BY <1>1, <1>2, HeadTailProperties, EmptySeq, LenProperties
<1>4. /\ \A i, j \in 1..Len(queue) : queue[i] = queue[j] => i = j
      /\ \A i \in 1..Len(queue) : client[queue[i]] \in Live
  BY DEF EndInv, LineInv
<1>5. \A i \in 1..Len(queue') : i + 1 \in 1..Len(queue) /\ i + 1 # 1
  BY <1>3
<1>6. 1 \in 1..Len(queue)
  BY <1>3
<1>7. /\ conn' \in Clients /\ client'[conn'] \in Live
      /\ \A i \in 1..Len(queue') : client'[queue'[i]] \in Live /\ queue'[i] # conn'
  BY <1>1, <1>3, <1>4, <1>5, <1>6
<1>8. ASSUME NEW i \in 1..Len(queue'), NEW j \in 1..Len(queue'), queue'[i] = queue'[j]
      PROVE  i = j
  <2>1. i + 1 = j + 1
    BY <1>3, <1>4, <1>5, <1>8
  <2> QED
    BY <1>3, <2>1
<1>9. LineInv'
  BY <1>7, <1>8 DEF LineInv
<1>10. OutsideKinds' /\ RouteInv' /\ ReplyInv'
  BY <1>1 DEF EndInv, OutsideKinds, RouteInv, ReplyInv, Serving
<1>11. ASSUME NEW c \in Clients
       PROVE  ClientInv(c)'
  BY <1>1 DEF EndInv, ClientInv
<1> QED
  BY <1>9, <1>10, <1>11 DEF EndInv

\* The request is read and goes its way, or there is none or no room for it.
LEMMA ReadRequestEnd ==
  ASSUME KindsInv, EndInv, ReadRequest
  PROVE  EndInv'
<1>1. /\ UNCHANGED <<client, asked, said, queue, conn>> /\ pc = "read" /\ Serving
  BY DEF ReadRequest, outside, Serving
<1>2. conn \in Clients /\ client[conn] \in Live /\ ClientInv(conn)
  BY <1>1 DEF EndInv, LineInv
<1>3. asked[conn] # NoRequest => /\ asked[conn] \in Requests
                                 /\ client[conn] \in {"sent", "gone"}
  BY <1>2 DEF KindsInv, ClientInv, Live
<1>4. CASE /\ asked[conn] # NoRequest /\ req' = asked[conn] /\ pc' = asked[conn].route
           /\ UNCHANGED answered
  <2>1. /\ asked[conn] \in Requests /\ client[conn] # "connected"
        /\ pc' \in {"chat", "count", "other"}
    BY <1>3, <1>4, NothingAsked
  <2>2. OutsideKinds' /\ LineInv' /\ \A c \in Clients : ClientInv(c)'
    BY <1>1, <1>4, <2>1, SameConnection DEF Serving
  <2>3. RouteInv' /\ ReplyInv'
    BY <1>1, <1>4, <2>1 DEF RouteInv, ReplyInv
  <2> QED
    BY <2>2, <2>3 DEF EndInv
<1>5. CASE /\ client[conn] = "gone" /\ pc' = "close" /\ UNCHANGED answered
  <2>1. OutsideKinds' /\ LineInv' /\ RouteInv' /\ ReplyInv'
    BY <1>1, <1>5 DEF EndInv, OutsideKinds, LineInv, RouteInv, ReplyInv, Serving
  <2>2. ASSUME NEW c \in Clients
        PROVE  ClientInv(c)'
    BY <1>1, <1>5 DEF EndInv, ClientInv
  <2> QED
    BY <2>1, <2>2 DEF EndInv
<1>6. CASE asked[conn] # NoRequest /\ Tell(conn, "failed") /\ pc' = "close"
  <2> DEFINE a == [how |-> "failed", n |-> 0]
  <2>1. a \in Answer /\ a # NoAnswer
    BY AnswerFacts, Zenon
  <2>2. answered' = IF client[conn] = "sent" THEN [answered EXCEPT ![conn] = a] ELSE answered
    BY <1>6 DEF Tell
  <2> HIDE DEF a
  <2> QED
    BY <1>1, <1>3, <1>6, <2>1, <2>2, Answers
<1> QED
  BY <1>4, <1>5, <1>6 DEF ReadRequest

\* The requests that end with a word to the client.
LEMMA ToldEnd ==
  ASSUME KindsInv, EndInv,
         \/ CountTokens \/ Other \/ RefuseChat \/ FinishReply
         \/ (OpenState /\ pc' = "close") \/ (BeginChat /\ pc' = "close")
  PROVE  EndInv'
<1>1. /\ pc \in {"count", "other", "chat", "say"} /\ pc' = "close" /\ Serving
      /\ UNCHANGED <<client, asked, said, queue, conn>>
  BY DEF CountTokens, Other, RefuseChat, FinishReply, OpenState, BeginChat, outside, Serving
<1>2. client[conn] \in {"sent", "gone"}
  BY <1>1 DEF EndInv, LineInv, RouteInv, Live
<1>3. CASE CountTokens
  <2> DEFINE a == [how |-> "counted", n |-> Len(req.ids)]
  <2>1. Len(req.ids) \in Nat
    BY RequestIds, LenProperties DEF KindsInv
  <2>2. a \in Answer /\ a # NoAnswer
    BY <2>1, AnswerFacts, Zenon
  <2>3. answered' = IF client[conn] = "sent" THEN [answered EXCEPT ![conn] = a] ELSE answered
    BY <1>3 DEF CountTokens, TellCount
  <2> HIDE DEF a
  <2> QED
    BY <1>1, <1>2, <2>2, <2>3, Answers
<1>4. CASE ~CountTokens
  <2>1. PICK what \in {"served", "refused", "failed", "done"} : Tell(conn, what)
    BY <1>1, <1>4 DEF Other, RefuseChat, FinishReply, OpenState, BeginChat
  <2> DEFINE a == [how |-> what, n |-> 0]
  <2>2. a \in Answer /\ a # NoAnswer
    BY AnswerFacts, Zenon
  <2>3. answered' = IF client[conn] = "sent" THEN [answered EXCEPT ![conn] = a] ELSE answered
    BY <2>1 DEF Tell
  <2> HIDE DEF a
  <2> QED
    BY <1>1, <1>2, <2>2, <2>3, Answers
<1> QED
  BY <1>3, <1>4

\* A state is opened for the chat that is waiting for one.
LEMMA OpenStateEnd ==
  ASSUME EndInv, OpenState, pc' # "close"
  PROVE  EndInv'
<1>1. /\ pc = "chat" /\ pc' = "chat" /\ Serving /\ Serving'
      /\ UNCHANGED <<client, asked, said, answered, queue, conn, req>>
  BY DEF OpenState, outside, Serving
<1>2. OutsideKinds' /\ LineInv' /\ \A c \in Clients : ClientInv(c)'
  BY <1>1, SameConnection
<1>3. RouteInv' /\ ReplyInv'
  BY <1>1 DEF EndInv, RouteInv, ReplyInv
<1> QED
  BY <1>2, <1>3 DEF EndInv

\* A conversation begins with the rows it shares with the last.
LEMMA BeginChatEnd ==
  ASSUME KindsInv, PrefixInv, EndInv, BeginChat, pc' # "close"
  PROVE  EndInv'
<1>1. /\ pc = "chat" /\ pc' = "prompt" /\ Serving /\ Serving' /\ ~TooLong(req.ids)
      /\ UNCHANGED <<client, asked, said, answered, queue, conn, req, rows>>
      /\ pos' = Keep(req.ids) /\ fed' = pos'
  BY DEF BeginChat, outside, Serving
<1>2. OutsideKinds' /\ LineInv' /\ \A c \in Clients : ClientInv(c)'
  BY <1>1, SameConnection
<1>3. RouteInv'
  BY <1>1 DEF EndInv, RouteInv
<1>4. ReplyInv'
  <2>1. req.ids \in Seq(Token) /\ cached \in Seq(Token) /\ pos \in Nat
    BY RequestIds, KvAssumption DEF KindsInv
  <2>2. Len(req.ids) >= 1
    <3>1. Len(req.ids) \in Nat
      BY <2>1, LenProperties
    <3> QED
      BY <1>1, <3>1 DEF TooLong
  <2>3. \A i \in 1..Keep(req.ids) : rows[i - 1] = req.ids[i]
    BY <2>1, <2>2, KeptAgrees DEF PrefixInv
  <2> QED
    BY <1>1, <2>3 DEF ReplyInv
<1> QED
  BY <1>2, <1>3, <1>4 DEF EndInv

\* A token that is fed is where the line has it.
LEMMA FedLine ==
  ASSUME ModelsAnswer, KindsInv, NEW tok \in Token, Forward(tok),
         NEW s \in Seq(Token), pos + 1 <= Len(s), s[pos + 1] = tok,
         \A i \in 1..pos : rows[i - 1] = s[i]
  PROVE  /\ pos' = pos + 1 /\ pos \in Nat
         /\ \A i \in 1..(pos + 1) : rows'[i - 1] = s[i]
         /\ pos + 1 = Len(s) => logits' = Argmax(model, s)
<1>1. pos \in Nat /\ NCtx \in Nat /\ CacheKinds
  BY KvAssumption DEF KindsInv, CacheKinds
<1>2. /\ pos < NCtx /\ pos' = pos + 1 /\ rows'[pos] = tok
      /\ \A p \in Places : p # pos => rows'[p] = rows[p]
  BY <1>1, ForwardFacts
<1>3. ASSUME NEW i \in 1..(pos + 1)
      PROVE  rows'[i - 1] = s[i]
  <2>1. CASE i = pos + 1
    <3>1. i - 1 = pos
      BY <1>1, <2>1
    <3> QED
      BY <1>2, <2>1, <3>1
  <2>2. CASE i # pos + 1
    <3>1. i \in 1..pos /\ i - 1 # pos /\ i - 1 \in Places
      BY <1>1, <1>2, <2>2, KvAssumption DEF Places
    <3> QED
      BY <1>2, <3>1
  <2> QED
    BY <2>1, <2>2
<1>4. ASSUME pos + 1 = Len(s)
      PROVE  logits' = Argmax(model, s)
  <2>1. logits' = After(rows', pos)
    BY DEF Forward
  <2> QED
    BY <1>1, <1>3, <1>4, <2>1, AfterSequence
<1> QED
  BY <1>1, <1>2, <1>3, <1>4

\* The prompt is fed where the conversation has it.
LEMMA FeedPromptEnd ==
  ASSUME ModelsAnswer, KindsInv, EndInv, FeedPrompt
  PROVE  EndInv'
<1>1. /\ pc = "prompt" /\ Serving /\ Serving' /\ Forward(req.ids[fed + 1])
      /\ fed' = fed + 1 /\ pc' = (IF fed' = Len(req.ids) THEN "say" ELSE "prompt")
      /\ UNCHANGED <<client, asked, said, answered, queue, conn, req>>
  BY DEF FeedPrompt, Feed, outside, replies, Serving
<1>2. OutsideKinds' /\ LineInv' /\ \A c \in Clients : ClientInv(c)'
  BY <1>1, SameConnection
<1>3. RouteInv'
  BY <1>1 DEF EndInv, RouteInv
<1>4. /\ req.ids \in Seq(Token) /\ Len(req.ids) \in Nat /\ fed \in Nat
      /\ fed < Len(req.ids) /\ req.ids[fed + 1] \in Token
      /\ pos = fed /\ \A i \in 1..fed : rows[i - 1] = req.ids[i]
  BY <1>1, RequestIds, PromptToken, LenProperties DEF KindsInv, EndInv, ReplyInv
<1>5. /\ pos' = pos + 1 /\ model' = model
      /\ \A i \in 1..(pos + 1) : rows'[i - 1] = req.ids[i]
      /\ pos + 1 = Len(req.ids) => logits' = Argmax(model, req.ids)
  <2>1. pos + 1 <= Len(req.ids)
    BY <1>4
  <2>2. model' = model
    BY <1>1 DEF Forward
  <2> QED
    BY <1>1, <1>4, <2>1, <2>2, FedLine
<1>6. ASSUME pc' = "say", client'[conn'] = "sent"
      PROVE  req'.ids \o said'[conn'] = req.ids /\ pos + 1 = Len(req.ids)
  <2>1. conn \in Clients /\ client[conn] = "sent" /\ ClientInv(conn)
    BY <1>1, <1>6 DEF EndInv, LineInv
  <2>2. said[conn] = <<>>
    BY <1>1, <2>1 DEF ClientInv
  <2>3. req.ids \o <<>> = req.ids
    BY <1>4, ConcatEmptySeq
  <2> QED
    BY <1>1, <1>4, <1>6, <2>2, <2>3
<1>7. ReplyInv'
  BY <1>1, <1>4, <1>5, <1>6 DEF ReplyInv
<1> QED
  BY <1>2, <1>3, <1>7 DEF EndInv

\* A token of the reply joins the line of a client that still listens.
LEMMA SayEnd ==
  ASSUME ModelsAnswer, KindsInv, EndInv, Say
  PROVE  EndInv'
<1>1. /\ pc = "say" /\ pc' = "say" /\ Serving /\ Serving' /\ Forward(logits)
      /\ UNCHANGED <<client, asked, answered, queue, conn, req>>
      /\ said' = IF client[conn] = "sent" THEN [said EXCEPT ![conn] = Append(@, logits)]
                 ELSE said
  BY DEF Say, Feed, outside, Serving
<1>2. /\ conn \in Clients /\ said \in [Clients -> Seq(Token)] /\ logits \in Token
      /\ req \in Requests /\ req = asked[conn] /\ req.route = "chat"
      /\ client[conn] \in {"sent", "gone"}
  BY <1>1 DEF EndInv, LineInv, OutsideKinds, KindsInv, RouteInv, Live
<1>3. /\ said[conn] \in Seq(Token) /\ Append(said[conn], logits) \in Seq(Token)
      /\ req.ids \in Seq(Token)
  BY <1>2, AppendProperties, RequestIds
<1>4. /\ said' \in [Clients -> Seq(Token)]
      /\ \A c \in Clients : c # conn => said'[c] = said[c]
      /\ client[conn] = "sent" => said'[conn] = Append(said[conn], logits)
      /\ client[conn] = "gone" => said'[conn] = said[conn]
  BY <1>1, <1>2, <1>3
<1>5. OutsideKinds' /\ LineInv'
  BY <1>1, <1>4 DEF EndInv, OutsideKinds, LineInv
<1>6. RouteInv'
  BY <1>1 DEF EndInv, RouteInv
<1>7. ASSUME NEW c \in Clients
      PROVE  ClientInv(c)'
  <2>1. ClientInv(c)
    BY DEF EndInv
  <2>2. CASE c = conn
    BY <1>1, <1>2, <1>4, <2>1, <2>2 DEF ClientInv
  <2>3. CASE c # conn
    BY <1>1, <1>4, <2>1, <2>3 DEF ClientInv
  <2> QED
    BY <2>2, <2>3
<1>8. ASSUME client[conn] = "sent"
      PROVE  /\ pos' = Len(req.ids \o said'[conn])
             /\ \A i \in 1..pos' : rows'[i - 1] = (req.ids \o said'[conn])[i]
             /\ logits' = Argmax(model, req.ids \o said'[conn])
  <2>0. PICK s \in Seq(Token), t \in Seq(Token), tok \in Token :
               s = req.ids /\ t = said[conn] /\ tok = logits
    BY <1>2, <1>3
  <2> DEFINE old == s \o t
             new == s \o Append(t, tok)
  <2>1. /\ pos = Len(old) /\ \A i \in 1..pos : rows[i - 1] = old[i]
    BY <1>1, <1>8, <2>0 DEF EndInv, ReplyInv
  <2>2. /\ new \in Seq(Token) /\ Len(old) \in Nat /\ Len(new) = Len(old) + 1
        /\ \A i \in 1..Len(old) : new[i] = old[i]
        /\ new[Len(old) + 1] = logits
    <3>1. /\ s \o t \in Seq(Token) /\ s \o Append(t, tok) \in Seq(Token)
          /\ Len(s \o t) \in Nat
          /\ Len(s \o Append(t, tok)) = Len(s \o t) + 1
          /\ \A i \in 1..Len(s \o t) : (s \o Append(t, tok))[i] = (s \o t)[i]
          /\ (s \o Append(t, tok))[Len(s \o t) + 1] = tok
      BY LineGrows
    <3>2. tok = logits
      BY <2>0
    <3> QED
      BY <3>1, <3>2, Zenon DEF old, new
  <2>3. req.ids \o said'[conn] = new
    BY <1>4, <1>8, <2>0
  <2> HIDE DEF old, new
  <2>4. /\ pos + 1 <= Len(new) /\ pos + 1 = Len(new) /\ new[pos + 1] = logits
        /\ \A i \in 1..pos : rows[i - 1] = new[i]
    BY <2>1, <2>2
  <2>5. /\ pos' = pos + 1
        /\ \A i \in 1..(pos + 1) : rows'[i - 1] = new[i]
        /\ logits' = Argmax(model, new)
    BY <1>1, <1>2, <2>2, <2>4, FedLine
  <2> QED
    BY <2>3, <2>4, <2>5
<1>9. model' = model
  BY <1>1 DEF Forward
<1>10. ReplyInv'
  BY <1>1, <1>8, <1>9 DEF ReplyInv
<1> QED
  BY <1>5, <1>6, <1>7, <1>10 DEF EndInv

\* A closed connection was answered, or its client had gone.
LEMMA CloseEnd ==
  ASSUME KindsInv, EndInv, Close
  PROVE  EndInv'
<1>1. /\ pc = "close" /\ Serving /\ pc' = "accept" /\ ~Serving'
      /\ UNCHANGED <<queue, asked, said, answered>>
      /\ client' = [client EXCEPT ![conn] = "closed"]
  BY DEF Close, replies, Serving
<1>2. /\ conn \in Clients /\ client[conn] \in {"sent", "gone"}
      /\ client \in [Clients -> Live \cup {"away", "closed"}]
  BY <1>1 DEF EndInv, LineInv, RouteInv, Live, OutsideKinds
<1>3. /\ client' \in [Clients -> Live \cup {"away", "closed"}] /\ client'[conn] = "closed"
      /\ \A c \in Clients : c # conn => client'[c] = client[c]
  BY <1>1, <1>2
<1>4. OutsideKinds'
  BY <1>1, <1>3 DEF EndInv, OutsideKinds
<1>5. LineInv'
  <2>1. \A i \in 1..Len(queue) : queue[i] \in Clients
    BY ElementOfSeq DEF KindsInv
  <2> QED
    BY <1>1, <1>3, <2>1 DEF EndInv, LineInv
<1>6. RouteInv' /\ ReplyInv'
  BY <1>1 DEF RouteInv, ReplyInv
<1>7. ASSUME NEW c \in Clients
      PROVE  ClientInv(c)'
  <2>1. ClientInv(c)
    BY DEF EndInv
  <2>2. CASE c = conn
    BY <1>1, <1>2, <1>3, <2>1, <2>2 DEF ClientInv
  <2>3. CASE c # conn
    BY <1>1, <1>3, <2>1, <2>3 DEF ClientInv
  <2> QED
    BY <2>2, <2>3
<1> QED
  BY <1>4, <1>5, <1>6, <1>7 DEF EndInv

-----------------------------------------------------------------------------
(* The steps of the clients.                                               *)

\* One client moves, and is told nothing.
LEMMA ClientMoves ==
  ASSUME KindsInv, EndInv, NEW c \in Clients, NEW to \in Live \cup {"away"},
         client' = [client EXCEPT ![c] = to],
         \/ client[c] = "away" /\ to = "connected"
         \/ client[c] = "connected" /\ to = "sent"
         \/ client[c] \in {"connected", "sent"} /\ to = "gone"
         \/ client[c] = "closed" /\ to = "away",
         UNCHANGED <<queue, pc, conn>>
  PROVE  /\ client' \in [Clients -> Live \cup {"away", "closed"}]
         /\ client'[c] = to /\ \A d \in Clients : d # c => client'[d] = client[d]
         /\ LineInv'
<1>1. client \in [Clients -> Live \cup {"away", "closed"}]
  BY DEF EndInv, OutsideKinds
<1>2. /\ client' \in [Clients -> Live \cup {"away", "closed"}]
      /\ client'[c] = to /\ \A d \in Clients : d # c => client'[d] = client[d]
  BY <1>1
<1>3. \A d \in Clients : client[d] \in Live => client'[d] \in Live
  BY <1>2 DEF Live
<1>4. \A i \in 1..Len(queue) : queue[i] \in Clients
  BY ElementOfSeq DEF KindsInv
<1>5. LineInv'
  BY <1>3, <1>4 DEF EndInv, LineInv, Serving
<1> QED
  BY <1>2, <1>5

\* One value of one client is changed.
LEMMA OneChanged ==
  ASSUME NEW S, NEW f \in [Clients -> S], NEW c \in Clients, NEW v \in S, NEW g,
         g = [f EXCEPT ![c] = v]
  PROVE  g \in [Clients -> S] /\ g[c] = v /\ \A d \in Clients : d # c => g[d] = f[d]
OBVIOUS

\* A connection joins the end of the line.
LEMMA ConnectEnd ==
  ASSUME KindsInv, EndInv, NEW c \in Clients, Connect(c)
  PROVE  EndInv'
<1>1. /\ client[c] = "away" /\ client' = [client EXCEPT ![c] = "connected"]
      /\ queue' = Append(queue, c)
      /\ UNCHANGED <<asked, said, answered, pc, conn, req, model, rows, pos, logits, fed>>
  BY DEF Connect, cacheVars, thread, replies
<1>2. /\ client' \in [Clients -> Live \cup {"away", "closed"}] /\ client'[c] = "connected"
      /\ \A d \in Clients : d # c => client'[d] = client[d]
  BY <1>1, OneChanged DEF EndInv, OutsideKinds, Live
<1>3. queue \in Seq(Clients) /\ Len(queue) \in Nat /\ \A i \in 1..Len(queue) : queue[i] \in Clients
  BY LenProperties, ElementOfSeq DEF KindsInv
<1>4. /\ Len(queue') = Len(queue) + 1 /\ queue'[Len(queue) + 1] = c
      /\ \A i \in 1..Len(queue) : queue'[i] = queue[i]
  BY <1>1, <1>3, AppendProperties
<1>5. /\ \A i, j \in 1..Len(queue) : queue[i] = queue[j] => i = j
      /\ \A i \in 1..Len(queue) : client[queue[i]] \in Live /\ (Serving => queue[i] # conn)
      /\ Serving => conn \in Clients /\ client[conn] \in Live
  BY DEF EndInv, LineInv
<1>6. \A i \in 1..Len(queue) : queue[i] # c
  BY <1>1, <1>5 DEF Live
<1>7. Serving => conn # c
  BY <1>1, <1>5 DEF Live
<1>8. \A i \in 1..Len(queue') : i \in 1..Len(queue) \/ i = Len(queue) + 1
  BY <1>3, <1>4
<1>9. /\ \A i, j \in 1..Len(queue') : queue'[i] = queue'[j] => i = j
      /\ \A i \in 1..Len(queue') : client'[queue'[i]] \in Live /\ (Serving => queue'[i] # conn)
  <2>1. ASSUME NEW i \in 1..Len(queue'), NEW j \in 1..Len(queue'), queue'[i] = queue'[j]
        PROVE  i = j
    BY <1>4, <1>5, <1>6, <1>8, <2>1
  <2>2. ASSUME NEW i \in 1..Len(queue')
        PROVE  client'[queue'[i]] \in Live /\ (Serving => queue'[i] # conn)
    <3>1. CASE i \in 1..Len(queue)
      BY <1>2, <1>3, <1>4, <1>5, <1>6, <3>1
    <3>2. CASE i = Len(queue) + 1
      BY <1>2, <1>4, <1>7, <3>2 DEF Live
    <3> QED
      BY <1>8, <3>1, <3>2
  <2> QED
    BY <2>1, <2>2
<1>10. LineInv'
  BY <1>1, <1>2, <1>5, <1>7, <1>9 DEF LineInv, Serving
<1>11. OutsideKinds' /\ RouteInv' /\ ReplyInv'
  <2>1. Serving => client'[conn] = client[conn]
    BY <1>2, <1>5, <1>7
  <2> QED
    BY <1>1, <1>2, <2>1 DEF EndInv, OutsideKinds, RouteInv, ReplyInv, Serving
<1>12. ASSUME NEW d \in Clients
       PROVE  ClientInv(d)'
  <2>1. ClientInv(d)
    BY DEF EndInv
  <2>2. CASE d = c
    BY <1>1, <1>2, <2>1, <2>2 DEF ClientInv
  <2>3. CASE d # c
    BY <1>1, <1>2, <2>1, <2>3 DEF ClientInv
  <2> QED
    BY <2>2, <2>3
<1> QED
  BY <1>10, <1>11, <1>12 DEF EndInv

\* A client sends its request before it is read.
LEMMA SendEnd ==
  ASSUME KindsInv, EndInv, NEW c \in Clients, Send(c)
  PROVE  EndInv'
<1>1. /\ client[c] = "connected" /\ client' = [client EXCEPT ![c] = "sent"]
      /\ UNCHANGED <<said, answered, pc, conn, req, model, rows, pos, logits, fed, queue>>
  BY DEF Send, cacheVars, thread, replies
<1>2. PICK r \in Requests : asked' = [asked EXCEPT ![c] = r]
  BY DEF Send
<1>3. /\ client' \in [Clients -> Live \cup {"away", "closed"}] /\ client'[c] = "sent"
      /\ \A d \in Clients : d # c => client'[d] = client[d]
      /\ LineInv'
  BY <1>1, ClientMoves DEF Live
<1>4. asked'[c] = r /\ \A d \in Clients : d # c => asked'[d] = asked[d]
  BY <1>2 DEF KindsInv
<1>5. Serving /\ pc # "read" => conn # c /\ conn \in Clients
  BY <1>1 DEF EndInv, LineInv, RouteInv
<1>6. OutsideKinds'
  BY <1>1, <1>3 DEF EndInv, OutsideKinds
<1>7. RouteInv' /\ ReplyInv'
  BY <1>1, <1>3, <1>4, <1>5 DEF EndInv, RouteInv, ReplyInv, Serving
<1>8. ASSUME NEW d \in Clients
      PROVE  ClientInv(d)'
  <2>1. ClientInv(d)
    BY DEF EndInv
  <2>2. CASE d = c
    BY <1>1, <1>3, <1>4, <1>5, <2>1, <2>2 DEF ClientInv, Serving
  <2>3. CASE d # c
    BY <1>1, <1>3, <1>4, <2>1, <2>3 DEF ClientInv
  <2> QED
    BY <2>2, <2>3
<1> QED
  BY <1>3, <1>6, <1>7, <1>8 DEF EndInv

\* A client that hangs up loses what it has heard.
LEMMA HangUpEnd ==
  ASSUME KindsInv, EndInv, NEW c \in Clients, HangUp(c)
  PROVE  EndInv'
<1>1. /\ client[c] \in {"connected", "sent"} /\ client' = [client EXCEPT ![c] = "gone"]
      /\ said' = [said EXCEPT ![c] = <<>>]
      /\ answered' = [answered EXCEPT ![c] = NoAnswer]
      /\ UNCHANGED <<asked, pc, conn, req, model, rows, pos, logits, fed, queue>>
  BY DEF HangUp, cacheVars, thread
<1>2. /\ client' \in [Clients -> Live \cup {"away", "closed"}] /\ client'[c] = "gone"
      /\ \A d \in Clients : d # c => client'[d] = client[d]
      /\ LineInv'
  BY <1>1, ClientMoves DEF Live
<1>3. <<>> \in Seq(Token) /\ NoAnswer \in Answer
  BY EmptySeq DEF NoAnswer, Answer
<1>4. /\ said' \in [Clients -> Seq(Token)] /\ said'[c] = <<>>
      /\ \A d \in Clients : d # c => said'[d] = said[d]
  BY <1>1, <1>3 DEF EndInv, OutsideKinds
<1>5. /\ answered' \in [Clients -> Answer] /\ answered'[c] = NoAnswer
      /\ \A d \in Clients : d # c => answered'[d] = answered[d]
  BY <1>1, <1>3 DEF EndInv, OutsideKinds
<1>6. OutsideKinds'
  BY <1>2, <1>4, <1>5 DEF OutsideKinds
<1>7. Serving => conn \in Clients
  BY DEF EndInv, LineInv
<1>8. RouteInv' /\ ReplyInv'
  <2>1. CASE conn = c
    BY <1>1, <1>2, <2>1 DEF EndInv, RouteInv, ReplyInv, Serving
  <2>2. CASE conn # c
    BY <1>1, <1>2, <1>4, <1>7, <2>2 DEF EndInv, RouteInv, ReplyInv, Serving
  <2> QED
    BY <2>1, <2>2
<1>9. ASSUME NEW d \in Clients
      PROVE  ClientInv(d)'
  <2>1. ClientInv(d)
    BY DEF EndInv
  <2>2. CASE d = c
    BY <1>1, <1>2, <1>4, <1>5, <2>1, <2>2 DEF ClientInv
  <2>3. CASE d # c
    BY <1>1, <1>2, <1>4, <1>5, <2>1, <2>3 DEF ClientInv
  <2> QED
    BY <2>2, <2>3
<1> QED
  BY <1>2, <1>6, <1>8, <1>9 DEF EndInv

\* A closed connection is forgotten, and is nobody's.
LEMMA LeaveEnd ==
  ASSUME KindsInv, EndInv, NEW c \in Clients, Leave(c)
  PROVE  EndInv'
<1>1. /\ client[c] = "closed" /\ client' = [client EXCEPT ![c] = "away"]
      /\ asked' = [asked EXCEPT ![c] = NoRequest]
      /\ said' = [said EXCEPT ![c] = <<>>]
      /\ answered' = [answered EXCEPT ![c] = NoAnswer]
      /\ UNCHANGED <<pc, conn, req, model, rows, pos, logits, fed, queue>>
  BY DEF Leave, cacheVars, thread
<1>2. /\ client' \in [Clients -> Live \cup {"away", "closed"}] /\ client'[c] = "away"
      /\ \A d \in Clients : d # c => client'[d] = client[d]
      /\ LineInv'
  BY <1>1, ClientMoves DEF Live
<1>3. <<>> \in Seq(Token) /\ NoAnswer \in Answer
  BY EmptySeq DEF NoAnswer, Answer
<1>4. /\ said' \in [Clients -> Seq(Token)] /\ said'[c] = <<>>
      /\ \A d \in Clients : d # c => said'[d] = said[d]
  BY <1>1, <1>3 DEF EndInv, OutsideKinds
<1>5. /\ answered' \in [Clients -> Answer] /\ answered'[c] = NoAnswer
      /\ \A d \in Clients : d # c => answered'[d] = answered[d]
  BY <1>1, <1>3 DEF EndInv, OutsideKinds
<1>6. asked'[c] = NoRequest /\ \A d \in Clients : d # c => asked'[d] = asked[d]
  BY <1>1 DEF KindsInv
<1>7. OutsideKinds'
  BY <1>2, <1>4, <1>5 DEF OutsideKinds
<1>8. Serving => conn \in Clients /\ conn # c
  BY <1>1 DEF EndInv, LineInv, Live
<1>9. RouteInv' /\ ReplyInv'
  BY <1>1, <1>2, <1>4, <1>6, <1>8 DEF EndInv, RouteInv, ReplyInv, Serving
<1>10. ASSUME NEW d \in Clients
       PROVE  ClientInv(d)'
  <2>1. ClientInv(d)
    BY DEF EndInv
  <2>2. CASE d = c
    BY <1>1, <1>2, <1>4, <1>5, <1>6, <1>8, <2>1, <2>2 DEF ClientInv
  <2>3. CASE d # c
    BY <1>1, <1>2, <1>4, <1>5, <1>6, <2>1, <2>3 DEF ClientInv
  <2> QED
    BY <2>2, <2>3
<1> QED
  BY <1>2, <1>7, <1>9, <1>10 DEF EndInv

\* It holds before anything is asked.
LEMMA InitEnd ==
  ASSUME Init
  PROVE  EndInv
<1>1. /\ pc = "warm" /\ queue = <<>> /\ client = [c \in Clients |-> "away"]
      /\ asked = [c \in Clients |-> NoRequest] /\ said = [c \in Clients |-> <<>>]
      /\ answered = [c \in Clients |-> NoAnswer]
  BY DEF Init
<1>2. <<>> \in Seq(Token) /\ NoAnswer \in Answer
  BY EmptySeq DEF NoAnswer, Answer
<1>3. OutsideKinds
  BY <1>1, <1>2 DEF OutsideKinds
<1>4. \A i \in 1..Len(queue) : FALSE
  BY <1>1
<1>5. LineInv /\ RouteInv /\ ReplyInv
  BY <1>1, <1>4 DEF LineInv, RouteInv, ReplyInv, Serving
<1>6. ASSUME NEW c \in Clients
      PROVE  ClientInv(c)
  BY <1>1 DEF ClientInv
<1> QED
  BY <1>3, <1>5, <1>6 DEF EndInv

\* Every step keeps it.
LEMMA EndStep ==
  ASSUME ModelsAnswer, ServeInv, EndInv, [Next]_vars
  PROVE  EndInv'
<1> USE DEF ServeInv
<1>1. CASE UNCHANGED vars
  <2>1. UNCHANGED <<client, asked, said, answered, queue, conn, pc, req, model, rows, pos,
                    logits, fed>>
    BY <1>1 DEF vars, cacheVars, thread, outside, replies
  <2>2. OutsideKinds' /\ LineInv' /\ RouteInv' /\ ReplyInv'
    BY <2>1 DEF EndInv, OutsideKinds, LineInv, RouteInv, ReplyInv, Serving
  <2>3. ASSUME NEW c \in Clients
        PROVE  ClientInv(c)'
    BY <2>1 DEF EndInv, ClientInv
  <2> QED
    BY <2>2, <2>3 DEF EndInv
<1>2. CASE WarmUp \/ Reopen
  BY <1>2, WarmUpEnd
<1>3. CASE Accept \/ ReadRequest
  BY <1>3, AcceptEnd, ReadRequestEnd
<1>4. CASE CountTokens \/ Other \/ RefuseChat \/ FinishReply
  BY <1>4, ToldEnd
<1>5. CASE OpenState
  BY <1>5, ToldEnd, OpenStateEnd
<1>6. CASE BeginChat
  BY <1>6, ToldEnd, BeginChatEnd
<1>7. CASE FeedPrompt \/ Say
  BY <1>7, FeedPromptEnd, SayEnd
<1>8. CASE Close
  BY <1>8, CloseEnd
<1>9. CASE \E c \in Clients : Connect(c) \/ Send(c) \/ HangUp(c) \/ Leave(c)
  BY <1>9, ConnectEnd, SendEnd, HangUpEnd, LeaveEnd
<1> QED
  BY <1>1, <1>2, <1>3, <1>4, <1>5, <1>6, <1>7, <1>8, <1>9 DEF Next, Server

-----------------------------------------------------------------------------
(* What a client sees.                                                     *)

Seen(c) == Heard(c) /\ asked[c].route # "other"
MapAsked(c) == IF Seen(c) THEN asked[c] ELSE NoRequest
MapSaid(c) == IF Heard(c) THEN said[c] ELSE <<>>
MapAnswered(c) == IF Seen(c) THEN answered[c] ELSE NoAnswer
mapAsked == [c \in Clients |-> MapAsked(c)]
mapSaid == [c \in Clients |-> MapSaid(c)]
mapAnswered == [c \in Clients |-> MapAnswered(c)]

\* These are the values that Endpoint is instantiated with.
LEMMA MapIs ==
  E!vars = <<model, mapAsked, mapSaid, mapAnswered>>
BY DEF E!vars, mapAsked, mapSaid, mapAnswered, MapAsked, MapSaid, MapAnswered, Seen
(* When a request may end, and how, for the client that has sent it.       *)
Due(c, a) ==
    \/ /\ asked[c].route = "chat" /\ ~TooLong(asked[c].ids)
       /\ Len(said[c]) = NGen(asked[c]) \/ Argmax(model, asked[c].ids \o said[c]) = Eog
       /\ a = [how |-> "done", n |-> 0]
    \/ /\ asked[c].route = "chat" /\ TooLong(asked[c].ids)
       /\ a = [how |-> "refused", n |-> 0]
    \/ /\ asked[c].route = "count"
       /\ a = [how |-> "counted", n |-> Len(asked[c].ids)]
    \/ /\ said[c] = <<>> /\ a = [how |-> "failed", n |-> 0]

\* What fits the endpoint is what the server takes, and the reply is cut at the
\* same length.
LEMMA FitsIs ==
  ASSUME NEW r \in Requests
  PROVE  E!Fits(r) <=> ~TooLong(r.ids)
<1>1. r.ids \in Seq(Token) /\ Len(r.ids) \in Nat
  BY RequestIds, LenProperties
<1>2. r.ids # <<>> <=> Len(r.ids) >= 1
  BY <1>1, EmptySeq
<1>3. Headroom \in Nat /\ NCtx \in Nat
  BY ServeAssumption, KvAssumption
<1> DEFINE n == Len(r.ids)
<1> HIDE DEF n
<1>4. E!Fits(r) <=> r.ids # <<>> /\ n + Headroom < NCtx
  BY DEF E!Fits, n
<1>5. TooLong(r.ids) <=> n < 1 \/ n + Headroom >= NCtx
  BY DEF TooLong, n
<1>6. n \in Nat /\ (r.ids # <<>> <=> n >= 1)
  BY <1>1, <1>2 DEF n
<1> QED
  BY <1>3, <1>4, <1>5, <1>6

\* The steps of the endpoint, in terms of what is seen.
LEMMA StepsAre ==
  ASSUME NEW c \in Clients
  PROVE  /\ (/\ mapAsked[c] = NoRequest
             /\ \E r \in Requests : /\ r.route # "other"
                                    /\ mapAsked' = [mapAsked EXCEPT ![c] = r]
             /\ UNCHANGED <<model, mapSaid, mapAnswered>>) => E!Ask(c)
         /\ (/\ mapAsked[c] # NoRequest
             /\ mapAsked' = [mapAsked EXCEPT ![c] = NoRequest]
             /\ mapSaid' = [mapSaid EXCEPT ![c] = <<>>]
             /\ mapAnswered' = [mapAnswered EXCEPT ![c] = NoAnswer]
             /\ UNCHANGED model) => E!Leave(c)
<1> USE DEF mapAsked, mapSaid, mapAnswered, MapAsked, MapSaid, MapAnswered, Seen
<1>1. E!NoRequest = NoRequest /\ E!NoAnswer = NoAnswer
  BY DEF E!NoRequest, NoRequest, E!NoAnswer, NoAnswer
<1>2. ASSUME /\ mapAsked[c] = NoRequest
             /\ \E r \in Requests : /\ r.route # "other"
                                    /\ mapAsked' = [mapAsked EXCEPT ![c] = r]
             /\ UNCHANGED <<model, mapSaid, mapAnswered>>
      PROVE  E!Ask(c)
  BY <1>1, <1>2 DEF E!Ask
<1>3. ASSUME /\ mapAsked[c] # NoRequest
             /\ mapAsked' = [mapAsked EXCEPT ![c] = NoRequest]
             /\ mapSaid' = [mapSaid EXCEPT ![c] = <<>>]
             /\ mapAnswered' = [mapAnswered EXCEPT ![c] = NoAnswer]
             /\ UNCHANGED model
      PROVE  E!Leave(c)
  BY <1>1, <1>3 DEF E!Leave
<1> QED
  BY <1>2, <1>3

\* A token that is said, in terms of what is seen.
LEMMA SayIs ==
  ASSUME NEW c \in Clients, mapAsked[c] # NoRequest, mapAnswered[c] = NoAnswer,
         mapAsked[c].route = "chat", E!Fits(mapAsked[c]),
         Len(mapSaid[c]) < NGen(mapAsked[c]),
         Argmax(model, mapAsked[c].ids \o mapSaid[c]) # Eog,
         mapSaid' = [mapSaid EXCEPT ![c] =
                       Append(@, Argmax(model, mapAsked[c].ids \o mapSaid[c]))],
         UNCHANGED <<model, mapAsked, mapAnswered>>
  PROVE  E!Say(c)
<1> USE DEF mapAsked, mapSaid, mapAnswered, MapAsked, MapSaid, MapAnswered, Seen
<1>1. E!NoRequest = NoRequest /\ E!NoAnswer = NoAnswer
  BY DEF E!NoRequest, NoRequest, E!NoAnswer, NoAnswer
<1>2. E!Waiting(c)
  BY <1>1 DEF E!Waiting
<1>3. E!Next1(c) = Argmax(model, mapAsked[c].ids \o mapSaid[c])
  BY DEF E!Next1
<1>4. E!Limit(mapAsked[c]) = NGen(mapAsked[c])
  BY DEF E!Limit, NGen
<1> QED
  BY <1>2, <1>3, <1>4 DEF E!Say

\* A request that ends, in terms of what is seen.
LEMMA EndIs ==
  ASSUME NEW c \in Clients, NEW a, NEW r \in Requests, mapAsked[c] = r,
         mapAnswered[c] = NoAnswer, r = asked[c], mapSaid[c] = said[c], Due(c, a),
         mapAnswered' = [mapAnswered EXCEPT ![c] = a],
         UNCHANGED <<model, mapAsked, mapSaid>>
  PROVE  E!End(c)
<1>1. E!NoRequest = NoRequest /\ E!NoAnswer = NoAnswer /\ r # NoRequest
  BY NothingAsked DEF E!NoRequest, NoRequest, E!NoAnswer, NoAnswer
<1>2. E!Fits(r) <=> ~TooLong(r.ids)
  BY FitsIs
<1>3. E!Waiting(c)
  BY <1>1 DEF E!Waiting, mapAsked, mapAnswered, MapAsked, MapAnswered, Seen
<1>4. E!Over(c) <=> Len(said[c]) = NGen(r) \/ Argmax(model, r.ids \o said[c]) = Eog
  BY DEF E!Over, E!Next1, E!Limit, NGen, mapAsked, mapSaid, MapAsked, MapSaid, Seen
<1> DEFINE done == [how |-> "done", n |-> 0]
           refused == [how |-> "refused", n |-> 0]
           failed == [how |-> "failed", n |-> 0]
           counted == [how |-> "counted", n |-> Len(r.ids)]
<1>5. /\ E!Ended("done") = done /\ E!Ended("refused") = refused /\ E!Ended("failed") = failed
  BY DEF E!Ended
<1>6. \/ r.route = "chat" /\ E!Fits(r) /\ E!Over(c) /\ a = done
      \/ r.route = "chat" /\ ~E!Fits(r) /\ a = refused
      \/ r.route = "count" /\ a = counted
      \/ said[c] = <<>> /\ a = failed
  BY <1>2, <1>4, Zenon DEF Due
<1> HIDE DEF done, refused, failed
<1>7. \/ /\ mapAsked[c].route = "chat" /\ E!Fits(mapAsked[c]) /\ E!Over(c)
         /\ mapAnswered' = [mapAnswered EXCEPT ![c] = E!Ended("done")]
      \/ /\ mapAsked[c].route = "chat" /\ ~E!Fits(mapAsked[c])
         /\ mapAnswered' = [mapAnswered EXCEPT ![c] = E!Ended("refused")]
      \/ /\ mapAsked[c].route = "count"
         /\ mapAnswered' = [mapAnswered EXCEPT ![c] =
                              [how |-> "counted", n |-> Len(mapAsked[c].ids)]]
      \/ /\ mapSaid[c] = <<>>
         /\ mapAnswered' = [mapAnswered EXCEPT ![c] = E!Ended("failed")]
  BY <1>5, <1>6, Zenon
<1> QED
  BY <1>3, <1>7 DEF E!End, mapAsked, mapSaid, mapAnswered, MapAsked, MapSaid, MapAnswered, Seen

\* What one client's step leaves of what the others see.
LEMMA OthersSeeNothing ==
  ASSUME NEW c \in Clients,
         \A d \in Clients : d # c => /\ client'[d] = client[d] /\ asked'[d] = asked[d]
                                     /\ said'[d] = said[d] /\ answered'[d] = answered[d]
  PROVE  /\ mapAsked' = [mapAsked EXCEPT ![c] = MapAsked(c)']
         /\ mapSaid' = [mapSaid EXCEPT ![c] = MapSaid(c)']
         /\ mapAnswered' = [mapAnswered EXCEPT ![c] = MapAnswered(c)']
<1>1. ASSUME NEW d \in Clients, d # c
      PROVE  /\ MapAsked(d)' = MapAsked(d) /\ MapSaid(d)' = MapSaid(d)
             /\ MapAnswered(d)' = MapAnswered(d)
  BY <1>1 DEF MapAsked, MapSaid, MapAnswered, Seen, Heard
<1> QED
  BY <1>1 DEF mapAsked, mapSaid, mapAnswered

\* A step that no client sees is a stutter of the endpoint.
LEMMA Unseen ==
  ASSUME UNCHANGED model,
         \A c \in Clients : /\ MapAsked(c)' = MapAsked(c) /\ MapSaid(c)' = MapSaid(c)
                            /\ MapAnswered(c)' = MapAnswered(c)
  PROVE  UNCHANGED E!vars
<1>1. mapAsked' = mapAsked /\ mapSaid' = mapSaid /\ mapAnswered' = mapAnswered
  BY DEF mapAsked, mapSaid, mapAnswered
<1>2. E!vars' = <<model, mapAsked, mapSaid, mapAnswered>>'
  BY DEF E!vars, mapAsked, mapSaid, mapAnswered, MapAsked, MapSaid, MapAnswered, Seen
<1> QED
  BY <1>1, <1>2, MapIs

\* So is one that leaves the clients where they are.
LEMMA ClientsUntouched ==
  ASSUME UNCHANGED <<model, client, asked, said, answered>>
  PROVE  UNCHANGED E!vars
<1>1. ASSUME NEW c \in Clients
      PROVE  /\ MapAsked(c)' = MapAsked(c) /\ MapSaid(c)' = MapSaid(c)
             /\ MapAnswered(c)' = MapAnswered(c)
  BY DEF MapAsked, MapSaid, MapAnswered, Seen, Heard
<1> QED
  BY <1>1, Unseen

\* A word to a client whose request is due ends the request, and is lost on a
\* client that went.
LEMMA WordToClient ==
  ASSUME EndInv, NEW c \in Clients, c = conn, client[c] \in {"sent", "gone"}, pc # "close",
         asked[c] \in Requests, asked[c].route # "other",
         NEW a \in Answer, client[c] = "sent" => Due(c, a),
         UNCHANGED <<model, client, asked, said>>,
         answered' = IF client[c] = "sent" THEN [answered EXCEPT ![c] = a]
                     ELSE answered
  PROVE  [E!Next]_(E!vars)
<1>1. CASE client[c] = "gone"
  BY <1>1, ClientsUntouched
<1>2. CASE client[c] = "sent"
  <2>1. answered \in [Clients -> Answer] /\ answered[c] = NoAnswer
    BY <1>2 DEF EndInv, OutsideKinds, ClientInv
  <2>2. answered'[c] = a /\ \A d \in Clients : d # c => answered'[d] = answered[d]
    BY <1>2, <2>1
  <2>3. /\ Seen(c) /\ Seen(c)' /\ Heard(c) /\ Heard(c)'
    BY <1>2 DEF Seen, Heard
  <2>4. /\ MapAsked(c) = asked[c] /\ MapAsked(c)' = MapAsked(c)
        /\ MapSaid(c) = said[c] /\ MapSaid(c)' = MapSaid(c)
        /\ MapAnswered(c) = NoAnswer /\ MapAnswered(c)' = a
    BY <2>1, <2>2, <2>3 DEF MapAsked, MapSaid, MapAnswered
  <2>5. /\ mapAsked' = [mapAsked EXCEPT ![c] = MapAsked(c)']
        /\ mapSaid' = [mapSaid EXCEPT ![c] = MapSaid(c)']
        /\ mapAnswered' = [mapAnswered EXCEPT ![c] = MapAnswered(c)']
    BY <2>2, OthersSeeNothing
  <2>6. /\ mapAsked[c] = MapAsked(c) /\ mapSaid[c] = MapSaid(c)
        /\ mapAnswered[c] = MapAnswered(c)
        /\ mapAsked = [mapAsked EXCEPT ![c] = mapAsked[c]]
        /\ mapSaid = [mapSaid EXCEPT ![c] = mapSaid[c]]
    BY DEF mapAsked, mapSaid, mapAnswered
  <2>7. UNCHANGED <<mapAsked, mapSaid>> /\ mapAnswered' = [mapAnswered EXCEPT ![c] = a]
    BY <2>4, <2>5, <2>6
  <2>8. E!End(c)
    BY <1>2, <2>4, <2>6, <2>7, EndIs
  <2> QED
    BY <2>8 DEF E!Next
<1> QED
  BY <1>1, <1>2

\* The steps of the server that say nothing to a client.
LEMMA QuietMaps ==
  ASSUME \/ WarmUp \/ Reopen \/ Accept \/ FeedPrompt
         \/ (OpenState /\ pc' # "close") \/ (BeginChat /\ pc' # "close")
         \/ (ReadRequest /\ UNCHANGED answered)
  PROVE  [E!Next]_(E!vars)
<1>1. UNCHANGED <<model, client, asked, said, answered>>
  BY DEF WarmUp, Reopen, Accept, FeedPrompt, OpenState, BeginChat, ReadRequest, FreshState,
         Feed, Forward, cacheVars, outside, replies
<1> QED
  BY <1>1, ClientsUntouched

\* The server ends a request as it is due.
LEMMA ToldMaps ==
  ASSUME KindsInv, EndInv,
         \/ CountTokens \/ RefuseChat \/ FinishReply
         \/ (OpenState /\ pc' = "close") \/ (BeginChat /\ pc' = "close")
         \/ (ReadRequest /\ ~UNCHANGED answered)
  PROVE  [E!Next]_(E!vars)
<1>1. /\ pc \in {"read", "count", "chat", "say"} /\ Serving
      /\ UNCHANGED <<model, client, asked, said>>
  BY DEF CountTokens, RefuseChat, FinishReply, OpenState, BeginChat, ReadRequest, outside,
         Serving, cacheVars
<1>2. PICK c \in Clients : c = conn
  BY <1>1 DEF EndInv, LineInv
<1>3. /\ asked[c] \in Requests /\ asked[c].route # "other"
      /\ pc # "read" => req = asked[c]
  <2>1. CASE pc = "read"
    BY <1>1, <1>2, <2>1, NothingAsked DEF KindsInv, CountTokens, RefuseChat, FinishReply,
       OpenState, BeginChat, ReadRequest
  <2>2. CASE pc # "read"
    BY <1>1, <1>2, <2>2 DEF EndInv, RouteInv
  <2> QED
    BY <2>1, <2>2
<1>4. client[c] \in {"sent", "gone"} /\ ClientInv(c)
  BY <1>1, <1>2, <1>3, NothingAsked DEF EndInv, LineInv, ClientInv, Live
<1>5. PICK r \in Requests : r = asked[c] /\ r.ids \in Seq(Token)
  BY <1>3, RequestIds
<1> SUFFICES \E a \in Answer :
               /\ client[c] = "sent" => Due(c, a)
               /\ answered' = IF client[c] = "sent" THEN [answered EXCEPT ![c] = a]
                              ELSE answered
  BY <1>1, <1>2, <1>3, <1>4, WordToClient
<1>6. CASE CountTokens
  <2> DEFINE a == [how |-> "counted", n |-> Len(r.ids)]
  <2>1. a \in Answer
    BY <1>5, LenProperties, AnswerFacts, Zenon
  <2>2. /\ answered' = IF client[c] = "sent" THEN [answered EXCEPT ![c] = a] ELSE answered
        /\ r.route = "count"
    BY <1>2, <1>3, <1>5, <1>6 DEF CountTokens, TellCount, EndInv, RouteInv
  <2>3. Due(c, a)
    BY <1>5, <2>2 DEF Due
  <2> QED
    BY <2>1, <2>2, <2>3
<1>7. CASE RefuseChat \/ (BeginChat /\ pc' = "close")
  <2> DEFINE a == [how |-> "refused", n |-> 0]
  <2>1. a \in Answer
    BY AnswerFacts, Zenon
  <2>2. /\ answered' = IF client[c] = "sent" THEN [answered EXCEPT ![c] = a] ELSE answered
        /\ r.route = "chat" /\ TooLong(r.ids)
    BY <1>2, <1>3, <1>5, <1>7 DEF RefuseChat, BeginChat, Tell, EndInv, RouteInv, TooLong
  <2>3. Due(c, a)
    BY <1>5, <2>2 DEF Due
  <2> QED
    BY <2>1, <2>2, <2>3
<1>8. CASE (OpenState /\ pc' = "close") \/ (ReadRequest /\ ~UNCHANGED answered)
  <2> DEFINE a == [how |-> "failed", n |-> 0]
  <2>1. a \in Answer
    BY AnswerFacts, Zenon
  <2>2. /\ answered' = IF client[c] = "sent" THEN [answered EXCEPT ![c] = a] ELSE answered
        /\ pc \in {"chat", "read"}
    BY <1>2, <1>8 DEF OpenState, ReadRequest, Tell
  <2>3. client[c] = "sent" => said[c] = <<>>
    BY <1>4, <2>2 DEF ClientInv
  <2>4. client[c] = "sent" => Due(c, a)
    BY <2>3 DEF Due
  <2> QED
    BY <2>1, <2>2, <2>4
<1>9. CASE FinishReply
  <2> DEFINE a == [how |-> "done", n |-> 0]
  <2>1. a \in Answer
    BY AnswerFacts, Zenon
  <2>2. /\ answered' = IF client[c] = "sent" THEN [answered EXCEPT ![c] = a] ELSE answered
        /\ pc = "say" /\ (pos - Len(r.ids) = NGen(r) \/ logits = Eog)
        /\ r.route = "chat" /\ ~TooLong(r.ids)
    BY <1>2, <1>3, <1>5, <1>9 DEF FinishReply, Tell, Produced, EndInv, RouteInv
  <2>3. ASSUME client[c] = "sent"
        PROVE  Due(c, a)
    <3>1. pos = Len(r.ids \o said[c]) /\ logits = Argmax(model, r.ids \o said[c])
      BY <1>2, <1>3, <1>5, <2>2, <2>3 DEF EndInv, ReplyInv
    <3>2. said[c] \in Seq(Token)
      BY DEF EndInv, OutsideKinds
    <3>3. /\ Len(r.ids \o said[c]) = Len(r.ids) + Len(said[c])
          /\ Len(r.ids) \in Nat /\ Len(said[c]) \in Nat
      BY <1>5, <3>2, ConcatProperties, LenProperties
    <3>4. pos - Len(r.ids) = Len(said[c])
      BY <3>1, <3>3
    <3> QED
      BY <1>5, <2>2, <3>1, <3>4 DEF Due
  <2> QED
    BY <2>1, <2>2, <2>3
<1> QED
  BY <1>6, <1>7, <1>8, <1>9

\* The other routes are not the endpoint's.
LEMMA OtherMaps ==
  ASSUME EndInv, Other
  PROVE  [E!Next]_(E!vars)
<1>1. /\ pc = "other" /\ Serving /\ UNCHANGED <<model, client, asked, said>>
      /\ Tell(conn, "served")
  BY DEF Other, outside, Serving, cacheVars
<1>2. PICK c \in Clients : c = conn
  BY <1>1 DEF EndInv, LineInv
<1>3. /\ asked[c].route = "other" /\ client[c] # "closed"
  BY <1>1, <1>2 DEF EndInv, RouteInv, LineInv, Live
<1>4. \A d \in Clients : d # c => answered'[d] = answered[d]
  BY <1>1, <1>2 DEF Tell, EndInv, OutsideKinds
<1>5. ASSUME NEW d \in Clients
      PROVE  /\ MapAsked(d)' = MapAsked(d) /\ MapSaid(d)' = MapSaid(d)
             /\ MapAnswered(d)' = MapAnswered(d)
  <2>1. CASE d = c
    BY <1>1, <1>3, <2>1 DEF MapAsked, MapSaid, MapAnswered, Seen, Heard
  <2>2. CASE d # c
    BY <1>1, <1>4, <2>2 DEF MapAsked, MapSaid, MapAnswered, Seen, Heard
  <2> QED
    BY <2>1, <2>2
<1> QED
  BY <1>1, <1>5, Unseen

\* A token that is written is the model's next.
LEMMA SayMaps ==
  ASSUME KindsInv, EndInv, Say
  PROVE  [E!Next]_(E!vars)
<1>1. /\ pc = "say" /\ Serving /\ UNCHANGED <<model, client, asked, answered>>
      /\ Produced < NGen(req) /\ logits # Eog
      /\ said' = IF client[conn] = "sent" THEN [said EXCEPT ![conn] = Append(@, logits)]
                 ELSE said
  BY DEF Say, Feed, Forward, outside, Serving
<1>2. PICK c \in Clients : c = conn
  BY <1>1 DEF EndInv, LineInv
<1>3. CASE client[c] # "sent"
  BY <1>1, <1>2, <1>3, ClientsUntouched
<1>4. CASE client[c] = "sent"
  <2>1. PICK r \in Requests : /\ r = asked[c] /\ r = req /\ r.ids \in Seq(Token)
                              /\ r.route = "chat" /\ ~TooLong(r.ids)
    BY <1>1, <1>2, RequestIds DEF EndInv, RouteInv
  <2>2. /\ pos = Len(r.ids \o said[c]) /\ logits = Argmax(model, r.ids \o said[c])
        /\ said \in [Clients -> Seq(Token)] /\ answered[c] = NoAnswer
    BY <1>1, <1>2, <1>4, <2>1 DEF EndInv, ReplyInv, OutsideKinds, ClientInv
  <2>3. Len(said[c]) < NGen(r)
    <3>1. /\ Len(r.ids \o said[c]) = Len(r.ids) + Len(said[c])
          /\ Len(r.ids) \in Nat /\ Len(said[c]) \in Nat
      BY <2>1, <2>2, ConcatProperties, LenProperties
    <3>2. pos - Len(r.ids) < NGen(r)
      BY <1>1, <2>1 DEF Produced
    <3>3. pos - Len(r.ids) = Len(said[c])
      BY <2>2, <3>1
    <3> QED
      BY <3>2, <3>3
  <2>4. /\ said'[c] = Append(said[c], logits)
        /\ \A d \in Clients : d # c => said'[d] = said[d]
    BY <1>1, <1>2, <1>4, <2>2
  <2>5. Seen(c) /\ Seen(c)' /\ Heard(c) /\ Heard(c)'
    BY <1>1, <1>4, <2>1 DEF Seen, Heard
  <2>6. /\ MapAsked(c) = r /\ MapAsked(c)' = r
        /\ MapSaid(c) = said[c] /\ MapSaid(c)' = Append(said[c], logits)
        /\ MapAnswered(c) = NoAnswer /\ MapAnswered(c)' = NoAnswer
    BY <1>1, <2>1, <2>2, <2>4, <2>5 DEF MapAsked, MapSaid, MapAnswered
  <2>7. /\ mapAsked' = [mapAsked EXCEPT ![c] = MapAsked(c)']
        /\ mapSaid' = [mapSaid EXCEPT ![c] = MapSaid(c)']
        /\ mapAnswered' = [mapAnswered EXCEPT ![c] = MapAnswered(c)']
    BY <1>1, <2>4, OthersSeeNothing
  <2>8. /\ mapAsked[c] = MapAsked(c) /\ mapSaid[c] = MapSaid(c)
        /\ mapAnswered[c] = MapAnswered(c)
        /\ mapAsked = [mapAsked EXCEPT ![c] = mapAsked[c]]
        /\ mapAnswered = [mapAnswered EXCEPT ![c] = mapAnswered[c]]
    BY DEF mapAsked, mapSaid, mapAnswered
  <2>9. /\ UNCHANGED <<mapAsked, mapAnswered>>
        /\ mapSaid' = [mapSaid EXCEPT ![c] =
                         Append(@, Argmax(model, mapAsked[c].ids \o mapSaid[c]))]
    BY <2>2, <2>6, <2>7, <2>8
  <2>10. E!Fits(r)
    BY <2>1, FitsIs
  <2>11. E!Say(c)
    BY <1>1, <2>1, <2>2, <2>3, <2>6, <2>8, <2>9, <2>10, NothingAsked, SayIs
  <2> QED
    BY <2>11 DEF E!Next
<1> QED
  BY <1>3, <1>4

\* A connection is closed when its client has been answered or went.
LEMMA CloseMaps ==
  ASSUME EndInv, Close
  PROVE  [E!Next]_(E!vars)
<1>1. /\ pc = "close" /\ Serving /\ UNCHANGED <<model, asked, said, answered>>
      /\ client' = [client EXCEPT ![conn] = "closed"]
  BY DEF Close, Serving, cacheVars, replies
<1>2. PICK c \in Clients : c = conn
  BY <1>1 DEF EndInv, LineInv
<1>3. /\ client[c] \in {"sent", "gone"} /\ ClientInv(c)
      /\ client \in [Clients -> Live \cup {"away", "closed"}]
  BY <1>1, <1>2 DEF EndInv, LineInv, RouteInv, OutsideKinds, Live
<1>4. client'[c] = "closed" /\ \A d \in Clients : d # c => client'[d] = client[d]
  BY <1>1, <1>2, <1>3
<1>5. Heard(c)' <=> Heard(c)
  BY <1>1, <1>2, <1>3, <1>4 DEF Heard, ClientInv
<1>6. ASSUME NEW d \in Clients
      PROVE  /\ MapAsked(d)' = MapAsked(d) /\ MapSaid(d)' = MapSaid(d)
             /\ MapAnswered(d)' = MapAnswered(d)
  <2>1. Heard(d)' <=> Heard(d)
    BY <1>1, <1>4, <1>5 DEF Heard
  <2> QED
    BY <1>1, <2>1 DEF MapAsked, MapSaid, MapAnswered, Seen
<1> QED
  BY <1>1, <1>6, Unseen

\* A connection that has sent nothing is not heard.
LEMMA ConnectMaps ==
  ASSUME EndInv, NEW c \in Clients, Connect(c)
  PROVE  [E!Next]_(E!vars)
<1>1. /\ client[c] = "away" /\ client' = [client EXCEPT ![c] = "connected"]
      /\ UNCHANGED <<model, asked, said, answered>>
  BY DEF Connect, cacheVars, replies
<1>2. /\ client'[c] = "connected" /\ \A d \in Clients : d # c => client'[d] = client[d]
  BY <1>1 DEF EndInv, OutsideKinds
<1>3. ASSUME NEW d \in Clients
      PROVE  /\ MapAsked(d)' = MapAsked(d) /\ MapSaid(d)' = MapSaid(d)
             /\ MapAnswered(d)' = MapAnswered(d)
  <2>1. Heard(d)' <=> Heard(d)
    BY <1>1, <1>2 DEF Heard
  <2> QED
    BY <1>1, <2>1 DEF MapAsked, MapSaid, MapAnswered, Seen
<1> QED
  BY <1>1, <1>3, Unseen

\* A request that is sent is asked, if its route is the endpoint's.
LEMMA SendMaps ==
  ASSUME KindsInv, EndInv, NEW c \in Clients, Send(c)
  PROVE  [E!Next]_(E!vars)
<1>1. /\ client[c] = "connected" /\ client' = [client EXCEPT ![c] = "sent"]
      /\ UNCHANGED <<model, said, answered>>
  BY DEF Send, cacheVars, replies
<1>2. PICK r \in Requests : asked' = [asked EXCEPT ![c] = r]
  BY DEF Send
<1>3. /\ client'[c] = "sent" /\ asked'[c] = r
      /\ \A d \in Clients : d # c => client'[d] = client[d] /\ asked'[d] = asked[d]
  BY <1>1, <1>2 DEF EndInv, OutsideKinds, KindsInv
<1>4. said[c] = <<>> /\ answered[c] = NoAnswer
  BY <1>1 DEF EndInv, ClientInv
<1>5. ~Heard(c) /\ Heard(c)'
  BY <1>1, <1>3 DEF Heard
<1>6. /\ MapAsked(c) = NoRequest /\ MapSaid(c) = <<>> /\ MapAnswered(c) = NoAnswer
      /\ MapAsked(c)' = (IF r.route = "other" THEN NoRequest ELSE r)
      /\ MapSaid(c)' = <<>> /\ MapAnswered(c)' = NoAnswer
  BY <1>1, <1>3, <1>4, <1>5 DEF MapAsked, MapSaid, MapAnswered, Seen
<1>7. /\ mapAsked' = [mapAsked EXCEPT ![c] = MapAsked(c)']
      /\ mapSaid' = [mapSaid EXCEPT ![c] = MapSaid(c)']
      /\ mapAnswered' = [mapAnswered EXCEPT ![c] = MapAnswered(c)']
  BY <1>1, <1>3, OthersSeeNothing
<1>8. /\ mapAsked[c] = MapAsked(c) /\ mapSaid[c] = MapSaid(c)
      /\ mapAnswered[c] = MapAnswered(c)
      /\ mapAsked = [mapAsked EXCEPT ![c] = mapAsked[c]]
      /\ mapSaid = [mapSaid EXCEPT ![c] = mapSaid[c]]
      /\ mapAnswered = [mapAnswered EXCEPT ![c] = mapAnswered[c]]
  BY DEF mapAsked, mapSaid, mapAnswered
<1>9. UNCHANGED <<model, mapSaid, mapAnswered>>
  BY <1>1, <1>6, <1>7, <1>8
<1>10. CASE r.route = "other"
  <2>1. mapAsked' = mapAsked
    BY <1>6, <1>7, <1>8, <1>10
  <2>2. E!vars' = <<model, mapAsked, mapSaid, mapAnswered>>'
    BY DEF E!vars, mapAsked, mapSaid, mapAnswered, MapAsked, MapSaid, MapAnswered, Seen
  <2> QED
    BY <1>9, <2>1, <2>2, MapIs
<1>11. CASE r.route # "other"
  <2>1. mapAsked' = [mapAsked EXCEPT ![c] = r] /\ mapAsked[c] = NoRequest
    BY <1>6, <1>7, <1>8, <1>11
  <2>2. E!Ask(c)
    BY <1>9, <1>11, <2>1, StepsAre
  <2> QED
    BY <2>2 DEF E!Next
<1> QED
  BY <1>10, <1>11

\* A client that goes, before its answer or after, leaves the endpoint if it had
\* asked it anything.
LEMMA GoneMaps ==
  ASSUME KindsInv, EndInv, NEW c \in Clients, HangUp(c) \/ Leave(c)
  PROVE  [E!Next]_(E!vars)
<1>1. /\ said' = [said EXCEPT ![c] = <<>>] /\ answered' = [answered EXCEPT ![c] = NoAnswer]
      /\ UNCHANGED model /\ client[c] # "away"
  BY DEF HangUp, Leave, cacheVars
<1>2. /\ client'[c] \in {"gone", "away"}
      /\ \A d \in Clients : d # c => client'[d] = client[d] /\ asked'[d] = asked[d]
  BY DEF HangUp, Leave, EndInv, OutsideKinds, KindsInv
<1>3. \A d \in Clients : d # c => said'[d] = said[d] /\ answered'[d] = answered[d]
  BY <1>1 DEF EndInv, OutsideKinds
<1>4. ~Heard(c)'
  BY <1>2 DEF Heard
<1>5. MapAsked(c)' = NoRequest /\ MapSaid(c)' = <<>> /\ MapAnswered(c)' = NoAnswer
  BY <1>4 DEF MapAsked, MapSaid, MapAnswered, Seen
<1>6. /\ mapAsked' = [mapAsked EXCEPT ![c] = MapAsked(c)']
      /\ mapSaid' = [mapSaid EXCEPT ![c] = MapSaid(c)']
      /\ mapAnswered' = [mapAnswered EXCEPT ![c] = MapAnswered(c)']
  BY <1>2, <1>3, OthersSeeNothing
<1>7. /\ mapAsked[c] = MapAsked(c) /\ mapSaid[c] = MapSaid(c)
      /\ mapAnswered[c] = MapAnswered(c)
  BY DEF mapAsked, mapSaid, mapAnswered
<1>8. CASE Seen(c)
  <2>1. asked[c] \in Requests
    BY <1>8 DEF Seen, Heard, EndInv, ClientInv
  <2>2. MapAsked(c) # NoRequest
    BY <1>8, <2>1, NothingAsked DEF MapAsked
  <2>3. E!Leave(c)
    BY <1>1, <1>5, <1>6, <1>7, <2>2, StepsAre
  <2> QED
    BY <2>3 DEF E!Next
<1>9. CASE ~Seen(c)
  <2>1. Heard(c) => said[c] = <<>>
    BY <1>9 DEF Seen, EndInv, ClientInv
  <2>2. MapAsked(c) = NoRequest /\ MapSaid(c) = <<>> /\ MapAnswered(c) = NoAnswer
    BY <1>9, <2>1 DEF MapAsked, MapSaid, MapAnswered
  <2>3. ASSUME NEW d \in Clients
        PROVE  /\ MapAsked(d)' = MapAsked(d) /\ MapSaid(d)' = MapSaid(d)
               /\ MapAnswered(d)' = MapAnswered(d)
    <3>1. CASE d = c
      BY <1>5, <2>2, <3>1
    <3>2. CASE d # c
      BY <1>2, <1>3, <3>2 DEF MapAsked, MapSaid, MapAnswered, Seen, Heard
    <3> QED
      BY <3>1, <3>2
  <2> QED
    BY <1>1, <2>3, Unseen
<1> QED
  BY <1>8, <1>9

\* The server begins where the endpoint begins.
LEMMA InitMaps ==
  ASSUME Init
  PROVE  E!Init
<1>1. /\ model \in Models /\ client = [c \in Clients |-> "away"]
  BY DEF Init, CacheInit
<1>2. \A c \in Clients : ~Heard(c)
  BY <1>1 DEF Heard
<1>3. E!NoRequest = NoRequest /\ E!NoAnswer = NoAnswer
  BY DEF E!NoRequest, NoRequest, E!NoAnswer, NoAnswer
<1> QED
  BY <1>1, <1>2, <1>3 DEF E!Init

\* Every step of the server or of a client is a step of the endpoint or none.
LEMMA StepMaps ==
  ASSUME ServeInv, EndInv, [Next]_vars
  PROVE  [E!Next]_(E!vars)
<1> USE DEF ServeInv
<1>1. CASE UNCHANGED vars
  BY <1>1, ClientsUntouched DEF vars, cacheVars, outside, replies
<1>2. CASE WarmUp \/ Reopen \/ Accept \/ FeedPrompt
  BY <1>2, QuietMaps
<1>3. CASE ReadRequest \/ OpenState \/ BeginChat
  BY <1>3, QuietMaps, ToldMaps
<1>4. CASE CountTokens \/ RefuseChat \/ FinishReply \/ Other
  BY <1>4, ToldMaps, OtherMaps
<1>5. CASE Say \/ Close
  BY <1>5, SayMaps, CloseMaps
<1>6. CASE \E c \in Clients : Connect(c) \/ Send(c) \/ HangUp(c) \/ Leave(c)
  BY <1>6, ConnectMaps, SendMaps, GoneMaps
<1> QED
  BY <1>1, <1>2, <1>3, <1>4, <1>5, <1>6 DEF Next, Server

(* Each client is answered as if it were alone, for every set of clients,  *)
(* requests and models: what it hears is the model's greedy continuation   *)
(* of its own conversation, or the end its own request calls for, although *)
(* the state and the cache it is served from are the ones the others left  *)
(* (chat and serve_one, charsiu_serve.c).                                  *)
THEOREM ServedAsIfAlone ==
  ASSUME ModelsAnswer
  PROVE  Spec => ImplementsEndpoint
<1>1. Init => EndInv /\ E!Init
  BY InitEnd, InitMaps
<1>2. ServeInv /\ EndInv /\ [Next]_vars => EndInv' /\ [E!Next]_(E!vars)
  BY EndStep, StepMaps
<1>3. Spec => []ServeInv
  BY ServeInvariance
<1> QED
  BY <1>1, <1>2, <1>3, PTL DEF Spec, ImplementsEndpoint, E!Spec
=============================================================================
