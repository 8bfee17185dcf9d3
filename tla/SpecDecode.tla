----------------------------- MODULE SpecDecode -----------------------------
(***************************************************************************)
(* The turn loop of tools/charsiu_run.c at temperature 0, over KvCache:    *)
(* the prompt in batched chunks with the token loop behind them, then the  *)
(* reply, one forward a token or, with --spec, one pass of llama_spec_step *)
(* at a time: draft, verify in one batch, accept what matches, roll s->pos *)
(* back.  -i keeps the conversation from turn to turn, --repeat starts it  *)
(* again from position 0.                                                  *)
(***************************************************************************)
EXTENDS KvCache, SequencesExt, FiniteSetsExt

CONSTANTS
    Eog,          \* the token that ends a turn (tokenizer_is_eog)
    Prompts,      \* the prompts a turn may bring
    NGen,         \* -n
    Chunk,        \* CHARSIU_PREFILL_CHUNK, the widest chunk asked for
    Cap,          \* llama_prefill_chunk_cap, the widest the model allows
    NGram,        \* sp->ngram, the longest n-gram the drafter tries
    Configs,      \* how the program may be started, see ConfigType
    MaxTurns,     \* bound: turns of a session; with --repeat, its N
    MaxRefusals   \* bound: batches refused at run time

(* k is --spec (0: off), junk is CHARSIU_SPEC_JUNK, mirror is              *)
(* CHARSIU_ATTN_NPU, repeat tells --repeat from -i, and rail is            *)
(* charsiu_npu_overlap_ok: the board's supply is inside the envelope.      *)
ConfigType == [k : 0..5, junk : BOOLEAN, mirror : {"off", "auto", "on"},
               repeat : BOOLEAN, rail : BOOLEAN]

ASSUME SpecAssumption ==
    /\ Eog \in Token
    /\ Prompts \subseteq Seq(Token) \ {<<>>}
    /\ NGen \in Nat \ {0}
    /\ Chunk \in Nat
    /\ Cap \in Nat
    /\ NGram \in Nat
    /\ Configs \subseteq ConfigType
    /\ MaxTurns \in Nat
    /\ MaxRefusals \in Nat

VARIABLES
    cfg,        \* the options of this session
    phase,      \* where the loop is: "idle" between turns, "prompt", "say",
                \* "feed" (after the label next:), "over" at the turn's end
    turn,       \* turns begun
    prompt,     \* ids
    fed,        \* done, then i: how much of ids is in the cache
    batching,   \* no chunk of this prompt has been refused yet
    text,       \* history: the conversation as its reader has it
    produced,   \* tokens of this reply printed so far
    pend,       \* pend[ipend..npend): committed, not yet printed
    hist,       \* sp->hist
    off,        \* sp->off
    refusals    \* history: batches refused, for the bound

loopVars == <<cfg, phase, turn, prompt, fed, batching, text, produced, pend,
              hist, off, refusals>>
vars == <<cacheVars, loopVars>>

TypeOK ==
    /\ CacheTypeOK
    /\ cfg \in Configs
    /\ phase \in {"idle", "prompt", "say", "feed", "over"}
    /\ turn \in 0..MaxTurns
    /\ prompt \in Prompts \cup {<<>>}
    /\ fed \in 0..Len(prompt)
    /\ batching \in BOOLEAN
    /\ text \in Seq(Token)
    /\ produced \in 0..NGen
    /\ pend \in Seq(Token) /\ Len(pend) <= 6
    /\ hist \in Seq(Token) /\ Len(hist) <= NCtx
    /\ off \in BOOLEAN
    /\ refusals \in 0..MaxRefusals

Init ==
    /\ CacheInit
    /\ cfg \in Configs
    /\ phase = "idle"
    /\ turn = 0
    /\ prompt = <<>>
    /\ fed = 0
    /\ batching = TRUE
    /\ text = <<>>
    /\ produced = 0
    /\ pend = <<>>
    /\ hist = <<>>
    /\ off = FALSE
    /\ refusals = 0

------------------------------------------------------------------------------
(* The prompt.                                                             *)

Least(a, b) == IF a < b THEN a ELSE b

(* A turn is begun only when its prompt and a full reply fit what is left  *)
(* of the context.                                                         *)
BeginTurn(ids) ==
    /\ phase = "idle"
    /\ turn < MaxTurns
    /\ cfg.repeat /\ turn > 0 => ids = prompt
    /\ pos + Len(ids) + NGen < NCtx
    /\ phase' = "prompt"
    /\ turn' = turn + 1
    /\ prompt' = ids
    /\ fed' = 0
    /\ batching' = TRUE
    /\ text' = text \o ids
    /\ produced' = 0
    /\ UNCHANGED <<cacheVars, cfg, pend, hist, off, refusals>>

Even(w) == (w \div 2) * 2

(* prefill_width: the widest even width that is left and allowed.  Below   *)
(* the envelope the device refuses 8 and 10, and they are split, 4 + 4 and *)
(* 6 + 4.                                                                  *)
PrefillWidth(rem, cap) ==
    LET w == Even(Least(rem, cap))
    IN IF w \in {8, 10} /\ ~cfg.rail THEN w - 4 ELSE w

(* A prompt that fits the model's ceiling goes in one chunk, unless its    *)
(* width would be 2 mod 4.  Cap = Chunk is CHARSIU_PREFILL_ONECHUNK=0.     *)
ChunkOf(n) ==
    IF Chunk < n /\ n <= Cap /\ Even(n) % 4 = 0 THEN n ELSE Least(Chunk, Cap)

(* The chunk is a maximum, made a width once and 2 at the least.           *)
Limit(n) ==
    LET chunk == IF ChunkOf(n) < 2 THEN 2 ELSE ChunkOf(n)
    IN PrefillWidth(chunk, chunk)

Width(rem) == PrefillWidth(rem, Limit(Len(prompt)))

(* Mutant: the width is not tested, and an empty chunk is fed for ever.    *)
ChunkDueAtAnyWidth == phase = "prompt" /\ batching

ChunkDue == phase = "prompt" /\ batching /\ Width(Len(prompt) - fed) >= 2
NextChunk == SubSeq(prompt, fed + 1, fed + Width(Len(prompt) - fed))

PrefillChunk ==
    /\ ChunkDue
    /\ PrefillBatch(NextChunk, cfg.mirror, Len(prompt))
    /\ fed' = fed + Len(NextChunk)
    /\ UNCHANGED <<cfg, phase, turn, prompt, batching, text, produced, pend,
                   hist, off, refusals>>

ChunkRefused ==
    /\ ChunkDue
    /\ refusals < MaxRefusals
    /\ refusals' = refusals + 1
    /\ BatchRefused(NextChunk, cfg.mirror, Len(prompt))
    /\ batching' = FALSE
    /\ UNCHANGED <<cfg, phase, turn, prompt, fed, text, produced, pend, hist,
                   off>>

PromptToken ==
    /\ phase = "prompt"
    /\ ~ChunkDue
    /\ fed < Len(prompt)
    /\ Forward(prompt[fed + 1])
    /\ fed' = fed + 1
    /\ UNCHANGED <<cfg, phase, turn, prompt, batching, text, produced, pend,
                   hist, off, refusals>>

(* The prompt is in: llama_spec_init, and the prompt into the history.     *)
PromptDone ==
    /\ phase = "prompt"
    /\ fed = Len(prompt)
    /\ phase' = "say"
    /\ pend' = <<>>
    /\ hist' = IF cfg.k > 0 THEN prompt ELSE <<>>
    /\ off' = FALSE
    /\ UNCHANGED <<cacheVars, cfg, turn, prompt, fed, batching, text, produced,
                   refusals>>

------------------------------------------------------------------------------
(* The reply.                                                              *)

(* The token this iteration prints: the oldest committed one, or the one   *)
(* the last forward favours.                                               *)
Decided == IF pend # <<>> THEN Head(pend) ELSE logits

SayEog ==
    /\ phase = "say"
    /\ Decided = Eog
    /\ phase' = "over"
    /\ UNCHANGED <<cacheVars, cfg, turn, prompt, fed, batching, text, produced,
                   pend, hist, off, refusals>>

Say ==
    /\ phase = "say"
    /\ Decided # Eog
    /\ text' = Append(text, Decided)
    /\ pend' = IF pend # <<>> THEN Tail(pend) ELSE <<>>
    /\ produced' = produced + 1
    /\ phase' = "feed"
    /\ UNCHANGED <<cacheVars, cfg, turn, prompt, fed, batching, hist, off,
                   refusals>>

Tok == text[Len(text)]

(* The loop's own end, at i < n_gen.                                       *)
Around == phase' = IF produced = NGen THEN "over" ELSE "say"

(* The label next:.  Its break at s->pos >= n_ctx is never taken: a turn   *)
(* is begun only with room for all of it.                                  *)
StillPending ==
    /\ phase = "feed"
    /\ pend # <<>>
    /\ Around
    /\ UNCHANGED <<cacheVars, cfg, turn, prompt, fed, batching, text, produced,
                   pend, hist, off, refusals>>

PassDue == phase = "feed" /\ pend = <<>>

PlainForward ==
    /\ PassDue
    /\ cfg.k = 0
    /\ Forward(Tok)
    /\ Around
    /\ UNCHANGED <<cfg, turn, prompt, fed, batching, text, produced, pend,
                   hist, off, refusals>>

------------------------------------------------------------------------------
(* llama_spec_step.                                                        *)

(* spec_push, of several tokens: what does not fit the history is dropped. *)
Pushed(h, toks) == SubSeq(h \o toks, 1, Least(Len(h) + Len(toks), NCtx))

(* spec_draft: what followed the newest earlier occurrence of the longest  *)
(* n-gram that ends the history, up to k tokens of it.                     *)
Occurrences(h, ng) ==
    {i \in 0..(Len(h) - ng - 1) :
        SubSeq(h, i + 1, i + ng) = SubSeq(h, Len(h) - ng + 1, Len(h))}
Lookup(h, k) ==
    LET seen == {ng \in 1..NGram : Occurrences(h, ng) # {}}
        from == Max(seen) + Max(Occurrences(h, Max(seen)))
    IN IF seen = {} THEN <<>>
       ELSE SubSeq(h, from + 1, Least(from + k, Len(h)))

(* What a pass may draft; junk drafts are any tokens at all.               *)
Drafted(h) ==
    IF off THEN {<<>>}
    ELSE IF cfg.junk THEN [1..cfg.k -> Token]
    ELSE {Lookup(h, cfg.k)}
(* Mutant: the padding row is forgotten.                                   *)
FittingUnpadded(d) == IF d # <<>> /\ pos + 1 + Len(d) > NCtx THEN <<>> ELSE d

(* Every row must fit the cache, the padding one included, or nothing is   *)
(* drafted.                                                                *)
Fitting(d) == IF d # <<>> /\ pos + 1 + Len(d) + 1 > NCtx THEN <<>> ELSE d
Drafts == {Fitting(d) : d \in Drafted(Pushed(hist, <<Tok>>))}

(* Row 0 is the last committed token, the drafts follow, and the last of   *)
(* them again where the width would be odd.                                *)
PassRows(d) ==
    <<Tok>> \o d \o IF Len(d) % 2 = 0 THEN <<d[Len(d)]>> ELSE <<>>

(* Mutant: a draft is compared with the answer of its own row.             *)
MatchingOwnRow(store, d) ==
    {a \in 0..Len(d) : \A j \in 1..a : d[j] = After(store, pos + j)}

(* How many of the drafts are what the model itself says after the row     *)
(* before them, when its rows attend over the store.                       *)
Matching(store, d) ==
    {a \in 0..Len(d) : \A j \in 1..a : d[j] = After(store, pos + j - 1)}
Accepted(store, d) == Max(Matching(store, d))

PlainPass ==
    /\ PassDue
    /\ cfg.k > 0
    /\ <<>> \in Drafts
    /\ hist' = Pushed(hist, <<Tok>>)
    /\ Forward(Tok)
    /\ pend' = <<logits'>>
    /\ Around
    /\ UNCHANGED <<cfg, turn, prompt, fed, batching, text, produced, off,
                   refusals>>

(* Mutant: s->pos is left past every row of the pass.                      *)
CommitAll(store, d) ==
    LET a == Accepted(store, d)
        good == SubSeq(d, 1, a)
    IN /\ pend' = Append(good, After(store, pos + a))
       /\ pos' = pos + Len(PassRows(d))
       /\ hist' = Pushed(hist, <<Tok>> \o good)

(* Verified: the accepted drafts and the model's own next token are        *)
(* committed, and s->pos is rolled back over the rows that were not.       *)
Commit(store, d) ==
    LET a == Accepted(store, d)
        good == SubSeq(d, 1, a)
    IN /\ pend' = Append(good, After(store, pos + a))
       /\ pos' = pos + 1 + a
       /\ hist' = Pushed(hist, <<Tok>> \o good)

SpecPass ==
    /\ PassDue
    /\ cfg.k > 0
    /\ \E d \in Drafts \ {<<>>} :
         /\ BatchLayers(PassRows(d), cfg.mirror, 0)
         /\ \E store \in Read(pos + Len(PassRows(d))) : Commit(store, d)
    /\ Around
    /\ UNCHANGED <<logits, cfg, turn, prompt, fed, batching, text, produced,
                   off, refusals>>

(* The batched forward refuses the pass: speculation is off for the rest   *)
(* of the turn, and the same token goes through the step again.            *)
SpecRefused ==
    /\ PassDue
    /\ cfg.k > 0
    /\ refusals < MaxRefusals
    /\ refusals' = refusals + 1
    /\ \E d \in Drafts \ {<<>>} : BatchRefused(PassRows(d), cfg.mirror, 0)
    /\ off' = TRUE
    /\ hist' = Pushed(hist, <<Tok>>)
    /\ UNCHANGED <<cfg, phase, turn, prompt, fed, batching, text, produced,
                   pend>>

------------------------------------------------------------------------------
(* The end of a turn.  --repeat puts s->pos back to 0 "and nothing else".  *)
EndTurn ==
    /\ phase = "over"
    /\ phase' = "idle"
    /\ IF cfg.repeat THEN pos' = 0 /\ text' = <<>> ELSE UNCHANGED <<pos, text>>
    /\ UNCHANGED <<model, rows, logits, mirror, packed, mirrorIs, cfg, turn,
                   prompt, fed, batching, produced, pend, hist, off, refusals>>

Turning ==
    \/ PrefillChunk \/ ChunkRefused \/ PromptToken \/ PromptDone
    \/ SayEog \/ Say \/ StillPending
    \/ PlainForward \/ PlainPass \/ SpecPass \/ SpecRefused
    \/ EndTurn

Next == (\E ids \in Prompts : BeginTurn(ids)) \/ Turning

Spec == Init /\ [][Next]_vars
FairSpec == Spec /\ WF_vars(Turning)

------------------------------------------------------------------------------
(* The tokens decided and not yet printed while a reply is being given.    *)
Decisions ==
    CASE phase = "say" -> IF pend # <<>> THEN pend ELSE <<logits>>
      [] phase = "feed" -> pend
      [] OTHER -> <<>>

(* The cache holds the conversation and nothing else: what was printed,    *)
(* and what is committed to be, up to the token still to be fed; between   *)
(* turns, exactly what the reader has seen.  "Rolling back is one          *)
(* assignment" (llama.c:8954) is about this: a rejected draft left below   *)
(* s->pos, an accepted one left above it or a token fed twice breaks it.   *)
Conversation ==
    CASE phase = "prompt" -> SubSeq(text, 1, Len(text) - Len(prompt) + fed)
      [] phase \in {"say", "feed"} -> Front(text \o Decisions)
      [] OTHER -> text
CacheIsText ==
    phase # "over" =>
        [i \in 1..pos |-> rows[i - 1]] = Conversation

(* The promise of the header: "bit-identical to the plain greedy loop by   *)
(* construction -- the drafts decide how many tokens one weight read       *)
(* yields, never which tokens" (charsiu_llm.h:1290).  The token loop, the  *)
(* batched prefill and the speculative pass all implement the plain greedy *)
(* conversation: every printed token is the model's own next one after all *)
(* that was said before it, and a turn ends only where that would.         *)
Greedy == INSTANCE GreedyDecode WITH
              talking <- phase # "idle", said <- produced
ImplementsGreedy == Greedy!Spec

(* Every prompt is answered to its end: no pass commits nothing, and no    *)
(* refused batch is retried for ever.                                      *)
EveryTurnEnds == phase # "idle" ~> phase = "idle"
==============================================================================
