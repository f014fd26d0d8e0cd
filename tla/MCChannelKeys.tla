--------------------------- MODULE MCChannelKeys ---------------------------
(***************************************************************************)
(* Small instances of ChannelKeys, and the forward loop of message_key     *)
(* step by step, to be compared with its closed form SkipTo.               *)
(***************************************************************************)
EXTENDS ChannelKeys, FiniteSetsExt

\* One turn of the `while self.n < target` loop: buffer the key of n, step the
\* chain, then evict from the front of the queue while over the cap.
LoopTurn(c) ==
    LET held   == [p \in DOMAIN c.skipped \cup {c.n} |->
                     IF p = c.n THEN c.chain_key ELSE c.skipped[p]]
        queued == Append(c.order, c.n)
        full   == Cardinality(DOMAIN held) > MAX_SKIPPED_TOTAL
    IN  [chain_key |-> Advance(c.chain_key, 1),
         n         |-> c.n + 1,
         skipped   |-> IF full THEN [p \in DOMAIN held \ {Head(queued)} |-> held[p]] ELSE held,
         order     |-> IF full THEN Tail(queued) ELSE queued]

LoopTo(c, target) ==
    LET f[k \in 0..(target - c.n)] == IF k = 0 THEN c ELSE LoopTurn(f[k - 1])
    IN  f[target - c.n]

\* Chains a receiver can have: new at some position, or after opening one or
\* two messages in reach.
OpenedAny(C) ==
    C \cup {message_key(c, t).chain : <<c, t>> \in
             {x \in C \X Position : KeyOutcome(x[1], x[2]) \in {"buffered", "forward"}}}
Chains == OpenedAny(OpenedAny(
    {from_distribution([chain_key |-> [seed |-> s, step |-> n], n |-> n]) :
        <<s, n>> \in Seeds \X Position}))

\* For every such chain and every jump within the bound, the closed form used by
\* the model is what the code's loop computes.
ASSUME LoopMatchesClosedForm ==
    \A c \in Chains : \A t \in c.n..Min({c.n + MAX_SKIP, U32Max - 1}) :
        LoopTo(c, t) = SkipTo(c, t)
=============================================================================
