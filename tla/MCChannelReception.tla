-------------------------- MODULE MCChannelReception --------------------------
(* Two chains.  Chain 1 has its key from a rotation and carries messages and *)
(* a file manifest.  The key of chain 2 only arrives with a sibling device's *)
(* inheritance, so its messages wait and have to be woken.                   *)
EXTENDS ChannelReception, TLC

CONSTANTS k, a0, f1, a3, s2, b0, b1, b3, s0

\* Both lanes on one chain, and a snapshot that can jump it over a gap.
LaneEvents == {k, a0, f1, s2, a3}
\* Messages that wait for a key, then for the gap to close.
WakeEvents == {b0, b1, b3, s0}
\* One message that waits for its key while an unrelated event arrives.
RaceEvents == {b0, s0, k}

MCEv ==
    k  :> [kind |-> "rotation",    chain |-> 1, n |-> 0] @@
    a0 :> [kind |-> "message",     chain |-> 1, n |-> 0] @@
    f1 :> [kind |-> "file",        chain |-> 1, n |-> 1] @@
    a3 :> [kind |-> "message",     chain |-> 1, n |-> 3] @@
    s2 :> [kind |-> "inheritance", chain |-> 1, n |-> 2] @@
    b0 :> [kind |-> "message",     chain |-> 2, n |-> 0] @@
    b1 :> [kind |-> "message",     chain |-> 2, n |-> 1] @@
    b3 :> [kind |-> "message",     chain |-> 2, n |-> 3] @@
    s0 :> [kind |-> "inheritance", chain |-> 2, n |-> 0]

\* An author's own events are causally ordered; the sibling's is concurrent.
MCParents ==
    k  :> {} @@ a0 :> {k} @@ f1 :> {k, a0} @@ a3 :> {k, a0, f1} @@ s2 :> {} @@
    b0 :> {} @@ b1 :> {b0} @@ b3 :> {b0, b1} @@ s0 :> {}

\* Bound: the events of one of the two cases.
OneCase == Retained \subseteq LaneEvents \/ Retained \subseteq WakeEvents

AllEvents == LaneEvents \cup WakeEvents
===============================================================================
