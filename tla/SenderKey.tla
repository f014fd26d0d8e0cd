------------------------------ MODULE SenderKey ------------------------------
(***************************************************************************)
(* The symmetric sender-key ratchet of channels, as pure operators:        *)
(* channel/sender_key.rs and its device-local checkpoint codec.            *)
(*                                                                         *)
(* Keys are symbolic.  A chain key is the seed drawn by `generate` and the *)
(* number of kdf_ck steps taken from it, so whether a chain key belongs to *)
(* the position its owner thinks it is at is a fact that can be wrong.     *)
(* kdf_ck is injective, hence the message key derived from a chain key is  *)
(* identified with that chain key.                                         *)
(***************************************************************************)
EXTENDS Integers, Sequences, FiniteSets

CONSTANTS
    Seeds,              \* the random chain keys `generate` can draw
    U32Max,             \* largest representable position (u32::MAX)
    MAX_SKIP,           \* longest forward jump of one open
    MAX_SKIPPED_TOTAL   \* buffered skipped keys per chain

ASSUME SenderKeyAssumption ==
    /\ U32Max \in Nat
    /\ MAX_SKIP \in Nat
    /\ MAX_SKIPPED_TOTAL \in Nat

Position == 0..U32Max

ChainKey == [seed: Seeds, step: Nat]

\* kdf_ck iterated k times.
Advance(ck, k) == [ck EXCEPT !.step = @ + k]

Elems(s) == {s[i] : i \in 1..Len(s)}

-----------------------------------------------------------------------------
(* SenderKey: a member's own sending chain.                                *)

SenderKeyType == [chain_key: ChainKey, n: Position]

generate(seed) == [chain_key |-> [seed |-> seed, step |-> 0], n |-> 0]

\* A distribution is the same pair of fields, sealed to the members.
distribution(sk) == [chain_key |-> sk.chain_key, n |-> sk.n]

\* checked_add refuses the last position instead of wrapping.
CanRatchet(sk) == sk.n < U32Max

try_ratchet(sk) == [chain_key |-> Advance(sk.chain_key, 1), n |-> sk.n + 1]

-----------------------------------------------------------------------------
(* SenderChain: a receiver's view of one sending chain.                    *)

ChainType ==
    [chain_key: ChainKey, n: Position,
     skipped: UNION {[S -> ChainKey] : S \in SUBSET Position},
     order: Seq(Position)]

from_distribution(skd) ==
    [chain_key |-> skd.chain_key, n |-> skd.n, skipped |-> <<>>, order |-> <<>>]

current_distribution(c) == [chain_key |-> c.chain_key, n |-> c.n]

\* Mutant: any snapshot is adopted, also one that lies behind the chain.
refresh_distribution_Always(c, skd) == [c EXCEPT !.chain_key = skd.chain_key, !.n = skd.n]

\* Mutant: the jump starts a new chain, without the buffered keys of the old one.
refresh_distribution_Restart(c, skd) ==
    IF skd.n - c.n > MAX_SKIP THEN from_distribution(skd) ELSE c

\* Only a gap the ratchet cannot cross is jumped; buffered keys survive it.
refresh_distribution(c, skd) ==
    IF skd.n - c.n > MAX_SKIP
    THEN [c EXCEPT !.chain_key = skd.chain_key, !.n = skd.n]
    ELSE c

\* `order.retain(|k| k != p)`, for an order without duplicates.
Retain(order, p) ==
    LET at == CHOOSE i \in 1..Len(order) : order[i] = p
    IN  IF p \in Elems(order)
        THEN [i \in 1..(Len(order) - 1) |-> IF i < at THEN order[i] ELSE order[i + 1]]
        ELSE order

\* The buffered key of p is taken out of the map and out of the queue.
TakeSkipped(c, p) ==
    [c EXCEPT !.skipped = [q \in DOMAIN c.skipped \ {p} |-> c.skipped[q]],
              !.order = Retain(c.order, p)]

\* The forward loop in closed form: buffer the keys of n .. target-1 behind
\* the ones already held and drop from the front what exceeds the cap.
Buffered(c, target) == c.order \o [i \in 1..(target - c.n) |-> c.n + i - 1]

Overflow(len) == IF len > MAX_SKIPPED_TOTAL THEN len - MAX_SKIPPED_TOTAL ELSE 0

SkipTo(c, target) ==
    LET all  == Buffered(c, target)
        kept == SubSeq(all, Overflow(Len(all)) + 1, Len(all))
    IN  [chain_key |-> Advance(c.chain_key, target - c.n),
         n         |-> target,
         skipped   |-> [p \in Elems(kept) |->
                          IF p \in DOMAIN c.skipped
                          THEN c.skipped[p]
                          ELSE Advance(c.chain_key, p - c.n)],
         order     |-> kept]

\* The positions whose keys the cap costs on the way to target.
Evicted(c, target) ==
    LET all == Buffered(c, target)
    IN  IF target \in DOMAIN c.skipped THEN {}
        ELSE {all[i] : i \in 1..Overflow(Len(all))}

\* How message_key ends for a target: from the buffer, refused, or forward.
KeyOutcome(c, target) ==
    IF target \in DOMAIN c.skipped THEN "buffered"
    ELSE IF target < c.n THEN "consumed"
    ELSE IF target = U32Max THEN "exhausted"
    ELSE IF target - c.n > MAX_SKIP THEN "gap"
    ELSE "forward"

\* The chain after deriving the key of `target`, and the key itself.
message_key(c, target) ==
    IF KeyOutcome(c, target) = "buffered"
    THEN [chain |-> TakeSkipped(c, target), mk |-> c.skipped[target]]
    ELSE LET d == SkipTo(c, target)
         IN  [chain |-> [d EXCEPT !.chain_key = Advance(@, 1), !.n = target + 1],
              mk    |-> d.chain_key]

-----------------------------------------------------------------------------
(* The checkpoint codec.  A checkpoint is the chain key, the position and  *)
(* the buffered keys as pairs in eviction order.                           *)

CanEncode(c) ==
    /\ Cardinality(DOMAIN c.skipped) <= MAX_SKIPPED_TOTAL
    /\ Len(c.order) = Cardinality(DOMAIN c.skipped)
    /\ \A i \in 1..Len(c.order) :
         /\ c.order[i] < c.n
         /\ c.order[i] \in DOMAIN c.skipped
         /\ \A j \in 1..(i - 1) : c.order[j] # c.order[i]

encode_checkpoint(c) ==
    [chain_key |-> c.chain_key, n |-> c.n,
     entries   |-> [i \in 1..Len(c.order) |-> <<c.order[i], c.skipped[c.order[i]]>>]]

CanDecode(b) ==
    /\ Len(b.entries) <= MAX_SKIPPED_TOTAL
    /\ \A i \in 1..Len(b.entries) :
         /\ b.entries[i][1] < b.n
         /\ \A j \in 1..(i - 1) : b.entries[j][1] # b.entries[i][1]

\* Mutant: the eviction order is rebuilt in another order than it was written.
decode_checkpoint_Reordered(b) ==
    LET len   == Len(b.entries)
        at(p) == CHOOSE i \in 1..len : b.entries[i][1] = p
    IN  [chain_key |-> b.chain_key, n |-> b.n,
         skipped   |-> [p \in {b.entries[i][1] : i \in 1..len} |-> b.entries[at(p)][2]],
         order     |-> [i \in 1..len |-> b.entries[len + 1 - i][1]]]

decode_checkpoint(b) ==
    LET at(p) == CHOOSE i \in 1..Len(b.entries) : b.entries[i][1] = p
    IN  [chain_key |-> b.chain_key, n |-> b.n,
         skipped   |-> [p \in {b.entries[i][1] : i \in 1..Len(b.entries)} |-> b.entries[at(p)][2]],
         order     |-> [i \in 1..Len(b.entries) |-> b.entries[i][1]]]

\* prepare_open works on the decoded copy of the live chain's checkpoint; the
\* live chain is only replaced (install) once the AEAD has accepted the key.
Opens(c, target, key) ==
    /\ CanEncode(c)
    /\ CanDecode(encode_checkpoint(c))
    /\ LET next == decode_checkpoint(encode_checkpoint(c))
       IN  /\ KeyOutcome(next, target) \in {"buffered", "forward"}
           /\ message_key(next, target).mk = key

Opened(c, target) == message_key(decode_checkpoint(encode_checkpoint(c)), target).chain

-----------------------------------------------------------------------------
\* The chain key belongs to the position, every buffered key to the position it
\* is buffered under, and `order.len() == skipped.len()` always: the eviction
\* queue lists exactly the buffered positions, once each, oldest first, within
\* the cap, behind n.
BufferShape(c) ==
    /\ c.n \in Position
    /\ c.chain_key.step = c.n
    /\ \A p \in DOMAIN c.skipped : c.skipped[p] = [seed |-> c.chain_key.seed, step |-> p]
    /\ Elems(c.order) = DOMAIN c.skipped
    /\ Len(c.order) <= MAX_SKIPPED_TOTAL
    /\ \A i, j \in 1..Len(c.order) : i < j => c.order[i] < c.order[j]
    /\ \A i \in 1..Len(c.order) : c.order[i] < c.n

\* The positions a chain can no longer open.
Spent(c) == {p \in 0..(c.n - 1) : p \notin DOMAIN c.skipped}

\* The codec is the exact private fork of the chain: it neither refuses it nor
\* loses a hole or the eviction order.
ForkExact(c) ==
    /\ CanEncode(c)
    /\ CanDecode(encode_checkpoint(c))
    /\ decode_checkpoint(encode_checkpoint(c)) = c
=============================================================================
