-------------------------- MODULE SenderKey_proofs ---------------------------
(***************************************************************************)
(* What one receiver's chain does, for any limits: a well-formed chain     *)
(* survives its checkpoint exactly, opening a position leaves a            *)
(* well-formed chain that can open it no more and has dropped only what    *)
(* the cap demands, and distributions and snapshots install such chains.   *)
(***************************************************************************)
EXTENDS SenderKey, FiniteSetTheorems, SequenceTheorems, TLAPS

(* One receiver's chain.                                                    *)

(* A well-formed chain: its types and the shape of its buffer.              *)
Sound(c) == c \in ChainType /\ BufferShape(c)

(* What a well-formed chain is made of.                                     *)
LEMMA SoundFacts ==
    ASSUME NEW c, Sound(c)
    PROVE  /\ c.chain_key \in ChainKey
           /\ c.n \in Nat /\ c.n <= U32Max
           /\ c.order \in Seq(Position)
           /\ Len(c.order) \in Nat
           /\ DOMAIN c.order = 1..Len(c.order)
           /\ \A i \in 1..Len(c.order) : c.order[i] \in Position /\ c.order[i] < c.n
           /\ \A i, j \in 1..Len(c.order) : c.order[i] = c.order[j] => i = j
           /\ DOMAIN c.skipped \subseteq Position
           /\ c.skipped = [p \in DOMAIN c.skipped |-> c.skipped[p]]
           /\ \A p \in DOMAIN c.skipped : p < c.n
           /\ \A p \in DOMAIN c.skipped : \E i \in 1..Len(c.order) : c.order[i] = p
           /\ \A i \in 1..Len(c.order) : c.order[i] \in DOMAIN c.skipped
           /\ c = [chain_key |-> c.chain_key, n |-> c.n,
                   skipped |-> c.skipped, order |-> c.order]
<1>1. /\ c.chain_key \in ChainKey
      /\ c.n \in 0..U32Max
      /\ c.order \in Seq(Position)
      /\ c.skipped \in UNION {[S -> ChainKey] : S \in SUBSET Position}
      /\ c = [chain_key |-> c.chain_key, n |-> c.n,
              skipped |-> c.skipped, order |-> c.order]
  BY Zenon DEF Sound, ChainType, Position
<1>2. /\ Len(c.order) \in Nat
      /\ DOMAIN c.order = 1..Len(c.order)
      /\ \A i \in 1..Len(c.order) : c.order[i] \in Position
  BY Zenon, <1>1, LenProperties, ElementOfSeq
<1>3. PICK S \in SUBSET Position : c.skipped \in [S -> ChainKey]
  BY Zenon, <1>1
<1>4. /\ DOMAIN c.skipped \subseteq Position
      /\ c.skipped = [p \in DOMAIN c.skipped |-> c.skipped[p]]
  BY Zenon, <1>3
<1>5. /\ \A i \in 1..Len(c.order) : c.order[i] < c.n
      /\ \A i, j \in 1..Len(c.order) : i < j => c.order[i] < c.order[j]
      /\ Elems(c.order) = DOMAIN c.skipped
  BY Zenon DEF Sound, BufferShape
<1>6. \A p \in DOMAIN c.skipped : \E i \in 1..Len(c.order) : c.order[i] = p
  BY Zenon, <1>5 DEF Elems
<1>7. \A i \in 1..Len(c.order) : c.order[i] \in DOMAIN c.skipped
  BY Zenon, <1>5 DEF Elems
<1>8. \A i, j \in 1..Len(c.order) : c.order[i] = c.order[j] => i = j
  <2> SUFFICES ASSUME NEW i \in 1..Len(c.order), NEW j \in 1..Len(c.order),
                      c.order[i] = c.order[j], i # j
               PROVE  FALSE
    BY Zenon
  <2>1. c.order[i] \in Nat /\ c.order[j] \in Nat
    BY <1>2, SenderKeyAssumption DEF Position
  <2>2. i < j \/ j < i
    BY <1>2
  <2> QED
    BY <1>5, <2>1, <2>2
<1>9. \A p \in DOMAIN c.skipped : p < c.n
  BY Zenon, <1>5, <1>6
<1> QED
  BY <1>1, <1>2, <1>4, <1>5, <1>6, <1>7, <1>8, <1>9, SenderKeyAssumption

(* Positions are naturals.                                                  *)
LEMMA PositionNat == \A p \in Position : p \in Nat /\ p <= U32Max
BY SenderKeyAssumption DEF Position

(* The numbers of a well-formed chain.                                      *)
LEMMA SoundNumbers ==
    ASSUME NEW c, Sound(c)
    PROVE  /\ c.n \in Nat /\ c.n <= U32Max /\ Len(c.order) \in Nat
           /\ \A i \in 1..Len(c.order) : c.order[i] \in Nat /\ c.order[i] < c.n
BY ZenonT(30), SoundFacts, PositionNat

(* `order.len() == skipped.len()`.                                          *)
LEMMA SoundCount ==
    ASSUME NEW c, Sound(c)
    PROVE  /\ IsFiniteSet(DOMAIN c.skipped)
           /\ Cardinality(DOMAIN c.skipped) = Len(c.order)
<1> DEFINE D == DOMAIN c.skipped
           N == 1..Len(c.order)
<1>1. /\ Len(c.order) \in Nat
      /\ c.order \in [N -> D]
      /\ \A i, j \in N : c.order[i] = c.order[j] => i = j
      /\ \A p \in D : \E i \in N : c.order[i] = p
  <2>1. c.order \in Seq(Position) /\ \A i \in N : c.order[i] \in D
    BY ZenonT(30), SoundFacts
  <2>2. c.order \in [N -> Position]
    BY Zenon, <2>1, LenProperties
  <2>3. c.order \in [N -> D]
    BY Zenon, <2>1, <2>2
  <2> QED
    BY ZenonT(30), <2>3, SoundFacts
<1>2. c.order \in Surjection(N, D) /\ c.order \in Injection(N, D)
  BY Zenon, <1>1 DEF Surjection, Injection, IsInjective
<1>3. IsFiniteSet(N) /\ Cardinality(N) = Len(c.order)
  <2>1. Len(c.order) \in Nat
    BY Zenon, <1>1
  <2> QED
    BY <2>1, FS_Interval
<1> HIDE DEF D, N
<1>4. IsFiniteSet(D) /\ Cardinality(D) = Cardinality(N)
  BY Zenon, <1>2, <1>3, FS_Surjection
<1> QED
  BY Zenon, <1>3, <1>4 DEF D

(* The checkpoint codec accepts a well-formed chain and returns it exactly:  *)
(* no hole, no key and no place in the eviction order is lost.               *)
LEMMA SoundForks == ASSUME NEW c, Sound(c) PROVE ForkExact(c)
<1> DEFINE b == encode_checkpoint(c)
           L == Len(c.order)
<1>1. /\ L \in Nat /\ L <= MAX_SKIPPED_TOTAL
      /\ \A i, j \in 1..L : c.order[i] = c.order[j] => i = j
      /\ \A i \in 1..L : c.order[i] \in DOMAIN c.skipped /\ c.order[i] < c.n
  BY ZenonT(30), SoundFacts DEF Sound, BufferShape
<1>2. CanEncode(c)
  BY <1>1, SoundCount DEF CanEncode
<1>3. /\ b.chain_key = c.chain_key /\ b.n = c.n
      /\ b.entries = [i \in 1..L |-> <<c.order[i], c.skipped[c.order[i]]>>]
  BY Zenon DEF encode_checkpoint
<1>4. /\ Len(b.entries) = L
      /\ \A i \in 1..L : b.entries[i][1] = c.order[i] /\ b.entries[i][2] = c.skipped[c.order[i]]
  BY <1>1, <1>3
<1> HIDE DEF b
<1>5. CanDecode(b)
  BY SMTT(30), <1>1, <1>3, <1>4 DEF CanDecode
<1>6. decode_checkpoint(b) = c
  <2> DEFINE at(p) == CHOOSE i \in 1..L : b.entries[i][1] = p
             P == {b.entries[i][1] : i \in 1..L}
  <2>1. P = DOMAIN c.skipped
    <3>1. \A p \in P : p \in DOMAIN c.skipped
      BY <1>1, <1>4
    <3>2. \A p \in DOMAIN c.skipped : p \in P
      <4>1. \A p \in DOMAIN c.skipped : \E i \in 1..L : c.order[i] = p
        BY ZenonT(30), SoundFacts
      <4> QED
        BY <4>1, <1>4
    <3> QED
      BY Zenon, <3>1, <3>2
  <2>2. \A p \in P : b.entries[at(p)][2] = c.skipped[p]
    <3> SUFFICES ASSUME NEW p \in P PROVE b.entries[at(p)][2] = c.skipped[p]
      BY ZenonT(30)
    <3>1. \E i \in 1..L : b.entries[i][1] = p
      BY Zenon
    <3>2. at(p) \in 1..L /\ b.entries[at(p)][1] = p
      BY Zenon, <3>1
    <3> QED
      BY SMTT(30), <3>2, <1>4
  <2> HIDE DEF at, P
  <2>3. [p \in P |-> b.entries[at(p)][2]] = c.skipped
    <3>1. [p \in P |-> b.entries[at(p)][2]] = [p \in P |-> c.skipped[p]]
      BY Zenon, <2>2
    <3>2. c.skipped = [p \in DOMAIN c.skipped |-> c.skipped[p]]
      BY Zenon, SoundFacts
    <3> QED
      BY Zenon, <3>1, <3>2, <2>1
  <2>4. [i \in 1..L |-> b.entries[i][1]] = c.order
    <3>1. c.order = [i \in 1..L |-> c.order[i]]
      BY ZenonT(30), SoundFacts, LenProperties
    <3> QED
      BY Zenon, <3>1, <1>4
  <2>5. decode_checkpoint(b) =
          [chain_key |-> b.chain_key, n |-> b.n,
           skipped   |-> [p \in P |-> b.entries[at(p)][2]],
           order     |-> [i \in 1..L |-> b.entries[i][1]]]
    BY Zenon, <1>4 DEF decode_checkpoint, at, P
  <2> QED
    BY ZenonT(30), <2>3, <2>4, <2>5, <1>3, SoundFacts
<1> QED
  BY Zenon, <1>2, <1>5, <1>6 DEF ForkExact, b

(* What opening position p made of the chain c: d follows the same chain,    *)
(* lists no position twice, has p behind it and out of the buffer, and has   *)
(* dropped nothing else unless the buffer is full of younger positions.      *)
Follows(c, p, d) ==
    /\ Sound(d)
    /\ d.chain_key.seed = c.chain_key.seed
    /\ p < d.n /\ c.n <= d.n
    /\ p \notin DOMAIN d.skipped
    /\ \A q \in DOMAIN d.skipped : q \in DOMAIN c.skipped \/ c.n <= q
    /\ \A q \in (DOMAIN c.skipped \cup c.n..(d.n - 1)) \ DOMAIN d.skipped :
         \/ q = p
         \/ /\ Cardinality(DOMAIN d.skipped) = MAX_SKIPPED_TOTAL
            /\ \A x \in DOMAIN d.skipped : q < x

(* A key out of the buffer takes its place in the queue with it.             *)
LEMMA TakeFollows ==
    ASSUME NEW c, Sound(c), NEW p \in DOMAIN c.skipped
    PROVE  Follows(c, p, TakeSkipped(c, p))
<1> DEFINE L == Len(c.order)
           at == CHOOSE i \in 1..L : c.order[i] = p
           R == [i \in 1..(L - 1) |-> IF i < at THEN c.order[i] ELSE c.order[i + 1]]
           K == [q \in DOMAIN c.skipped \ {p} |-> c.skipped[q]]
           d == TakeSkipped(c, p)
<1>1. /\ L \in Nat /\ L <= MAX_SKIPPED_TOTAL
      /\ \A i \in 1..L : c.order[i] \in Position /\ c.order[i] < c.n
      /\ \A i, j \in 1..L : i < j => c.order[i] < c.order[j]
      /\ \A i, j \in 1..L : c.order[i] = c.order[j] => i = j
  BY ZenonT(30), SoundFacts DEF Sound, BufferShape
<1>2. at \in 1..L /\ c.order[at] = p
  <2>1. \E i \in 1..L : c.order[i] = p
    BY ZenonT(30), SoundFacts
  <2> QED
    BY Zenon, <2>1
<1>3. d = [chain_key |-> c.chain_key, n |-> c.n, skipped |-> K, order |-> R]
  <2>1. p \in Elems(c.order)
    BY ZenonT(30), <1>2 DEF Elems
  <2>2. Retain(c.order, p) = R
    BY Zenon, <2>1 DEF Retain
  <2>3. c = [chain_key |-> c.chain_key, n |-> c.n, skipped |-> c.skipped, order |-> c.order]
    BY ZenonT(30), SoundFacts
  <2> HIDE DEF R, K
  <2>4. d = [c EXCEPT !.skipped = K, !.order = R]
    BY Zenon, <2>2 DEF TakeSkipped, K
  <2> QED
    BY ZenonT(30), <2>3, <2>4
<1> HIDE DEF at
<1>4. /\ R \in Seq(Position) /\ Len(R) = L - 1
      /\ \A i \in 1..(L - 1) : R[i] = IF i < at THEN c.order[i] ELSE c.order[i + 1]
  <2>1. L - 1 \in Nat
    BY <1>1, <1>2
  <2>2. \A i \in 1..(L - 1) : R[i] \in Position
    BY <1>1, <1>2
  <2>3. R \in [1..(L - 1) -> Position]
    BY ZenonT(30), <2>2
  <2> QED
    BY <2>1, <2>3, SeqDef
<1>5. ASSUME NEW i \in 1..(L - 1), NEW j \in 1..(L - 1), i < j
      PROVE  R[i] < R[j]
  <2>1. at \in Nat /\ i \in 1..L /\ i + 1 \in 1..L /\ j \in 1..L /\ j + 1 \in 1..L
    BY <1>1, <1>2
  <2>2. i < j + 1 /\ i + 1 < j + 1 /\ (j < at => i < at)
    BY <2>1, <1>5
  <2> QED
    BY Zenon, <2>1, <2>2, <1>1, <1>4, <1>5
<1>6. \A i \in 1..(L - 1) : R[i] < c.n /\ R[i] \in DOMAIN K
  <2> SUFFICES ASSUME NEW i \in 1..(L - 1) PROVE R[i] < c.n /\ R[i] \in DOMAIN K
    BY ZenonT(30)
  <2>1. PICK k \in 1..L : R[i] = c.order[k] /\ k # at
    BY <1>1, <1>2, <1>4
  <2>2. c.order[k] # p /\ c.order[k] < c.n /\ c.order[k] \in DOMAIN c.skipped
    BY ZenonT(30), <2>1, <1>1, <1>2, SoundFacts
  <2> QED
    BY Zenon, <2>1, <2>2
<1>7. \A q \in DOMAIN K : \E i \in 1..(L - 1) : R[i] = q
  <2> SUFFICES ASSUME NEW q \in DOMAIN c.skipped, q # p
               PROVE  \E i \in 1..(L - 1) : R[i] = q
    BY Zenon
  <2>1. PICK k \in 1..L : c.order[k] = q
    BY ZenonT(30), SoundFacts
  <2>2. k # at
    BY Zenon, <2>1, <1>2
  <2>3. CASE k < at
    <3>1. k \in 1..(L - 1)
      BY <2>3, <1>1, <1>2
    <3> QED
      BY Zenon, <3>1, <2>1, <2>3, <1>4
  <2>4. CASE k > at
    <3>1. k - 1 \in 1..(L - 1) /\ ~(k - 1 < at) /\ (k - 1) + 1 = k
      BY <2>4, <1>1, <1>2
    <3> QED
      BY Zenon, <3>1, <2>1, <1>4
  <2>5. k < at \/ k > at
    <3>1. at \in Nat /\ k \in Nat
      BY <1>1, <1>2
    <3> QED
      BY <3>1, <2>2
  <2> QED
    BY Zenon, <2>3, <2>4, <2>5
<1>8. K \in UNION {[S -> ChainKey] : S \in SUBSET Position}
  <2>1. PICK S \in SUBSET Position : c.skipped \in [S -> ChainKey]
    BY Zenon DEF Sound, ChainType
  <2>2. K \in [S \ {p} -> ChainKey] /\ S \ {p} \in SUBSET Position
    BY Zenon, <2>1
  <2> QED
    BY ZenonT(30), <2>2
<1>9. \A q \in DOMAIN K : K[q] = [seed |-> c.chain_key.seed, step |-> q]
  BY Zenon DEF Sound, BufferShape
<1>10. DOMAIN K = DOMAIN c.skipped \ {p}
  BY Zenon
<1> HIDE DEF R, K, d
<1>11. Elems(R) = DOMAIN K
  <2>1. Elems(R) = {R[i] : i \in 1..(L - 1)}
    BY Zenon, <1>4 DEF Elems
  <2> QED
    BY ZenonT(30), <2>1, <1>6, <1>7
<1>12. /\ d.chain_key = c.chain_key /\ d.n = c.n /\ d.skipped = K /\ d.order = R
  BY Zenon, <1>3
<1>13. d \in ChainType
  BY Zenon, <1>3, <1>4, <1>8 DEF Sound, ChainType
<1>14. BufferShape(d)
  <2>1. c.n \in Position /\ c.chain_key.step = c.n
    BY Zenon DEF Sound, BufferShape
  <2>2. Len(R) <= MAX_SKIPPED_TOTAL
    BY <1>1, <1>4, SenderKeyAssumption
  <2> QED
    BY Zenon, <2>1, <2>2, <1>4, <1>5, <1>6, <1>9, <1>11, <1>12 DEF BufferShape
<1>15. p < c.n /\ c.n \in Nat
  BY ZenonT(30), SoundFacts
<1>16. \A q \in (DOMAIN c.skipped \cup c.n..(d.n - 1)) \ DOMAIN d.skipped : q = p
  BY SMTT(30), <1>10, <1>12, <1>15
<1> QED
  BY <1>10, <1>12, <1>13, <1>14, <1>15, <1>16 DEF Follows, Sound, d

(* The forward loop buffers what it passes and evicts the oldest.            *)
LEMMA ForwardFollows ==
    ASSUME NEW c, Sound(c), NEW t \in Position, KeyOutcome(c, t) = "forward"
    PROVE  /\ Follows(c, t, message_key(c, t).chain)
           /\ message_key(c, t).mk = [seed |-> c.chain_key.seed, step |-> t]
           /\ message_key(c, t).chain.n = t + 1
           /\ DOMAIN message_key(c, t).chain.skipped
                = (DOMAIN c.skipped \cup c.n..(t - 1)) \ Evicted(c, t)
           /\ Evicted(c, t) \subseteq DOMAIN c.skipped \cup c.n..(t - 1)
<1> DEFINE L == Len(c.order)
           all == Buffered(c, t)
           o == Overflow(Len(all))
           kept == SubSeq(all, o + 1, Len(all))
           K == [p \in Elems(kept) |-> IF p \in DOMAIN c.skipped THEN c.skipped[p]
                                       ELSE Advance(c.chain_key, p - c.n)]
           d == message_key(c, t).chain
<1>1. /\ t \notin DOMAIN c.skipped /\ c.n <= t /\ t < U32Max
      /\ t \in Nat /\ c.n \in Nat
  <2>1. t \in Nat /\ t <= U32Max /\ c.n \in Nat /\ U32Max \in Nat
    BY Zenon, SoundNumbers, PositionNat, SenderKeyAssumption
  <2>2. t \notin DOMAIN c.skipped /\ ~(t < c.n) /\ t # U32Max
    BY Zenon DEF KeyOutcome
  <2> QED
    BY <2>1, <2>2
<1>2. /\ L \in Nat /\ L <= MAX_SKIPPED_TOTAL
      /\ c.order \in Seq(Position)
      /\ \A i \in 1..L : c.order[i] \in Position /\ c.order[i] < c.n
      /\ \A i, j \in 1..L : i < j => c.order[i] < c.order[j]
  BY ZenonT(30), SoundFacts DEF Sound, BufferShape
<1>3. /\ all \in Seq(Position) /\ Len(all) = L + (t - c.n) /\ Len(all) \in Nat
      /\ \A i \in 1..Len(all) : all[i] = IF i <= L THEN c.order[i] ELSE c.n + (i - L) - 1
  <2> DEFINE w == [i \in 1..(t - c.n) |-> c.n + i - 1]
  <2>1. t - c.n \in Nat
    BY <1>1
  <2>2. w \in [1..(t - c.n) -> Position]
    <3>1. \A i \in 1..(t - c.n) : c.n + i - 1 \in 0..U32Max
      BY <1>1, SenderKeyAssumption
    <3> QED
      BY Zenon, <3>1 DEF Position
  <2>3. w \in Seq(Position) /\ Len(w) = t - c.n
    <3> HIDE DEF w
    <3>1. w \in Seq(Position)
      BY Zenon, <2>1, <2>2, SeqDef
    <3>2. DOMAIN w = 1..(t - c.n)
      BY Zenon, <2>2
    <3> QED
      BY <2>1, <3>1, <3>2
  <2>4. \A i \in 1..(t - c.n) : w[i] = c.n + i - 1
    BY Zenon
  <2> HIDE DEF w
  <2>5. all = c.order \o w
    BY Zenon DEF Buffered, w
  <2>6. /\ all \in Seq(Position) /\ Len(all) = L + (t - c.n)
        /\ \A i \in 1..(L + (t - c.n)) : all[i] = IF i <= L THEN c.order[i] ELSE w[i - L]
    <3>1. /\ c.order \o w \in Seq(Position) /\ Len(c.order \o w) = Len(c.order) + Len(w)
          /\ \A i \in 1..(Len(c.order) + Len(w)) :
                (c.order \o w)[i] = IF i <= Len(c.order) THEN c.order[i] ELSE w[i - Len(c.order)]
      BY ZenonT(30), <2>3, <1>2, ConcatProperties
    <3> QED
      BY Zenon, <3>1, <2>3, <2>5
  <2>7. \A i \in 1..(L + (t - c.n)) : i > L => i - L \in 1..(t - c.n)
    BY SMTT(30), <1>1, <1>2
  <2> QED
    BY SMTT(30), <2>1, <2>4, <2>6, <2>7, <1>2
<1> HIDE DEF all
<1>4. /\ \A i, j \in 1..Len(all) : i < j => all[i] < all[j]
      /\ \A i \in 1..Len(all) : all[i] < t /\ all[i] \in Nat /\ all[i] \in Position
  <2>1. \A i \in 1..Len(all) : all[i] \in Nat /\ all[i] < t /\ all[i] \in Position
    <3>1. ASSUME NEW i \in 1..Len(all) PROVE all[i] \in Nat /\ all[i] < t
      <4>1. CASE i <= L
        BY SMTT(30), <4>1, <1>1, <1>2, <1>3 DEF Position
      <4>2. CASE i > L
        BY SMTT(30), <4>2, <1>1, <1>2, <1>3
      <4> QED
        BY <4>1, <4>2, <1>2, <1>3
    <3> QED
      BY Zenon, <3>1, <1>3, ElementOfSeq
  <2>2. ASSUME NEW i \in 1..Len(all), NEW j \in 1..Len(all), i < j
        PROVE  all[i] < all[j]
    <3>1. CASE j <= L
      BY <3>1, <2>2, <1>2, <1>3
    <3>2. CASE i <= L /\ j > L
      <4>1. all[i] < c.n /\ all[j] = c.n + (j - L) - 1 /\ j - L >= 1
        BY <3>2, <1>2, <1>3
      <4> QED
        BY <4>1, <1>1, <1>2, <2>1
    <3>3. CASE i > L
      BY <3>3, <2>2, <1>1, <1>2, <1>3
    <3> QED
      BY <3>1, <3>2, <3>3, <1>2
  <2> QED
    BY Zenon, <2>1, <2>2
<1>5. /\ o \in Nat /\ o <= Len(all)
      /\ Len(all) - o <= MAX_SKIPPED_TOTAL
      /\ o > 0 => Len(all) - o = MAX_SKIPPED_TOTAL
  BY <1>3, SenderKeyAssumption DEF Overflow
<1> HIDE DEF o
<1>6. /\ kept \in Seq(Position) /\ Len(kept) = Len(all) - o /\ Len(kept) \in Nat
      /\ \A i \in 1..Len(kept) : o + i \in 1..Len(all) /\ kept[i] = all[o + i]
  <2>1. \A i \in (o + 1)..Len(all) : all[i] \in Position
    BY <1>4, <1>5
  <2>2. o + 1 \in Int /\ Len(all) \in Int
    BY <1>3, <1>5
  <2>3. /\ kept \in Seq(Position)
        /\ Len(kept) = IF o + 1 <= Len(all) THEN Len(all) - (o + 1) + 1 ELSE 0
        /\ \A i \in 1..(Len(all) - (o + 1) + 1) : kept[i] = all[(o + 1) + i - 1]
    BY <2>1, <2>2, SubSeqProperties
  <2>4. Len(kept) = Len(all) - o
    BY <2>3, <1>3, <1>5
  <2>5. ASSUME NEW i \in 1..Len(kept) PROVE o + i \in 1..Len(all) /\ kept[i] = all[o + i]
    <3>1. i \in 1..(Len(all) - (o + 1) + 1) /\ (o + 1) + i - 1 = o + i /\ o + i \in 1..Len(all)
      BY <2>4, <1>3, <1>5
    <3> QED
      BY Zenon, <3>1, <2>3
  <2> QED
    BY <2>3, <2>4, <2>5, <1>3, <1>5
<1> HIDE DEF kept
<1>7. \A p \in Elems(kept) : \E i \in 1..Len(all) : i > o /\ p = all[i]
  BY <1>5, <1>6 DEF Elems
<1>8. \A i \in 1..Len(all) : i > o => all[i] \in Elems(kept)
  <2> SUFFICES ASSUME NEW i \in 1..Len(all), i > o PROVE all[i] \in Elems(kept)
    BY Zenon
  <2>1. i - o \in 1..Len(kept) /\ o + (i - o) = i
    BY <1>3, <1>5, <1>6
  <2> QED
    BY Zenon, <2>1, <1>6 DEF Elems
<1>9. \A p \in DOMAIN c.skipped \cup c.n..(t - 1) : \E i \in 1..Len(all) : p = all[i]
  <2>1. ASSUME NEW p \in DOMAIN c.skipped PROVE \E i \in 1..Len(all) : p = all[i]
    <3>1. PICK i \in 1..L : c.order[i] = p
      BY ZenonT(30), SoundFacts
    <3>2. i \in 1..Len(all) /\ i <= L
      BY <1>1, <1>2, <1>3
    <3> QED
      BY Zenon, <3>1, <3>2, <1>3
  <2>2. ASSUME NEW p \in c.n..(t - 1) PROVE \E i \in 1..Len(all) : p = all[i]
    <3> DEFINE i == L + (p - c.n) + 1
    <3>1. L \in Nat /\ Len(all) = L + (t - c.n)
      BY Zenon, <1>2, <1>3
    <3> HIDE DEF L
    <3>2. i \in 1..(L + (t - c.n)) /\ ~(i <= L) /\ c.n + (i - L) - 1 = p
      <4>1. p \in Int /\ c.n <= p /\ p <= t - 1
        BY <1>1
      <4> QED
        BY SMTT(30), <4>1, <3>1, <1>1
    <3> HIDE DEF i
    <3> QED
      BY Zenon, <3>1, <3>2, <1>3 DEF L
  <2> QED
    BY Zenon, <2>1, <2>2
<1>10. \A i \in 1..Len(all) : all[i] \in DOMAIN c.skipped \/ c.n <= all[i]
  <2> SUFFICES ASSUME NEW i \in 1..Len(all) PROVE all[i] \in DOMAIN c.skipped \/ c.n <= all[i]
    BY Zenon
  <2>0. L \in Nat /\ i \in Nat /\ i >= 1
    BY <1>2, <1>3
  <2>1. CASE i <= L
    <3>1. i \in 1..L /\ all[i] = c.order[i]
      BY <2>0, <2>1, <1>3
    <3> QED
      BY ZenonT(30), <3>1, SoundFacts
  <2>2. CASE i > L
    <3>1. all[i] = c.n + (i - L) - 1
      BY <2>0, <2>2, <1>3
    <3> QED
      BY <3>1, <2>0, <2>2, <1>1
  <2> QED
    BY <2>0, <2>1, <2>2
<1>11. /\ c.chain_key \in ChainKey /\ c.chain_key.step = c.n
       /\ c.chain_key.seed \in Seeds
       /\ c.chain_key = [seed |-> c.chain_key.seed, step |-> c.n]
  BY Zenon DEF Sound, ChainType, BufferShape, ChainKey
<1>12. \A k \in Int : Advance(c.chain_key, k) = [seed |-> c.chain_key.seed, step |-> c.n + k]
  BY <1>11 DEF Advance
<1>13. \A p \in Elems(kept) : /\ p \in Nat /\ p \in Position /\ p < t
                              /\ p \in DOMAIN c.skipped \/ c.n <= p
  BY Zenon, <1>4, <1>7, <1>10
<1>14. \A p \in Elems(kept) : K[p] = [seed |-> c.chain_key.seed, step |-> p]
  <2> SUFFICES ASSUME NEW p \in Elems(kept)
               PROVE  K[p] = [seed |-> c.chain_key.seed, step |-> p]
    BY Zenon
  <2>1. CASE p \in DOMAIN c.skipped
    BY Zenon, <2>1 DEF Sound, BufferShape
  <2>2. CASE p \notin DOMAIN c.skipped
    <3>1. p \in Nat /\ p - c.n \in Int /\ c.n + (p - c.n) = p
      BY <1>1, <1>13
    <3> QED
      BY Zenon, <3>1, <2>2, <1>12
  <2> QED
    BY Zenon, <2>1, <2>2
<1>15. DOMAIN K = Elems(kept) /\ K = [p \in Elems(kept) |-> K[p]]
  BY Zenon
<1>16. /\ SkipTo(c, t).chain_key = [seed |-> c.chain_key.seed, step |-> t]
       /\ d = [chain_key |-> [seed |-> c.chain_key.seed, step |-> t + 1],
               n |-> t + 1, skipped |-> K, order |-> kept]
       /\ message_key(c, t).mk = [seed |-> c.chain_key.seed, step |-> t]
  <2>1. SkipTo(c, t) = [chain_key |-> Advance(c.chain_key, t - c.n), n |-> t,
                        skipped |-> K, order |-> kept]
    BY Zenon DEF SkipTo, all, o, kept
  <2>2. Advance(c.chain_key, t - c.n) = [seed |-> c.chain_key.seed, step |-> t]
    <3>1. t - c.n \in Int /\ c.n + (t - c.n) = t
      BY <1>1
    <3> QED
      BY Zenon, <3>1, <1>12
  <2> HIDE DEF K
  <2>3. /\ message_key(c, t).mk = SkipTo(c, t).chain_key
        /\ d = [SkipTo(c, t) EXCEPT !.chain_key = Advance(@, 1), !.n = t + 1]
    BY Zenon DEF message_key
  <2>4. Advance([seed |-> c.chain_key.seed, step |-> t], 1) = [seed |-> c.chain_key.seed, step |-> t + 1]
    BY DEF Advance
  <2>5. message_key(c, t).mk = [seed |-> c.chain_key.seed, step |-> t]
    BY <2>1, <2>2, <2>3
  <2>6. SkipTo(c, t) = [chain_key |-> [seed |-> c.chain_key.seed, step |-> t], n |-> t,
                        skipped |-> K, order |-> kept]
    BY Zenon, <2>1, <2>2
  <2> HIDE DEF d
  <2>7. d = [chain_key |-> Advance([seed |-> c.chain_key.seed, step |-> t], 1),
             n |-> t + 1, skipped |-> K, order |-> kept]
    <3> DEFINE k == [seed |-> c.chain_key.seed, step |-> t]
               e == Advance(k, 1)
    <3>1. SkipTo(c, t).chain_key = k
      BY <2>6
    <3>2. d = [SkipTo(c, t) EXCEPT !.chain_key = e, !.n = t + 1]
      BY Zenon, <2>3, <3>1
    <3> HIDE DEF e, k
    <3>3. SkipTo(c, t) = [chain_key |-> k, n |-> t, skipped |-> K, order |-> kept]
      BY Zenon, <2>6 DEF k
    <3>4. [SkipTo(c, t) EXCEPT !.chain_key = e, !.n = t + 1]
            = [chain_key |-> e, n |-> t + 1, skipped |-> K, order |-> kept]
      <4> DEFINE x == SkipTo(c, t)
                 y == [x EXCEPT !.chain_key = e]
                 m == t + 1
      <4> HIDE DEF x, m
      <4>1. y = [chain_key |-> e, n |-> t, skipped |-> K, order |-> kept]
        BY <3>3 DEF x
      <4>2. [x EXCEPT !.chain_key = e, !.n = m] = [y EXCEPT !.n = m]
        BY Zenon
      <4> HIDE DEF y
      <4>3. [y EXCEPT !.n = m] = [chain_key |-> e, n |-> m, skipped |-> K, order |-> kept]
        BY <4>1
      <4> QED
        BY Zenon, <4>2, <4>3 DEF x, m
    <3> QED
      BY Zenon, <3>2, <3>4 DEF e, k
  <2> QED
    BY SMTT(30), <2>4, <2>5, <2>6, <2>7
<1> HIDE DEF K, d
<1>17. /\ d.chain_key = [seed |-> c.chain_key.seed, step |-> t + 1]
       /\ d.n = t + 1 /\ d.skipped = K /\ d.order = kept
  BY Zenon, <1>16
<1>18. d \in ChainType
  <2>1. \A p \in Elems(kept) : K[p] \in ChainKey
    <3> SUFFICES ASSUME NEW p \in Elems(kept) PROVE K[p] \in ChainKey
      BY Zenon
    <3>1. p \in Nat /\ K[p] = [seed |-> c.chain_key.seed, step |-> p] /\ c.chain_key.seed \in Seeds
      BY Zenon, <1>11, <1>13, <1>14
    <3> QED
      BY <3>1 DEF ChainKey
  <2>2. K \in [Elems(kept) -> ChainKey] /\ Elems(kept) \in SUBSET Position
    BY Zenon, <2>1, <1>13, <1>15
  <2>3. K \in UNION {[S -> ChainKey] : S \in SUBSET Position}
    BY Zenon, <2>2
  <2>4. [seed |-> c.chain_key.seed, step |-> t + 1] \in ChainKey /\ t + 1 \in Position
    BY <1>1, <1>11, SenderKeyAssumption DEF ChainKey, Position
  <2> QED
    BY Zenon, <2>3, <2>4, <1>6, <1>16 DEF ChainType
<1>19. BufferShape(d)
  <2>1. t + 1 \in Position
    BY <1>1, SenderKeyAssumption DEF Position
  <2>2. ASSUME NEW i \in 1..Len(kept), NEW j \in 1..Len(kept), i < j
        PROVE  kept[i] < kept[j]
    <3>1. /\ o + i \in 1..Len(all) /\ kept[i] = all[o + i]
          /\ o + j \in 1..Len(all) /\ kept[j] = all[o + j]
      BY Zenon, <1>6
    <3>2. o + i < o + j
      BY <2>2, <1>5
    <3> QED
      BY Zenon, <3>1, <3>2, <1>4
  <2>3. \A i \in 1..Len(kept) : kept[i] < t + 1
    BY <1>1, <1>4, <1>6
  <2> QED
    <3>1. d.chain_key.step = d.n /\ d.chain_key.seed = c.chain_key.seed
      BY <1>17
    <3>2. Len(kept) <= MAX_SKIPPED_TOTAL
      BY <1>5, <1>6
    <3> QED
      BY Zenon, <2>1, <2>2, <2>3, <3>1, <3>2, <1>14, <1>15, <1>17 DEF BufferShape
<1>20. t \notin DOMAIN d.skipped /\ \A q \in DOMAIN d.skipped : q \in DOMAIN c.skipped \/ c.n <= q
  BY <1>1, <1>13, <1>15, <1>17
<1>21. ASSUME NEW q \in (DOMAIN c.skipped \cup c.n..(d.n - 1)) \ DOMAIN d.skipped, q # t
       PROVE  /\ Cardinality(DOMAIN d.skipped) = MAX_SKIPPED_TOTAL
              /\ \A x \in DOMAIN d.skipped : q < x
  <2>1. q \in DOMAIN c.skipped \cup c.n..(t - 1)
    BY <1>1, <1>17, <1>21
  <2>2. PICK i \in 1..Len(all) : q = all[i]
    BY Zenon, <2>1, <1>9
  <2>3. ~(i > o)
    BY Zenon, <2>2, <1>8, <1>15, <1>17, <1>21
  <2>4. o > 0 /\ i <= o
    BY <2>3, <1>3, <1>5
  <2>5. Cardinality(DOMAIN d.skipped) = Len(kept)
    BY Zenon, <1>17, <1>18, <1>19, SoundCount DEF Sound
  <2>6. ASSUME NEW x \in DOMAIN d.skipped PROVE q < x
    <3>1. PICK j \in 1..Len(all) : j > o /\ x = all[j]
      BY Zenon, <2>6, <1>7, <1>15, <1>17
    <3>2. i < j
      BY <3>1, <2>4, <1>5
    <3> QED
      BY Zenon, <3>1, <3>2, <2>2, <1>4
  <2> QED
    BY Zenon, <2>4, <2>5, <2>6, <1>5, <1>6
<1>22. Sound(d) /\ d.chain_key.seed = c.chain_key.seed /\ t < d.n /\ c.n <= d.n
  BY <1>1, <1>17, <1>18, <1>19 DEF Sound
<1>23. Evicted(c, t) \subseteq DOMAIN c.skipped \cup c.n..(t - 1)
  <2>1. Evicted(c, t) = {all[i] : i \in 1..o}
    BY Zenon, <1>1 DEF Evicted, all, o
  <2>2. \A i \in 1..o : i \in 1..Len(all)
    BY <1>3, <1>5
  <2>3. \A i \in 1..Len(all) : all[i] \in DOMAIN c.skipped \/ all[i] \in c.n..(t - 1)
    <3>1. \A i \in 1..Len(all) : /\ all[i] \in Nat /\ all[i] < t
                                 /\ all[i] \in DOMAIN c.skipped \/ c.n <= all[i]
      BY Zenon, <1>4, <1>10
    <3> QED
      BY <3>1, <1>1
  <2> QED
    BY Zenon, <2>1, <2>2, <2>3
<1>24. DOMAIN d.skipped = (DOMAIN c.skipped \cup c.n..(t - 1)) \ Evicted(c, t)
  <2>1. Evicted(c, t) = {all[i] : i \in 1..o}
    BY Zenon, <1>1 DEF Evicted, all, o
  <2>2. \A i \in 1..o : i \in 1..Len(all)
    BY <1>3, <1>5
  <2>3. ASSUME NEW q \in Elems(kept)
        PROVE  q \in (DOMAIN c.skipped \cup c.n..(t - 1)) \ Evicted(c, t)
    <3>1. q \in Nat /\ q < t /\ (q \in DOMAIN c.skipped \/ c.n <= q)
      BY Zenon, <1>13
    <3>2. q \in DOMAIN c.skipped \cup c.n..(t - 1)
      <4>1. c.n <= q => q \in c.n..(t - 1)
        BY <3>1, <1>1
      <4> QED
        BY Zenon, <4>1, <3>1
    <3>3. PICK i \in 1..Len(all) : i > o /\ q = all[i]
      BY Zenon, <1>7
    <3>4. ASSUME NEW j \in 1..o PROVE all[j] # q
      <4>1. j \in 1..Len(all) /\ j < i
        BY <3>3, <2>2, <1>5
      <4>2. all[j] < q
        BY Zenon, <4>1, <3>3, <1>4
      <4>3. all[j] \in Nat
        BY Zenon, <4>1, <1>4
      <4> QED
        BY <4>2, <4>3, <3>1
    <3> QED
      BY Zenon, <3>2, <3>4, <2>1
  <2>4. ASSUME NEW q \in DOMAIN c.skipped \cup c.n..(t - 1), q \notin Evicted(c, t)
        PROVE  q \in Elems(kept)
    <3>1. PICK i \in 1..Len(all) : q = all[i]
      BY Zenon, <1>9
    <3>2. i \notin 1..o
      BY Zenon, <3>1, <2>1, <2>4
    <3>3. i > o
      BY <3>2, <1>3, <1>5
    <3> QED
      BY Zenon, <3>1, <3>3, <1>8
  <2>5. DOMAIN d.skipped = Elems(kept)
    BY Zenon, <1>15, <1>17
  <2> QED
    BY ZenonT(30), <2>3, <2>4, <2>5
<1> QED
  BY Zenon, <1>16, <1>17, <1>20, <1>21, <1>22, <1>23, <1>24 DEF Follows, d

(* An accepted open, on the decoded copy, is one of the two.                 *)
LEMMA OpenFollows ==
    ASSUME NEW c, Sound(c), NEW t \in Position, NEW key, Opens(c, t, key)
    PROVE  /\ Follows(c, t, Opened(c, t))
           /\ t \in DOMAIN c.skipped \/ c.n <= t
<1>1. decode_checkpoint(encode_checkpoint(c)) = c
  BY Zenon, SoundForks DEF ForkExact
<1>2. KeyOutcome(c, t) \in {"buffered", "forward"} /\ Opened(c, t) = message_key(c, t).chain
  BY Zenon, <1>1 DEF Opens, Opened
<1>3. CASE KeyOutcome(c, t) = "buffered"
  <2>1. t \in DOMAIN c.skipped
    BY Zenon, <1>3 DEF KeyOutcome
  <2>2. message_key(c, t).chain = TakeSkipped(c, t)
    BY Zenon, <1>3 DEF message_key
  <2> QED
    BY Zenon, <2>1, <2>2, <1>2, TakeFollows
<1>4. CASE KeyOutcome(c, t) = "forward"
  <2>1. ~(t < c.n)
    BY Zenon, <1>4 DEF KeyOutcome
  <2>2. t \in Nat /\ c.n \in Nat
    BY Zenon, SoundNumbers, PositionNat
  <2>3. c.n <= t
    BY <2>1, <2>2
  <2>4. Follows(c, t, message_key(c, t).chain)
    BY ZenonT(30), <1>4, ForwardFollows
  <2> QED
    BY Zenon, <2>3, <2>4, <1>2
<1> QED
  BY Zenon, <1>2, <1>3, <1>4

(* What an open spends: the position it opens, and what the cap costs it.    *)
LEMMA OpenSpends ==
    ASSUME NEW c, Sound(c), NEW t \in Position, NEW key, Opens(c, t, key)
    PROVE  /\ Sound(Opened(c, t))
           /\ Opened(c, t).chain_key.seed = c.chain_key.seed
           /\ Spent(Opened(c, t)) = Spent(c) \cup {t} \cup Evicted(c, t)
<1> DEFINE d == Opened(c, t)
<1>1. Sound(d) /\ d.chain_key.seed = c.chain_key.seed
  BY Zenon, OpenFollows DEF Follows
<1>2. decode_checkpoint(encode_checkpoint(c)) = c
  BY Zenon, SoundForks DEF ForkExact
<1>3. KeyOutcome(c, t) \in {"buffered", "forward"} /\ d = message_key(c, t).chain
  BY Zenon, <1>2 DEF Opens, Opened
<1>4. c.n \in Nat /\ t \in Nat
  BY Zenon, SoundNumbers, PositionNat
<1> HIDE DEF d
<1>5. ASSUME KeyOutcome(c, t) = "buffered"
      PROVE  Spent(d) = Spent(c) \cup {t} \cup Evicted(c, t)
  <2>1. t \in DOMAIN c.skipped
    BY Zenon, <1>5 DEF KeyOutcome
  <2>2. d = TakeSkipped(c, t)
    BY Zenon, <1>3, <1>5 DEF message_key
  <2>3. c = [chain_key |-> c.chain_key, n |-> c.n, skipped |-> c.skipped, order |-> c.order]
    BY ZenonT(30), SoundFacts
  <2>4. d.n = c.n /\ d.skipped = [q \in DOMAIN c.skipped \ {t} |-> c.skipped[q]]
    <3> DEFINE K == [q \in DOMAIN c.skipped \ {t} |-> c.skipped[q]]
               R == Retain(c.order, t)
    <3>1. d = [c EXCEPT !.skipped = K, !.order = R]
      BY Zenon, <2>2 DEF TakeSkipped
    <3> HIDE DEF K, R
    <3>2. d = [chain_key |-> c.chain_key, n |-> c.n, skipped |-> K, order |-> R]
      BY ZenonT(30), <3>1, <2>3
    <3>3. d.n = c.n /\ d.skipped = K
      BY Zenon, <3>2
    <3> QED
      BY Zenon, <3>3 DEF K
  <2>5. DOMAIN d.skipped = DOMAIN c.skipped \ {t}
    BY Zenon, <2>4
  <2>6. Evicted(c, t) = {}
    BY Zenon, <2>1 DEF Evicted
  <2>7. t < c.n
    BY ZenonT(30), <2>1, SoundFacts
  <2>8. t \in 0..(c.n - 1)
    BY <2>7, <1>4
  <2> QED
    BY Zenon, <2>4, <2>5, <2>6, <2>8, <1>1 DEF Spent
<1>6. ASSUME KeyOutcome(c, t) = "forward"
      PROVE  Spent(d) = Spent(c) \cup {t} \cup Evicted(c, t)
  <2>1. /\ d.n = t + 1
        /\ DOMAIN d.skipped = (DOMAIN c.skipped \cup c.n..(t - 1)) \ Evicted(c, t)
        /\ Evicted(c, t) \subseteq DOMAIN c.skipped \cup c.n..(t - 1)
    <3> DEFINE m == message_key(c, t).chain
    <3>1. /\ m.n = t + 1
          /\ DOMAIN m.skipped = (DOMAIN c.skipped \cup c.n..(t - 1)) \ Evicted(c, t)
          /\ Evicted(c, t) \subseteq DOMAIN c.skipped \cup c.n..(t - 1)
      BY ZenonT(30), <1>6, ForwardFollows
    <3>2. d = m
      BY Zenon, <1>3
    <3> HIDE DEF m
    <3> QED
      BY Zenon, <3>1, <3>2
  <2>2. t \notin DOMAIN c.skipped /\ ~(t < c.n)
    BY Zenon, <1>6 DEF KeyOutcome
  <2>3. \A q \in DOMAIN c.skipped : q \in 0..(c.n - 1)
    <3>1. \A q \in DOMAIN c.skipped : q \in Nat /\ q < c.n
      BY ZenonT(30), SoundFacts, PositionNat
    <3> QED
      BY <3>1, <1>4
  <2>4. Evicted(c, t) \subseteq 0..t
    <3> SUFFICES ASSUME NEW q \in Evicted(c, t) PROVE q \in 0..t
      BY Zenon
    <3>1. q \in 0..(c.n - 1) \/ q \in c.n..(t - 1)
      BY Zenon, <2>1, <2>3
    <3> QED
      BY <3>1, <2>2, <1>4
  <2>5. \A q : q \in 0..((t + 1) - 1) <=> q \in 0..(c.n - 1) \/ q \in c.n..(t - 1) \/ q = t
    BY <2>2, <1>4
  <2>6. \A q : q \in c.n..(t - 1) => q \notin 0..(c.n - 1)
    BY <1>4
  <2>7. \A q \in Evicted(c, t) : q \in 0..((t + 1) - 1)
    BY <2>4, <1>4
  <2>8. t \notin c.n..(t - 1)
    BY <1>4
  <2> QED
    BY ZenonT(30), <2>1, <2>2, <2>3, <2>5, <2>6, <2>7, <2>8, <1>1 DEF Spent
<1>7. /\ Sound(d) /\ d.chain_key.seed = c.chain_key.seed
      /\ Spent(d) = Spent(c) \cup {t} \cup Evicted(c, t)
  BY Zenon, <1>1, <1>3, <1>5, <1>6
<1> QED
  BY Zenon, <1>7 DEF d

(* A distribution or snapshot of the chain of a seed, at a position whose    *)
(* chain key it carries.                                                     *)
Fits(skd, seed) ==
    /\ skd.n \in Position
    /\ skd.chain_key \in ChainKey
    /\ skd.chain_key = [seed |-> seed, step |-> skd.n]

(* A chain installed from a distribution is well-formed.                     *)
LEMMA InstalledSound ==
    ASSUME NEW skd, NEW seed, Fits(skd, seed)
    PROVE  /\ Sound(from_distribution(skd))
           /\ from_distribution(skd).chain_key.seed = seed
<1> DEFINE d == from_distribution(skd)
<1>1. d = [chain_key |-> skd.chain_key, n |-> skd.n, skipped |-> <<>>, order |-> <<>>]
  BY Zenon DEF from_distribution
<1>2. <<>> \in [{} -> ChainKey] /\ {} \in SUBSET Position
  OBVIOUS
<1>3. <<>> \in UNION {[S -> ChainKey] : S \in SUBSET Position}
  BY Zenon, <1>2
<1>4. <<>> \in Seq(Position) /\ Len(<<>>) = 0
  BY Zenon, EmptySeq
<1>5. d \in ChainType
  BY <1>1, <1>3, <1>4 DEF Fits, ChainType
<1>6. /\ d.n = skd.n /\ d.chain_key = skd.chain_key /\ d.skipped = <<>> /\ d.order = <<>>
  BY <1>1
<1>7. Elems(<<>>) = {} /\ DOMAIN <<>> = {}
  BY <1>4 DEF Elems
<1>8. BufferShape(d)
  <2>1. /\ d.n \in Position /\ d.chain_key.step = d.n
        /\ \A p \in DOMAIN d.skipped : d.skipped[p] = [seed |-> d.chain_key.seed, step |-> p]
    BY <1>6, <1>7 DEF Fits
  <2>2. Elems(d.order) = DOMAIN d.skipped /\ Len(d.order) = 0
    BY Zenon, <1>4, <1>6, <1>7
  <2> QED
    BY <2>1, <2>2, SenderKeyAssumption DEF BufferShape
<1> QED
  BY <1>5, <1>6, <1>8 DEF Sound, Fits

(* It can open nothing before the position of the distribution.              *)
LEMMA InstalledSpends ==
    ASSUME NEW skd
    PROVE  Spent(from_distribution(skd)) = 0..(skd.n - 1)
<1> DEFINE d == from_distribution(skd)
<1>1. d.n = skd.n /\ d.skipped = <<>>
  BY Zenon DEF from_distribution
<1>2. DOMAIN <<>> = {}
  OBVIOUS
<1> QED
  BY Zenon, <1>1, <1>2 DEF Spent

(* A snapshot is adopted forwards only, and keeps every buffered key.        *)
LEMMA RefreshedSound ==
    ASSUME NEW c, Sound(c), NEW skd, NEW seed, Fits(skd, seed),
           c.chain_key.seed = seed
    PROVE  LET d == refresh_distribution(c, skd)
           IN  /\ Sound(d) /\ d.chain_key.seed = seed
               /\ c.n <= d.n /\ d.skipped = c.skipped
<1> DEFINE d == refresh_distribution(c, skd)
<1>1. CASE ~(skd.n - c.n > MAX_SKIP)
  <2>1. d = c
    BY Zenon, <1>1 DEF refresh_distribution
  <2>2. c.n <= c.n
    BY SoundNumbers
  <2> QED
    BY Zenon, <2>1, <2>2
<1>2. CASE skd.n - c.n > MAX_SKIP
  <2>1. c = [chain_key |-> c.chain_key, n |-> c.n, skipped |-> c.skipped, order |-> c.order]
    BY ZenonT(30), SoundFacts
  <2>2. d = [c EXCEPT !.chain_key = skd.chain_key, !.n = skd.n]
    BY Zenon, <1>2 DEF refresh_distribution
  <2>3. d = [chain_key |-> skd.chain_key, n |-> skd.n, skipped |-> c.skipped, order |-> c.order]
    BY ZenonT(30), <2>1, <2>2
  <2>4. /\ d.n = skd.n /\ d.chain_key = skd.chain_key /\ d.skipped = c.skipped /\ d.order = c.order
    BY <2>3
  <2>5. c.n \in Nat /\ skd.n \in Nat /\ c.n <= skd.n
    <3>1. c.n \in Nat /\ skd.n \in Nat /\ MAX_SKIP \in Nat
      BY Zenon, SoundNumbers, PositionNat, SenderKeyAssumption DEF Fits
    <3> QED
      BY <3>1, <1>2
  <2>6. d \in ChainType
    BY SMTT(30), <2>3 DEF Fits, Sound, ChainType
  <2>7. \A i \in 1..Len(c.order) : c.order[i] < skd.n
    BY SMTT(30), <2>5, SoundNumbers
  <2>8. BufferShape(d)
    <3>1. /\ d.n \in Position /\ d.chain_key.step = d.n
          /\ d.chain_key.seed = c.chain_key.seed
      BY SMTT(30), <2>4 DEF Fits
    <3> QED
      BY Zenon, <3>1, <2>4, <2>7 DEF Sound, BufferShape
  <2> QED
    BY SMTT(30), <2>4, <2>5, <2>6, <2>8 DEF Sound, Fits
<1> QED
  BY Zenon, <1>1, <1>2

(* What a snapshot spends: the positions it jumps over.                      *)
LEMMA RefreshedSpends ==
    ASSUME NEW c, Sound(c), NEW d, Sound(d), c.n <= d.n, d.skipped = c.skipped
    PROVE  Spent(d) = Spent(c) \cup c.n..(d.n - 1)
<1>1. c.n \in Nat /\ d.n \in Nat
  BY Zenon, SoundNumbers
<1>2. \A q : q \in 0..(d.n - 1) <=> q \in 0..(c.n - 1) \/ q \in c.n..(d.n - 1)
  BY <1>1
<1>3. \A q \in c.n..(d.n - 1) : ~(q < c.n)
  BY <1>1
<1>4. \A q \in DOMAIN c.skipped : q < c.n
  BY ZenonT(30), SoundFacts
<1> QED
  BY Zenon, <1>2, <1>3, <1>4 DEF Spent

=============================================================================
