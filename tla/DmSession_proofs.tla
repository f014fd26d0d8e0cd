-------------------------- MODULE DmSession_proofs ---------------------------
(***************************************************************************)
(* A message opens at most once, for any number of messages and any caps   *)
(* on the skipped keys.  The roots of a session only grow, and along one   *)
(* chain the position only grows, so a key that was passed can be had      *)
(* again only from the skipped keys, where each is kept once.  A session   *)
(* that has opened something has a receiving chain, so the tie-break of    *)
(* prepare_decrypt never throws it away.                                   *)
(***************************************************************************)
EXTENDS DmSession, SequenceTheorems, TLAPS

\* A session can no longer come to k by walking or turning: k belongs to an
\* older chain, or to a passed position of the receiving one.
Old(s, k) ==
    /\ Len(k.root) < Len(s.rk)
    /\ s.ckr # None /\ k.root = s.ckr.root => k.n < s.ckr.n

Once(q) == \A i, j \in 1..Len(q) : q[i].mk = q[j].mk => i = j
Lacks(q, k) == \A i \in 1..Len(q) : q[i].mk # k

\* The skipped keys are old ones, each kept once.
StateOk(s) ==
    /\ s \in States
    /\ s.ckr # None => Len(s.ckr.root) < Len(s.rk)
    /\ \A i \in 1..Len(s.skipped) : s.ckr # None /\ Old(s, s.skipped[i].mk)
    /\ Once(s.skipped)

\* The session derived the message key k once and has it no more.
Spent(s, k) ==
    /\ s.ckr # None
    /\ Old(s, k)
    /\ Lacks(s.skipped, k)

Wires == [from : Devices, pub : Keys, pn : Nat, n : Nat, mk : ChainKeys]

\* Every stored session is in order, and has spent what it opened.
SessionInv ==
    /\ wires \subseteq Wires /\ opened \subseteq wires /\ fresh \in Nat
    /\ DOMAIN sess = Devices
    /\ \A d \in Devices : sess[d] # None => StateOk(sess[d])
    /\ \A w \in opened :
          /\ sess[Peer(w.from)] # None
          /\ Spent(sess[Peer(w.from)], w.mk)

\* Counting up stays a number.
LEMMA Succ == \A n \in Nat : n + 1 \in Nat
  OBVIOUS

\* A session is the record of its fields, each of its kind.
LEMMA StateFields ==
    ASSUME NEW s \in States
    PROVE  /\ s = [dhs |-> s.dhs, dhr |-> s.dhr, rk |-> s.rk, cks |-> s.cks, ckr |-> s.ckr,
                   ns |-> s.ns, nr |-> s.nr, pn |-> s.pn, skipped |-> s.skipped]
           /\ s.dhs \in Keys /\ s.dhr \in Keys \cup {None} /\ s.rk \in Roots
           /\ s.cks \in ChainKeys \cup {None} /\ s.ckr \in ChainKeys \cup {None}
           /\ s.ns \in Nat /\ s.nr \in Nat /\ s.pn \in Nat /\ s.skipped \in Seq(Skipped)
  BY ZenonT(60) DEF States

-----------------------------------------------------------------------------
(***************************************************************************)
(* The updates of a session, field by field.                               *)
(***************************************************************************)
Walked(s, q, ck, n) == [s EXCEPT !.skipped = q, !.ckr = ck, !.nr = n]

\* The walk of skip_message_keys changes three fields.
LEMMA WalkedState ==
    ASSUME NEW s \in States, NEW q \in Seq(Skipped), NEW ck \in ChainKeys, NEW n \in Nat
    PROVE  LET t == Walked(s, q, ck, n)
    IN     /\ t \in States
           /\ t.dhs = s.dhs /\ t.rk = s.rk /\ t.ns = s.ns /\ t.ckr = ck /\ t.skipped = q
<1> DEFINE t == Walked(s, q, ck, n)
<1>0. t = [s EXCEPT !.skipped = q, !.ckr = ck, !.nr = n]
  BY Zenon DEF Walked
<1> HIDE DEF t
<1>1. t = [dhs |-> s.dhs, dhr |-> s.dhr, rk |-> s.rk, cks |-> s.cks, ckr |-> ck,
           ns |-> s.ns, nr |-> n, pn |-> s.pn, skipped |-> q]
  BY ZenonT(60), <1>0 DEF States
<1>2. t \in States
  BY ZenonT(60), <1>0 DEF States
<1>3. t.dhs = s.dhs /\ t.rk = s.rk /\ t.ns = s.ns /\ t.ckr = ck /\ t.skipped = q
  BY ZenonT(60), <1>1
<1> QED
  BY Zenon, <1>2, <1>3 DEF t

Advanced(s, ck, n) == [s EXCEPT !.ckr = ck, !.nr = n]

\* Opening in order changes two fields.
LEMMA AdvancedState ==
    ASSUME NEW s \in States, NEW ck \in ChainKeys, NEW n \in Nat
    PROVE  LET t == Advanced(s, ck, n)
    IN     /\ t \in States
           /\ t.rk = s.rk /\ t.ckr = ck /\ t.skipped = s.skipped
<1> DEFINE t == Advanced(s, ck, n)
<1>0. t = [s EXCEPT !.ckr = ck, !.nr = n]
  BY Zenon DEF Advanced
<1> HIDE DEF t
<1>1. t = [dhs |-> s.dhs, dhr |-> s.dhr, rk |-> s.rk, cks |-> s.cks, ckr |-> ck,
           ns |-> s.ns, nr |-> n, pn |-> s.pn, skipped |-> s.skipped]
  BY ZenonT(60), <1>0 DEF States
<1>2. t \in States
  BY ZenonT(60), <1>0 DEF States
<1>3. t.rk = s.rk /\ t.ckr = ck /\ t.skipped = s.skipped
  BY ZenonT(60), <1>1
<1> QED
  BY Zenon, <1>2, <1>3 DEF t

Taken(s, q) == [s EXCEPT !.skipped = q]

\* Opening with a skipped key changes one.
LEMMA TakenState ==
    ASSUME NEW s \in States, NEW q \in Seq(Skipped)
    PROVE  LET t == Taken(s, q)
    IN     /\ t \in States
           /\ t.rk = s.rk /\ t.ckr = s.ckr /\ t.skipped = q
<1> DEFINE t == Taken(s, q)
<1>0. t = [s EXCEPT !.skipped = q]
  BY Zenon DEF Taken
<1> HIDE DEF t
<1>1. t = [dhs |-> s.dhs, dhr |-> s.dhr, rk |-> s.rk, cks |-> s.cks, ckr |-> s.ckr,
           ns |-> s.ns, nr |-> s.nr, pn |-> s.pn, skipped |-> q]
  BY ZenonT(60), <1>0 DEF States
<1>2. t \in States
  BY ZenonT(60), <1>0 DEF States
<1>3. t.rk = s.rk /\ t.ckr = s.ckr /\ t.skipped = q
  BY ZenonT(60), <1>1
<1> QED
  BY Zenon, <1>2, <1>3 DEF t

SealedBy(s, ck, n) == [s EXCEPT !.cks = ck, !.ns = n]

\* Sealing changes the sending half.
LEMMA SealedState ==
    ASSUME NEW s \in States, NEW ck \in ChainKeys, NEW n \in Nat
    PROVE  LET t == SealedBy(s, ck, n)
    IN     /\ t \in States
           /\ t.rk = s.rk /\ t.ckr = s.ckr /\ t.skipped = s.skipped
<1> DEFINE t == SealedBy(s, ck, n)
<1>0. t = [s EXCEPT !.cks = ck, !.ns = n]
  BY Zenon DEF SealedBy
<1> HIDE DEF t
<1>1. t = [dhs |-> s.dhs, dhr |-> s.dhr, rk |-> s.rk, cks |-> ck, ckr |-> s.ckr,
           ns |-> n, nr |-> s.nr, pn |-> s.pn, skipped |-> s.skipped]
  BY ZenonT(60), <1>0 DEF States
<1>2. t \in States
  BY ZenonT(60), <1>0 DEF States
<1>3. t.rk = s.rk /\ t.ckr = s.ckr /\ t.skipped = s.skipped
  BY ZenonT(60), <1>1
<1> QED
  BY Zenon, <1>2, <1>3 DEF t

\* A root and a position make a chain key.
LEMMA KeyMade ==
    ASSUME NEW r \in Roots, NEW m \in Nat
    PROVE  /\ [root |-> r, n |-> m] \in ChainKeys
           /\ [root |-> r, n |-> m].root = r /\ [root |-> r, n |-> m].n = m
  BY Zenon DEF ChainKeys

\* What is kept in the skipped keys is a chain key.
LEMMA SkippedKeys ==
    ASSUME NEW q \in Seq(Skipped)
    PROVE  \A i \in 1..Len(q) : q[i] \in Skipped /\ q[i].mk \in ChainKeys
<1>1. \A i \in 1..Len(q) : q[i] \in Skipped
  BY ElementOfSeq
<1> QED
  BY Zenon, <1>1 DEF Skipped

\* Steps along a chain keep its root and add to its position.
LEMMA WalkFacts ==
    ASSUME NEW ck \in ChainKeys, NEW k \in Nat
    PROVE  /\ Walk(ck, k) \in ChainKeys /\ Walk(ck, k).root = ck.root
           /\ Walk(ck, k).n = ck.n + k /\ ck.n \in Nat /\ ck.root \in Roots
<1>1. ck.n \in Nat /\ ck.root \in Roots
  BY Zenon DEF ChainKeys
<1>2. ck.n + k \in Nat
  BY <1>1
<1>3. Walk(ck, k) = [root |-> ck.root, n |-> ck.n + k]
  BY Zenon DEF Walk
<1>4. LET w == [root |-> ck.root, n |-> ck.n + k]
      IN  w \in ChainKeys /\ w.root = ck.root /\ w.n = ck.n + k
  BY Zenon, <1>1, <1>2, KeyMade
<1> QED
  BY Zenon, <1>1, <1>3, <1>4

\* Mixing a result into a root makes it longer.
LEMMA RootGrows ==
    ASSUME NEW rk \in Roots, NEW x \in SUBSET Keys
    PROVE  /\ kdf_rk(rk, x) \in Roots /\ Len(rk) \in Nat
           /\ Len(kdf_rk(rk, x)) = Len(rk) + 1
  BY Zenon, AppendProperties, LenProperties DEF kdf_rk, Roots

\* A chain starts at position zero of its root.
LEMMA NewChainFacts ==
    ASSUME NEW rk \in Roots
    PROVE  NewChain(rk) \in ChainKeys /\ NewChain(rk).root = rk /\ NewChain(rk).n = 0
<1>1. 0 \in Nat
  OBVIOUS
<1> QED
  BY Zenon, <1>1 DEF NewChain, ChainKeys

\* A skipped key with its place.
LEMMA SkippedMade ==
    ASSUME NEW p \in Keys \cup {None}, NEW n \in Nat, NEW mk \in ChainKeys
    PROVE  /\ [pub |-> p, n |-> n, mk |-> mk] \in Skipped
           /\ [pub |-> p, n |-> n, mk |-> mk].mk = mk
  BY Zenon DEF Skipped

\* What eviction leaves of a queue: its end.
Evicted(q) ==
    IF Len(q) - MaxSkippedTotal > 0 THEN SubSeq(q, Len(q) - MaxSkippedTotal + 1, Len(q)) ELSE q

\* The eviction keeps the end of the queue, in order.
LEMMA EvictionFacts ==
    ASSUME NEW q \in Seq(Skipped)
    PROVE  /\ Evicted(q) \in Seq(Skipped)
           /\ \E o \in Nat : \A i \in 1..Len(Evicted(q)) :
                 i + o \in 1..Len(q) /\ Evicted(q)[i] = q[i + o]
<1> DEFINE max == MaxSkippedTotal
           kept == Evicted(q)
<1>1. /\ Len(q) \in Nat /\ \A i \in 1..Len(q) : q[i] \in Skipped
      /\ max \in Nat /\ max # 0
  BY LenProperties, ElementOfSeq, RatchetAssumption
<1>0. kept = IF Len(q) - max > 0 THEN SubSeq(q, Len(q) - max + 1, Len(q)) ELSE q
  BY Zenon DEF Evicted
<1> HIDE DEF max, kept
<1>2. ASSUME Len(q) - max > 0
      PROVE  /\ kept \in Seq(Skipped)
             /\ \E o \in Nat : \A i \in 1..Len(kept) : i + o \in 1..Len(q) /\ kept[i] = q[i + o]
  <2> DEFINE o == Len(q) - max
  <2>1. o \in Nat /\ o < Len(q) /\ o + 1 \in Int /\ Len(q) \in Int /\ o + 1 <= Len(q)
    BY <1>1, <1>2
  <2>2. \A i \in o + 1..Len(q) : q[i] \in Skipped
    BY <2>1, <1>1
  <2>3. kept = SubSeq(q, o + 1, Len(q))
    BY Zenon, <1>0, <1>2
  <2> HIDE DEF o
  <2>4. /\ kept \in Seq(Skipped)
        /\ Len(kept) = Len(q) - (o + 1) + 1
        /\ \A i \in 1..Len(q) - (o + 1) + 1 : kept[i] = q[o + 1 + i - 1]
    BY ONLY <2>1, <2>2, <2>3, SubSeqProperties
  <2>5. \A i \in 1..Len(kept) : /\ i \in 1..Len(q) - (o + 1) + 1 /\ o + 1 + i - 1 = i + o
                                /\ i + o \in 1..Len(q)
    BY ONLY <2>4, <2>1, <1>1
  <2>6. \A i \in 1..Len(kept) : i + o \in 1..Len(q) /\ kept[i] = q[i + o]
    BY Zenon, <2>4, <2>5
  <2> QED
    BY Zenon, <2>1, <2>4, <2>6
<1>3. ASSUME ~(Len(q) - max > 0)
      PROVE  /\ kept \in Seq(Skipped)
             /\ \E o \in Nat : \A i \in 1..Len(kept) : i + o \in 1..Len(q) /\ kept[i] = q[i + o]
  <2>1. kept = q
    BY Zenon, <1>0, <1>3
  <2>2. \A i \in 1..Len(q) : i + 0 = i
    BY <1>1
  <2>3. 0 \in Nat
    OBVIOUS
  <2> QED
    BY Zenon, <2>1, <2>2, <2>3
<1>4. /\ kept \in Seq(Skipped)
      /\ \E o \in Nat : \A i \in 1..Len(kept) : i + o \in 1..Len(q) /\ kept[i] = q[i + o]
  BY Zenon, <1>2, <1>3
<1> QED
  BY Zenon, <1>4 DEF kept

\* skip_message_keys keeps a session in order, and makes nothing spent
\* available again.
LEMMA SkipKeeps ==
    ASSUME NEW s, StateOk(s), NEW until \in Nat
    PROVE  LET t == skip_message_keys(s, until)
           IN  /\ StateOk(t) /\ t.rk = s.rk /\ t.dhs = s.dhs /\ t.ns = s.ns
               /\ s.ckr = None => t.ckr = None
               /\ s.ckr # None => /\ t.ckr # None /\ t.ckr.root = s.ckr.root
                                  /\ t.ckr.n >= s.ckr.n
               /\ \A k \in ChainKeys : Spent(s, k) => Spent(t, k)
<1> DEFINE t == skip_message_keys(s, until)
<1>1. s \in States /\ (s.ckr # None => Len(s.ckr.root) < Len(s.rk))
  BY Zenon DEF StateOk
<1>2. CASE s.ckr = None \/ until < s.nr
  <2>1. t = s
    BY Zenon, <1>2 DEF skip_message_keys
  <2>2. s.ckr # None => s.ckr.n \in Nat
    BY Zenon, <1>1, StateFields DEF StateOk, ChainKeys
  <2>3. s.ckr # None => s.ckr.n >= s.ckr.n
    BY <2>2
  <2> HIDE DEF t
  <2>4. /\ StateOk(t) /\ t.rk = s.rk /\ t.dhs = s.dhs /\ t.ns = s.ns
        /\ s.ckr = None => t.ckr = None
        /\ s.ckr # None => /\ t.ckr # None /\ t.ckr.root = s.ckr.root /\ t.ckr.n >= s.ckr.n
        /\ \A k \in ChainKeys : Spent(s, k) => Spent(t, k)
    BY Zenon, <2>1, <2>3
  <2> QED
    BY Zenon, <2>4 DEF t
<1>3. CASE s.ckr # None /\ ~(until < s.nr)
  <2> DEFINE g == until - s.nr
             new == [i \in 1..g |-> [pub |-> s.dhr, n |-> s.nr + i - 1, mk |-> Walk(s.ckr, i - 1)]]
             all == s.skipped \o new
             over == Len(all) - MaxSkippedTotal
             kept == IF over > 0 THEN SubSeq(all, over + 1, Len(all)) ELSE all
             ck == Walk(s.ckr, g)
  <2>1. /\ s.ckr \in ChainKeys /\ s.dhr \in Keys \cup {None} /\ s.skipped \in Seq(Skipped)
        /\ s.nr \in Nat /\ s.ckr.n \in Nat /\ s.ckr.root \in Roots
    BY Zenon, <1>1, <1>3, StateFields DEF StateOk, ChainKeys
  <2>2. g \in Nat
    BY <2>1, <1>3
  <2>3. ck \in ChainKeys /\ ck.root = s.ckr.root /\ ck.n = s.ckr.n + g
    BY Zenon, <2>1, <2>2, WalkFacts
  <2>4. t = [s EXCEPT !.skipped = kept, !.ckr = ck, !.nr = until]
    BY Zenon, <1>3 DEF skip_message_keys
  <2>5. ck.n >= s.ckr.n
    BY <2>1, <2>2, <2>3
  <2> HIDE DEF g
  <2>6. \A i \in 1..g : /\ i - 1 \in Nat /\ s.nr + i - 1 \in Nat
                        /\ s.ckr.n + (i - 1) < s.ckr.n + g
    BY <2>1, <2>2
  <2>7. \A i \in 1..g : /\ Walk(s.ckr, i - 1) \in ChainKeys
                        /\ Walk(s.ckr, i - 1).root = s.ckr.root
                        /\ Walk(s.ckr, i - 1).n = s.ckr.n + (i - 1)
    BY Zenon, <2>1, <2>6, WalkFacts
  <2>8. \A i \in 1..g :
           /\ [pub |-> s.dhr, n |-> s.nr + i - 1, mk |-> Walk(s.ckr, i - 1)] \in Skipped
           /\ [pub |-> s.dhr, n |-> s.nr + i - 1, mk |-> Walk(s.ckr, i - 1)].mk
                 = Walk(s.ckr, i - 1)
    BY Zenon, <2>1, <2>6, <2>7, SkippedMade
  <2>9. new \in Seq(Skipped) /\ Len(new) = g /\ \A i \in 1..g : new[i].mk = Walk(s.ckr, i - 1)
    <3>1. new \in [1..g -> Skipped]
      BY Zenon, <2>8
    <3>2. \A i \in 1..g : new[i].mk = Walk(s.ckr, i - 1)
      BY Zenon, <2>8
    <3>3. DOMAIN new = 1..g
      BY Zenon
    <3> HIDE DEF new
    <3>4. new \in Seq(Skipped) /\ Len(new) = g
      BY ONLY <3>1, <3>3, <2>2
    <3> QED
      BY Zenon, <3>2, <3>4
  <2> HIDE DEF new
  <2>10. /\ all \in Seq(Skipped) /\ Len(all) = Len(s.skipped) + g /\ Len(s.skipped) \in Nat
         /\ \A i \in 1..Len(all) :
               \/ i \in 1..Len(s.skipped) /\ all[i] = s.skipped[i]
               \/ i - Len(s.skipped) \in 1..g /\ all[i] = new[i - Len(s.skipped)]
    <3>1. /\ all \in Seq(Skipped) /\ Len(all) = Len(s.skipped) + g
          /\ \A i \in 1..Len(all) : all[i] = IF i <= Len(s.skipped) THEN s.skipped[i]
                                             ELSE new[i - Len(s.skipped)]
      <4>1. s.skipped \in Seq(Skipped) /\ new \in Seq(Skipped)
        BY Zenon, <2>1, <2>9
      <4>2. /\ s.skipped \o new \in Seq(Skipped)
            /\ Len(s.skipped \o new) = Len(s.skipped) + Len(new)
            /\ \A i \in 1..Len(s.skipped) + Len(new) :
                  (s.skipped \o new)[i] = IF i <= Len(s.skipped) THEN s.skipped[i]
                                          ELSE new[i - Len(s.skipped)]
        BY Zenon, <4>1, ConcatProperties
      <4> QED
        BY Zenon, <4>2, <2>9
    <3>2. Len(s.skipped) \in Nat
      BY Zenon, <2>1, LenProperties
    <3> HIDE DEF all
    <3>3. \A i \in 1..Len(all) : \/ i <= Len(s.skipped) /\ i \in 1..Len(s.skipped)
                                 \/ ~(i <= Len(s.skipped)) /\ i - Len(s.skipped) \in 1..g
      BY ONLY <3>1, <3>2, <2>2
    <3> QED
      BY Zenon, <3>1, <3>2, <3>3
  <2> HIDE DEF all
  <2>11. \A i \in 1..Len(s.skipped) :
            /\ s.skipped[i].mk \in ChainKeys /\ Len(s.skipped[i].mk.root) < Len(s.rk)
            /\ s.skipped[i].mk.n \in Nat
            /\ s.skipped[i].mk.root = s.ckr.root => s.skipped[i].mk.n < s.ckr.n
    <3>1. \A i \in 1..Len(s.skipped) : s.skipped[i].mk \in ChainKeys
      BY Zenon, <2>1, SkippedKeys
    <3> QED
      BY Zenon, <3>1, <1>3 DEF StateOk, Old, ChainKeys
  <2>12. \A i \in 1..g : /\ new[i].mk \in ChainKeys /\ new[i].mk.root = s.ckr.root
                         /\ new[i].mk.n = s.ckr.n + (i - 1)
    BY Zenon, <2>7, <2>9
  <2>13. \A i \in 1..g : s.ckr.n + (i - 1) \in Nat /\ s.ckr.n + (i - 1) >= s.ckr.n
    BY ONLY <2>1, <2>2
  <2>14. \A n \in Nat : n < s.ckr.n => n < ck.n
    BY ONLY <2>1, <2>2, <2>3
  <2>15. \A i \in 1..Len(all) :
            /\ Len(all[i].mk.root) < Len(s.rk)
            /\ all[i].mk.root = ck.root => all[i].mk.n < ck.n
    <3> SUFFICES ASSUME NEW i \in 1..Len(all)
                 PROVE  /\ Len(all[i].mk.root) < Len(s.rk)
                        /\ all[i].mk.root = ck.root => all[i].mk.n < ck.n
      BY Zenon
    <3>1. CASE i \in 1..Len(s.skipped) /\ all[i] = s.skipped[i]
      BY Zenon, <3>1, <2>11, <2>14, <2>3
    <3>2. CASE i - Len(s.skipped) \in 1..g /\ all[i] = new[i - Len(s.skipped)]
      <4> DEFINE j == i - Len(s.skipped)
      <4> HIDE DEF j
      <4>1. j \in 1..g /\ all[i] = new[j]
        BY Zenon, <3>2 DEF j
      <4> QED
        BY Zenon, <4>1, <2>3, <2>6, <2>12, <1>1, <1>3
    <3> QED
      BY Zenon, <3>1, <3>2, <2>10
  <2>16. \A n \in Nat : \A m \in Nat : n < m => ~(n >= m)
    BY ONLY TRUE
  <2>17. \A k \in ChainKeys : (k.root = s.ckr.root => k.n < s.ckr.n) =>
            \A i \in 1..g : new[i].mk # k
    <3> SUFFICES ASSUME NEW k \in ChainKeys, k.root = s.ckr.root => k.n < s.ckr.n,
                        NEW i \in 1..g, new[i].mk = k
                 PROVE  FALSE
      BY Zenon
    <3>1. k.n < s.ckr.n /\ k.n = s.ckr.n + (i - 1)
      BY Zenon, <2>12
    <3> QED
      BY Zenon, <3>1, <2>1, <2>13, <2>16
  <2>18. Once(all)
    <3> SUFFICES ASSUME NEW i \in 1..Len(all), NEW j \in 1..Len(all), all[i].mk = all[j].mk
                 PROVE  i = j
      BY Zenon DEF Once
    <3> DEFINE a == i - Len(s.skipped)
               b == j - Len(s.skipped)
    <3>1. a = b => i = j
      BY ONLY <2>10
    <3>2. \A x, y \in 1..g : s.ckr.n + (x - 1) = s.ckr.n + (y - 1) => x = y
      BY ONLY <2>1, <2>2
    <3> HIDE DEF a, b
    <3>3. \/ i \in 1..Len(s.skipped) /\ all[i] = s.skipped[i]
          \/ a \in 1..g /\ all[i] = new[a]
      BY Zenon, <2>10 DEF a
    <3>4. \/ j \in 1..Len(s.skipped) /\ all[j] = s.skipped[j]
          \/ b \in 1..g /\ all[j] = new[b]
      BY Zenon, <2>10 DEF b
    <3>5. CASE i \in 1..Len(s.skipped) /\ all[i] = s.skipped[i]
      <4>1. CASE j \in 1..Len(s.skipped) /\ all[j] = s.skipped[j]
        BY Zenon, <3>5, <4>1 DEF StateOk, Once
      <4>2. CASE b \in 1..g /\ all[j] = new[b]
        BY Zenon, <3>5, <4>2, <2>11, <2>17
      <4> QED
        BY Zenon, <4>1, <4>2, <3>4
    <3>6. CASE a \in 1..g /\ all[i] = new[a]
      <4>1. CASE j \in 1..Len(s.skipped) /\ all[j] = s.skipped[j]
        BY Zenon, <3>6, <4>1, <2>11, <2>17
      <4>2. CASE b \in 1..g /\ all[j] = new[b]
        <5>1. new[a].mk = new[b].mk
          BY Zenon, <3>6, <4>2
        <5>2. s.ckr.n + (a - 1) = s.ckr.n + (b - 1)
          BY Zenon, <3>6, <4>2, <5>1, <2>12
        <5> QED
          BY Zenon, <3>6, <4>2, <5>2, <3>1, <3>2
      <4> QED
        BY Zenon, <4>1, <4>2, <3>4
    <3> QED
      BY Zenon, <3>3, <3>5, <3>6
  <2>19. \A k \in ChainKeys : Spent(s, k) => Lacks(all, k)
    BY Zenon, <2>10, <2>17, <1>3 DEF Spent, Old, Lacks
  <2>20. kept \in Seq(Skipped) /\ \E o \in Nat : \A i \in 1..Len(kept) :
                                    i + o \in 1..Len(all) /\ kept[i] = all[i + o]
    <3>1. kept = Evicted(all)
      BY Zenon DEF Evicted
    <3> HIDE DEF kept
    <3> QED
      BY Zenon, <3>1, <2>10, EvictionFacts
  <2> HIDE DEF kept, ck
  <2>21. /\ t \in States /\ t.dhs = s.dhs /\ t.rk = s.rk /\ t.ns = s.ns
         /\ t.ckr = ck /\ t.skipped = kept
    <3>1. t = Walked(s, kept, ck, until)
      BY Zenon, <2>4 DEF Walked
    <3> HIDE DEF t
    <3>2. kept \in Seq(Skipped) /\ ck \in ChainKeys /\ s \in States /\ until \in Nat
      BY Zenon, <1>1, <2>3, <2>20
    <3>3. LET u == Walked(s, kept, ck, until)
          IN  /\ u \in States /\ u.dhs = s.dhs /\ u.rk = s.rk /\ u.ns = s.ns
              /\ u.ckr = ck /\ u.skipped = kept
      BY ONLY <3>2, WalkedState
    <3> QED
      BY Zenon, <3>1, <3>3
  <2> HIDE DEF t
  <2>22. ck # None
    BY Zenon, <2>3, SessionAssumption
  <2>23. PICK o \in Nat : \A i \in 1..Len(kept) : i + o \in 1..Len(all) /\ kept[i] = all[i + o]
    BY Zenon, <2>20
  <2>24. StateOk(t)
    <3>1. \A i \in 1..Len(t.skipped) : t.ckr # None /\ Old(t, t.skipped[i].mk)
      BY Zenon, <2>15, <2>21, <2>22, <2>23 DEF Old
    <3>2. \A i, j \in Nat : i + o = j + o => i = j
      BY ONLY <2>23
    <3>3. \A i \in 1..Len(kept) : i \in Nat
      OBVIOUS
    <3>4. Once(kept)
      <4> SUFFICES ASSUME NEW i \in 1..Len(kept), NEW j \in 1..Len(kept),
                          kept[i].mk = kept[j].mk
                   PROVE  i = j
        BY Zenon DEF Once
      <4>1. /\ i + o \in 1..Len(all) /\ kept[i] = all[i + o]
            /\ j + o \in 1..Len(all) /\ kept[j] = all[j + o]
        BY Zenon, <2>23
      <4>2. i + o = j + o
        BY Zenon, <4>1, <2>18 DEF Once
      <4> QED
        BY Zenon, <4>2, <3>2, <3>3
    <3>5. Len(t.ckr.root) < Len(t.rk)
      BY Zenon, <2>3, <2>21, <1>1, <1>3
    <3> QED
      BY Zenon, <3>1, <3>4, <3>5, <2>21 DEF StateOk
  <2>25. \A k \in ChainKeys : Spent(s, k) => Spent(t, k)
    <3> SUFFICES ASSUME NEW k \in ChainKeys, Spent(s, k) PROVE Spent(t, k)
      BY Zenon
    <3>1. Len(k.root) < Len(s.rk) /\ (k.root = s.ckr.root => k.n < s.ckr.n) /\ k.n \in Nat
      BY Zenon DEF Spent, Old, ChainKeys
    <3>2. Old(t, k)
      BY Zenon, <3>1, <2>3, <2>14, <2>21 DEF Old
    <3>3. Lacks(kept, k)
      BY Zenon, <2>19, <2>23 DEF Lacks
    <3> QED
      BY Zenon, <3>2, <3>3, <2>21, <2>22 DEF Spent
  <2>26. /\ StateOk(t) /\ t.rk = s.rk /\ t.dhs = s.dhs /\ t.ns = s.ns
         /\ s.ckr = None => t.ckr = None
         /\ s.ckr # None => /\ t.ckr # None /\ t.ckr.root = s.ckr.root /\ t.ckr.n >= s.ckr.n
         /\ \A k \in ChainKeys : Spent(s, k) => Spent(t, k)
    BY Zenon, <2>3, <2>5, <2>21, <2>22, <2>24, <2>25, <1>3
  <2> QED
    BY Zenon, <2>26 DEF t
<1> QED
  BY Zenon, <1>2, <1>3

\* A turn begins a chain that is longer than everything before it.
LEMMA TurnKeeps ==
    ASSUME NEW s, StateOk(s), NEW pub \in Keys, NEW f \in Nat
    PROVE  LET t == dh_ratchet(s, pub, f)
           IN  /\ StateOk(t) /\ t.ckr # None
               /\ \A k \in ChainKeys : Len(k.root) < Len(s.rk) => k.root # t.ckr.root
               /\ \A k \in ChainKeys : Spent(s, k) => Spent(t, k)
<1> DEFINE receiving == kdf_rk(s.rk, dh(s.dhs, pub))
           sending == kdf_rk(receiving, dh(f, pub))
           t == dh_ratchet(s, pub, f)
<1>1. /\ s \in States /\ s.rk \in Roots /\ s.dhs \in Keys /\ s.ns \in Nat
      /\ s.skipped \in Seq(Skipped)
  BY Zenon, StateFields DEF StateOk
<1>2. f \in Keys /\ dh(s.dhs, pub) \in SUBSET Keys /\ dh(f, pub) \in SUBSET Keys
  BY Zenon, <1>1 DEF dh, Keys
<1>3. /\ receiving \in Roots /\ Len(s.rk) \in Nat /\ Len(receiving) = Len(s.rk) + 1
      /\ sending \in Roots /\ Len(sending) = Len(receiving) + 1
  BY Zenon, <1>1, <1>2, RootGrows
<1>4. t = [dhs |-> f, dhr |-> pub, rk |-> sending, cks |-> NewChain(sending),
           ckr |-> NewChain(receiving), ns |-> 0, nr |-> 0, pn |-> s.ns,
           skipped |-> s.skipped]
  BY Zenon DEF dh_ratchet
<1> HIDE DEF receiving, sending, t
<1>5. /\ NewChain(receiving) \in ChainKeys /\ NewChain(receiving).root = receiving
      /\ NewChain(sending) \in ChainKeys /\ NewChain(receiving) # None
  BY Zenon, <1>3, NewChainFacts, SessionAssumption
<1>6. 0 \in Nat /\ pub \in Keys \cup {None}
  OBVIOUS
<1>7. /\ t \in States /\ t.rk = sending /\ t.ckr = NewChain(receiving)
      /\ t.skipped = s.skipped
  <2>1. /\ NewChain(receiving) \in ChainKeys \cup {None}
        /\ NewChain(sending) \in ChainKeys \cup {None}
    BY Zenon, <1>5
  <2> QED
    BY Zenon, <2>1, <1>1, <1>2, <1>3, <1>4, <1>6 DEF States
<1>8. Len(t.ckr.root) < Len(t.rk)
  <2>1. Len(receiving) < Len(sending)
    BY ONLY <1>3
  <2> QED
    BY Zenon, <2>1, <1>5, <1>7
<1>9. \A k \in ChainKeys : Len(k.root) < Len(s.rk) =>
          Len(k.root) < Len(t.rk) /\ k.root # t.ckr.root
  <2> SUFFICES ASSUME NEW k \in ChainKeys, Len(k.root) < Len(s.rk)
               PROVE  Len(k.root) < Len(t.rk) /\ k.root # t.ckr.root
    BY Zenon
  <2>1. Len(k.root) \in Nat
    BY Zenon, LenProperties DEF ChainKeys, Roots
  <2>2. Len(k.root) < Len(sending) /\ Len(k.root) # Len(receiving)
    BY ONLY <2>1, <1>3, Len(k.root) < Len(s.rk)
  <2> QED
    BY Zenon, <2>2, <1>5, <1>7
<1>10. \A k \in ChainKeys : Old(s, k) => Old(t, k)
  BY Zenon, <1>9 DEF Old
<1>11. StateOk(t)
  <2>1. \A i \in 1..Len(s.skipped) : s.skipped[i].mk \in ChainKeys
    BY Zenon, <1>1, SkippedKeys
  <2> QED
    BY Zenon, <2>1, <1>5, <1>7, <1>8, <1>10 DEF StateOk
<1>12. t.ckr # None /\ \A k \in ChainKeys : Spent(s, k) => Spent(t, k)
  BY Zenon, <1>5, <1>7, <1>10 DEF Spent
<1> QED
  BY Zenon, <1>9, <1>11, <1>12 DEF t

\* A queue without one of its places, and where its elements came from.
From(i, at) == IF i < at THEN i ELSE i + 1

\* Every other element stays, none twice.
LEMMA RemoveFacts ==
    ASSUME NEW q \in Seq(Skipped), NEW at \in 1..Len(q)
    PROVE  /\ RemoveAt(q, at) \in Seq(Skipped)
           /\ \A i \in 1..Len(RemoveAt(q, at)) :
                 /\ From(i, at) \in 1..Len(q) /\ From(i, at) # at
                 /\ RemoveAt(q, at)[i] = q[From(i, at)]
<1> DEFINE a == SubSeq(q, 1, at - 1)
           b == SubSeq(q, at + 1, Len(q))
           r == RemoveAt(q, at)
<1>1. Len(q) \in Nat /\ \A i \in 1..Len(q) : q[i] \in Skipped
  BY LenProperties, ElementOfSeq
<1>2. /\ at - 1 \in Int /\ at + 1 \in Int /\ Len(q) \in Int /\ 1 \in Int
      /\ \A i \in 1..at - 1 : i \in 1..Len(q)
      /\ \A i \in at + 1..Len(q) : i \in 1..Len(q)
  BY <1>1
<1>3. /\ a \in Seq(Skipped) /\ Len(a) = IF 1 <= at - 1 THEN at - 1 - 1 + 1 ELSE 0
      /\ \A i \in 1..at - 1 - 1 + 1 : a[i] = q[1 + i - 1]
  BY <1>1, <1>2, SubSeqProperties
<1>4. /\ b \in Seq(Skipped) /\ Len(b) = IF at + 1 <= Len(q) THEN Len(q) - (at + 1) + 1 ELSE 0
      /\ \A i \in 1..Len(q) - (at + 1) + 1 : b[i] = q[at + 1 + i - 1]
  BY <1>1, <1>2, SubSeqProperties
<1>5. r = a \o b
  BY Zenon DEF RemoveAt
<1> HIDE DEF a, b, r
<1>6. Len(a) = at - 1 /\ Len(b) = Len(q) - at
  BY <1>1, <1>3, <1>4
<1>7. /\ r \in Seq(Skipped) /\ Len(r) = Len(a) + Len(b)
      /\ \A i \in 1..Len(a) + Len(b) : r[i] = IF i <= Len(a) THEN a[i] ELSE b[i - Len(a)]
  BY Zenon, <1>3, <1>4, <1>5, ConcatProperties
<1>8. ASSUME NEW i \in 1..Len(r)
      PROVE  /\ From(i, at) \in 1..Len(q) /\ From(i, at) # at
             /\ r[i] = q[From(i, at)]
  <2>1. i \in 1..Len(a) + Len(b)
    BY Zenon, <1>7, <1>8
  <2>2. CASE i < at
    <3>1. /\ i <= Len(a) /\ i \in 1..at - 1 - 1 + 1 /\ 1 + i - 1 = i
          /\ i \in 1..Len(q) /\ i # at
      BY <1>1, <1>6, <2>1, <2>2
    <3>2. r[i] = a[i] /\ a[i] = q[i]
      BY Zenon, <1>3, <1>7, <2>1, <3>1
    <3> QED
      BY Zenon, <2>2, <3>1, <3>2 DEF From
  <2>3. CASE ~(i < at)
    <3>1. /\ ~(i <= Len(a)) /\ i - Len(a) \in 1..Len(q) - (at + 1) + 1
          /\ at + 1 + (i - Len(a)) - 1 = i + 1
          /\ i + 1 \in 1..Len(q) /\ i + 1 # at
      BY <1>1, <1>6, <2>1, <2>3
    <3>2. r[i] = b[i - Len(a)] /\ b[i - Len(a)] = q[i + 1]
      BY Zenon, <1>4, <1>7, <2>1, <3>1
    <3> QED
      BY Zenon, <2>3, <3>1, <3>2 DEF From
  <2> QED
    BY Zenon, <2>2, <2>3
<1> QED
  BY Zenon, <1>7, <1>8 DEF r

\* Opening with a skipped key uses it up.
LEMMA TakeKeeps ==
    ASSUME NEW s, StateOk(s), NEW at \in 1..Len(s.skipped), s.ckr # None,
           NEW t, t = [s EXCEPT !.skipped = RemoveAt(@, at)]
    PROVE  /\ StateOk(t) /\ Spent(t, s.skipped[at].mk)
           /\ \A k \in ChainKeys : Spent(s, k) => Spent(t, k)
<1> DEFINE r == RemoveAt(s.skipped, at)
<1>1. s \in States /\ s.skipped \in Seq(Skipped) /\ Len(s.skipped) \in Nat
  BY Zenon, StateFields, LenProperties DEF StateOk
<1>2. t = [s EXCEPT !.skipped = r]
  BY Zenon, <1>1, StateFields
<1>3. /\ r \in Seq(Skipped)
      /\ \A i \in 1..Len(r) :
            /\ From(i, at) \in 1..Len(s.skipped) /\ From(i, at) # at
            /\ r[i] = s.skipped[From(i, at)]
  BY Zenon, <1>1, RemoveFacts
<1> HIDE DEF r
<1>4. t \in States /\ t.rk = s.rk /\ t.ckr = s.ckr /\ t.skipped = r
  <2>1. t = Taken(s, r)
    BY Zenon, <1>2 DEF Taken
  <2>2. r \in Seq(Skipped) /\ s \in States
    BY Zenon, <1>1, <1>3
  <2>3. LET u == Taken(s, r)
        IN  u \in States /\ u.rk = s.rk /\ u.ckr = s.ckr /\ u.skipped = r
    BY Zenon, <2>2, TakenState
  <2> QED
    BY ONLY <2>1, <2>3
<1>5. \A i \in 1..Len(r) : \E j \in 1..Len(s.skipped) : j # at /\ r[i] = s.skipped[j]
  BY Zenon, <1>3
<1>6. Once(r)
  <2> SUFFICES ASSUME NEW i \in 1..Len(r), NEW j \in 1..Len(r), r[i].mk = r[j].mk
               PROVE  i = j
    BY Zenon DEF Once
  <2> DEFINE x == From(i, at)
             y == From(j, at)
  <2>1. x = y => i = j
    BY <1>1 DEF From
  <2> HIDE DEF x, y
  <2>2. x \in 1..Len(s.skipped) /\ r[i] = s.skipped[x]
    BY Zenon, <1>3 DEF x
  <2>3. y \in 1..Len(s.skipped) /\ r[j] = s.skipped[y]
    BY Zenon, <1>3 DEF y
  <2> QED
    BY Zenon, <2>1, <2>2, <2>3 DEF StateOk, Once
<1>7. \A k : Old(s, k) => Old(t, k)
  BY Zenon, <1>4 DEF Old
<1>8. StateOk(t)
  <2>1. \A i \in 1..Len(t.skipped) : t.ckr # None /\ Old(t, t.skipped[i].mk)
    BY Zenon, <1>4, <1>5, <1>7 DEF StateOk
  <2>2. t.ckr # None => Len(t.ckr.root) < Len(t.rk)
    BY Zenon, <1>4 DEF StateOk
  <2> QED
    BY Zenon, <1>4, <1>6, <2>1, <2>2 DEF StateOk
<1>9. Spent(t, s.skipped[at].mk)
  <2>1. Old(t, s.skipped[at].mk)
    BY Zenon, <1>7 DEF StateOk
  <2>2. Lacks(r, s.skipped[at].mk)
    BY Zenon, <1>5 DEF StateOk, Once, Lacks
  <2> QED
    BY Zenon, <1>4, <2>1, <2>2 DEF Spent
<1>10. \A k \in ChainKeys : Spent(s, k) => Spent(t, k)
  <2>1. \A k : Lacks(s.skipped, k) => Lacks(r, k)
    BY Zenon, <1>5 DEF Lacks
  <2> QED
    BY Zenon, <1>4, <1>7, <2>1 DEF Spent
<1> QED
  BY Zenon, <1>8, <1>9, <1>10

\* Opening with the next key of the chain passes it.
LEMMA AdvanceKeeps ==
    ASSUME NEW s, StateOk(s), s.ckr # None,
           NEW t, t = [s EXCEPT !.ckr = kdf_ck(@), !.nr = @ + 1]
    PROVE  /\ StateOk(t) /\ Spent(t, s.ckr)
           /\ \A k \in ChainKeys : Spent(s, k) => Spent(t, k)
<1> DEFINE ck == kdf_ck(s.ckr)
           n == s.nr + 1
<1>1. /\ s \in States /\ s.ckr \in ChainKeys /\ s.nr \in Nat
      /\ s.ckr.n \in Nat /\ s.skipped \in Seq(Skipped) /\ Len(s.ckr.root) < Len(s.rk)
  BY Zenon, StateFields DEF StateOk, ChainKeys
<1>2. n \in Nat /\ 1 \in Nat
  BY <1>1
<1>3. ck \in ChainKeys /\ ck.root = s.ckr.root /\ ck.n = s.ckr.n + 1 /\ ck # None
  BY Zenon, <1>1, <1>2, WalkFacts, SessionAssumption DEF kdf_ck
<1>4. t = [s EXCEPT !.ckr = ck, !.nr = n]
  BY ZenonT(30), <1>1, StateFields
<1> HIDE DEF ck, n
<1>5. t \in States /\ t.rk = s.rk /\ t.ckr = ck /\ t.skipped = s.skipped
  <2>1. t = Advanced(s, ck, n)
    BY Zenon, <1>4 DEF Advanced
  <2>2. LET u == Advanced(s, ck, n)
        IN  u \in States /\ u.rk = s.rk /\ u.ckr = ck /\ u.skipped = s.skipped
    BY ZenonT(40), <1>1, <1>2, <1>3, AdvancedState
  <2> QED
    BY ONLY <2>1, <2>2
<1>6. \A m \in Nat : m < s.ckr.n => m < ck.n /\ m # s.ckr.n
  BY ONLY <1>1, <1>3
<1>7. s.ckr.n < ck.n
  BY ONLY <1>1, <1>3
<1>8. \A k \in ChainKeys : Old(s, k) => Old(t, k)
  BY Zenon, <1>3, <1>5, <1>6 DEF Old, ChainKeys
<1>9. \A i \in 1..Len(s.skipped) : s.skipped[i].mk \in ChainKeys
  BY Zenon, <1>1, SkippedKeys
<1>10. StateOk(t)
  <2>1. \A i \in 1..Len(t.skipped) : t.ckr # None /\ Old(t, t.skipped[i].mk)
    BY Zenon, <1>3, <1>5, <1>8, <1>9 DEF StateOk
  <2>2. Len(t.ckr.root) < Len(t.rk)
    BY Zenon, <1>1, <1>3, <1>5
  <2> QED
    BY Zenon, <1>5, <2>1, <2>2 DEF StateOk
<1>11. Spent(t, s.ckr)
  <2>1. Old(t, s.ckr)
    BY Zenon, <1>1, <1>5, <1>7 DEF Old
  <2>2. Lacks(s.skipped, s.ckr)
    <3> SUFFICES ASSUME NEW i \in 1..Len(s.skipped), s.skipped[i].mk = s.ckr PROVE FALSE
      BY Zenon DEF Lacks
    <3>1. s.ckr.n < s.ckr.n
      BY Zenon DEF StateOk, Old
    <3> QED
      BY Zenon, <3>1, <1>1, <1>6
  <2> QED
    BY Zenon, <2>1, <2>2, <1>3, <1>5 DEF Spent
<1>12. \A k \in ChainKeys : Spent(s, k) => Spent(t, k)
  BY Zenon, <1>3, <1>5, <1>8 DEF Spent
<1> QED
  BY Zenon, <1>10, <1>11, <1>12

\* The session after the turn that message w may call for, and after the walk.
Turned(s, w, f) ==
    IF s.dhr = w.pub THEN s ELSE dh_ratchet(skip_message_keys(s, w.pn), w.pub, f)
Reached(s, w, f) == skip_message_keys(Turned(s, w, f), w.n)
KeptFor(s, w) ==
    {i \in DOMAIN s.skipped : s.skipped[i].pub = w.pub /\ s.skipped[i].n = w.n}

\* Turning and walking keep a session in order and never come to a spent key.
LEMMA ReachedFacts ==
    ASSUME NEW s, StateOk(s), NEW w \in Wires, NEW f \in Nat
    PROVE  LET t == Reached(s, w, f)
           IN  /\ StateOk(t)
               /\ \A k \in ChainKeys : Spent(s, k) => Spent(t, k) /\ t.ckr # k
<1> DEFINE u == Turned(s, w, f)
           t == Reached(s, w, f)
<1>1. w.pub \in Keys /\ w.pn \in Nat /\ w.n \in Nat
  BY Zenon DEF Wires
<1>2. /\ StateOk(u)
      /\ \A k \in ChainKeys : Spent(s, k) =>
            Spent(u, k) /\ u.ckr # None /\ (k.root = u.ckr.root => k.n < u.ckr.n)
  <2>1. CASE s.dhr = w.pub
    <3>1. u = s
      BY Zenon, <2>1 DEF Turned
    <3> HIDE DEF u
    <3> QED
      BY Zenon, <3>1 DEF Spent, Old
  <2>2. CASE s.dhr # w.pub
    <3> DEFINE v == skip_message_keys(s, w.pn)
    <3>1. u = dh_ratchet(v, w.pub, f)
      BY Zenon, <2>2 DEF Turned
    <3>2. StateOk(v) /\ v.rk = s.rk /\ \A k \in ChainKeys : Spent(s, k) => Spent(v, k)
      BY Zenon, <1>1, SkipKeeps
    <3> HIDE DEF u, v
    <3>3. /\ StateOk(u) /\ u.ckr # None
          /\ \A k \in ChainKeys : Len(k.root) < Len(v.rk) => k.root # u.ckr.root
          /\ \A k \in ChainKeys : Spent(v, k) => Spent(u, k)
      BY Zenon, <1>1, <3>1, <3>2, TurnKeeps
    <3> QED
      BY Zenon, <3>2, <3>3 DEF Spent, Old
  <2> QED
    BY Zenon, <2>1, <2>2
<1>3. t = skip_message_keys(u, w.n)
  BY Zenon DEF Reached
<1> HIDE DEF u, t
<1>4. /\ StateOk(t)
      /\ u.ckr # None => t.ckr # None /\ t.ckr.root = u.ckr.root /\ t.ckr.n >= u.ckr.n
      /\ \A k \in ChainKeys : Spent(u, k) => Spent(t, k)
  BY Zenon, <1>1, <1>2, <1>3, SkipKeeps
<1>5. ASSUME NEW k \in ChainKeys, Spent(s, k), t.ckr = k PROVE FALSE
  <2>1. k.n < u.ckr.n /\ k.n >= u.ckr.n /\ u.ckr # None
    BY Zenon, <1>2, <1>4, <1>5
  <2>2. k.n \in Nat /\ u.ckr.n \in Nat
    BY Zenon, <2>1, <1>2, StateFields DEF StateOk, ChainKeys
  <2> QED
    BY ONLY <2>1, <2>2
<1> QED
  BY Zenon, <1>2, <1>4, <1>5 DEF t

\* An opened message is spent, and nothing spent comes back.
LEMMA OpenKeeps ==
    ASSUME NEW s, StateOk(s), NEW w \in Wires, NEW f \in Nat,
           ratchet_decrypt(s, w, f).ok
    PROVE  LET t == ratchet_decrypt(s, w, f).state
           IN  /\ StateOk(t) /\ Spent(t, w.mk)
               /\ \A k \in ChainKeys : Spent(s, k) => Spent(t, k)
<1> DEFINE t == ratchet_decrypt(s, w, f).state
           kept == KeptFor(s, w)
<1>1. w.mk \in ChainKeys /\ w.mk # None
  BY Zenon, SessionAssumption DEF Wires
<1>2. s.skipped \in Seq(Skipped) /\ DOMAIN s.skipped = 1..Len(s.skipped)
  BY Zenon, StateFields, LenProperties DEF StateOk
<1>3. CASE kept # {}
  <2> DEFINE at == CHOOSE i \in kept : TRUE
  <2>1. t = [s EXCEPT !.skipped = RemoveAt(@, at)] /\ \A i \in kept : s.skipped[i].mk = w.mk
    BY Zenon, <1>3 DEF ratchet_decrypt, KeptFor
  <2>2. at \in kept
    BY Zenon, <1>3
  <2> HIDE DEF at, t
  <2>3. at \in 1..Len(s.skipped)
    BY Zenon, <2>2, <1>2 DEF KeptFor
  <2>4. s.ckr # None /\ s.skipped[at].mk = w.mk
    BY Zenon, <2>1, <2>2, <2>3 DEF StateOk
  <2>5. /\ StateOk(t) /\ Spent(t, s.skipped[at].mk)
        /\ \A k \in ChainKeys : Spent(s, k) => Spent(t, k)
    BY ZenonT(40), <2>1, <2>3, <2>4, TakeKeeps
  <2> QED
    BY Zenon, <2>4, <2>5 DEF t
<1>4. CASE kept = {}
  <2> DEFINE r == Reached(s, w, f)
  <2>1. /\ r.ckr = w.mk
        /\ t = IF r.ckr = None THEN r ELSE [r EXCEPT !.ckr = kdf_ck(@), !.nr = @ + 1]
    BY Zenon, <1>4 DEF ratchet_decrypt, KeptFor, Reached, Turned
  <2>2. StateOk(r) /\ \A k \in ChainKeys : Spent(s, k) => Spent(r, k)
    BY Zenon, ReachedFacts
  <2> HIDE DEF r, t
  <2>3. t = [r EXCEPT !.ckr = kdf_ck(@), !.nr = @ + 1] /\ r.ckr # None
    BY Zenon, <2>1, <1>1
  <2>4. /\ StateOk(t) /\ Spent(t, r.ckr)
        /\ \A k \in ChainKeys : Spent(r, k) => Spent(t, k)
    BY Zenon, <2>2, <2>3, AdvanceKeeps
  <2> QED
    BY Zenon, <2>1, <2>2, <2>4 DEF t
<1> QED
  BY Zenon, <1>3, <1>4

\* What is spent is not opened.
LEMMA SpentRefused ==
    ASSUME NEW s, StateOk(s), NEW w \in Wires, NEW f \in Nat, Spent(s, w.mk)
    PROVE  ~ratchet_decrypt(s, w, f).ok
<1> SUFFICES ASSUME ratchet_decrypt(s, w, f).ok PROVE FALSE
  BY Zenon
<1>1. w.mk \in ChainKeys
  BY Zenon DEF Wires
<1>2. CASE KeptFor(s, w) # {}
  <2>1. \A i \in KeptFor(s, w) : s.skipped[i].mk = w.mk
    BY Zenon, <1>2 DEF ratchet_decrypt, KeptFor
  <2>2. PICK i \in KeptFor(s, w) : TRUE
    BY Zenon, <1>2
  <2>3. i \in 1..Len(s.skipped)
    BY ZenonT(40), StateFields, LenProperties DEF StateOk, KeptFor
  <2> QED
    BY Zenon, <2>1, <2>2, <2>3 DEF Spent, Lacks
<1>3. CASE KeptFor(s, w) = {}
  <2>1. Reached(s, w, f).ckr = w.mk
    BY Zenon, <1>3 DEF ratchet_decrypt, KeptFor, Reached, Turned
  <2> QED
    BY Zenon, <2>1, <1>1, ReachedFacts
<1> QED
  BY Zenon, <1>2, <1>3

-----------------------------------------------------------------------------
\* Both devices start from the same root.
LEMMA SharedRoot == shared_root \in Roots /\ Len(shared_root) = 1
<1>1. dh(Low, High) \in SUBSET Keys
  BY Zenon DEF dh, Keys
<1> QED
  BY <1>1 DEF shared_root, Roots

\* Both roles start with a sound session that has opened nothing.
LEMMA AliceOk ==
    ASSUME NEW d \in Devices, NEW f \in Nat
    PROVE  LET s == init_alice(shared_root, Peer(d), f)
           IN  StateOk(s) /\ s.ckr = None
<1> DEFINE s == init_alice(shared_root, Peer(d), f)
           rk == kdf_rk(shared_root, dh(f, Peer(d)))
<1>1. Peer(d) \in Keys /\ f \in Keys
  BY Zenon DEF Peer, Keys, Devices
<1>0. dh(f, Peer(d)) \in SUBSET Keys
  BY Zenon, <1>1 DEF dh
<1>2. rk \in Roots
  BY Zenon, <1>1, <1>0, SharedRoot, RootGrows
<1>3. NewChain(rk) \in ChainKeys
  BY Zenon, <1>2, NewChainFacts
<1>4. s = [dhs |-> f, dhr |-> Peer(d), rk |-> rk, cks |-> NewChain(rk), ckr |-> None,
           ns |-> 0, nr |-> 0, pn |-> 0, skipped |-> <<>>]
  BY Zenon DEF init_alice
<1> HIDE DEF s, rk
<1>5. 0 \in Nat /\ << >> \in Seq(Skipped) /\ Len(<< >>) = 0 /\ 1..0 = {}
  BY EmptySeq
<1>6. s \in States /\ s.ckr = None /\ s.skipped = << >>
  BY Zenon, <1>1, <1>2, <1>3, <1>4, <1>5 DEF States
<1>7. 1..Len(s.skipped) = {} /\ Once(s.skipped)
  BY Zenon, <1>5, <1>6 DEF Once
<1>8. StateOk(s)
  BY Zenon, <1>6, <1>7 DEF StateOk
<1> QED
  BY Zenon, <1>6, <1>8 DEF s

\* The responder as well.
LEMMA BobOk ==
    ASSUME NEW d \in Devices
    PROVE  LET s == init_bob(shared_root, d)
           IN  StateOk(s) /\ s.ckr = None
<1> DEFINE s == init_bob(shared_root, d)
<1>1. d \in Keys /\ None \in Keys \cup {None} /\ None \in ChainKeys \cup {None}
  BY Zenon DEF Keys, Devices
<1>2. s = [dhs |-> d, dhr |-> None, rk |-> shared_root, cks |-> None, ckr |-> None,
           ns |-> 0, nr |-> 0, pn |-> 0, skipped |-> <<>>]
  BY Zenon DEF init_bob
<1> HIDE DEF s
<1>5. 0 \in Nat /\ << >> \in Seq(Skipped) /\ Len(<< >>) = 0 /\ 1..0 = {}
  BY EmptySeq
<1>6. s \in States /\ s.ckr = None /\ s.skipped = << >>
  BY Zenon, <1>1, <1>2, <1>5, SharedRoot DEF States
<1>7. 1..Len(s.skipped) = {} /\ Once(s.skipped)
  BY Zenon, <1>5, <1>6 DEF Once
<1>8. StateOk(s)
  BY Zenon, <1>6, <1>7 DEF StateOk
<1> QED
  BY Zenon, <1>6, <1>8 DEF s

\* Sealing leaves the receiving half of a session alone.
LEMMA SealKeeps ==
    ASSUME NEW s, StateOk(s), s.cks # None, NEW d \in Devices
    PROVE  LET t == ratchet_encrypt(s)
               w == Sealed(s)
           IN  /\ StateOk(t)
               /\ \A k \in ChainKeys : Spent(s, k) => Spent(t, k)
               /\ [from |-> d, pub |-> w.pub, pn |-> w.pn, n |-> w.n, mk |-> w.mk] \in Wires
<1> DEFINE t == ratchet_encrypt(s)
           ck == kdf_ck(s.cks)
           n == s.ns + 1
<1>1. s \in States /\ s.cks \in ChainKeys
  BY Zenon, StateFields DEF StateOk
<1>2. n \in Nat /\ 1 \in Nat
  BY Zenon, <1>1, StateFields, Succ
<1>3. ck \in ChainKeys
  BY Zenon, <1>1, <1>2, WalkFacts DEF kdf_ck
<1>4. t = [s EXCEPT !.cks = ck, !.ns = n]
  BY ZenonT(30), <1>1, StateFields DEF ratchet_encrypt
<1> HIDE DEF t, ck, n
<1>6. t \in States /\ t.rk = s.rk /\ t.ckr = s.ckr /\ t.skipped = s.skipped
  <2>1. t = SealedBy(s, ck, n)
    BY Zenon, <1>4 DEF SealedBy
  <2> QED
    BY Zenon, <1>1, <1>2, <1>3, <2>1, SealedState
<1>7. StateOk(t) /\ \A k \in ChainKeys : Spent(s, k) => Spent(t, k)
  BY Zenon, <1>6 DEF StateOk, Spent, Old
<1>8. s.dhs \in Keys /\ s.pn \in Nat /\ s.ns \in Nat
  BY Zenon, <1>1, StateFields
<1>9. LET w == Sealed(s)
      IN  [from |-> d, pub |-> w.pub, pn |-> w.pn, n |-> w.n, mk |-> w.mk] \in Wires
  BY ZenonT(30), <1>1, <1>8 DEF Sealed, Wires
<1> QED
  BY Zenon, <1>7, <1>9 DEF t

\* What a device does with an arriving message, seen from the session it has.
LEMMA PreparedFacts ==
    ASSUME SessionInv, NEW d \in Devices, NEW w \in Wires, prepare_decrypt(d, w).ok
    PROVE  LET t == prepare_decrypt(d, w).state
           IN  /\ StateOk(t) /\ Spent(t, w.mk)
               /\ \A k \in ChainKeys : sess[d] # None /\ Spent(sess[d], k) => Spent(t, k)
<1> DEFINE bob == init_bob(shared_root, d)
           s == IF sess[d] = None THEN bob ELSE sess[d]
           first == ratchet_decrypt(s, w, fresh)
           t == prepare_decrypt(d, w).state
<1>1. StateOk(bob)
  BY Zenon, BobOk
<1>2. StateOk(s)
  BY Zenon, <1>1 DEF SessionInv
<1>3. fresh \in Nat
  BY Zenon DEF SessionInv
<1>4. prepare_decrypt(d, w) = IF first.ok \/ has_receiving_chain(s) \/ d = Low THEN first
                              ELSE ratchet_decrypt(bob, w, fresh)
  BY Zenon DEF prepare_decrypt
<1>5. \A k \in ChainKeys : sess[d] # None /\ Spent(sess[d], k) => Spent(s, k)
  BY Zenon
<1> HIDE DEF bob, s, t
<1>6. CASE first.ok \/ has_receiving_chain(s) \/ d = Low
  <2>1. first.ok /\ t = first.state
    BY Zenon, <1>4, <1>6 DEF t
  <2>2. /\ StateOk(t) /\ Spent(t, w.mk)
        /\ \A k \in ChainKeys : Spent(s, k) => Spent(t, k)
    BY Zenon, <1>2, <1>3, <2>1, OpenKeeps
  <2> QED
    BY Zenon, <1>5, <2>2 DEF t
<1>7. CASE ~(first.ok \/ has_receiving_chain(s) \/ d = Low)
  <2>1. ratchet_decrypt(bob, w, fresh).ok /\ t = ratchet_decrypt(bob, w, fresh).state
    BY Zenon, <1>4, <1>7 DEF t
  <2>2. StateOk(t) /\ Spent(t, w.mk)
    BY Zenon, <1>1, <1>3, <2>1, OpenKeeps
  <2>3. \A k \in ChainKeys : ~Spent(s, k)
    BY Zenon, <1>7 DEF has_receiving_chain, Spent
  <2> QED
    BY Zenon, <1>5, <2>2, <2>3 DEF t
<1> QED
  BY Zenon, <1>6, <1>7

-----------------------------------------------------------------------------
\* The peer of a device is the other device.
LEMMA PeerFacts == \A d \in Devices : Peer(d) \in Devices
  BY Zenon DEF Peer, Devices

\* No device has a session at first.
LEMMA SessionInit == Init => SessionInv
<1> SUFFICES ASSUME Init PROVE SessionInv
  BY Zenon
<1>1. sess = [d \in Devices |-> None] /\ wires = {} /\ opened = {} /\ fresh = 1
  BY Zenon DEF Init
<1>2. DOMAIN sess = Devices /\ \A d \in Devices : sess[d] = None
  BY Zenon, <1>1
<1>3. fresh \in Nat
  BY <1>1
<1> QED
  BY Zenon, <1>1, <1>2, <1>3 DEF SessionInv

\* A step that gives device d the session t.
LEMMA Replaced ==
    ASSUME SessionInv, NEW d \in Devices, NEW t, StateOk(t),
           \A k \in ChainKeys : sess[d] # None /\ Spent(sess[d], k) => Spent(t, k),
           sess' = [sess EXCEPT ![d] = t],
           wires' \subseteq Wires, opened' \subseteq wires', fresh' \in Nat,
           \A w \in opened' : w \in opened \/ (Peer(w.from) = d /\ Spent(t, w.mk))
    PROVE  SessionInv'
<1>1. DOMAIN sess' = Devices /\ sess'[d] = t /\ t # None
  BY Zenon, SessionAssumption DEF SessionInv, StateOk
<1>2. \A e \in Devices : e # d => sess'[e] = sess[e]
  BY Zenon DEF SessionInv
<1>3. \A e \in Devices : sess'[e] # None => StateOk(sess'[e])
  BY Zenon, <1>1, <1>2 DEF SessionInv
<1>4. ASSUME NEW w \in opened'
      PROVE  sess'[Peer(w.from)] # None /\ Spent(sess'[Peer(w.from)], w.mk)
  <2>1. w.from \in Devices /\ w.mk \in ChainKeys
    BY Zenon DEF Wires
  <2>2. Peer(w.from) \in Devices
    BY Zenon, <2>1, PeerFacts
  <2>3. CASE w \in opened
    <3>1. sess[Peer(w.from)] # None /\ Spent(sess[Peer(w.from)], w.mk)
      BY Zenon, <2>3 DEF SessionInv
    <3> QED
      BY Zenon, <1>1, <1>2, <2>1, <2>2, <3>1
  <2>4. CASE Peer(w.from) = d /\ Spent(t, w.mk)
    BY Zenon, <1>1, <2>4
  <2> QED
    BY Zenon, <2>3, <2>4
<1> QED
  BY Zenon, <1>1, <1>3, <1>4 DEF SessionInv, StateOk, Spent, Old

\* DmRatchet::encrypt spends and restores no receiving key.
LEMMA EncryptStep ==
    ASSUME SessionInv, NEW d \in Devices, Encrypt(d)
    PROVE  SessionInv'
<1> DEFINE s == IF sess[d] = None THEN init_alice(shared_root, Peer(d), fresh) ELSE sess[d]
           w == [from |-> d, pub |-> Sealed(s).pub, pn |-> Sealed(s).pn,
                 n |-> Sealed(s).n, mk |-> Sealed(s).mk]
           t == ratchet_encrypt(s)
<1>1. /\ s.cks # None
      /\ sess' = [sess EXCEPT ![d] = t]
      /\ wires' = wires \cup {w}
      /\ fresh' = fresh + (IF sess[d] = None THEN 1 ELSE 0)
      /\ opened' = opened
  BY Zenon DEF Encrypt
<1>2. StateOk(s)
  BY Zenon, AliceOk DEF SessionInv
<1>3. sess[d] # None => s = sess[d]
  BY Zenon
<1> HIDE DEF s
<1>4. StateOk(t) /\ w \in Wires /\ \A k \in ChainKeys : Spent(s, k) => Spent(t, k)
  BY Zenon, <1>1, <1>2, SealKeeps
<1> HIDE DEF t, w
<1>5. fresh' \in Nat
  <2>1. fresh \in Nat
    BY Zenon DEF SessionInv
  <2> QED
    BY ONLY <1>1, <2>1
<1>6. wires' \subseteq Wires /\ opened' \subseteq wires'
  BY Zenon, <1>1, <1>4 DEF SessionInv
<1>7. \A k \in ChainKeys : sess[d] # None /\ Spent(sess[d], k) => Spent(t, k)
  BY Zenon, <1>3, <1>4
<1>8. \A v \in opened' : v \in opened \/ (Peer(v.from) = d /\ Spent(t, v.mk))
  BY Zenon, <1>1
<1> QED
  BY Zenon, <1>1, <1>4, <1>5, <1>6, <1>7, <1>8, Replaced

\* DmRatchet::decrypt spends the key of the message it opened.
LEMMA DecryptStep ==
    ASSUME SessionInv, NEW d \in Devices, NEW w \in wires, Decrypt(d, w)
    PROVE  SessionInv'
<1> DEFINE t == prepare_decrypt(d, w).state
<1>1. /\ w.from = Peer(d) /\ prepare_decrypt(d, w).ok
      /\ sess' = [sess EXCEPT ![d] = t]
      /\ opened' = opened \cup {w}
      /\ fresh' = fresh + 1
      /\ wires' = wires
  BY Zenon DEF Decrypt
<1>2. w \in Wires
  BY Zenon DEF SessionInv
<1>3. /\ StateOk(t) /\ Spent(t, w.mk)
      /\ \A k \in ChainKeys : sess[d] # None /\ Spent(sess[d], k) => Spent(t, k)
  BY Zenon, <1>1, <1>2, PreparedFacts
<1> HIDE DEF t
<1>4. fresh' \in Nat
  BY Zenon, <1>1, Succ DEF SessionInv
<1>5. wires' \subseteq Wires /\ opened' \subseteq wires'
  BY Zenon, <1>1 DEF SessionInv
<1>6. Peer(w.from) = d
  BY Zenon, <1>1, SessionAssumption DEF Peer, Devices
<1>7. \A v \in opened' : v \in opened \/ (Peer(v.from) = d /\ Spent(t, v.mk))
  BY Zenon, <1>1, <1>3, <1>6
<1> QED
  BY Zenon, <1>1, <1>3, <1>4, <1>5, <1>7, Replaced

\* Every step keeps the invariant.
LEMMA SessionStep == SessionInv /\ [Next]_vars => SessionInv'
<1> SUFFICES ASSUME SessionInv, [Next]_vars PROVE SessionInv'
  BY Zenon
<1>1. CASE Next
  BY Zenon, <1>1, EncryptStep, DecryptStep DEF Next
<1>2. CASE UNCHANGED vars
  <2>1. sess' = sess /\ wires' = wires /\ opened' = opened /\ fresh' = fresh
    BY Zenon, <1>2 DEF vars
  <2> QED
    BY Zenon, <2>1 DEF SessionInv
<1> QED
  BY Zenon, <1>1, <1>2

\* Whoever started the session, and whatever was skipped, evicted, turned or
\* started over in between: a message DmRatchet::decrypt opened once is refused
\* whenever it arrives again, for any number of messages and any caps on the
\* skipped keys.
THEOREM OpenedOnce == Spec => []ReplayRefused
<1>1. SessionInv => ReplayRefused
  <2> SUFFICES ASSUME SessionInv, NEW w \in opened
               PROVE  ~prepare_decrypt(Peer(w.from), w).ok
    BY Zenon DEF ReplayRefused
  <2> DEFINE d == Peer(w.from)
  <2>1. w \in Wires /\ fresh \in Nat /\ sess[d] # None /\ Spent(sess[d], w.mk)
    BY Zenon DEF SessionInv
  <2>2. d \in Devices
    BY Zenon, <2>1, PeerFacts DEF Wires
  <2>3. StateOk(sess[d])
    BY Zenon, <2>1, <2>2 DEF SessionInv
  <2>4. has_receiving_chain(sess[d])
    BY Zenon, <2>1 DEF has_receiving_chain, Spent
  <2>5. prepare_decrypt(d, w) = ratchet_decrypt(sess[d], w, fresh)
    BY Zenon, <2>1, <2>4 DEF prepare_decrypt
  <2> QED
    BY Zenon, <2>1, <2>3, <2>5, SpentRefused
<1> QED
  BY <1>1, SessionInit, SessionStep, PTL DEF Spec
=============================================================================
