------------------------------ MODULE DmSession ------------------------------
(***************************************************************************)
(* The ratchet service of two devices that write to each other             *)
(* (node/dm_ratchet.rs): who bootstraps a session, the tie-break when both *)
(* do, and messages that arrive late, out of order, again or never.  The   *)
(* session is durable; opening works on a copy that is kept on success.    *)
(***************************************************************************)
EXTENDS DoubleRatchet

CONSTANTS
    Low, High,   \* the two devices, the one with the lower user id first
    MaxSends     \* bound: messages each device sends, below 2^32 where ns would overflow

\* The values of a session: ratchet keys, roots, chain keys, skipped keys, RatchetState.
Keys == Nat \cup {Low, High}
Roots == Seq(SUBSET Keys)
ChainKeys == [root : Roots, n : Nat]
Skipped == [pub : Keys \cup {None}, n : Nat, mk : ChainKeys]
States ==
    [dhs : Keys, dhr : Keys \cup {None}, rk : Roots, cks : ChainKeys \cup {None},
     ckr : ChainKeys \cup {None}, ns : Nat, nr : Nat, pn : Nat, skipped : Seq(Skipped)]

ASSUME SessionAssumption ==
    /\ Low # High
    /\ MaxSends \in Nat
    /\ None \notin ChainKeys \cup States

VARIABLES
    sess,    \* sess[d]: the stored session of d with the other device, or None
    wires,   \* every message ever sent; any of them may arrive at any time
    opened,  \* the messages that were opened
    fresh    \* the next unused ratchet key

vars == <<sess, wires, opened, fresh>>

Devices == {Low, High}
Peer(d) == IF d = Low THEN High ELSE Low

shared_root == <<dh(Low, High)>>

Init ==
    /\ sess = [d \in Devices |-> None]
    /\ wires = {}
    /\ opened = {}
    /\ fresh = 1

SentBy(d) == {w \in wires : w.from = d}

\* DmRatchet::encrypt: the first sender is the initiator.
Encrypt(d) ==
    LET s == IF sess[d] = None THEN init_alice(shared_root, Peer(d), fresh) ELSE sess[d]
        w == Sealed(s)
    IN  /\ Cardinality(SentBy(d)) < MaxSends
        /\ s.cks # None
        /\ sess' = [sess EXCEPT ![d] = ratchet_encrypt(s)]
        /\ wires' = wires \cup {[from |-> d, pub |-> w.pub, pn |-> w.pn, n |-> w.n, mk |-> w.mk]}
        /\ fresh' = fresh + (IF sess[d] = None THEN 1 ELSE 0)
        /\ UNCHANGED opened

\* DmRatchet::prepare_decrypt: a device without a session is the responder.  An
\* initiator that cannot open the message of the canonical initiator, and never
\* opened one, starts over as responder and tries once more.
prepare_decrypt(d, w) ==
    LET bob == init_bob(shared_root, d)
        s == IF sess[d] = None THEN bob ELSE sess[d]
        first == ratchet_decrypt(s, w, fresh)
    IN  IF first.ok \/ has_receiving_chain(s) \/ d = Low
        THEN first
        ELSE ratchet_decrypt(bob, w, fresh)

\* DmRatchet::decrypt: the copy becomes the session when the message opened.
Decrypt(d, w) ==
    LET result == prepare_decrypt(d, w)
    IN  /\ w.from = Peer(d)
        /\ result.ok
        /\ sess' = [sess EXCEPT ![d] = result.state]
        /\ opened' = opened \cup {w}
        /\ fresh' = fresh + 1
        /\ UNCHANGED wires

Next == \E d \in Devices : Encrypt(d) \/ \E w \in wires : Decrypt(d, w)

Spec == Init /\ [][Next]_vars

-----------------------------------------------------------------------------
\* A message that was opened is never opened again, however often it arrives:
\* not by the session and not by a fresh bootstrap.
ReplayRefused == \A w \in opened : ~prepare_decrypt(Peer(w.from), w).ok

\* The messages the tie-break gives up: those the higher device sealed as
\* initiator when the lower one is an initiator as well.
InitialChain(d) == {w \in SentBy(d) : Len(w.mk.root) = 2}
GivenUp == IF InitialChain(Low) # {} THEN InitialChain(High) ELSE {}

\* v was sealed after w by the same device; w was skipped when v opened first.
Later(v, w) ==
    /\ v.from = w.from
    /\ Len(v.mk.root) > Len(w.mk.root) \/ (v.mk.root = w.mk.root /\ v.n > w.n)
Passed(w) == \E v \in opened : Later(v, w)

\* The walk to w would keep more keys of one chain than the code allows.
Far(s, w) ==
    IF s = None THEN w.n > MaxSkip
    ELSE \/ TooMany(s, IF s.dhr = w.pub THEN w.n ELSE w.pn)
         \/ s.dhr # w.pub /\ w.n > MaxSkip

\* Every other message can be opened at any time, in any order, whatever else
\* arrived before it.  Only distance costs a message: it is too far ahead, or
\* more than MaxSkippedTotal later ones went past, so that its key, as the
\* oldest, was the one skip_message_keys evicted.  That cap is kept.
AnyOrderOpens ==
    /\ \A d \in Devices : sess[d] # None => Len(sess[d].skipped) <= MaxSkippedTotal
    /\ \A w \in wires \ (opened \cup GivenUp) :
           \/ prepare_decrypt(Peer(w.from), w).ok
           \/ ~Passed(w) /\ Far(sess[Peer(w.from)], w)
           \/ Cardinality({v \in wires : Later(v, w) /\ (v \in opened \/ Passed(v))})
                 > MaxSkippedTotal
=============================================================================
