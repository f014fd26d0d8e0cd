---------------------------- MODULE DoubleRatchet ----------------------------
(***************************************************************************)
(* The Double Ratchet state machine of ratchet/state.rs, with symbolic     *)
(* keys: a Diffie-Hellman result is the pair of keys that made it, a root  *)
(* key is the sequence of results mixed into it, a chain key is the root   *)
(* it came from and the number of steps taken, and a message key is the    *)
(* chain key it was derived from.  A message opens exactly when the key    *)
(* derived for it is the key it was sealed with.                           *)
(***************************************************************************)
EXTENDS Integers, Sequences, FiniteSets, SequencesExt

CONSTANTS
    MaxSkip,          \* MAX_SKIP, at most so many keys skipped at once
    MaxSkippedTotal,  \* MAX_SKIPPED_TOTAL, at most so many skipped keys kept
    None              \* an absent key or session

ASSUME RatchetAssumption == MaxSkip \in Nat /\ MaxSkippedTotal \in Nat \ {0}

dh(secret, public) == {secret, public}

\* kdf_rk yields the next root key and a chain key, kdf_ck steps a chain.
kdf_rk(rk, secret) == Append(rk, secret)
NewChain(rk) == [root |-> rk, n |-> 0]
Walk(ck, k) == [root |-> ck.root, n |-> ck.n + k]
kdf_ck(ck) == Walk(ck, 1)

\* The sender: it knows the responder's initial ratchet key.
init_alice(root, bob, fresh) ==
    LET rk == kdf_rk(root, dh(fresh, bob))
    IN  [dhs |-> fresh, dhr |-> bob, rk |-> rk, cks |-> NewChain(rk), ckr |-> None,
         ns |-> 0, nr |-> 0, pn |-> 0, skipped |-> <<>>]

\* The receiver: no sending chain until it has opened a message.
init_bob(root, bob) ==
    [dhs |-> bob, dhr |-> None, rk |-> root, cks |-> None, ckr |-> None,
     ns |-> 0, nr |-> 0, pn |-> 0, skipped |-> <<>>]

has_receiving_chain(s) == s.ckr # None

\* What ratchet_encrypt puts on the wire, and the state it leaves.
Sealed(s) == [pub |-> s.dhs, pn |-> s.pn, n |-> s.ns, mk |-> s.cks]
ratchet_encrypt(s) == [s EXCEPT !.cks = kdf_ck(@), !.ns = @ + 1]

-----------------------------------------------------------------------------
\* Mutants: nothing is evicted; the newest keys are evicted.
skip_message_keys_Unbounded(s, until) ==
    IF s.ckr = None \/ until < s.nr
    THEN s
    ELSE [s EXCEPT !.skipped = @ \o [i \in 1 .. until - s.nr |->
                                      [pub |-> s.dhr, n |-> s.nr + i - 1,
                                       mk |-> Walk(s.ckr, i - 1)]],
                   !.ckr = Walk(@, until - s.nr),
                   !.nr = until]

skip_message_keys_Newest(s, until) ==
    LET kept == skip_message_keys_Unbounded(s, until).skipped
    IN  [skip_message_keys_Unbounded(s, until) EXCEPT !.skipped =
            IF Len(kept) > MaxSkippedTotal THEN SubSeq(kept, 1, MaxSkippedTotal) ELSE kept]

\* Keep the keys of the current receiving chain up to, not including, until; the
\* oldest are evicted beyond the total.  TooMany is the refusal.
TooMany(s, until) == s.ckr # None /\ until - s.nr > MaxSkip

skip_message_keys(s, until) ==
    IF s.ckr = None \/ until < s.nr
    THEN s
    ELSE LET new == [i \in 1 .. until - s.nr |->
                       [pub |-> s.dhr, n |-> s.nr + i - 1,
                        mk |-> Walk(s.ckr, i - 1)]]
             all == s.skipped \o new
             over == Len(all) - MaxSkippedTotal
         IN  [s EXCEPT !.skipped = IF over > 0 THEN SubSeq(all, over + 1, Len(all)) ELSE all,
                       !.ckr = Walk(@, until - s.nr),
                       !.nr = until]

\* A new ratchet key of the peer: a receiving chain from it, then a fresh key of
\* our own and a sending chain.
dh_ratchet(s, pub, fresh) ==
    LET receiving == kdf_rk(s.rk, dh(s.dhs, pub))
        sending == kdf_rk(receiving, dh(fresh, pub))
    IN  [dhs |-> fresh, dhr |-> pub, rk |-> sending, cks |-> NewChain(sending),
         ckr |-> NewChain(receiving), ns |-> 0, nr |-> 0, pn |-> s.ns, skipped |-> s.skipped]

\* Mutant: a key taken from the skipped keys stays there.
ratchet_decrypt_Keep(s, w, fresh) ==
    LET kept == {i \in DOMAIN s.skipped : s.skipped[i].pub = w.pub /\ s.skipped[i].n = w.n}
        turned == IF s.dhr = w.pub THEN s
                  ELSE dh_ratchet(skip_message_keys(s, w.pn), w.pub, fresh)
        reached == skip_message_keys(turned, w.n)
    IN  IF kept # {}
        THEN [ok |-> \A i \in kept : s.skipped[i].mk = w.mk, state |-> s]
        ELSE [ok |-> /\ s.dhr = w.pub \/ ~TooMany(s, w.pn)
                     /\ ~TooMany(turned, w.n)
                     /\ reached.ckr = w.mk,
              state |-> IF reached.ckr = None THEN reached
                        ELSE [reached EXCEPT !.ckr = kdf_ck(@), !.nr = @ + 1]]

\* Opening message w: with the skipped key of its place in its chain, which is
\* kept at most once, if there is one, else after a turn of
\* the DH ratchet if the key is new and a walk along the receiving chain.
ratchet_decrypt(s, w, fresh) ==
    LET kept == {i \in DOMAIN s.skipped : s.skipped[i].pub = w.pub /\ s.skipped[i].n = w.n}
        turned == IF s.dhr = w.pub THEN s
                  ELSE dh_ratchet(skip_message_keys(s, w.pn), w.pub, fresh)
        reached == skip_message_keys(turned, w.n)
    IN  IF kept # {}
        THEN [ok |-> \A i \in kept : s.skipped[i].mk = w.mk,
              state |-> [s EXCEPT !.skipped = RemoveAt(@, CHOOSE i \in kept : TRUE)]]
        ELSE [ok |-> /\ s.dhr = w.pub \/ ~TooMany(s, w.pn)
                     /\ ~TooMany(turned, w.n)
                     /\ reached.ckr = w.mk,
              state |-> IF reached.ckr = None THEN reached
                        ELSE [reached EXCEPT !.ckr = kdf_ck(@), !.nr = @ + 1]]
=============================================================================
