----------------------------- MODULE ChannelKeys -----------------------------
(***************************************************************************)
(* One author's sending chain in one channel epoch, and the devices that   *)
(* follow it.  The author accepts a message by journalling one delivery    *)
(* transaction (outgoing_message.rs); recovery replays its effects in a    *)
(* fixed order and may be cut by a crash anywhere (delivery_store.rs).     *)
(* Events in the author's log reach receivers in any order, repeatedly or  *)
(* not at all; receivers open them on a chain that is replaced only when   *)
(* the AEAD accepts the key, and account siblings may hand each other      *)
(* receive-only snapshots, which arrive late.                              *)
(***************************************************************************)
EXTENDS SenderKey

CONSTANTS
    Receivers,      \* devices that follow the chain
    MaxSends,       \* accepted messages
    MaxSnaps,       \* receive snapshots in flight
    MaxCrashes,     \* crashes of the author
    None            \* absent value

ASSUME ChannelKeysAssumption ==
    /\ MaxSends \in Nat
    /\ MaxSnaps \in Nat
    /\ MaxCrashes \in Nat
    /\ None \notin SenderKeyType
    /\ None \notin ChainType

VARIABLES
    live,       \* ChannelState::my_sender of the epoch, in memory
    stored,     \* the channel_sender_keys row
    journal,    \* the delivery journal: None or its one pending transaction
    pc,         \* how far the running recovery of the journal has got
    log,        \* the author's retained events: KeyRotation and messages
    accepted,   \* number of messages accepted so far
    crashes,    \* crashes so far
    drawn,      \* seeds drawn so far (the random generator never repeats)
    chain,      \* durable receiver checkpoint of each receiver, or None
    opened,     \* what each receiver has opened, in order
    snaps       \* receive-only snapshots sealed to siblings, not yet applied

senderVars == <<live, stored, journal, pc, log, accepted, crashes, drawn>>
receiverVars == <<chain, opened, snaps>>
vars == <<live, stored, journal, pc, log, accepted, crashes, drawn, chain, opened, snaps>>

Message(id, n, mk) == [kind |-> "message", id |-> id, n |-> n, mk |-> mk]
KeyRotation(skd) == [kind |-> "rotation", skd |-> skd]

Rotations == {e \in log : e.kind = "rotation"}
Messages == {e \in log : e.kind = "message"}

Init ==
    /\ live = None
    /\ stored = None
    /\ journal = None
    /\ pc = "idle"
    /\ log = {}
    /\ accepted = 0
    /\ crashes = 0
    /\ drawn = {}
    /\ chain = [r \in Receivers |-> None]
    /\ opened = [r \in Receivers |-> <<>>]
    /\ snaps = {}

-----------------------------------------------------------------------------
(* The author.                                                             *)

\* Mutant: the journalled sender row is the one from before the ratchet step.
Prepared_StaleSenders(key, id) ==
    [senders |-> key,
     events  |-> {Message(id, key.n, key.chain_key)}
                 \cup (IF live = None THEN {KeyRotation(distribution(key))} ELSE {})]

\* prepare_sender_message works on a copy of the live key, or on a new one
\* whose distribution is then announced by a KeyRotation in the same
\* transaction.  An exhausted chain refuses before anything is journalled.
Prepared(key, id) ==
    [senders |-> try_ratchet(key),
     events  |-> {Message(id, key.n, key.chain_key)}
                 \cup (IF live = None THEN {KeyRotation(distribution(key))} ELSE {})]

\* Mutant: a send does not wait for the pending transaction to be recovered.
Send_WithoutRecovery ==
    /\ accepted < MaxSends
    /\ pc = "idle"
    /\ \E key \in IF live = None THEN {generate(s) : s \in Seeds \ drawn} ELSE {live} :
         /\ CanRatchet(key)
         /\ journal' = Prepared(key, accepted + 1)
         /\ drawn' = drawn \cup {key.chain_key.seed}
    /\ accepted' = accepted + 1
    /\ UNCHANGED <<live, stored, pc, log, crashes>>
    /\ UNCHANGED receiverVars

\* enqueue_channel_payload_if: recovery has emptied the journal, then the
\* prepared transaction is appended durably; nothing else changes.
Send ==
    /\ accepted < MaxSends
    /\ journal = None
    /\ pc = "idle"
    /\ \E key \in IF live = None THEN {generate(s) : s \in Seeds \ drawn} ELSE {live} :
         /\ CanRatchet(key)
         /\ journal' = Prepared(key, accepted + 1)
         /\ drawn' = drawn \cup {key.chain_key.seed}
    /\ accepted' = accepted + 1
    /\ UNCHANGED <<live, stored, pc, log, crashes>>
    /\ UNCHANGED receiverVars

\* Mutant: a sender row that is already stored is refused when it is replayed.
RecoverSenders_Once ==
    /\ journal # None
    /\ pc = "idle"
    /\ stored # journal.senders
    /\ stored' = journal.senders
    /\ pc' = "events"
    /\ UNCHANGED <<live, journal, log, accepted, crashes, drawn>>
    /\ UNCHANGED receiverVars

\* recover_next, ChannelOutgoing: the sender row first ...
RecoverSenders ==
    /\ journal # None
    /\ pc = "idle"
    /\ stored' = journal.senders
    /\ pc' = "events"
    /\ UNCHANGED <<live, journal, log, accepted, crashes, drawn>>
    /\ UNCHANGED receiverVars

\* ... then the signed events, which sync may publish from then on ...
RecoverEvents ==
    /\ pc = "events"
    /\ log' = log \cup journal.events
    /\ pc' = "retire"
    /\ UNCHANGED <<live, stored, journal, accepted, crashes, drawn>>
    /\ UNCHANGED receiverVars

\* ... then the transaction leaves the journal and the key in memory follows.
RecoverRetire ==
    /\ pc = "retire"
    /\ journal' = None
    /\ live' = journal.senders
    /\ pc' = "idle"
    /\ UNCHANGED <<stored, log, accepted, crashes, drawn>>
    /\ UNCHANGED receiverVars

\* A failed journal rewrite keeps the transaction for the next recovery, and
\* the key in memory stays at its old position until that recovery succeeds.
RewriteFails ==
    /\ pc = "retire"
    /\ pc' = "idle"
    /\ UNCHANGED <<live, stored, journal, log, accepted, crashes, drawn>>
    /\ UNCHANGED receiverVars

\* Memory is lost; reopening loads the sender row of the epoch.
Crash ==
    /\ crashes < MaxCrashes
    /\ crashes' = crashes + 1
    /\ live' = stored
    /\ pc' = "idle"
    /\ UNCHANGED <<stored, journal, log, accepted, drawn>>
    /\ UNCHANGED receiverVars

-----------------------------------------------------------------------------
(* The receivers.                                                          *)

\* install_distribution_on: an ordinary KeyRotation is first-wins.
InstallRotation(r) ==
    /\ \E e \in Rotations :
         chain' = [chain EXCEPT ![r] = IF @ = None THEN from_distribution(e.skd) ELSE @]
    /\ UNCHANGED <<opened, snaps>>
    /\ UNCHANGED senderVars

\* prepare_open on a private copy, then install.  An intact message whose key
\* the chain yields is opened and the chain replaced; a message that fails to
\* authenticate, or whose key the chain refuses, leaves the chain as it was.
Open(r) ==
    /\ chain[r] # None
    /\ \E m \in Messages, intact \in BOOLEAN :
         LET ok == intact /\ Opens(chain[r], m.n, m.mk)
         IN  /\ chain' = [chain EXCEPT ![r] = IF ok THEN Opened(@, m.n) ELSE @]
             /\ opened' = [opened EXCEPT ![r] = IF ok THEN Append(@, m) ELSE @]
    /\ UNCHANGED snaps
    /\ UNCHANGED senderVars

\* An author's sibling or a receiver seals its current position ...
Snapshot ==
    /\ Cardinality(snaps) < MaxSnaps
    /\ \E skd \in {current_distribution(chain[r]) : r \in {q \in Receivers : chain[q] # None}}
                  \cup (IF live = None THEN {} ELSE {distribution(live)}) :
         snaps' = snaps \cup {skd}
    /\ UNCHANGED <<chain, opened>>
    /\ UNCHANGED senderVars

\* ... and a device applies it whenever it arrives (refresh_distribution_on).
Refresh(r) ==
    /\ \E skd \in snaps :
         chain' = [chain EXCEPT ![r] = IF @ = None THEN from_distribution(skd)
                                       ELSE refresh_distribution(@, skd)]
    /\ UNCHANGED <<opened, snaps>>
    /\ UNCHANGED senderVars

Next ==
    \/ Send \/ RecoverSenders \/ RecoverEvents \/ RecoverRetire \/ RewriteFails \/ Crash
    \/ \E r \in Receivers : InstallRotation(r) \/ Open(r) \/ Refresh(r)
    \/ Snapshot

Spec == Init /\ [][Next]_vars

\* The delivery loop retries recovery for as long as the process stays up.
Fairness ==
    /\ WF_vars(RecoverSenders)
    /\ WF_vars(RecoverEvents)

FairSpec == Spec /\ Fairness

-----------------------------------------------------------------------------
(* Properties.                                                             *)

\* The messages of the log and of the journal: everything that has been sealed
\* and accepted.
Sealed == Messages \cup (IF journal = None THEN {} ELSE
                         {e \in journal.events : e.kind = "message"})

\* No key position seals two accepted messages, whatever crash separates the
\* journal append from the sender row, the events and the key in memory
\* (prepare_sender_message, recover_next, import_my_sender).
NoKeyReuse ==
    \A m1, m2 \in Sealed : m1.mk = m2.mk => m1.id = m2.id

\* An epoch announces one sending chain: the key a crash takes from memory is
\* never replaced by a second `generate`, which receivers (first-wins) would
\* be unable to follow.  No message is sealed at the last u32 position, which
\* message_key refuses.
OneChainPerEpoch ==
    /\ \A e, f \in Rotations : e = f
    /\ \A m \in Messages :
         /\ \E e \in Rotations : e.skd.chain_key.seed = m.mk.seed
         /\ m.n < U32Max

\* A receiver never opens one position twice, in any order of messages,
\* duplicates, evictions and late snapshots.
SingleUse ==
    \A r \in Receivers : \A i, j \in 1..Len(opened[r]) :
        opened[r][i].n = opened[r][j].n => i = j

\* Every receiver's chain keeps its shape and survives its own checkpoint, after
\* any order of messages, duplicates, evictions and snapshots (message_key,
\* encode_checkpoint, decode_checkpoint).
BufferExact == \A r \in Receivers : chain[r] # None => BufferShape(chain[r]) /\ ForkExact(chain[r])

\* Opening a message loses no key that could still be needed: a position that
\* was buffered or skipped over and is not buffered afterwards was opened, or
\* the buffer is full of younger ones.  Nothing but an open drops a key.
DropsOnlyOldest ==
    [][\A r \in Receivers : (chain[r] # None /\ chain'[r] # None) =>
         IF opened'[r] = opened[r]
         THEN DOMAIN chain[r].skipped \subseteq DOMAIN chain'[r].skipped
         ELSE \A p \in (DOMAIN chain[r].skipped \cup chain[r].n..(chain'[r].n - 1))
                       \ DOMAIN chain'[r].skipped :
                \/ \E i \in 1..Len(opened'[r]) : opened'[r][i].n = p
                \/ /\ Cardinality(DOMAIN chain'[r].skipped) = MAX_SKIPPED_TOTAL
                   /\ \A q \in DOMAIN chain'[r].skipped : p < q]_vars

\* An accepted message reaches the log, so that it can be distributed, once
\* the process stays up: acceptance is a commitment.
AcceptedReachesLog ==
    \A i \in 1..MaxSends : (accepted >= i) ~> (\E m \in Messages : m.id = i)
=============================================================================
