------------------------- MODULE ChannelKeys_proofs -------------------------
(***************************************************************************)
(* Proofs about ChannelKeys for every value of its constants.              *)
(***************************************************************************)
EXTENDS ChannelKeys, SenderKey_proofs

(* A sending key whose chain key belongs to its position.                  *)
Coherent(k) == k \in SenderKeyType /\ k.chain_key.step = k.n

(* The one message of the pending transaction, which it also determines.   *)
PendingMessage ==
    Message(accepted, journal.senders.n - 1,
            [seed |-> journal.senders.chain_key.seed, step |-> journal.senders.n - 1])

(* The key in memory agrees with the durable row or waits for the journal. *)
KeysInv ==
    /\ accepted \in Nat
    /\ stored = None \/ Coherent(stored)
    /\ live = None \/ Coherent(live)
    /\ journal = None => live = stored /\ pc = "idle"

(* A pending transaction is one ratchet step ahead of the durable row, or   *)
(* its row is already installed; memory is on one of the two sides.         *)
JournalInv ==
    journal # None =>
        /\ Coherent(journal.senders)
        /\ journal.senders.n > 0
        /\ {e \in journal.events : e.kind = "message"} = {PendingMessage}
        /\ stored = None => journal.senders.n = 1
        /\ stored # None =>
             /\ stored.chain_key.seed = journal.senders.chain_key.seed
             /\ stored.n \in {journal.senders.n - 1, journal.senders.n}
        /\ pc # "idle" => stored = journal.senders

(* What the log holds was sealed strictly behind the durable row, by the   *)
(* chain of that row, one message per position.                            *)
LogInv ==
    /\ \A m \in Messages :
         /\ stored # None
         /\ m.n \in Nat
         /\ m.n < stored.n
         /\ m.mk = [seed |-> stored.chain_key.seed, step |-> m.n]
         /\ journal # None /\ m.n = journal.senders.n - 1 => m.id = accepted
    /\ \A m1, m2 \in Messages : m1.n = m2.n => m1.id = m2.id

SenderInv == KeysInv /\ JournalInv /\ LogInv
-----------------------------------------------------------------------------
(* A ratchet step that is not refused keeps a key coherent.                *)
LEMMA RatchetCoherent ==
    ASSUME NEW k, Coherent(k), CanRatchet(k)
    PROVE  /\ Coherent(try_ratchet(k))
           /\ try_ratchet(k).n = k.n + 1
           /\ try_ratchet(k).chain_key.seed = k.chain_key.seed
<1>1. /\ k \in SenderKeyType
      /\ k.chain_key \in ChainKey
      /\ k.n \in 0..U32Max
      /\ k.n < U32Max
      /\ k.chain_key.step = k.n
  BY Zenon DEF Coherent, SenderKeyType, Position, CanRatchet
<1>2. /\ Advance(k.chain_key, 1).seed = k.chain_key.seed
      /\ Advance(k.chain_key, 1).step = k.n + 1
      /\ Advance(k.chain_key, 1) \in ChainKey
  BY <1>1 DEF Advance, ChainKey
<1>3. k.n + 1 \in 0..U32Max
  BY <1>1, SenderKeyAssumption
<1> QED
  BY Zenon, <1>1, <1>2, <1>3 DEF try_ratchet, Coherent, SenderKeyType, Position

(* A freshly drawn key starts a chain at position 0.                       *)
LEMMA GenerateCoherent ==
    ASSUME NEW s \in Seeds
    PROVE  Coherent(generate(s)) /\ generate(s).n = 0
BY SenderKeyAssumption DEF generate, Coherent, SenderKeyType, ChainKey, Position

(* Before the first send there is no key, no journal and no message.        *)
LEMMA SenderInit == Init => SenderInv
BY DEF Init, SenderInv, KeysInv, JournalInv, LogInv, Messages

(* The receivers' steps leave every variable of the author alone.          *)
LEMMA ReceiverKeepsSender ==
    ASSUME SenderInv, UNCHANGED senderVars
    PROVE  SenderInv'
BY Zenon DEF senderVars, SenderInv, KeysInv, JournalInv, LogInv, Messages, Coherent,
       PendingMessage, Message

(* LogInv at one message.                                                  *)
LEMMA LogFact ==
    ASSUME LogInv, NEW m \in Messages
    PROVE  /\ stored # None
           /\ m.n \in Nat
           /\ m.n < stored.n
           /\ m.mk = [seed |-> stored.chain_key.seed, step |-> m.n]
           /\ m.mk.step = m.n
           /\ journal # None /\ m.n = journal.senders.n - 1 => m.id = accepted
<1>1. /\ stored # None
      /\ m.n \in Nat
      /\ m.n < stored.n
      /\ m.mk = [seed |-> stored.chain_key.seed, step |-> m.n]
      /\ journal # None /\ m.n = journal.senders.n - 1 => m.id = accepted
  BY Zenon DEF LogInv
<1> QED
  BY <1>1

(* Send: the prepared message sits one position above everything sealed.    *)
LEMMA SendKeepsInv == ASSUME SenderInv, Send PROVE SenderInv'
<1>1. PICK key \in IF live = None THEN {generate(s) : s \in Seeds \ drawn} ELSE {live} :
         /\ CanRatchet(key)
         /\ journal' = Prepared(key, accepted + 1)
  BY Zenon DEF Send
<1>2. Coherent(key)
  BY Zenon, <1>1, GenerateCoherent DEF SenderInv, KeysInv
<1>3. /\ key.n \in Nat
      /\ key.chain_key = [seed |-> key.chain_key.seed, step |-> key.n]
  BY Zenon, <1>2 DEF Coherent, SenderKeyType, ChainKey, Position
<1>4. live = None => key.n = 0
  BY Zenon, <1>1, GenerateCoherent
<1>5. live # None => key = live
  BY Zenon, <1>1
<1>6. /\ journal = None /\ pc = "idle" /\ pc' = pc
      /\ accepted' = accepted + 1 /\ accepted \in Nat
      /\ live' = live /\ stored' = stored /\ log' = log
      /\ live = stored
  BY Zenon DEF Send, SenderInv, KeysInv
<1>7. /\ journal'.senders = try_ratchet(key)
      /\ Coherent(journal'.senders)
      /\ journal'.senders.n = key.n + 1
      /\ journal'.senders.chain_key.seed = key.chain_key.seed
  BY Zenon, <1>1, <1>2, RatchetCoherent DEF Prepared
<1>8. PendingMessage' = Message(accepted + 1, key.n, key.chain_key)
  BY <1>3, <1>6, <1>7 DEF PendingMessage
<1>9. {e \in journal'.events : e.kind = "message"} = {PendingMessage'}
  BY <1>1, <1>8 DEF Prepared, Message, KeyRotation
<1>10. \A m \in Messages : m.n # key.n
  <2> SUFFICES ASSUME NEW m \in Messages PROVE m.n # key.n
    BY Zenon
  <2>1. stored # None /\ m.n \in Nat /\ m.n < stored.n
    BY ZenonT(30) DEF SenderInv, LogInv
  <2>2. key = stored
    BY Zenon, <2>1, <1>5, <1>6
  <2> QED
    BY <2>1, <2>2
<1>11. journal' # None => journal' # journal
  BY Zenon, <1>6
<1>12. KeysInv'
  <2>1. pc' = "idle"
    BY Zenon, <1>6
  <2>2. accepted' \in Nat
    BY <1>6
  <2>3. live' = stored'
    BY Zenon, <1>6
  <2>4. (stored = None \/ Coherent(stored))' /\ (live = None \/ Coherent(live))'
    BY Zenon, <1>6 DEF SenderInv, KeysInv, Coherent
  <2> QED
    BY Zenon, <2>1, <2>2, <2>3, <2>4 DEF KeysInv
<1>13. JournalInv'
  <2>1. Coherent(journal.senders)' /\ (journal.senders.n > 0)'
    BY <1>3, <1>7 DEF Coherent
  <2>2. (stored = None => journal.senders.n = 1)'
    BY <1>4, <1>6, <1>7
  <2>3. (stored # None =>
             /\ stored.chain_key.seed = journal.senders.chain_key.seed
             /\ stored.n \in {journal.senders.n - 1, journal.senders.n})'
    BY <1>3, <1>5, <1>6, <1>7
  <2> QED
    BY Zenon, <2>1, <2>2, <2>3, <1>6, <1>9 DEF JournalInv
<1>14. LogInv'
  <2>1. Messages' = Messages
    BY Zenon, <1>6 DEF Messages
  <2>2. \A m \in Messages : m.n # journal'.senders.n - 1
    BY <1>3, <1>7, <1>10
  <2> QED
    BY Zenon, <2>1, <2>2, <1>6 DEF SenderInv, LogInv
<1> QED
  BY Zenon, <1>12, <1>13, <1>14 DEF SenderInv

(* RecoverSenders: the durable row takes the journalled step, first or again. *)
LEMMA RecoverSendersKeepsInv == ASSUME SenderInv, RecoverSenders PROVE SenderInv'
<1>1. /\ journal # None /\ pc = "idle" /\ pc' = "events"
      /\ stored' = journal.senders
      /\ live' = live /\ journal' = journal /\ log' = log /\ accepted' = accepted
  BY Zenon DEF RecoverSenders
<1>2. /\ Coherent(journal.senders)
      /\ journal.senders.n \in Nat
      /\ stored # None => stored.chain_key.seed = journal.senders.chain_key.seed
      /\ stored # None => stored.n \in Nat /\ stored.n <= journal.senders.n
  BY <1>1 DEF SenderInv, KeysInv, JournalInv, Coherent, SenderKeyType, Position
<1>3. journal.senders # None
  BY Zenon, <1>2, ChannelKeysAssumption DEF Coherent
<1>4. KeysInv'
  BY Zenon, <1>1, <1>2 DEF SenderInv, KeysInv, Coherent
<1>5. JournalInv'
  BY Zenon, <1>1, <1>2, <1>3 DEF SenderInv, JournalInv, Coherent, PendingMessage, Message
<1>6. LogInv'
  <2>1. Messages' = Messages
    BY Zenon, <1>1 DEF Messages
  <2>2. ASSUME NEW m \in Messages
        PROVE  /\ m.n \in Nat
               /\ m.n < journal.senders.n
               /\ m.mk = [seed |-> journal.senders.chain_key.seed, step |-> m.n]
               /\ m.n = journal.senders.n - 1 => m.id = accepted
    <3>1. /\ stored # None /\ m.n \in Nat /\ m.n < stored.n
          /\ m.mk = [seed |-> stored.chain_key.seed, step |-> m.n]
          /\ m.n = journal.senders.n - 1 => m.id = accepted
      BY Zenon, <1>1, LogFact DEF SenderInv
    <3> QED
      BY <3>1, <1>2
  <2> QED
    BY Zenon, <2>1, <2>2, <1>1, <1>3 DEF SenderInv, LogInv
<1> QED
  BY Zenon, <1>4, <1>5, <1>6 DEF SenderInv

(* RecoverEvents: the pending message is new in the log, or already there.   *)
LEMMA RecoverEventsKeepsInv == ASSUME SenderInv, RecoverEvents PROVE SenderInv'
<1>1. /\ pc = "events" /\ pc' = "retire"
      /\ log' = log \cup journal.events
      /\ live' = live /\ journal' = journal /\ stored' = stored /\ accepted' = accepted
  BY Zenon DEF RecoverEvents
<1>2. /\ journal # None
      /\ stored = journal.senders
      /\ Coherent(journal.senders)
      /\ journal.senders.n \in Nat /\ journal.senders.n > 0
      /\ {e \in journal.events : e.kind = "message"} = {PendingMessage}
  BY <1>1 DEF SenderInv, KeysInv, JournalInv, Coherent, SenderKeyType, Position
<1>3. Messages' = Messages \cup {PendingMessage}
  BY Zenon, <1>1, <1>2 DEF Messages
<1>4. stored # None
  BY Zenon, <1>2, ChannelKeysAssumption DEF Coherent
<1>5. KeysInv'
  BY Zenon, <1>1, <1>2 DEF SenderInv, KeysInv, Coherent
<1>6. JournalInv'
  BY Zenon, <1>1, <1>2 DEF SenderInv, JournalInv, Coherent, PendingMessage, Message
<1>7. LogInv'
  <2>1. /\ PendingMessage.n = journal.senders.n - 1
        /\ PendingMessage.id = accepted
        /\ PendingMessage.mk = [seed |-> stored.chain_key.seed, step |-> PendingMessage.n]
    BY Zenon, <1>2 DEF PendingMessage, Message
  <2>2. \A m \in Messages : m.n = PendingMessage.n => m.id = accepted
    BY Zenon, <2>1, <1>2 DEF SenderInv, LogInv
  <2>3. \A m \in Messages \cup {PendingMessage} :
         /\ m.n \in Nat
         /\ m.n < stored.n
         /\ m.mk = [seed |-> stored.chain_key.seed, step |-> m.n]
         /\ m.n = journal.senders.n - 1 => m.id = accepted
    BY <2>1, <2>2, <1>2 DEF SenderInv, LogInv
  <2>4. \A m1, m2 \in Messages \cup {PendingMessage} : m1.n = m2.n => m1.id = m2.id
    BY Zenon, <2>1, <2>2 DEF SenderInv, LogInv
  <2> QED
    BY Zenon, <2>3, <2>4, <1>1, <1>3, <1>4 DEF LogInv
<1> QED
  BY Zenon, <1>5, <1>6, <1>7 DEF SenderInv

(* Retiring, a failed rewrite and a crash move no durable key.               *)
LEMMA RetireKeepsInv == ASSUME SenderInv, RecoverRetire \/ RewriteFails \/ Crash PROVE SenderInv'
<1>1. CASE RecoverRetire
  BY Zenon, <1>1 DEF RecoverRetire, SenderInv, KeysInv, JournalInv, LogInv, Messages, Coherent
<1>2. CASE RewriteFails
  BY Zenon, <1>2 DEF RewriteFails, SenderInv, KeysInv, JournalInv, LogInv, Messages, Coherent,
              PendingMessage, Message
<1>3. CASE Crash
  BY Zenon, <1>3 DEF Crash, SenderInv, KeysInv, JournalInv, LogInv, Messages, Coherent,
              PendingMessage, Message
<1> QED
  BY Zenon, <1>1, <1>2, <1>3

(* The author's side of ChannelKeys keeps SenderInv: the durable row, the   *)
(* journal, the key in memory and the log never drift apart by more than   *)
(* the one pending ratchet step, whatever crash cuts the recovery.          *)
THEOREM SenderInvariance == Spec => []SenderInv
<1>1. SenderInv /\ [Next]_vars => SenderInv'
  <2> SUFFICES ASSUME SenderInv, [Next]_vars PROVE SenderInv'
    BY Zenon
  <2>1. CASE Send
    BY Zenon, <2>1, SendKeepsInv
  <2>2. CASE RecoverSenders
    BY Zenon, <2>2, RecoverSendersKeepsInv
  <2>3. CASE RecoverEvents
    BY Zenon, <2>3, RecoverEventsKeepsInv
  <2>4. CASE RecoverRetire \/ RewriteFails \/ Crash
    BY Zenon, <2>4, RetireKeepsInv
  <2>5. CASE \E r \in Receivers : InstallRotation(r) \/ Open(r) \/ Refresh(r)
    BY Zenon, <2>5, ReceiverKeepsSender DEF InstallRotation, Open, Refresh
  <2>6. CASE Snapshot
    BY Zenon, <2>6, ReceiverKeepsSender DEF Snapshot
  <2>7. CASE UNCHANGED vars
    BY Zenon, <2>7, ReceiverKeepsSender DEF vars, senderVars
  <2> QED
    BY Zenon, <2>1, <2>2, <2>3, <2>4, <2>5, <2>6, <2>7 DEF Next
<1> QED
  BY <1>1, SenderInit, PTL DEF Spec

(* No key position ever seals two accepted messages (prepare_sender_message *)
(* with the journalled recovery of delivery_store.rs), for any number of    *)
(* messages and crashes and any u32 bound.                                  *)
THEOREM KeyReuseImpossible == Spec => []NoKeyReuse
<1>1. SenderInv => NoKeyReuse
  <2> SUFFICES ASSUME SenderInv, NEW m1 \in Sealed, NEW m2 \in Sealed, m1.mk = m2.mk
               PROVE  m1.id = m2.id
    BY Zenon DEF NoKeyReuse
  <2>1. ASSUME NEW a \in Messages, NEW b \in Messages, a.mk = b.mk
        PROVE  a.id = b.id
    <3>1. a.mk.step = a.n /\ b.mk.step = b.n
      BY ZenonT(30), LogFact DEF SenderInv
    <3>2. a.n = b.n
      BY Zenon, <3>1, <2>1
    <3> QED
      BY Zenon, <3>2 DEF SenderInv, LogInv
  <2>2. CASE journal = None
    BY Zenon, <2>1, <2>2 DEF Sealed
  <2>3. CASE journal # None
    <3>1. Sealed = Messages \cup {PendingMessage}
      BY Zenon, <2>3 DEF Sealed, SenderInv, JournalInv
    <3>2. /\ PendingMessage.id = accepted
          /\ PendingMessage.mk.step = journal.senders.n - 1
      BY Zenon DEF PendingMessage, Message
    <3>3. ASSUME NEW a \in Messages, a.mk = PendingMessage.mk
          PROVE  a.id = accepted
      <4>1. a.mk.step = a.n /\ (a.n = journal.senders.n - 1 => a.id = accepted)
        BY ZenonT(30), <2>3, LogFact DEF SenderInv
      <4> QED
        BY Zenon, <4>1, <3>2, <3>3
    <3> QED
      BY Zenon, <2>1, <3>1, <3>2, <3>3
  <2> QED
    BY Zenon, <2>2, <2>3
<1> QED
  BY <1>1, SenderInvariance, PTL
-----------------------------------------------------------------------------
(* The announcements of the epoch.                                         *)

(* The announcement of the chain a key belongs to.                         *)
RotationOf(k) ==
    KeyRotation([chain_key |-> [seed |-> k.chain_key.seed, step |-> 0], n |-> 0])

(* Only the chain of the durable row is announced, and it is announced      *)
(* before or together with its first message.                               *)
RotationInv ==
    /\ live # None => stored # None /\ live.chain_key.seed = stored.chain_key.seed
    /\ \A e \in Rotations : stored # None /\ e = RotationOf(stored)
    /\ Messages # {} => RotationOf(stored) \in log
    /\ journal = None /\ stored # None => RotationOf(stored) \in log
    /\ journal # None =>
         /\ \A e \in journal.events : e.kind = "rotation" => e = RotationOf(journal.senders)
         /\ RotationOf(journal.senders) \in log \cup journal.events
         /\ pc = "retire" => RotationOf(journal.senders) \in log

(* Send announces exactly the chain it draws.                              *)
LEMMA SendKeepsRotations ==
    ASSUME SenderInv, RotationInv, Send PROVE RotationInv'
<1>1. PICK key \in IF live = None THEN {generate(s) : s \in Seeds \ drawn} ELSE {live} :
         /\ CanRatchet(key)
         /\ journal' = Prepared(key, accepted + 1)
  BY Zenon DEF Send
<1>2. Coherent(key)
  BY Zenon, <1>1, GenerateCoherent DEF SenderInv, KeysInv
<1>3. /\ journal = None /\ pc = "idle" /\ pc' = "idle"
      /\ live' = live /\ stored' = stored /\ log' = log
      /\ live = stored
  BY Zenon DEF Send, SenderInv, KeysInv
<1>4. /\ journal'.senders.chain_key.seed = key.chain_key.seed
      /\ journal'.events = {Message(accepted + 1, key.n, key.chain_key)}
                 \cup (IF live = None THEN {KeyRotation(distribution(key))} ELSE {})
  BY Zenon, <1>1, <1>2, RatchetCoherent DEF Prepared
<1>5. RotationOf(journal.senders)' = RotationOf(key)
  BY Zenon, <1>4 DEF RotationOf
<1>6. CASE live = None
  <2>1. PICK s \in Seeds : key = generate(s)
    BY Zenon, <1>1, <1>6
  <2>2. KeyRotation(distribution(key)) = RotationOf(key)
    BY Zenon, <2>1 DEF generate, distribution, RotationOf
  <2>3. journal'.events = {Message(accepted + 1, key.n, key.chain_key), RotationOf(key)}
    BY Zenon, <1>4, <1>6, <2>2
  <2>4. Messages' = Messages /\ Rotations' = Rotations
    BY Zenon, <1>3 DEF Messages, Rotations
  <2> QED
    BY <1>3, <1>5, <1>6, <2>3, <2>4 DEF RotationInv, Message
<1>7. CASE live # None
  <2>1. key = stored /\ stored # None
    BY Zenon, <1>1, <1>3, <1>7
  <2>2. journal'.events = {Message(accepted + 1, key.n, key.chain_key)}
    BY Zenon, <1>4, <1>7
  <2>3. RotationOf(stored) \in log
    BY Zenon, <1>3, <2>1 DEF RotationInv
  <2>4. Messages' = Messages /\ Rotations' = Rotations
    BY Zenon, <1>3 DEF Messages, Rotations
  <2> QED
    BY <1>3, <1>5, <2>1, <2>2, <2>3, <2>4 DEF RotationInv, Message
<1> QED
  BY Zenon, <1>6, <1>7

(* Recovery stores the row of the chain that is or will be announced.      *)
LEMMA RecoverKeepsRotations ==
    ASSUME SenderInv, RotationInv,
           RecoverSenders \/ RecoverEvents \/ RecoverRetire \/ RewriteFails \/ Crash
    PROVE  RotationInv'
<1>1. journal # None =>
        /\ Coherent(journal.senders)
        /\ journal.senders # None
        /\ stored # None => RotationOf(stored) = RotationOf(journal.senders)
        /\ stored # None => stored.chain_key.seed = journal.senders.chain_key.seed
        /\ pc # "idle" => stored = journal.senders
  BY Zenon, ChannelKeysAssumption DEF SenderInv, JournalInv, Coherent, RotationOf
<1>2. pc # "idle" => journal # None
  BY Zenon DEF SenderInv, KeysInv
<1>3. \A m \in Messages : stored # None
  BY ZenonT(30) DEF SenderInv, LogInv
<1>4. CASE RecoverSenders
  <2>1. /\ journal # None /\ stored' = journal.senders /\ pc' = "events"
        /\ live' = live /\ journal' = journal /\ log' = log
    BY Zenon, <1>4 DEF RecoverSenders
  <2>2. Messages' = Messages /\ Rotations' = Rotations
    BY Zenon, <2>1 DEF Messages, Rotations
  <2>3. RotationOf(stored)' = RotationOf(journal.senders) /\ RotationOf(journal.senders)' = RotationOf(journal.senders)
    BY Zenon, <2>1 DEF RotationOf
  <2> QED
    BY Zenon, <1>1, <1>3, <2>1, <2>2, <2>3 DEF RotationInv
<1>5. CASE RecoverEvents
  <2>1. /\ pc = "events" /\ pc' = "retire" /\ log' = log \cup journal.events
        /\ live' = live /\ journal' = journal /\ stored' = stored
    BY Zenon, <1>5 DEF RecoverEvents
  <2>2. \A e \in Rotations' : e \in Rotations \/ (e \in journal.events /\ e.kind = "rotation")
    BY Zenon, <2>1 DEF Rotations
  <2>3. /\ RotationOf(stored)' = RotationOf(stored)
        /\ RotationOf(journal.senders)' = RotationOf(journal.senders)
    BY Zenon, <2>1 DEF RotationOf
  <2>4. /\ journal # None /\ stored = journal.senders /\ stored # None
    BY Zenon, <1>1, <1>2, <2>1
  <2> QED
    BY Zenon, <2>1, <2>2, <2>3, <2>4 DEF RotationInv
<1>6. CASE RecoverRetire
  <2>1. /\ pc = "retire" /\ pc' = "idle" /\ journal' = None
        /\ live' = journal.senders /\ stored' = stored /\ log' = log
    BY Zenon, <1>6 DEF RecoverRetire
  <2>2. Messages' = Messages /\ Rotations' = Rotations /\ RotationOf(stored)' = RotationOf(stored)
    BY Zenon, <2>1 DEF Messages, Rotations, RotationOf
  <2>3. /\ journal # None /\ stored = journal.senders /\ stored # None
    BY Zenon, <1>1, <1>2, <2>1
  <2> QED
    BY Zenon, <2>1, <2>2, <2>3 DEF RotationInv
<1>7. CASE RewriteFails \/ Crash
  <2>1. /\ journal' = journal /\ stored' = stored /\ log' = log /\ pc' = "idle"
        /\ live' = live \/ live' = stored
    BY Zenon, <1>7 DEF RewriteFails, Crash
  <2>2. /\ Messages' = Messages /\ Rotations' = Rotations
        /\ RotationOf(stored)' = RotationOf(stored)
        /\ RotationOf(journal.senders)' = RotationOf(journal.senders)
    BY Zenon, <2>1 DEF Messages, Rotations, RotationOf
  <2>3. CASE live' = live
    BY Zenon, <2>1, <2>2, <2>3 DEF RotationInv
  <2>4. CASE live' = stored
    BY Zenon, <2>1, <2>2, <2>4 DEF RotationInv
  <2> QED
    BY Zenon, <2>1, <2>3, <2>4
<1> QED
  BY Zenon, <1>4, <1>5, <1>6, <1>7

(* The receivers' steps announce nothing.                                  *)
LEMMA ReceiverKeepsRotations ==
    ASSUME RotationInv, UNCHANGED senderVars
    PROVE  RotationInv'
<1>1. /\ journal' = journal /\ stored' = stored /\ log' = log /\ pc' = pc /\ live' = live
  BY Zenon DEF senderVars
<1>2. /\ Messages' = Messages /\ Rotations' = Rotations
      /\ RotationOf(stored)' = RotationOf(stored)
      /\ RotationOf(journal.senders)' = RotationOf(journal.senders)
  BY Zenon, <1>1 DEF Messages, Rotations, RotationOf
<1> QED
  BY Zenon, <1>1, <1>2 DEF RotationInv

(* Every step keeps the announcements.                                     *)
LEMMA RotationStep ==
    ASSUME SenderInv, RotationInv, [Next]_vars PROVE RotationInv'
<1>1. CASE \E r \in Receivers : InstallRotation(r) \/ Open(r) \/ Refresh(r)
  BY Zenon, <1>1, ReceiverKeepsRotations DEF InstallRotation, Open, Refresh
<1>2. CASE Snapshot \/ UNCHANGED vars
  BY Zenon, <1>2, ReceiverKeepsRotations DEF Snapshot, vars, senderVars
<1> QED
  BY Zenon, <1>1, <1>2, SendKeepsRotations, RecoverKeepsRotations DEF Next

(* What is announced is the chain of the durable row, in every state.      *)
THEOREM RotationInvariance == Spec => []RotationInv
<1>1. Init => RotationInv
  BY Zenon DEF Init, RotationInv, Rotations, Messages
<1> QED
  BY <1>1, RotationStep, SenderInvariance, PTL DEF Spec

(* An epoch announces one sending chain, the chain of every message in the  *)
(* log, and no message is sealed at the last u32 position, whatever crash   *)
(* separates the journal append from the events (prepare_sender_message,    *)
(* recover_next, import_my_sender): for any bounds and any number of seeds. *)
THEOREM OneChainAnnounced == Spec => []OneChainPerEpoch
<1>1. SenderInv /\ RotationInv => OneChainPerEpoch
  <2> SUFFICES ASSUME SenderInv, RotationInv PROVE OneChainPerEpoch
    BY Zenon
  <2>1. \A e, f \in Rotations : e = f
    BY Zenon DEF RotationInv
  <2>2. ASSUME NEW m \in Messages
        PROVE  /\ \E e \in Rotations : e.skd.chain_key.seed = m.mk.seed
               /\ m.n < U32Max
    <3>1. /\ stored # None /\ m.n \in Nat /\ m.n < stored.n
          /\ m.mk = [seed |-> stored.chain_key.seed, step |-> m.n]
      BY Zenon, LogFact DEF SenderInv
    <3>2. stored.n \in 0..U32Max
      BY Zenon, <3>1 DEF SenderInv, KeysInv, Coherent, SenderKeyType, Position
    <3>3. RotationOf(stored) \in Rotations
      BY Zenon DEF RotationInv, Rotations, RotationOf, KeyRotation
    <3>4. RotationOf(stored).skd.chain_key.seed = m.mk.seed
      BY <3>1 DEF RotationOf, KeyRotation
    <3> QED
      BY <3>1, <3>2, <3>3, <3>4, SenderKeyAssumption
  <2> QED
    BY Zenon, <2>1, <2>2 DEF OneChainPerEpoch
<1> QED
  BY <1>1, SenderInvariance, RotationInvariance, PTL
-----------------------------------------------------------------------------
(* The receivers.                                                           *)

(* A distribution or snapshot of the author's chain, at a position whose     *)
(* chain key it carries.                                                     *)
Belongs(skd) ==
    /\ stored # None
    /\ Fits(skd, stored.chain_key.seed)

(* A receiver's chain is the author's, and what it has opened lies behind    *)
(* the chain and outside its buffer.                                         *)
ChainInv(r) ==
    chain[r] # None =>
        /\ Sound(chain[r])
        /\ stored # None
        /\ chain[r].chain_key.seed = stored.chain_key.seed
        /\ \A i \in 1..Len(opened[r]) :
             /\ opened[r][i].n \in Nat
             /\ opened[r][i].n < chain[r].n
             /\ opened[r][i].n \notin DOMAIN chain[r].skipped

ReceiverInv ==
    /\ chain \in [Receivers -> ChainType \cup {None}]
    /\ opened \in [Receivers -> Seq(log)]
    /\ \A skd \in snaps : Belongs(skd)
    /\ \A r \in Receivers : chain[r] = None => opened[r] = <<>>
    /\ \A r \in Receivers : ChainInv(r)
    /\ SingleUse

(* The author's steps neither lose the chain nor a message.                  *)
LEMMA SenderKeepsReceivers ==
    ASSUME ReceiverInv, UNCHANGED receiverVars, log \subseteq log',
           stored # None => stored' # None /\ stored'.chain_key.seed = stored.chain_key.seed
    PROVE  ReceiverInv'
<1>1. chain' = chain /\ opened' = opened /\ snaps' = snaps
  BY Zenon DEF receiverVars
<1>2. opened' \in [Receivers -> Seq(log')]
  <2>1. \A r \in Receivers : opened[r] \in Seq(log')
    BY Zenon, SeqMonotonic DEF ReceiverInv
  <2> QED
    BY Zenon, <1>1, <2>1 DEF ReceiverInv
<1>3. \A skd \in snaps : Belongs(skd)'
  BY ZenonT(30) DEF ReceiverInv, Belongs
<1>4. \A r \in Receivers : ChainInv(r)'
  BY Zenon, <1>1 DEF ReceiverInv, ChainInv
<1>5. SingleUse'
  BY Zenon, <1>1 DEF ReceiverInv, SingleUse
<1> QED
  BY Zenon, <1>1, <1>2, <1>3, <1>4, <1>5 DEF ReceiverInv

(* One receiver's chain is replaced by a well-formed one that knows what was  *)
(* opened; the author and the other receivers are left alone.                *)
LEMMA ChainReplaced ==
    ASSUME ReceiverInv, NEW r \in Receivers, NEW d,
           chain' = [chain EXCEPT ![r] = d], UNCHANGED <<opened, snaps>>, UNCHANGED senderVars,
           Sound(d), stored # None, d.chain_key.seed = stored.chain_key.seed,
           \A i \in 1..Len(opened[r]) :
              /\ opened[r][i].n \in Nat
              /\ opened[r][i].n < d.n
              /\ opened[r][i].n \notin DOMAIN d.skipped
    PROVE  ReceiverInv'
<1>1. opened' = opened /\ snaps' = snaps /\ stored' = stored /\ log' = log
  BY Zenon DEF senderVars
<1>2. d \in ChainType /\ d # None
  BY Zenon, ChannelKeysAssumption DEF Sound
<1>3. /\ chain' \in [Receivers -> ChainType \cup {None}]
      /\ chain'[r] = d
      /\ \A q \in Receivers : q # r => chain'[q] = chain[q]
  BY Zenon, <1>2 DEF ReceiverInv
<1>4. ASSUME NEW q \in Receivers PROVE ChainInv(q)'
  <2>1. CASE q = r
    BY Zenon, <2>1, <1>1, <1>3 DEF ChainInv
  <2>2. CASE q # r
    BY Zenon, <2>2, <1>1, <1>3 DEF ChainInv, ReceiverInv
  <2> QED
    BY Zenon, <2>1, <2>2
<1>5. \A skd \in snaps' : Belongs(skd)'
  BY Zenon, <1>1 DEF ReceiverInv, Belongs
<1>6. SingleUse'
  BY Zenon, <1>1 DEF ReceiverInv, SingleUse
<1>7. \A q \in Receivers : chain'[q] = None => opened'[q] = <<>>
  BY Zenon, <1>1, <1>2, <1>3 DEF ReceiverInv
<1> QED
  BY Zenon, <1>1, <1>3, <1>4, <1>5, <1>6, <1>7 DEF ReceiverInv

(* A step that leaves chains, opened messages and the author alone.          *)
LEMMA ReceiversIdle ==
    ASSUME ReceiverInv, UNCHANGED <<chain, opened>>, UNCHANGED senderVars,
           \A skd \in snaps' : Belongs(skd)
    PROVE  ReceiverInv'
<1>1. opened' = opened /\ chain' = chain /\ stored' = stored /\ log' = log
  BY Zenon DEF senderVars
<1>2. \A skd \in snaps' : Belongs(skd)'
  BY Zenon, <1>1 DEF Belongs
<1>3. \A r \in Receivers : ChainInv(r)'
  BY ZenonT(30), <1>1 DEF ReceiverInv, ChainInv
<1>4. SingleUse'
  BY Zenon, <1>1 DEF ReceiverInv, SingleUse
<1> QED
  BY Zenon, <1>1, <1>2, <1>3, <1>4 DEF ReceiverInv

(* A KeyRotation installs the announced chain once.                          *)
LEMMA InstallKeepsReceivers ==
    ASSUME RotationInv, SenderInv, ReceiverInv, NEW r \in Receivers, InstallRotation(r)
    PROVE  ReceiverInv'
<1>1. PICK e \in Rotations :
        chain' = [chain EXCEPT ![r] = IF @ = None THEN from_distribution(e.skd) ELSE @]
  BY ZenonT(30) DEF InstallRotation
<1>2. UNCHANGED <<opened, snaps>> /\ UNCHANGED senderVars
  BY Zenon DEF InstallRotation
<1>3. CASE chain[r] = None
  <2>1. stored # None /\ e = RotationOf(stored)
    BY Zenon DEF RotationInv
  <2>2. /\ e.skd.n = 0
        /\ e.skd.chain_key = [seed |-> stored.chain_key.seed, step |-> 0]
    BY Zenon, <2>1 DEF RotationOf, KeyRotation
  <2>3. stored.chain_key.seed \in Seeds
    BY Zenon, <2>1 DEF SenderInv, KeysInv, Coherent, SenderKeyType, ChainKey
  <2>4. Belongs(e.skd)
    BY <2>1, <2>2, <2>3, SenderKeyAssumption DEF Belongs, Fits, Position, ChainKey
  <2>5. chain' = [chain EXCEPT ![r] = from_distribution(e.skd)]
    BY Zenon, <1>1, <1>3
  <2>6. Len(opened[r]) = 0
    BY Zenon, <1>3, EmptySeq DEF ReceiverInv
  <2> QED
    <3>1. Sound(from_distribution(e.skd))
          /\ from_distribution(e.skd).chain_key.seed = stored.chain_key.seed
      BY Zenon, <2>4, InstalledSound DEF Belongs
    <3>2. 1..Len(opened[r]) = {}
      BY <2>6
    <3> QED
      BY ZenonT(30), <2>1, <2>5, <3>1, <3>2, <1>2, ChainReplaced
<1>4. CASE chain[r] # None
  <2>1. chain' = chain
    BY Zenon, <1>1, <1>4 DEF ReceiverInv
  <2>2. \A skd \in snaps' : Belongs(skd)
    BY Zenon, <1>2 DEF ReceiverInv
  <2> QED
    BY Zenon, <1>2, <2>1, <2>2, ReceiversIdle
<1> QED
  BY Zenon, <1>3, <1>4

(* A late snapshot moves a chain forwards or not at all.                     *)
LEMMA RefreshKeepsReceivers ==
    ASSUME ReceiverInv, NEW r \in Receivers, Refresh(r)
    PROVE  /\ ReceiverInv'
           /\ chain[r] # None => chain'[r].skipped = chain[r].skipped
<1>1. PICK skd \in snaps :
         chain' = [chain EXCEPT ![r] = IF @ = None THEN from_distribution(skd)
                                       ELSE refresh_distribution(@, skd)]
  BY ZenonT(30) DEF Refresh
<1>2. UNCHANGED <<opened, snaps>> /\ UNCHANGED senderVars
  BY Zenon DEF Refresh
<1>3. Belongs(skd) /\ stored # None
  BY Zenon DEF ReceiverInv, Belongs
<1>4. CASE chain[r] = None
  <2>1. chain' = [chain EXCEPT ![r] = from_distribution(skd)]
    BY Zenon, <1>1, <1>4
  <2>2. Len(opened[r]) = 0
    BY Zenon, <1>4, EmptySeq DEF ReceiverInv
  <2> QED
    <3>1. Sound(from_distribution(skd))
          /\ from_distribution(skd).chain_key.seed = stored.chain_key.seed
      BY Zenon, <1>3, InstalledSound DEF Belongs
    <3>2. 1..Len(opened[r]) = {}
      BY <2>2
    <3> QED
      BY ZenonT(30), <2>1, <3>1, <3>2, <1>2, <1>3, <1>4, ChainReplaced
<1>5. CASE chain[r] # None
  <2> DEFINE d == refresh_distribution(chain[r], skd)
  <2>1. chain' = [chain EXCEPT ![r] = d] /\ chain'[r] = d
    BY Zenon, <1>1, <1>5 DEF ReceiverInv
  <2>2. ChainInv(r) /\ Sound(chain[r]) /\ chain[r].chain_key.seed = stored.chain_key.seed
    BY Zenon, <1>5 DEF ReceiverInv, ChainInv
  <2>3. /\ Sound(d) /\ d.chain_key.seed = stored.chain_key.seed
        /\ chain[r].n <= d.n /\ d.skipped = chain[r].skipped
    BY Zenon, <2>2, <1>3, RefreshedSound DEF Belongs
  <2>4. chain[r].n \in Nat /\ d.n \in Nat
    BY ZenonT(30), <2>2, <2>3, SoundFacts
  <2> HIDE DEF d
  <2>5. \A i \in 1..Len(opened[r]) :
              /\ opened[r][i].n \in Nat
              /\ opened[r][i].n < d.n
              /\ opened[r][i].n \notin DOMAIN d.skipped
    BY SMTT(30), <2>2, <2>3, <2>4, <1>5 DEF ChainInv
  <2>6. ReceiverInv'
    BY ZenonT(30), <2>1, <2>3, <2>5, <1>2, <1>3, ChainReplaced
  <2> QED
    BY Zenon, <2>1, <2>3, <2>6
<1> QED
  BY Zenon, <1>4, <1>5

(* A sealed snapshot belongs to the author's chain.                          *)
LEMMA SnapshotKeepsReceivers ==
    ASSUME RotationInv, SenderInv, ReceiverInv, Snapshot
    PROVE  ReceiverInv'
<1>1. PICK skd \in {current_distribution(chain[r]) : r \in {q \in Receivers : chain[q] # None}}
                  \cup (IF live = None THEN {} ELSE {distribution(live)}) :
         snaps' = snaps \cup {skd}
  BY Zenon DEF Snapshot
<1>2. Belongs(skd)
  <2>1. ASSUME NEW r \in Receivers, chain[r] # None, skd = current_distribution(chain[r])
        PROVE  Belongs(skd)
    <3>1. /\ Sound(chain[r]) /\ stored # None
          /\ chain[r].chain_key.seed = stored.chain_key.seed
      BY Zenon, <2>1 DEF ReceiverInv, ChainInv
    <3>2. /\ skd.n = chain[r].n /\ skd.chain_key = chain[r].chain_key
      BY Zenon, <2>1 DEF current_distribution
    <3>3. /\ chain[r].n \in Position /\ chain[r].chain_key \in ChainKey
          /\ chain[r].chain_key.step = chain[r].n
      BY ZenonT(30), <3>1, SoundFacts DEF Sound, BufferShape
    <3>4. chain[r].chain_key = [seed |-> chain[r].chain_key.seed, step |-> chain[r].chain_key.step]
      BY Zenon, <3>3 DEF ChainKey
    <3> QED
      BY Zenon, <3>1, <3>2, <3>3, <3>4 DEF Belongs, Fits
  <2>2. ASSUME live # None, skd = distribution(live)
        PROVE  Belongs(skd)
    <3>1. Coherent(live) /\ stored # None /\ live.chain_key.seed = stored.chain_key.seed
      BY Zenon, <2>2 DEF SenderInv, KeysInv, RotationInv
    <3>2. /\ skd.n = live.n /\ skd.chain_key = live.chain_key
      BY Zenon, <2>2 DEF distribution
    <3>3. /\ live.n \in Position /\ live.chain_key \in ChainKey /\ live.chain_key.step = live.n
      BY Zenon, <3>1 DEF Coherent, SenderKeyType
    <3>4. live.chain_key = [seed |-> live.chain_key.seed, step |-> live.chain_key.step]
      BY Zenon, <3>3 DEF ChainKey
    <3> QED
      BY ZenonT(30), <3>1, <3>2, <3>3, <3>4 DEF Belongs, Fits
  <2> QED
    BY Zenon, <1>1, <2>1, <2>2
<1>3. \A s \in snaps' : Belongs(s)
  BY Zenon, <1>1, <1>2 DEF ReceiverInv
<1>4. UNCHANGED <<chain, opened>> /\ UNCHANGED senderVars
  BY Zenon DEF Snapshot
<1> QED
  BY Zenon, <1>3, <1>4, ReceiversIdle

(* What one step may drop from one receiver's buffer.                        *)
DropStep(r) ==
    (chain[r] # None /\ chain'[r] # None) =>
         IF opened'[r] = opened[r]
         THEN DOMAIN chain[r].skipped \subseteq DOMAIN chain'[r].skipped
         ELSE \A p \in (DOMAIN chain[r].skipped \cup chain[r].n..(chain'[r].n - 1))
                       \ DOMAIN chain'[r].skipped :
                \/ \E i \in 1..Len(opened'[r]) : opened'[r][i].n = p
                \/ /\ Cardinality(DOMAIN chain'[r].skipped) = MAX_SKIPPED_TOTAL
                   /\ \A q \in DOMAIN chain'[r].skipped : p < q

(* An open that the AEAD accepts spends a position not spent before.         *)
LEMMA OpenKeepsReceivers ==
    ASSUME SenderInv, ReceiverInv, NEW r \in Receivers, Open(r)
    PROVE  ReceiverInv' /\ DropStep(r)
<1>1. PICK m \in Messages, intact \in BOOLEAN :
        /\ chain' = [chain EXCEPT ![r] = IF intact /\ Opens(chain[r], m.n, m.mk)
                                         THEN Opened(@, m.n) ELSE @]
        /\ opened' = [opened EXCEPT ![r] = IF intact /\ Opens(chain[r], m.n, m.mk)
                                           THEN Append(@, m) ELSE @]
  BY ZenonT(30) DEF Open
<1>2. /\ chain[r] # None /\ snaps' = snaps /\ UNCHANGED senderVars
      /\ stored' = stored /\ log' = log
  BY Zenon DEF Open, senderVars
<1>3. CASE ~(intact /\ Opens(chain[r], m.n, m.mk))
  <2>1. chain' = chain /\ opened' = opened
    BY Zenon, <1>1, <1>3 DEF ReceiverInv
  <2>2. \A skd \in snaps' : Belongs(skd)
    BY Zenon, <1>2 DEF ReceiverInv
  <2>3. ReceiverInv'
    BY Zenon, <2>1, <2>2, <1>2, ReceiversIdle
  <2>4. DropStep(r)
    BY Zenon, <2>1 DEF DropStep
  <2> QED
    BY Zenon, <2>3, <2>4
<1>4. CASE intact /\ Opens(chain[r], m.n, m.mk)
  <2> DEFINE c == chain[r]
             d == Opened(c, m.n)
             N == Len(opened[r])
  <2>1. /\ chain' = [chain EXCEPT ![r] = d]
        /\ opened' = [opened EXCEPT ![r] = Append(opened[r], m)]
    BY Zenon, <1>1, <1>4
  <2>2. m \in log /\ m.n \in Nat /\ m.n \in Position
    <3>1. /\ stored # None /\ m.n \in Nat /\ m.n < stored.n
      BY ZenonT(30), LogFact DEF SenderInv
    <3>2. stored.n \in 0..U32Max
      BY Zenon, <3>1 DEF SenderInv, KeysInv, Coherent, SenderKeyType, Position
    <3> QED
      BY <3>1, <3>2, SenderKeyAssumption DEF Position, Messages
  <2>3. /\ Sound(c) /\ stored # None /\ c.chain_key.seed = stored.chain_key.seed
        /\ \A i \in 1..N : /\ opened[r][i].n \in Nat
                           /\ opened[r][i].n < c.n
                           /\ opened[r][i].n \notin DOMAIN c.skipped
    BY Zenon, <1>2 DEF ReceiverInv, ChainInv
  <2>4. Follows(c, m.n, d) /\ (m.n \in DOMAIN c.skipped \/ c.n <= m.n)
    BY Zenon, <2>2, <2>3, <1>4, OpenFollows
  <2> HIDE DEF d
  <2>5. /\ Sound(d) /\ d.chain_key.seed = stored.chain_key.seed
        /\ m.n < d.n /\ c.n <= d.n /\ m.n \notin DOMAIN d.skipped
        /\ \A q \in DOMAIN d.skipped : q \in DOMAIN c.skipped \/ c.n <= q
    BY Zenon, <2>3, <2>4 DEF Follows
  <2>6. c.n \in Nat /\ d.n \in Nat /\ d \in ChainType /\ d # None
    BY ZenonT(30), <2>3, <2>5, SoundFacts, ChannelKeysAssumption DEF Sound
  <2>7. /\ opened[r] \in Seq(log) /\ N \in Nat
        /\ Append(opened[r], m) \in Seq(log)
        /\ Len(Append(opened[r], m)) = N + 1
        /\ \A i \in 1..N : Append(opened[r], m)[i] = opened[r][i]
        /\ Append(opened[r], m)[N + 1] = m
    <3>1. opened[r] \in Seq(log)
      BY Zenon DEF ReceiverInv
    <3> QED
      BY <2>2, <3>1
  <2>8. /\ chain' \in [Receivers -> ChainType \cup {None}]
        /\ chain'[r] = d
        /\ \A q \in Receivers : q # r => chain'[q] = chain[q]
    BY Zenon, <2>1, <2>6 DEF ReceiverInv
  <2>9. /\ opened' \in [Receivers -> Seq(log')]
        /\ opened'[r] = Append(opened[r], m)
        /\ \A q \in Receivers : q # r => opened'[q] = opened[q]
    BY Zenon, <2>1, <2>7, <1>2 DEF ReceiverInv
  <2>10. ASSUME NEW i \in 1..(N + 1)
         PROVE  /\ opened'[r][i].n \in Nat
                /\ opened'[r][i].n < d.n
                /\ opened'[r][i].n \notin DOMAIN d.skipped
    <3>1. CASE i = N + 1
      BY Zenon, <3>1, <2>2, <2>5, <2>7, <2>9
    <3>2. CASE i # N + 1
      <4>1. i \in 1..N
        BY SMTT(30), <3>2, <2>7
      <4>2. opened'[r][i] = opened[r][i]
        BY Zenon, <4>1, <2>7, <2>9
      <4>3. opened[r][i].n \in Nat /\ opened[r][i].n < c.n /\ opened[r][i].n \notin DOMAIN c.skipped
        BY Zenon, <4>1, <2>3
      <4>4. opened[r][i].n \notin DOMAIN d.skipped
        BY SMTT(30), <4>3, <2>5, <2>6
      <4> QED
        BY SMTT(30), <4>2, <4>3, <4>4, <2>5, <2>6
    <3> QED
      BY Zenon, <3>1, <3>2
  <2>11. \A i \in 1..N : opened'[r][i].n # m.n
    <3> SUFFICES ASSUME NEW i \in 1..N PROVE opened[r][i].n # m.n
      BY Zenon, <2>7, <2>9
    <3> QED
      BY SMTT(30), <2>2, <2>3, <2>4, <2>6
  <2>12. ASSUME NEW q \in Receivers PROVE ChainInv(q)'
    <3>1. CASE q = r
      BY ZenonT(30), <3>1, <2>3, <2>5, <2>7, <2>8, <2>9, <2>10, <1>2 DEF ChainInv
    <3>2. CASE q # r
      BY ZenonT(30), <3>2, <2>8, <2>9, <1>2 DEF ChainInv, ReceiverInv
    <3> QED
      BY Zenon, <3>1, <3>2
  <2>13. SingleUse'
    <3> SUFFICES ASSUME NEW q \in Receivers, NEW i \in 1..Len(opened'[q]),
                        NEW j \in 1..Len(opened'[q]), opened'[q][i].n = opened'[q][j].n
                 PROVE  i = j
      BY Zenon DEF SingleUse
    <3>1. CASE q # r
      BY Zenon, <3>1, <2>9 DEF ReceiverInv, SingleUse
    <3>2. CASE q = r
      <4>1. i \in 1..(N + 1) /\ j \in 1..(N + 1)
        BY Zenon, <3>2, <2>7, <2>9
      <4>2. CASE i \in 1..N /\ j \in 1..N
        <5>1. opened[r][i].n = opened[r][j].n
          BY Zenon, <4>2, <3>2, <2>7, <2>9
        <5> QED
          BY Zenon, <5>1, <4>2 DEF ReceiverInv, SingleUse
      <4>3. CASE i = N + 1 /\ j \in 1..N
        BY Zenon, <4>3, <3>2, <2>7, <2>9, <2>11
      <4>4. CASE j = N + 1 /\ i \in 1..N
        BY Zenon, <4>4, <3>2, <2>7, <2>9, <2>11
      <4>5. /\ i \in 1..N \/ i = N + 1
            /\ j \in 1..N \/ j = N + 1
        BY <4>1, <2>7
      <4> QED
        BY Zenon, <4>2, <4>3, <4>4, <4>5
    <3> QED
      BY Zenon, <3>1, <3>2
  <2>14. \A skd \in snaps' : Belongs(skd)'
    BY Zenon, <1>2 DEF ReceiverInv, Belongs
  <2>15. \A q \in Receivers : chain'[q] = None => opened'[q] = <<>>
    BY Zenon, <2>6, <2>8, <2>9 DEF ReceiverInv
  <2>16. ReceiverInv'
    BY Zenon, <2>8, <2>9, <2>12, <2>13, <2>14, <2>15 DEF ReceiverInv
  <2>17. DropStep(r)
    <3>1. opened'[r] # opened[r]
      <4>1. Len(opened'[r]) = N + 1
        BY Zenon, <2>7, <2>9
      <4> QED
        BY SMTT(30), <4>1, <2>7
    <3>2. \E i \in 1..Len(opened'[r]) : opened'[r][i].n = m.n
      BY <2>7, <2>9
    <3>3. \A q \in (DOMAIN c.skipped \cup c.n..(d.n - 1)) \ DOMAIN d.skipped :
            \/ q = m.n
            \/ /\ Cardinality(DOMAIN d.skipped) = MAX_SKIPPED_TOTAL
               /\ \A x \in DOMAIN d.skipped : q < x
      BY Zenon, <2>4 DEF Follows
    <3>4. \A p \in (DOMAIN chain[r].skipped \cup chain[r].n..(chain'[r].n - 1))
                       \ DOMAIN chain'[r].skipped :
                \/ \E i \in 1..Len(opened'[r]) : opened'[r][i].n = p
                \/ /\ Cardinality(DOMAIN chain'[r].skipped) = MAX_SKIPPED_TOTAL
                   /\ \A q \in DOMAIN chain'[r].skipped : p < q
      BY Zenon, <3>2, <3>3, <2>8
    <3> QED
      BY Zenon, <3>1, <3>4 DEF DropStep
  <2> QED
    BY Zenon, <2>16, <2>17
<1> QED
  BY Zenon, <1>3, <1>4

(* Every step keeps the receivers' invariant and drops only what it may.     *)
LEMMA ReceiverStep ==
    ASSUME SenderInv, RotationInv, ReceiverInv, [Next]_vars
    PROVE  ReceiverInv' /\ \A r \in Receivers : DropStep(r)
<1>1. ASSUME UNCHANGED receiverVars
      PROVE  \A r \in Receivers : DropStep(r)
  BY Zenon, <1>1 DEF receiverVars, DropStep
<1>2. CASE Send \/ RecoverSenders \/ RecoverEvents \/ RecoverRetire \/ RewriteFails \/ Crash
  <2>1. UNCHANGED receiverVars
    BY Zenon, <1>2 DEF Send, RecoverSenders, RecoverEvents, RecoverRetire, RewriteFails, Crash
  <2>2. log \subseteq log'
    BY Zenon, <1>2 DEF Send, RecoverSenders, RecoverEvents, RecoverRetire, RewriteFails, Crash
  <2>3. stored # None => stored' # None /\ stored'.chain_key.seed = stored.chain_key.seed
    <3>1. CASE RecoverSenders
      <4>1. journal # None /\ stored' = journal.senders
        BY Zenon, <3>1 DEF RecoverSenders
      <4>2. /\ Coherent(journal.senders)
            /\ stored # None => stored.chain_key.seed = journal.senders.chain_key.seed
        BY Zenon, <4>1 DEF SenderInv, JournalInv
      <4> QED
        BY Zenon, <4>1, <4>2, ChannelKeysAssumption DEF Coherent
    <3>2. CASE ~RecoverSenders
      BY Zenon, <3>2, <1>2 DEF Send, RecoverEvents, RecoverRetire, RewriteFails, Crash
    <3> QED
      BY Zenon, <3>1, <3>2
  <2> QED
    BY Zenon, <1>1, <2>1, <2>2, <2>3, SenderKeepsReceivers
<1>3. CASE Snapshot
  <2>1. chain' = chain /\ opened' = opened
    BY Zenon, <1>3 DEF Snapshot
  <2>2. \A r \in Receivers : DropStep(r)
    BY Zenon, <2>1 DEF DropStep
  <2> QED
    BY Zenon, <1>3, <2>2, SnapshotKeepsReceivers
<1>4. ASSUME NEW r \in Receivers, InstallRotation(r) \/ Open(r) \/ Refresh(r)
      PROVE  ReceiverInv' /\ \A q \in Receivers : DropStep(q)
  <2>1. ReceiverInv' /\ DropStep(r)
    <3>1. CASE InstallRotation(r)
      <4>1. ReceiverInv'
        BY Zenon, <3>1, InstallKeepsReceivers
      <4>2. chain[r] # None => chain'[r] = chain[r]
        BY Zenon, <3>1 DEF InstallRotation, ReceiverInv
      <4>3. opened' = opened
        BY Zenon, <3>1 DEF InstallRotation
      <4> QED
        BY Zenon, <4>1, <4>2, <4>3 DEF DropStep
    <3>2. CASE Open(r)
      BY Zenon, <3>2, OpenKeepsReceivers
    <3>3. CASE Refresh(r)
      <4>1. ReceiverInv' /\ (chain[r] # None => chain'[r].skipped = chain[r].skipped)
        BY Zenon, <3>3, RefreshKeepsReceivers
      <4>2. opened' = opened
        BY Zenon, <3>3 DEF Refresh
      <4> QED
        BY Zenon, <4>1, <4>2 DEF DropStep
    <3> QED
      BY Zenon, <1>4, <3>1, <3>2, <3>3
  <2>2. ASSUME NEW q \in Receivers, q # r PROVE DropStep(q)
    <3>1. chain'[q] = chain[q] /\ opened'[q] = opened[q]
      BY Zenon, <1>4, <2>2 DEF InstallRotation, Open, Refresh, ReceiverInv
    <3> QED
      BY Zenon, <3>1 DEF DropStep
  <2> QED
    BY Zenon, <2>1, <2>2
<1>5. CASE UNCHANGED vars
  <2>1. UNCHANGED receiverVars /\ log' = log /\ stored' = stored
    BY Zenon, <1>5 DEF vars, receiverVars
  <2> QED
    BY Zenon, <1>1, <2>1, SenderKeepsReceivers
<1> QED
  BY Zenon, <1>2, <1>3, <1>4, <1>5 DEF Next

(* Every receiver follows the author's chain, with nothing it has opened      *)
(* left to open again.                                                       *)
THEOREM ReceiverInvariance == Spec => []ReceiverInv
<1>1. Init => ReceiverInv
  <2> SUFFICES ASSUME Init PROVE ReceiverInv
    BY Zenon
  <2>1. /\ chain = [r \in Receivers |-> None] /\ opened = [r \in Receivers |-> <<>>]
        /\ snaps = {}
    BY Zenon DEF Init
  <2>2. <<>> \in Seq(log) /\ Len(<<>>) = 0
    BY Zenon, EmptySeq
  <2> QED
    BY SMTT(30), <2>1, <2>2 DEF ReceiverInv, ChainInv, SingleUse
<1> QED
  BY <1>1, ReceiverStep, SenderInvariance, RotationInvariance, PTL DEF Spec

(* A receiver never opens one position twice, in any order of messages,       *)
(* duplicates, evictions and late snapshots (message_key,                    *)
(* refresh_distribution): for any receivers, positions and buffer size.      *)
THEOREM PositionsOpenOnce == Spec => []SingleUse
<1>1. ReceiverInv => SingleUse
  BY Zenon DEF ReceiverInv
<1> QED
  BY <1>1, ReceiverInvariance, PTL

(* Every receiver's chain keeps its shape, and its checkpoint is an exact     *)
(* private fork of it: encode_checkpoint never refuses it and                *)
(* decode_checkpoint gives back every key, hole and place in the eviction    *)
(* order, for any buffer size.                                               *)
THEOREM BuffersStayExact == Spec => []BufferExact
<1>1. ReceiverInv => BufferExact
  <2> SUFFICES ASSUME ReceiverInv, NEW r \in Receivers, chain[r] # None
               PROVE  BufferShape(chain[r]) /\ ForkExact(chain[r])
    BY Zenon DEF BufferExact
  <2>1. Sound(chain[r])
    BY Zenon DEF ReceiverInv, ChainInv
  <2> QED
    BY Zenon, <2>1, SoundForks DEF Sound
<1> QED
  BY <1>1, ReceiverInvariance, PTL

(* Opening a message loses no key that could still be needed, and nothing but *)
(* an open drops one (message_key, refresh_distribution): for any buffer     *)
(* size and any jump.                                                        *)
THEOREM OnlyOldestDropped == Spec => DropsOnlyOldest
<1>1. SenderInv /\ RotationInv /\ ReceiverInv /\ [Next]_vars
        => [\A r \in Receivers : DropStep(r)]_vars
  BY Zenon, ReceiverStep
<1> QED
  BY <1>1, SenderInvariance, RotationInvariance, ReceiverInvariance, PTL
     DEF Spec, DropsOnlyOldest, DropStep
=============================================================================
