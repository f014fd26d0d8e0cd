-------------------------- MODULE DmDelivery_proofs --------------------------
(***************************************************************************)
(* Proofs about DmDelivery for any devices, any messages, any fan-out, and *)
(* any number of crashes, power losses and storage errors: no position of  *)
(* a session seals two messages, a request that is repeated within its     *)
(* window is one message, the replay of a journal always applies, no       *)
(* opened plaintext is lost, and the store implements AbstractDelivery.    *)
(***************************************************************************)
EXTENDS DmDelivery, SequenceTheorems, TLAPS

Stages == {"commit", "append", "record", "receipt", "install", "request", "rewrite"}
Events == [kind : {"dm", "receipt"}, msg : Msgs, dev : Devices, pos : Nat, initial : BOOLEAN]
Sessions == [sent : Nat, opened : SUBSET Nat, initiator : BOOLEAN]
Transitions == [previous : Sessions, state : Sessions]
Transactions ==
    [type : {"out", "in"}, msg : Msgs, events : SUBSET Events,
     ratchets : UNION {[S -> Transitions] : S \in SUBSET Devices}]

TypeInv ==
    /\ session \in [Devices -> [Devices -> Sessions]]
    /\ log \in [Devices -> SUBSET Events]
    /\ sent \in [Devices -> SUBSET Msgs]
    /\ received \in [Devices -> SUBSET Events]
    /\ messages \in [Devices -> SUBSET [msg : Msgs, events : SUBSET Events]]
    /\ completed \in [Devices -> SUBSET [msg : Msgs, events : SUBSET Events,
                                         remaining : SUBSET Events]]
    /\ requests \in [Devices -> SUBSET Msgs]
    /\ journal \in [Devices -> Seq(Transactions)]
    /\ onDisk \in [Devices -> SUBSET Seq(Transactions)]
    /\ needsSync \in [Devices -> BOOLEAN]
    /\ stage \in [Devices -> Stages]

\* A pending transaction is the only one, and no crash loses it.
OnePending ==
    \A d \in Devices :
        /\ \A w \in Possible(d) : Len(w) <= 1
        /\ journal[d] # <<>> => onDisk[d] = {journal[d]}

\* An outgoing transaction seals one event per destination at the position the
\* session had, and leaves the session one further.
IsOutgoing(d, tx) ==
    /\ From[tx.msg] = d
    /\ tx.ratchets \in [To[tx.msg] -> Transitions]
    /\ \A p \in To[tx.msg] :
        tx.ratchets[p].state = Sealed(tx.ratchets[p].previous)
    /\ tx.events = {Original(tx.msg, p, tx.ratchets[p].previous) : p \in To[tx.msg]}

\* An incoming one opens an event of the log.
IsIncoming(d, tx) ==
    /\ tx.ratchets \in [{From[tx.msg]} -> Transitions]
    /\ \E e \in log[d] :
        /\ e.kind = "dm" /\ e.msg = tx.msg /\ e.dev = d
        /\ tx.events = {e}
        /\ tx.ratchets[From[e.msg]].state =
               Opened(tx.ratchets[From[e.msg]].previous, e)

\* The recovery pass of d is past the stages S, or has dropped the transaction.
Past(d, S) == journal[d] = <<>> \/ stage[d] \notin S

\* What holds of a transaction that a crash of d can leave in the journal.
Replayable(d, tx) ==
    /\ tx.type = "out" => IsOutgoing(d, tx)
    /\ tx.type = "in" => IsIncoming(d, tx)
    /\ \A p \in DOMAIN tx.ratchets : Applies(session[d][p], tx.ratchets[p])
    /\ Past(d, {"commit"}) => \A p \in DOMAIN tx.ratchets : session[d][p] = tx.ratchets[p].state
    /\ Past(d, {"commit", "append", "record"}) =>
        IF tx.type = "out" THEN tx.msg \in sent[d] ELSE tx.events \subseteq received[d]
    /\ tx.type = "out" => \A c \in completed[d] : c.msg # tx.msg

PendingInv == \A d \in Devices : \A w \in Possible(d) : \A tx \in TxsOf(w) : Replayable(d, tx)

\* Message m of device d is accepted: pending, or in the transcript.
Known(d, m) ==
    \/ m \in sent[d]
    \/ \E i \in DOMAIN journal[d] : journal[d][i].type = "out" /\ journal[d][i].msg = m

\* A sealed event lies below the next position of its author's session, and its
\* message is accepted.  A receipt is for a plaintext that is recorded.
Accounted(e) ==
    IF e.kind = "dm"
    THEN /\ e.dev \in To[e.msg]
         /\ e.pos < session[From[e.msg]][e.dev].sent
         /\ Known(From[e.msg], e.msg)
    ELSE e.dev \in Eligible[e.msg] /\ OriginalOf(e) \in received[e.dev]

LogInv == \A d \in Devices : \A e \in log[d] : Accounted(e)

\* Only positions that were sealed are opened.
OpenedInv ==
    \A d, p \in Devices : \A k \in session[d][p].opened : k < session[p][d].sent

\* Whatever is in the outbox or the transcript of sent messages was accepted.
KnownInv ==
    \A d \in Devices :
        /\ \A x \in messages[d] \cup completed[d] : Known(d, x.msg)
        /\ \A m \in sent[d] : From[m] = d /\ Known(d, m)

\* A message has one event per destination.
OneCopy == \A e, f \in Originals : e.msg = f.msg /\ e.dev = f.dev => e = f

DeliveryInv ==
    /\ TypeInv /\ OnePending /\ PendingInv /\ LogInv /\ OpenedInv /\ KnownInv
    /\ PositionSealedOnce /\ OneCopy /\ NoPlaintextLost

-----------------------------------------------------------------------------
(* The sessions.                                                           *)

\* Sealing moves a session on by one position.
LEMMA SealedIs ==
    ASSUME NEW s \in Sessions
    PROVE  /\ Sealed(s) \in Sessions
           /\ Sealed(s).sent = s.sent + 1 /\ Sealed(s).opened = s.opened
<1>1. s.sent + 1 \in Nat
  BY DEF Sessions
<1> DEFINE n == s.sent + 1
           b == s.initiator \/ s.opened = {}
<1>2. Sealed(s) = [s EXCEPT !.sent = n, !.initiator = b]
  BY Zenon DEF Sealed, Sessions
<1> HIDE DEF n
<1>3. n \in Nat /\ b \in BOOLEAN
  BY Zenon, <1>1 DEF n
<1> HIDE DEF b
<1>4. /\ Sealed(s) \in Sessions
      /\ Sealed(s).sent = n /\ Sealed(s).opened = s.opened
  BY Zenon, <1>2, <1>3 DEF Sessions
<1> QED
  BY Zenon, <1>4 DEF n

\* Opening adds the position of the event.
LEMMA OpenedIs ==
    ASSUME NEW s \in Sessions, NEW e \in Events
    PROVE  /\ Opened(s, e) \in Sessions
           /\ Opened(s, e).sent = s.sent /\ Opened(s, e).opened = s.opened \cup {e.pos}
BY DEF Opened, Sessions, Events

-----------------------------------------------------------------------------
(* What a step leaves alone, in terms of what it changes.                  *)

\* Originals, spelled out.
LEMMA OriginalsAre ==
    ASSUME NEW e
    PROVE  e \in Originals <=>
               \/ \E d \in Devices : e \in log[d] /\ e.kind = "dm"
               \/ \E d \in Devices : \E w \in Possible(d) : \E tx \in TxsOf(w) : e \in tx.events
BY DEF Originals

\* The same in the next state.
LEMMA OriginalsAreNext ==
    ASSUME NEW e
    PROVE  e \in Originals' <=>
               \/ \E d \in Devices : e \in log'[d] /\ e.kind = "dm"
               \/ \E d \in Devices : \E w \in Possible(d)' : \E tx \in TxsOf(w) : e \in tx.events
BY DEF Originals

\* An empty journal holds no transaction.
LEMMA EmptyJournal == TxsOf(<<>>) = {}
BY DEF TxsOf

\* A journal of one transaction holds that one.
LEMMA SingleJournal ==
    ASSUME NEW tx
    PROVE  TxsOf(<<tx>>) = {tx}
BY DEF TxsOf

\* No original event appears unless a log or a journal gains one.
LEMMA OriginalsStay ==
    ASSUME \A x \in Devices : Possible(x)' \subseteq Possible(x) \cup {<<>>},
           \A x \in Devices : \A e \in log'[x] : e.kind = "dm" => e \in Originals
    PROVE  Originals' \subseteq Originals
<1> SUFFICES ASSUME NEW e \in Originals' PROVE e \in Originals
  BY Zenon
<1>1. CASE \E d \in Devices : e \in log'[d] /\ e.kind = "dm"
  BY Zenon, <1>1
<1>2. CASE \E d \in Devices : \E w \in Possible(d)' : \E tx \in TxsOf(w) : e \in tx.events
  BY Zenon, <1>2, OriginalsAre, EmptyJournal
<1> QED
  BY Zenon, <1>1, <1>2, OriginalsAreNext

\* Without new originals, positions stay sealed once and messages have one copy each.
LEMMA SealedStays ==
    ASSUME PositionSealedOnce, OneCopy, Originals' \subseteq Originals
    PROVE  PositionSealedOnce' /\ OneCopy'
BY Zenon DEF PositionSealedOnce, OneCopy

\* A plaintext stays safe while no session opens more and no journal is lost.
LEMMA PlaintextStays ==
    ASSUME NoPlaintextLost, Originals' \subseteq Originals,
           \A x \in Devices : Possible(x)' \subseteq Possible(x),
           UNCHANGED session,
           \A x \in Devices : received[x] \subseteq received'[x]
    PROVE  NoPlaintextLost'
BY Zenon DEF NoPlaintextLost

\* A message stays accepted while the journal and the transcript keep it.
LEMMA KnownStays ==
    ASSUME \A x \in Devices : sent[x] \subseteq sent'[x],
           UNCHANGED journal,
           NEW x \in Devices, NEW m, Known(x, m)
    PROVE  Known(x, m)'
BY Zenon DEF Known

\* A transaction stays replayable while its session and its outbox stand still
\* and what the pass has promised is there.
LEMMA ReplayableStays ==
    ASSUME NEW x \in Devices, NEW tx, Replayable(x, tx),
           session'[x] = session[x], completed'[x] = completed[x],
           log[x] \subseteq log'[x],
           Past(x, {"commit"})' => Past(x, {"commit"}),
           Past(x, {"commit", "append", "record"})' =>
               IF tx.type = "out" THEN tx.msg \in sent'[x] ELSE tx.events \subseteq received'[x]
    PROVE  Replayable(x, tx)'
<1>1. tx.type = "out" => IsOutgoing(x, tx)'
  BY Zenon DEF Replayable, IsOutgoing
<1>2. tx.type = "in" => IsIncoming(x, tx)'
  BY ZenonT(30) DEF Replayable, IsIncoming
<1> QED
  BY Zenon, <1>1, <1>2 DEF Replayable, Applies

\* So do all, while the pass goes back or on within the stages that promise the same.
LEMMA PendingStays ==
    ASSUME PendingInv,
           \A x \in Devices : Possible(x)' \subseteq Possible(x) \cup {<<>>},
           UNCHANGED session,
           \A x \in Devices : log[x] \subseteq log'[x],
           \A x \in Devices : sent[x] \subseteq sent'[x],
           \A x \in Devices : received[x] \subseteq received'[x],
           \A x \in Devices : \/ Possible(x)' \subseteq {<<>>}
                              \/ completed'[x] = completed[x],
           \A x \in Devices :
               /\ Past(x, {"commit"})' => Past(x, {"commit"})
               /\ Past(x, {"commit", "append", "record"})'
                      => Past(x, {"commit", "append", "record"})
    PROVE  PendingInv'
<1> SUFFICES ASSUME NEW x \in Devices, NEW w \in Possible(x)', NEW tx \in TxsOf(w)
             PROVE  Replayable(x, tx)'
  BY Zenon DEF PendingInv
<1>1. w \in Possible(x) /\ w # <<>>
  BY Zenon, EmptyJournal
<1>2. Replayable(x, tx)
  BY Zenon, <1>1 DEF PendingInv
<1>3. completed'[x] = completed[x]
  BY Zenon, <1>1
<1>4. Past(x, {"commit", "append", "record"})' =>
          IF tx.type = "out" THEN tx.msg \in sent'[x] ELSE tx.events \subseteq received'[x]
  BY ZenonT(30), <1>2 DEF Replayable
<1> QED
  BY ZenonT(30), <1>2, <1>3, <1>4, ReplayableStays

\* What is in the logs stays accounted for.
LEMMA AccountedStays ==
    ASSUME TypeInv, NEW e \in Events, Accounted(e),
           \A x, p \in Devices : session[x][p].sent \in Nat /\ session'[x][p].sent \in Nat
                                   /\ session[x][p].sent <= session'[x][p].sent,
           \A x \in Devices : \A m \in Msgs : Known(x, m) => Known(x, m)',
           \A x \in Devices : received[x] \subseteq received'[x]
    PROVE  Accounted(e)'
<1>1. /\ e.msg \in Msgs /\ e.dev \in Devices /\ e.pos \in Nat
      /\ From[e.msg] \in Devices
  BY Zenon, DeliveryAssumption DEF Events
<1>2. CASE e.kind = "dm"
  BY <1>1, <1>2 DEF Accounted
<1>3. CASE e.kind # "dm"
  BY Zenon, <1>1, <1>3 DEF Accounted, OriginalOf
<1> QED
  BY Zenon, <1>2, <1>3

\* Positions are numbers.
LEMMA PositionsAreNat ==
    ASSUME TypeInv
    PROVE  \A x, p \in Devices :
               session[x][p].sent \in Nat /\ session[x][p].sent <= session[x][p].sent
BY DEF TypeInv, Sessions

\* So do whole logs that do not change.
LEMMA LogStays ==
    ASSUME TypeInv, LogInv, UNCHANGED <<log, session>>,
           \A x \in Devices : \A m \in Msgs : Known(x, m) => Known(x, m)',
           \A x \in Devices : received[x] \subseteq received'[x]
    PROVE  LogInv'
<1>1. \A x, p \in Devices : session[x][p].sent \in Nat /\ session[x][p].sent <= session[x][p].sent
  BY Zenon, PositionsAreNat
<1>2. \A d \in Devices : log[d] \subseteq Events
  BY Zenon DEF TypeInv
<1> QED
  BY Zenon, <1>1, <1>2, AccountedStays DEF LogInv

\* What was accepted stays accepted.
LEMMA KnownInvStays ==
    ASSUME TypeInv, KnownInv, UNCHANGED <<messages, completed, sent>>,
           \A x \in Devices : \A m \in Msgs : Known(x, m) => Known(x, m)'
    PROVE  KnownInv'
BY DEF TypeInv, KnownInv

\* A journal that is not empty holds one transaction, and so does the disk.
LEMMA JournalHead ==
    ASSUME TypeInv, OnePending, NEW d \in Devices, journal[d] # <<>>
    PROVE  /\ Tx(d) \in Transactions
           /\ journal[d] = <<Tx(d)>>
           /\ onDisk[d] = {<<Tx(d)>>}
           /\ Possible(d) = {<<Tx(d)>>}
<1>1. journal[d] \in Seq(Transactions) /\ Len(journal[d]) <= 1
  BY Zenon DEF TypeInv, OnePending, Possible
<1>2. Len(journal[d]) = 1
  <2>1. Len(journal[d]) \in Nat \ {0}
    BY <1>1, EmptySeq, Zenon
  <2>2. Len(journal[d]) <= 1
    BY Zenon, <1>1
  <2> DEFINE n == Len(journal[d])
  <2>3. n \in Nat \ {0} /\ n <= 1
    BY Zenon, <2>1, <2>2
  <2> HIDE DEF n
  <2>4. n = 1
    BY <2>3
  <2> QED
    BY Zenon, <2>4 DEF n
<1>3. journal[d] = <<Tx(d)>> /\ Tx(d) \in Transactions
  BY <1>1, <1>2 DEF Tx
<1> QED
  BY ZenonT(30), <1>3 DEF OnePending, Possible

\* Steps that move the journal and the pass, and nothing else.
LEMMA BookkeepingKeeps ==
    ASSUME DeliveryInv, UNCHANGED <<projections, outbox>>,
           TypeInv', OnePending', NoPlaintextLost',
           \A x \in Devices : Possible(x)' \subseteq Possible(x) \cup {<<>>},
           \A x \in Devices : \A m \in Msgs : Known(x, m) => Known(x, m)',
           \A x \in Devices :
               /\ Past(x, {"commit"})' => Past(x, {"commit"})
               /\ Past(x, {"commit", "append", "record"})'
                      => Past(x, {"commit", "append", "record"})
    PROVE  DeliveryInv'
<1> USE DEF DeliveryInv, projections, outbox
<1>1. PendingInv'
  BY ZenonT(30), PendingStays
<1>2. LogInv' /\ KnownInv'
  BY Zenon, LogStays, KnownInvStays
<1>3. OpenedInv'
  BY Zenon DEF OpenedInv
<1>4. Originals' \subseteq Originals
  BY Zenon, OriginalsStay, OriginalsAre
<1>5. PositionSealedOnce' /\ OneCopy'
  BY Zenon, <1>4, SealedStays
<1> QED
  BY Zenon, <1>1, <1>2, <1>3, <1>5

-----------------------------------------------------------------------------
(* The pass and the journal.                                               *)

\* A storage error sends the pass back to its first stage.
LEMMA StorageErrorKeeps ==
    ASSUME DeliveryInv, NEW d \in Devices, StorageError(d)
    PROVE  DeliveryInv'
<1> USE DEF DeliveryInv
<1>1. /\ UNCHANGED <<projections, outbox, journal, onDisk, needsSync>>
      /\ stage' = [stage EXCEPT ![d] = "commit"] /\ journal[d] # <<>>
  BY Zenon DEF StorageError, Advance
<1>2. TypeInv'
  BY Zenon, <1>1 DEF TypeInv, projections, outbox, Stages
<1>3. \A x \in Devices : Possible(x)' = Possible(x)
  BY Zenon, <1>1 DEF Possible
<1>4. OnePending'
  BY Zenon, <1>1, <1>3 DEF OnePending
<1>5. \A x \in Devices : \A m \in Msgs : Known(x, m) => Known(x, m)'
  BY Zenon, <1>1, KnownStays DEF projections
<1>6. \A x \in Devices : \A S : "commit" \in S /\ Past(x, S)' => Past(x, S)
  BY Zenon, <1>1 DEF Past, TypeInv
<1>7. Originals' \subseteq Originals
  BY Zenon, <1>1, <1>3, OriginalsStay, OriginalsAre DEF projections
<1>8. NoPlaintextLost'
  BY Zenon, <1>1, <1>3, <1>7, PlaintextStays DEF projections
<1> QED
  BY Zenon, <1>1, <1>2, <1>3, <1>4, <1>5, <1>6, <1>8, BookkeepingKeeps DEF Stages

\* The directory sync that a replacement lacked.
LEMMA SyncKeeps ==
    ASSUME DeliveryInv, NEW d \in Devices, sync_replacement(d)
    PROVE  DeliveryInv'
<1> USE DEF DeliveryInv
<1>1. /\ UNCHANGED <<projections, outbox, journal, stage>>
      /\ onDisk' = [onDisk EXCEPT ![d] = {journal[d]}]
      /\ needsSync' = [needsSync EXCEPT ![d] = FALSE]
  BY Zenon DEF sync_replacement
<1>2. TypeInv'
  BY Zenon, <1>1 DEF TypeInv, projections, outbox
<1>3. \A x \in Devices : Possible(x)' \subseteq Possible(x)
  BY Zenon, <1>1 DEF Possible, TypeInv
<1>4. OnePending'
  BY Zenon, <1>1, <1>3 DEF OnePending, TypeInv
<1>5. \A x \in Devices : \A m \in Msgs : Known(x, m) => Known(x, m)'
  BY Zenon, <1>1, KnownStays DEF projections
<1>6. \A x \in Devices : \A S : Past(x, S)' => Past(x, S)
  BY Zenon, <1>1 DEF Past
<1>7. Originals' \subseteq Originals
  BY Zenon, <1>1, <1>3, OriginalsStay, OriginalsAre DEF projections
<1>8. NoPlaintextLost'
  BY Zenon, <1>1, <1>3, <1>7, PlaintextStays DEF projections
<1> QED
  BY Zenon, <1>1, <1>2, <1>3, <1>4, <1>5, <1>6, <1>8, BookkeepingKeeps

\* A crash: a journal in memory is on disk as well, so nothing pending is lost,
\* and a journal that comes back was installed.
LEMMA CrashKeeps ==
    ASSUME DeliveryInv, NEW d \in Devices, NEW power \in BOOLEAN, NEW v, Crash(d, v, power)
    PROVE  DeliveryInv'
<1> USE DEF DeliveryInv
<1>1. /\ UNCHANGED <<projections, outbox>>
      /\ v \in Possible(d)
      /\ journal' = [journal EXCEPT ![d] = v]
      /\ onDisk' = onDisk \/ onDisk' = [onDisk EXCEPT ![d] = {v}]
      /\ onDisk' = onDisk => v = journal[d] \/ onDisk[d] = {v}
      /\ needsSync' = [needsSync EXCEPT ![d] = FALSE]
      /\ stage' = [stage EXCEPT ![d] = "commit"]
  BY Zenon DEF Crash, Possible, TypeInv
<1>2. v \in Seq(Transactions)
  BY <1>1 DEF Possible, TypeInv
<1>3. TypeInv'
  <2>1. onDisk' \in [Devices -> SUBSET Seq(Transactions)]
    <3>1. CASE onDisk' = onDisk
      BY Zenon, <3>1 DEF TypeInv
    <3>2. CASE onDisk' = [onDisk EXCEPT ![d] = {v}]
      BY Zenon, <3>2, <1>2 DEF TypeInv
    <3> QED
      BY Zenon, <1>1, <3>1, <3>2
  <2>2. journal' \in [Devices -> Seq(Transactions)]
    BY Zenon, <1>1, <1>2 DEF TypeInv
  <2> QED
    BY Zenon, <1>1, <2>1, <2>2 DEF TypeInv, projections, outbox, Stages
<1>4. \A x \in Devices : Possible(x)' \subseteq Possible(x)
  BY <1>1 DEF Possible, TypeInv
<1>5. journal[d] # <<>> => v = journal[d] /\ onDisk[d] = {v}
  BY Zenon, <1>1 DEF OnePending, Possible
<1>6. OnePending'
  BY Zenon, <1>1, <1>4, <1>5 DEF OnePending, TypeInv
<1>7. \A x \in Devices : \A m \in Msgs : Known(x, m) => Known(x, m)'
  BY <1>1, <1>5 DEF Known, TypeInv, projections
<1>8. \A x \in Devices : \A S : "commit" \in S /\ Past(x, S)' => Past(x, S)
  BY Zenon, <1>1, <1>5 DEF Past, TypeInv
<1>9. Originals' \subseteq Originals
  BY Zenon, <1>1, <1>4, OriginalsStay, OriginalsAre DEF projections
<1>10. NoPlaintextLost'
  BY Zenon, <1>1, <1>4, <1>9, PlaintextStays DEF projections
<1> QED
  BY Zenon, <1>1, <1>3, <1>4, <1>6, <1>7, <1>8, <1>10, BookkeepingKeeps DEF Stages

\* Dropping an installed transaction: what it promised is recorded.
LEMMA RewriteKeeps ==
    ASSUME DeliveryInv, NEW d \in Devices, NEW synced \in BOOLEAN, rewrite(d, synced)
    PROVE  DeliveryInv'
<1> USE DEF DeliveryInv
<1>1. /\ UNCHANGED <<projections, outbox>>
      /\ journal[d] # <<>> /\ stage[d] = "rewrite"
      /\ journal' = [journal EXCEPT ![d] = Tail(@)]
      /\ stage' = [stage EXCEPT ![d] = "commit"]
      /\ needsSync' = [needsSync EXCEPT ![d] = ~synced]
  BY Zenon DEF rewrite, At, NextStage
<1>2. /\ Tx(d) \in Transactions
      /\ journal[d] = <<Tx(d)>>
      /\ onDisk[d] = {<<Tx(d)>>}
      /\ Possible(d) = {<<Tx(d)>>}
  BY Zenon, <1>1, JournalHead
<1>3. journal'[d] = <<>> /\ \A x \in Devices \ {d} : journal'[x] = journal[x]
  BY <1>1, <1>2 DEF TypeInv
<1>4. /\ onDisk'[d] \subseteq {<<>>, <<Tx(d)>>}
      /\ \A x \in Devices \ {d} : onDisk'[x] = onDisk[x]
      /\ onDisk' \in [Devices -> SUBSET Seq(Transactions)]
  <2>1. onDisk' = [onDisk EXCEPT ![d] = IF synced THEN {journal'[d]} ELSE @ \cup {journal'[d]}]
    BY Zenon DEF rewrite
  <2>2. <<>> \in Seq(Transactions)
    BY Zenon, EmptySeq
  <2> QED
    BY <1>2, <1>3, <2>1, <2>2 DEF TypeInv
<1>5. TypeInv'
  <2>1. <<>> \in Seq(Transactions)
    BY Zenon, EmptySeq
  <2>2. journal' \in [Devices -> Seq(Transactions)]
    BY Zenon, <1>1, <1>3, <2>1 DEF TypeInv
  <2>3. needsSync' \in [Devices -> BOOLEAN] /\ stage' \in [Devices -> Stages]
    BY Zenon, <1>1 DEF TypeInv, Stages
  <2> QED
    BY Zenon, <1>1, <1>4, <2>2, <2>3 DEF TypeInv, projections, outbox
<1>6. \A x \in Devices : Possible(x)' \subseteq Possible(x) \cup {<<>>}
  BY Zenon, <1>2, <1>3, <1>4 DEF Possible
<1>7. OnePending'
  BY <1>3, <1>4, <1>6 DEF OnePending
<1>8. Replayable(d, Tx(d))
  BY Zenon, <1>2, SingleJournal DEF PendingInv
<1>9. \A x \in Devices : \A m \in Msgs : Known(x, m) => Known(x, m)'
  <2>1. Tx(d).type = "out" => Tx(d).msg \in sent[d]
    BY Zenon, <1>1, <1>8 DEF Replayable, Past
  <2>2. \A m \in Msgs : Known(d, m) => m \in sent[d]
    BY <1>2, <2>1 DEF Known
  <2> QED
    BY Zenon, <1>1, <1>3, <2>2 DEF Known, projections
<1>10. \A x \in Devices : \A S : "rewrite" \notin S /\ Past(x, S)' => Past(x, S)
  BY Zenon, <1>1, <1>3 DEF Past, TypeInv
<1>11. Originals' \subseteq Originals
  BY Zenon, <1>1, <1>6, OriginalsStay, OriginalsAre DEF projections
<1>12. NoPlaintextLost'
  <2> SUFFICES ASSUME NEW x \in Devices, NEW e \in Originals, e.dev = x,
                      e.pos \in session[x][AuthorOf(e)].opened, e \notin received[x],
                      NEW w \in Possible(x)'
               PROVE  \E tx \in TxsOf(w) : tx.type = "in" /\ e \in tx.events
    BY Zenon, <1>1, <1>11 DEF NoPlaintextLost, projections
  <2>1. \A v \in Possible(x) : \E tx \in TxsOf(v) : tx.type = "in" /\ e \in tx.events
    BY Zenon DEF NoPlaintextLost
  <2>2. CASE x = d
    <3>1. Tx(d).type = "in" /\ e \in Tx(d).events
      <4>1. \E tx \in TxsOf(<<Tx(d)>>) : tx.type = "in" /\ e \in tx.events
        BY Zenon, <1>2, <2>1, <2>2
      <4> QED
        BY <4>1, SingleJournal
    <3>2. Tx(d).events \subseteq received[d]
      BY Zenon, <1>1, <1>8, <3>1 DEF Replayable, Past
    <3> QED
      BY Zenon, <2>2, <3>1, <3>2
  <2>3. CASE x # d
    BY Zenon, <1>3, <1>4, <2>1, <2>3 DEF Possible
  <2> QED
    BY Zenon, <2>2, <2>3
<1> QED
  BY Zenon, <1>1, <1>5, <1>6, <1>7, <1>9, <1>10, <1>12, BookkeepingKeeps DEF Stages

-----------------------------------------------------------------------------
(* Events, transcripts and records.                                        *)

\* Steps that add to what is recorded and leave sessions and journals alone.
LEMMA RecordingKeeps ==
    ASSUME DeliveryInv, UNCHANGED <<session, journal, onDisk>>,
           TypeInv', PendingInv', KnownInv',
           \A x \in Devices : received[x] \subseteq received'[x],
           \A x \in Devices : sent[x] \subseteq sent'[x],
           \A x \in Devices : \A e \in log'[x] :
               e \in log[x] \/ (Accounted(e)' /\ (e.kind = "dm" => e \in Originals))
    PROVE  DeliveryInv'
<1> USE DEF DeliveryInv
<1>1. \A x \in Devices : Possible(x)' = Possible(x)
  BY Zenon DEF Possible
<1>2. OnePending'
  BY Zenon, <1>1 DEF OnePending
<1>3. \A x \in Devices : \A m \in Msgs : Known(x, m) => Known(x, m)'
  BY Zenon, KnownStays
<1>4. LogInv'
  <2>1. \A x, p \in Devices : session[x][p].sent \in Nat /\ session[x][p].sent <= session[x][p].sent
    BY Zenon, PositionsAreNat
  <2>2. ASSUME NEW x \in Devices, NEW e \in log[x]
        PROVE  Accounted(e)'
    <3>1. e \in Events /\ Accounted(e)
      BY Zenon DEF TypeInv, LogInv
    <3> QED
      BY Zenon, <1>3, <2>1, <3>1, AccountedStays
  <2> QED
    BY Zenon, <2>2 DEF LogInv
<1>5. OpenedInv'
  BY Zenon DEF OpenedInv
<1>6. Originals' \subseteq Originals
  BY Zenon, <1>1, OriginalsStay, OriginalsAre
<1>7. PositionSealedOnce' /\ OneCopy' /\ NoPlaintextLost'
  BY Zenon, <1>1, <1>6, SealedStays, PlaintextStays
<1> QED
  BY Zenon, <1>2, <1>4, <1>5, <1>7

\* The pass of one device goes on; its own transaction is the one to look at.
LEMMA PassKeeps ==
    ASSUME DeliveryInv, UNCHANGED <<journal, onDisk, completed>>,
           NEW d \in Devices, journal[d] # <<>>, Replayable(d, Tx(d))',
           \A x \in Devices : log[x] \subseteq log'[x],
           \A x \in Devices : sent[x] \subseteq sent'[x],
           \A x \in Devices : received[x] \subseteq received'[x],
           \A x \in Devices \ {d} : session'[x] = session[x] /\ stage'[x] = stage[x]
    PROVE  PendingInv'
<1> USE DEF DeliveryInv
<1>1. Possible(d)' = {<<Tx(d)>>}
  BY Zenon, JournalHead DEF Possible
<1> SUFFICES ASSUME NEW x \in Devices, NEW w \in Possible(x)', NEW tx \in TxsOf(w)
             PROVE  Replayable(x, tx)'
  BY Zenon DEF PendingInv
<1>2. CASE x = d
  <2>1. tx \in TxsOf(<<Tx(d)>>)
    BY Zenon, <1>1, <1>2
  <2>2. tx = Tx(d) /\ Tx(d)' = Tx(d)
    BY <2>1, SingleJournal DEF Tx
  <2> QED
    BY Zenon, <1>2, <2>2
<1>3. CASE x # d
  <2>1. Replayable(x, tx)
    BY Zenon DEF PendingInv, Possible
  <2>2. \A S : Past(x, S)' <=> Past(x, S)
    BY Zenon, <1>3 DEF Past
  <2>3. Past(x, {"commit", "append", "record"})' =>
            IF tx.type = "out" THEN tx.msg \in sent'[x] ELSE tx.events \subseteq received'[x]
    BY ZenonT(30), <2>1, <2>2 DEF Replayable
  <2> QED
    BY ZenonT(30), <1>3, <2>1, <2>2, <2>3, ReplayableStays
<1> QED
  BY Zenon, <1>2, <1>3

\* Synchronisation brings an event that its author has.
LEMMA TransferKeeps ==
    ASSUME DeliveryInv, NEW d \in Devices, NEW q \in Devices, NEW e \in log[q], Transfer(d, e)
    PROVE  DeliveryInv'
<1> USE DEF DeliveryInv
<1>1. /\ UNCHANGED <<session, sent, received, outbox, journal, onDisk, needsSync, stage>>
      /\ log' = [log EXCEPT ![d] = @ \cup {e}]
  BY Zenon DEF Transfer
<1>2. e \in Events /\ Accounted(e)
  BY Zenon DEF TypeInv, LogInv
<1>3. TypeInv'
  BY Zenon, <1>1, <1>2 DEF TypeInv, outbox
<1>4. \A x \in Devices : Possible(x)' = Possible(x)
  BY Zenon, <1>1 DEF Possible
<1>5. PendingInv'
  BY Zenon, <1>1, <1>4, PendingStays DEF outbox, TypeInv, Past
<1>6. \A x \in Devices : \A m \in Msgs : Known(x, m) => Known(x, m)'
  BY Zenon, <1>1, KnownStays DEF projections
<1>7. KnownInv'
  BY Zenon, <1>1, <1>6, KnownInvStays DEF outbox
<1>8. Accounted(e)' /\ (e.kind = "dm" => e \in Originals)
  <2>1. \A x, p \in Devices : session[x][p].sent \in Nat /\ session[x][p].sent <= session[x][p].sent
    BY Zenon, PositionsAreNat
  <2> QED
    BY Zenon, <1>1, <1>2, <1>6, <2>1, AccountedStays, OriginalsAre
<1>9. \A x \in Devices : \A f \in log'[x] : f \in log[x] \/ f = e
  BY Zenon, <1>1 DEF TypeInv
<1> QED
  BY ZenonT(30), <1>1, <1>3, <1>5, <1>7, <1>8, <1>9, RecordingKeeps DEF outbox

\* The events of a transaction are appended after its session is durable, so
\* they lie below the session's next position.
LEMMA AppendKeeps ==
    ASSUME DeliveryInv, NEW d \in Devices, NEW done, append_durable(d, done)
    PROVE  DeliveryInv'
<1> USE DEF DeliveryInv
<1>1. /\ UNCHANGED <<session, sent, received, outbox, journal, onDisk, needsSync>>
      /\ log' = [log EXCEPT ![d] = @ \cup done]
      /\ journal[d] # <<>> /\ stage[d] = "append" /\ done \subseteq Tx(d).events
      /\ stage' = [stage EXCEPT ![d] = "record"] \/ stage' = [stage EXCEPT ![d] = "commit"]
  BY Zenon DEF append_durable, Advance, At, NextStage
<1>2. /\ Tx(d) \in Transactions
      /\ journal[d] = <<Tx(d)>>
      /\ Possible(d) = {<<Tx(d)>>}
  BY Zenon, <1>1, JournalHead
<1>3. Replayable(d, Tx(d))
  BY Zenon, <1>2, SingleJournal DEF PendingInv
<1>4. done \subseteq Events
  BY Zenon, <1>1, <1>2 DEF Transactions
<1>5. stage' \in [Devices -> Stages]
  BY ZenonT(30), <1>1 DEF TypeInv, Stages
<1>6. TypeInv'
  BY Zenon, <1>1, <1>4, <1>5 DEF TypeInv, outbox
<1>7. \A x \in Devices : Possible(x)' = Possible(x)
  BY Zenon, <1>1 DEF Possible
<1>8. \A x \in Devices :
          /\ Past(x, {"commit"})' => Past(x, {"commit"})
          /\ Past(x, {"commit", "append", "record"})' => Past(x, {"commit", "append", "record"})
  BY Zenon, <1>1 DEF Past, TypeInv, Stages
<1>9. PendingInv'
  BY ZenonT(30), <1>1, <1>7, <1>8, PendingStays DEF outbox, TypeInv
<1>10. \A x \in Devices : \A m \in Msgs : Known(x, m) => Known(x, m)'
  BY Zenon, <1>1, KnownStays DEF projections
<1>11. KnownInv'
  BY Zenon, <1>1, <1>10, KnownInvStays DEF outbox
<1>12. ASSUME NEW e \in done
       PROVE  e \in log[d] \/ (Accounted(e)' /\ (e.kind = "dm" => e \in Originals))
  <2>1. e \in Originals
    BY ZenonT(30), <1>1, <1>2, OriginalsAre, SingleJournal
  <2>2. CASE Tx(d).type = "out"
    <3>1. IsOutgoing(d, Tx(d))
      BY Zenon, <1>3, <2>2 DEF Replayable
    <3>2. PICK p \in To[Tx(d).msg] : e = Original(Tx(d).msg, p, Tx(d).ratchets[p].previous)
      BY Zenon, <1>1, <3>1 DEF IsOutgoing
    <3>3. session[d][p] = Tx(d).ratchets[p].state
      BY Zenon, <1>1, <1>3, <3>1 DEF Replayable, Past, IsOutgoing
    <3>4. e.kind = "dm" /\ e.msg = Tx(d).msg /\ e.dev = p /\ e.pos = Tx(d).ratchets[p].previous.sent
      BY Zenon, <3>2 DEF Original
    <3>5. e.pos < session[d][p].sent
      <4>1. Tx(d).ratchets[p].previous \in Sessions
        BY Zenon, <3>1 DEF IsOutgoing, Transitions
      <4>2. Tx(d).ratchets[p].state.sent = Tx(d).ratchets[p].previous.sent + 1
        BY Zenon, <3>1, <4>1, SealedIs DEF IsOutgoing
      <4> QED
        BY <3>3, <3>4, <4>1, <4>2 DEF Sessions
    <3>6. Known(d, e.msg)'
      BY <1>1, <1>2, <2>2, <3>4 DEF Known
    <3> QED
      BY Zenon, <1>1, <2>1, <3>1, <3>4, <3>5, <3>6 DEF Accounted, IsOutgoing
  <2>3. CASE Tx(d).type = "in"
    BY ZenonT(30), <1>1, <1>3, <2>3 DEF Replayable, IsIncoming
  <2> QED
    BY Zenon, <1>2, <2>2, <2>3 DEF Transactions
<1>13. \A x \in Devices : \A f \in log'[x] : f \in log[x] \/ (x = d /\ f \in done)
  BY Zenon, <1>1 DEF TypeInv
<1> QED
  BY Zenon, <1>1, <1>6, <1>9, <1>11, <1>12, <1>13, RecordingKeeps DEF outbox

\* The receipt is for the event whose plaintext the stage before recorded.
LEMMA ReceiptKeeps ==
    ASSUME DeliveryInv, NEW d \in Devices, append_receipt(d)
    PROVE  DeliveryInv'
<1> USE DEF DeliveryInv
<1>1. /\ UNCHANGED <<session, sent, received, outbox, journal, onDisk, needsSync>>
      /\ log' = [log EXCEPT ![d] = @ \cup ReceiptsOf(Tx(d))]
      /\ journal[d] # <<>> /\ stage[d] = "receipt"
      /\ stage' = [stage EXCEPT ![d] = "install"]
  BY Zenon DEF append_receipt, Advance, At, NextStage
<1>2. /\ Tx(d) \in Transactions
      /\ journal[d] = <<Tx(d)>>
      /\ Possible(d) = {<<Tx(d)>>}
  BY Zenon, <1>1, JournalHead
<1>3. Replayable(d, Tx(d))
  BY Zenon, <1>2, SingleJournal DEF PendingInv
<1>4. ASSUME NEW r \in ReceiptsOf(Tx(d))
      PROVE  r \in Events /\ r.kind # "dm" /\ Accounted(r)'
  <2>1. Tx(d).type = "in" /\ IsIncoming(d, Tx(d)) /\ Tx(d).events \subseteq received[d]
    BY ZenonT(30), <1>1, <1>3 DEF ReceiptsOf, Replayable, Past
  <2>2. PICK e \in Tx(d).events : r = Receipt(e) /\ e.dev \in Eligible[e.msg]
    BY Zenon, <2>1 DEF ReceiptsOf
  <2>3. e \in received[d] /\ e.dev = d /\ e.kind = "dm"
    BY Zenon, <2>1, <2>2 DEF IsIncoming
  <2>4. e \in Events
    BY Zenon, <2>3 DEF TypeInv
  <2>5. /\ r \in Events /\ r.kind = "receipt" /\ r.msg = e.msg /\ r.dev = d
        /\ OriginalOf(r) = e
    BY ZenonT(30), <2>2, <2>3, <2>4 DEF Receipt, OriginalOf, Events
  <2> QED
    BY Zenon, <1>1, <2>2, <2>3, <2>5 DEF Accounted
<1>5. TypeInv'
  <2>1. log' \in [Devices -> SUBSET Events]
    BY Zenon, <1>1, <1>4 DEF TypeInv
  <2> QED
    BY Zenon, <1>1, <2>1 DEF TypeInv, outbox, Stages
<1>6. \A x \in Devices : Possible(x)' = Possible(x)
  BY Zenon, <1>1 DEF Possible
<1>7. \A x \in Devices :
          /\ Past(x, {"commit"})' => Past(x, {"commit"})
          /\ Past(x, {"commit", "append", "record"})' => Past(x, {"commit", "append", "record"})
  BY Zenon, <1>1 DEF Past, TypeInv, Stages
<1>8. PendingInv'
  BY ZenonT(30), <1>1, <1>6, <1>7, PendingStays DEF outbox, TypeInv
<1>9. \A x \in Devices : \A m \in Msgs : Known(x, m) => Known(x, m)'
  BY ZenonT(30), <1>1, KnownStays DEF projections
<1>10. KnownInv'
  BY Zenon, <1>1, <1>9, KnownInvStays DEF outbox
<1>11. \A x \in Devices : \A f \in log'[x] : f \in log[x] \/ f \in ReceiptsOf(Tx(d))
  BY Zenon, <1>1 DEF TypeInv
<1> QED
  BY Zenon, <1>1, <1>4, <1>5, <1>8, <1>10, <1>11, RecordingKeeps DEF outbox

\* The plaintext goes into the transcript.
LEMMA RecordKeeps ==
    ASSUME DeliveryInv, NEW d \in Devices, record_durable(d)
    PROVE  DeliveryInv'
<1> USE DEF DeliveryInv
<1>1. /\ UNCHANGED <<session, log, outbox, journal, onDisk, needsSync>>
      /\ journal[d] # <<>> /\ stage[d] = "record"
      /\ stage' = [stage EXCEPT ![d] = "receipt"]
  BY Zenon DEF record_durable, Advance, At, NextStage
<1>2. /\ Tx(d) \in Transactions
      /\ journal[d] = <<Tx(d)>>
      /\ Possible(d) = {<<Tx(d)>>}
  BY Zenon, <1>1, JournalHead
<1>3. Replayable(d, Tx(d))
  BY Zenon, <1>2, SingleJournal DEF PendingInv
<1>4. /\ sent' \in [Devices -> SUBSET Msgs]
      /\ received' \in [Devices -> SUBSET Events]
      /\ \A x \in Devices : sent[x] \subseteq sent'[x] /\ received[x] \subseteq received'[x]
      /\ \A x \in Devices : \A m \in sent'[x] :
             m \in sent[x] \/ (x = d /\ Tx(d).type = "out" /\ m = Tx(d).msg)
      /\ IF Tx(d).type = "out" THEN Tx(d).msg \in sent'[d] ELSE Tx(d).events \subseteq received'[d]
  <2>1. CASE Tx(d).type = "out"
    <3>1. received' = received /\ sent' = [sent EXCEPT ![d] = @ \cup {Tx(d).msg}]
      BY ZenonT(30), <2>1 DEF record_durable
    <3>2. Tx(d).msg \in Msgs
      BY ZenonT(30), <1>2, <2>1 DEF Transactions
    <3> QED
      BY ZenonT(30), <2>1, <3>1, <3>2 DEF TypeInv
  <2>2. CASE Tx(d).type # "out"
    <3>1. sent' = sent /\ received' = [received EXCEPT ![d] = @ \cup Tx(d).events]
      BY ZenonT(30), <2>2 DEF record_durable
    <3>2. Tx(d).events \subseteq Events
      BY Zenon, <1>2 DEF Transactions
    <3> QED
      BY ZenonT(30), <2>2, <3>1, <3>2 DEF TypeInv
  <2> QED
    BY Zenon, <2>1, <2>2
<1>5. TypeInv'
  BY ZenonT(30), <1>1, <1>4 DEF TypeInv, outbox, Stages
<1>6. Replayable(d, Tx(d))'
  <2>1. Past(d, {"commit"})
    BY Zenon, <1>1 DEF Past
  <2> QED
    BY ZenonT(30), <1>1, <1>3, <1>4, <2>1, ReplayableStays DEF outbox, Tx
<1>7. PendingInv'
  BY ZenonT(30), <1>1, <1>4, <1>6, PassKeeps DEF outbox, TypeInv
<1>8. \A x \in Devices : \A m \in Msgs : Known(x, m) => Known(x, m)'
  BY Zenon, <1>1, <1>4, KnownStays
<1>9. KnownInv'
  <2>1. ASSUME NEW x \in Devices, NEW m \in sent'[x]
        PROVE  From[m] = x /\ Known(x, m)'
    <3>1. CASE m \in sent[x]
      BY Zenon, <1>8, <3>1 DEF KnownInv, TypeInv
    <3>2. CASE x = d /\ Tx(d).type = "out" /\ m = Tx(d).msg
      BY SMTT(30), <1>1, <1>2, <1>3, <3>2 DEF Replayable, IsOutgoing, Known
    <3> QED
      BY Zenon, <1>4, <3>1, <3>2
  <2>2. \A x \in Devices : \A y \in messages[x] \cup completed[x] : Known(x, y.msg)'
    BY <1>8 DEF KnownInv, TypeInv
  <2> QED
    BY ZenonT(30), <1>1, <1>4, <2>1, <2>2 DEF KnownInv, outbox
<1> QED
  BY Zenon, <1>1, <1>4, <1>5, <1>7, <1>9, RecordingKeeps DEF outbox

\* The outbox record, of a message whose request the journal holds.
LEMMA InstallKeeps ==
    ASSUME DeliveryInv, NEW d \in Devices, install_record(d)
    PROVE  DeliveryInv'
<1> USE DEF DeliveryInv
<1>1. /\ UNCHANGED <<projections, completed, finished, requests, journal, onDisk, needsSync>>
      /\ journal[d] # <<>> /\ stage[d] = "install"
      /\ stage' = [stage EXCEPT ![d] = "request"]
  BY Zenon DEF install_record, Advance, At, NextStage
<1>2. /\ Tx(d) \in Transactions
      /\ journal[d] = <<Tx(d)>>
      /\ Possible(d) = {<<Tx(d)>>}
  BY Zenon, <1>1, JournalHead
<1>3. /\ messages' \in [Devices -> SUBSET [msg : Msgs, events : SUBSET Events]]
      /\ \A x \in Devices : \A y \in messages'[x] :
             y \in messages[x] \/ (x = d /\ Tx(d).type = "out" /\ y.msg = Tx(d).msg)
  <2>1. Delivery(Tx(d)) \in [msg : Msgs, events : SUBSET Events] /\ Delivery(Tx(d)).msg = Tx(d).msg
    BY Zenon, <1>2 DEF Delivery, Transactions
  <2>2. CASE Tx(d).type = "out"
    <3>1. messages' = [messages EXCEPT ![d] = @ \cup {x \in {Delivery(Tx(d))} : x.events # {}}]
      BY Zenon, <2>2 DEF install_record
    <3> QED
      BY Zenon, <2>1, <2>2, <3>1 DEF TypeInv
  <2>3. CASE Tx(d).type # "out"
    BY ZenonT(30), <2>3 DEF install_record, TypeInv
  <2> QED
    BY Zenon, <2>2, <2>3
<1>4. TypeInv'
  BY ZenonT(30), <1>1, <1>3 DEF TypeInv, projections, Stages
<1>5. \A x \in Devices : Possible(x)' = Possible(x)
  BY Zenon, <1>1 DEF Possible
<1>6. \A x \in Devices :
          /\ Past(x, {"commit"})' => Past(x, {"commit"})
          /\ Past(x, {"commit", "append", "record"})' => Past(x, {"commit", "append", "record"})
  BY Zenon, <1>1 DEF Past, TypeInv, Stages
<1>7. PendingInv'
  BY ZenonT(30), <1>1, <1>5, <1>6, PendingStays DEF projections, TypeInv
<1>8. \A x \in Devices : \A m \in Msgs : Known(x, m) => Known(x, m)'
  BY ZenonT(30), <1>1, KnownStays DEF projections
<1>9. KnownInv'
  <2>1. ASSUME NEW x \in Devices, NEW y \in messages'[x] \cup completed[x]
        PROVE  Known(x, y.msg)'
    <3>1. CASE y \in messages[x] \cup completed[x]
      BY <1>8, <3>1 DEF KnownInv, TypeInv
    <3>2. CASE x = d /\ Tx(d).type = "out" /\ y.msg = Tx(d).msg
      BY <1>1, <1>2, <3>2 DEF Known
    <3> QED
      BY Zenon, <1>3, <3>1, <3>2
  <2>2. \A x \in Devices : \A m \in sent[x] : From[m] = x /\ Known(x, m)'
    BY Zenon, <1>8 DEF KnownInv, TypeInv
  <2> QED
    BY Zenon, <1>1, <2>1, <2>2 DEF KnownInv, projections
<1> QED
  BY Zenon, <1>1, <1>4, <1>7, <1>9, RecordingKeeps DEF projections

\* The request of a message, recorded.
LEMMA RequestKeeps ==
    ASSUME DeliveryInv, NEW d \in Devices, install_request(d)
    PROVE  DeliveryInv'
<1> USE DEF DeliveryInv
<1>1. /\ UNCHANGED <<projections, messages, completed, receipts, finished, journal, onDisk, needsSync>>
      /\ journal[d] # <<>> /\ stage[d] = "request"
      /\ stage' = [stage EXCEPT ![d] = "rewrite"]
      /\ requests' = [requests EXCEPT ![d] =
             IF Tx(d).type = "out" THEN (@ \ expired) \cup {Tx(d).msg} ELSE @]
  BY Zenon DEF install_request, Advance, At, NextStage
<1>2. Tx(d) \in Transactions
  BY Zenon, <1>1, JournalHead
<1>3. requests' \in [Devices -> SUBSET Msgs]
  <2>1. Tx(d).msg \in Msgs
    BY Zenon, <1>2 DEF Transactions
  <2> QED
    BY <1>1, <2>1 DEF TypeInv
<1>4. TypeInv'
  BY Zenon, <1>1, <1>3 DEF TypeInv, projections, Stages
<1>5. \A x \in Devices : Possible(x)' = Possible(x)
  BY Zenon, <1>1 DEF Possible
<1>6. \A x \in Devices :
          /\ Past(x, {"commit"})' => Past(x, {"commit"})
          /\ Past(x, {"commit", "append", "record"})' => Past(x, {"commit", "append", "record"})
  BY Zenon, <1>1 DEF Past, TypeInv
<1>7. PendingInv'
  BY ZenonT(30), <1>1, <1>5, <1>6, PendingStays DEF projections, TypeInv
<1>8. \A x \in Devices : \A m \in Msgs : Known(x, m) => Known(x, m)'
  BY ZenonT(30), <1>1, KnownStays DEF projections
<1>9. KnownInv'
  BY Zenon, <1>1, <1>8, KnownInvStays DEF projections
<1> QED
  BY Zenon, <1>1, <1>4, <1>7, <1>9, RecordingKeeps DEF projections

-----------------------------------------------------------------------------
(* The outbox, once nothing is pending.                                    *)

\* Steps that change the outbox sync the directory, so no old journal is left.
LEMMA OutboxKeeps ==
    ASSUME DeliveryInv, NEW d \in Devices, Recovered(d), DirectorySynced(d, journal[d]),
           UNCHANGED <<projections, journal, needsSync, stage>>, TypeInv',
           \A x \in Devices \ {d} : messages'[x] = messages[x] /\ completed'[x] = completed[x],
           \A y \in messages'[d] \cup completed'[d] :
               \E z \in messages[d] \cup completed[d] : y.msg = z.msg
    PROVE  DeliveryInv'
<1> USE DEF DeliveryInv, projections
<1>1. /\ journal[d] = <<>>
      /\ \A x \in Devices : Possible(x)' \subseteq Possible(x)
      /\ Possible(d)' = {<<>>}
      /\ \A x \in Devices \ {d} : onDisk'[x] = onDisk[x]
  BY Zenon DEF Recovered, DirectorySynced, Possible, TypeInv
<1>2. OnePending'
  BY Zenon, <1>1 DEF OnePending
<1>3. \A x \in Devices : \A S : Past(x, S)' <=> Past(x, S)
  BY Zenon DEF Past
<1>4. PendingInv'
  BY Zenon, <1>1, <1>3, PendingStays
<1>5. \A x \in Devices : \A m : Known(x, m) <=> Known(x, m)'
  BY Zenon DEF Known
<1>6. LogInv' /\ OpenedInv'
  BY ZenonT(30), <1>5, LogStays DEF OpenedInv
<1>7. KnownInv'
  <2>1. ASSUME NEW x \in Devices, NEW y \in messages'[x] \cup completed'[x]
        PROVE  Known(x, y.msg)'
    BY <1>5 DEF KnownInv
  <2>2. \A x \in Devices : \A m \in sent[x] : From[m] = x /\ Known(x, m)'
    BY Zenon, <1>5 DEF KnownInv
  <2> QED
    BY ZenonT(30), <2>1, <2>2 DEF KnownInv
<1>8. Originals' \subseteq Originals
  BY Zenon, <1>1, OriginalsStay, OriginalsAre
<1>9. PositionSealedOnce' /\ OneCopy' /\ NoPlaintextLost'
  BY Zenon, <1>1, <1>8, SealedStays, PlaintextStays
<1> QED
  BY ZenonT(30), <1>2, <1>4, <1>6, <1>7, <1>9

\* Retiring a destination of a completed message leaves its record completed.
LEMMA RetireKeeps ==
    ASSUME DeliveryInv, NEW d \in Devices, Recovered(d), DirectorySynced(d, journal[d]), NEW e,
           UNCHANGED <<projections, messages, requests, journal, needsSync, stage>>,
           NEW c \in completed[d], completed' = [completed EXCEPT ![d] = (@ \ {c}) \cup {Retire(c, e)}]
    PROVE  DeliveryInv'
<1> USE DEF DeliveryInv
<1>1. /\ Retire(c, e) \in [msg : Msgs, events : SUBSET Events, remaining : SUBSET Events]
      /\ Retire(c, e).msg = c.msg
  <2>1. c \in [msg : Msgs, events : SUBSET Events, remaining : SUBSET Events]
    BY Zenon DEF TypeInv
  <2> QED
    BY Zenon, <2>1 DEF Retire
<1>2. completed' \in [Devices -> SUBSET [msg : Msgs, events : SUBSET Events, remaining : SUBSET Events]]
  BY Zenon, <1>1 DEF TypeInv
<1>3. onDisk' \in [Devices -> SUBSET Seq(Transactions)]
  BY Zenon DEF DirectorySynced, TypeInv
<1>4. TypeInv'
  BY Zenon, <1>2, <1>3 DEF TypeInv, projections
<1>5. \A y \in messages'[d] \cup completed'[d] :
          \E z \in messages[d] \cup completed[d] : y.msg = z.msg
  BY ZenonT(30), <1>1 DEF TypeInv
<1> QED
  BY ZenonT(30), <1>4, <1>5, OutboxKeeps DEF TypeInv

\* A receipt completes a message or retires a destination.
LEMMA ConfirmKeeps ==
    ASSUME DeliveryInv, NEW d \in Devices, NEW r \in log[d], Confirm(d, r)
    PROVE  DeliveryInv'
<1> USE DEF DeliveryInv
<1> DEFINE e == OriginalOf(r)
<1>1. /\ Recovered(d) /\ DirectorySynced(d, journal[d]) /\ mark_delivered_for(d, e)
      /\ UNCHANGED <<projections, receipts, finished, requests, journal, needsSync, stage>>
  BY ZenonT(30) DEF Confirm
<1> HIDE DEF e
<1>2. ASSUME NEW x \in messages[d],
             messages' = [messages EXCEPT ![d] = @ \ {x}],
             completed' = [completed EXCEPT ![d] = @ \cup
                 {[msg |-> x.msg, events |-> x.events, remaining |-> x.events \ {e}]}]
      PROVE  DeliveryInv'
  <2> DEFINE c == [msg |-> x.msg, events |-> x.events, remaining |-> x.events \ {e}]
  <2>1. /\ c \in [msg : Msgs, events : SUBSET Events, remaining : SUBSET Events]
        /\ c.msg = x.msg
    BY DEF TypeInv
  <2>2. completed' = [completed EXCEPT ![d] = @ \cup {c}]
    BY Zenon, <1>2
  <2> HIDE DEF c
  <2>3. /\ completed' \in [Devices -> SUBSET [msg : Msgs, events : SUBSET Events,
                                              remaining : SUBSET Events]]
        /\ messages' \in [Devices -> SUBSET [msg : Msgs, events : SUBSET Events]]
    BY <1>2, <2>1, <2>2 DEF TypeInv
  <2>4. onDisk' \in [Devices -> SUBSET Seq(Transactions)]
    BY Zenon, <1>1 DEF DirectorySynced, TypeInv
  <2>5. TypeInv'
    BY Zenon, <1>1, <2>3, <2>4 DEF TypeInv, projections
  <2>6. \A y \in messages'[d] \cup completed'[d] :
            \E z \in messages[d] \cup completed[d] : y.msg = z.msg
    BY <1>2, <2>1, <2>2 DEF TypeInv
  <2>7. \A y \in Devices \ {d} : messages'[y] = messages[y] /\ completed'[y] = completed[y]
    BY Zenon, <1>2 DEF TypeInv
  <2> QED
    BY Zenon, <1>1, <2>5, <2>6, <2>7, OutboxKeeps
<1>3. ASSUME NEW c \in completed[d],
             completed' = [completed EXCEPT ![d] = (@ \ {c}) \cup {Retire(c, e)}],
             UNCHANGED messages
      PROVE  DeliveryInv'
  BY ZenonT(30), <1>1, <1>3, RetireKeeps
<1> QED
  BY Zenon, <1>1, <1>2, <1>3 DEF mark_delivered_for

\* Transport success retires a destination.
LEMMA RetireDestinationKeeps ==
    ASSUME DeliveryInv, NEW d \in Devices, NEW e \in log[d], retire_destination(d, e)
    PROVE  DeliveryInv'
BY ZenonT(30), RetireKeeps DEF retire_destination

\* A carried receipt is finished.
LEMMA FinishKeeps ==
    ASSUME DeliveryInv, NEW d \in Devices, NEW r, finish_receipt(d, r)
    PROVE  DeliveryInv'
<1> USE DEF DeliveryInv
<1>1. /\ Recovered(d) /\ DirectorySynced(d, journal[d])
      /\ UNCHANGED <<projections, messages, completed, requests, journal, needsSync, stage>>
  BY Zenon DEF finish_receipt
<1>2. onDisk' \in [Devices -> SUBSET Seq(Transactions)]
  BY Zenon, <1>1 DEF DirectorySynced, TypeInv
<1>3. TypeInv'
  BY Zenon, <1>1, <1>2 DEF TypeInv, projections
<1> QED
  BY Zenon, <1>1, <1>3, OutboxKeeps

-----------------------------------------------------------------------------
(* The ratchet transitions of the pending transaction.                     *)

\* Originals are sealed events.
LEMMA OriginalsTyped ==
    ASSUME DeliveryInv, NEW e \in Originals
    PROVE  e \in Events /\ e.kind = "dm" /\ AuthorOf(e) = From[e.msg] /\ From[e.msg] \in Devices
<1> USE DEF DeliveryInv
<1>1. ASSUME NEW d \in Devices, NEW w \in Possible(d), NEW tx \in TxsOf(w), e \in tx.events
      PROVE  e \in Events /\ e.kind = "dm"
  <2>1. w \in Seq(Transactions)
    BY Zenon DEF Possible, TypeInv
  <2>2. tx \in Transactions /\ Replayable(d, tx)
    BY <2>1 DEF TxsOf, PendingInv
  <2>3. e \in Events
    BY Zenon, <1>1, <2>2 DEF Transactions
  <2>4. CASE tx.type = "out"
    <3>1. IsOutgoing(d, tx)
      BY Zenon, <2>2, <2>4 DEF Replayable
    <3>2. \E p \in To[tx.msg] : e = Original(tx.msg, p, tx.ratchets[p].previous)
      BY Zenon, <1>1, <3>1 DEF IsOutgoing
    <3> QED
      BY <2>3, <3>2 DEF Original
  <2>5. CASE tx.type = "in"
    <3>1. IsIncoming(d, tx)
      BY Zenon, <2>2, <2>5 DEF Replayable
    <3> QED
      BY Zenon, <1>1, <2>3, <3>1 DEF IsIncoming
  <2> QED
    BY Zenon, <2>2, <2>3, <2>4, <2>5 DEF Transactions
<1>2. e \in Events /\ e.kind = "dm"
  BY Zenon, <1>1, OriginalsAre DEF TypeInv
<1> QED
  BY Zenon, <1>2, DeliveryAssumption DEF AuthorOf, Events

\* Committing never moves a session back, and opens at most the event of an
\* incoming transaction.
LEMMA CommitSessions ==
    ASSUME DeliveryInv, NEW d \in Devices, NEW done, commit_prepared(d, done)
    PROVE  /\ session' \in [Devices -> [Devices -> Sessions]]
           /\ \A x \in Devices \ {d} : session'[x] = session[x]
           /\ \A p \in Devices : session'[d][p] =
                  IF p \in done THEN Tx(d).ratchets[p].state ELSE session[d][p]
           /\ \A p \in Devices : session[d][p].sent <= session'[d][p].sent
           /\ \A p \in Devices : \A k \in session'[d][p].opened :
                  \/ k \in session[d][p].opened
                  \/ /\ Tx(d).type = "in"
                     /\ \E e \in log[d] : /\ e.kind = "dm" /\ e.dev = d /\ Tx(d).events = {e}
                                          /\ p = From[e.msg] /\ k = e.pos
<1> USE DEF DeliveryInv
<1> DEFINE tx == Tx(d)
<1>1. /\ journal[d] # <<>> /\ done \subseteq DOMAIN tx.ratchets
      /\ session' = [session EXCEPT ![d] =
                       [p \in Devices |-> IF p \in done THEN tx.ratchets[p].state
                                                        ELSE session[d][p]]]
  BY Zenon DEF commit_prepared, At, TypeInv
<1>2. tx \in Transactions /\ Possible(d) = {<<tx>>}
  BY Zenon, <1>1, JournalHead
<1>3. Replayable(d, tx)
  BY ZenonT(30), <1>2, SingleJournal DEF PendingInv
<1> HIDE DEF tx
<1>4. \A p \in done : p \in Devices /\ tx.ratchets[p] \in Transitions
  BY <1>1, <1>2 DEF Transactions
<1>5. /\ session' \in [Devices -> [Devices -> Sessions]]
      /\ \A x \in Devices \ {d} : session'[x] = session[x]
      /\ \A p \in Devices : session'[d][p] =
             IF p \in done THEN tx.ratchets[p].state ELSE session[d][p]
  BY Zenon, <1>1, <1>4 DEF TypeInv, Transitions
<1>6. ASSUME NEW p \in Devices
      PROVE  /\ session[d][p].sent <= session'[d][p].sent
             /\ \A k \in session'[d][p].opened :
                    \/ k \in session[d][p].opened
                    \/ /\ tx.type = "in"
                       /\ \E e \in log[d] : /\ e.kind = "dm" /\ e.dev = d /\ tx.events = {e}
                                            /\ p = From[e.msg] /\ k = e.pos
  <2>1. session[d][p] \in Sessions
    BY Zenon DEF TypeInv
  <2>2. CASE session'[d][p] = session[d][p]
    BY <2>1, <2>2 DEF Sessions
  <2>3. CASE session'[d][p] # session[d][p]
    <3>1. p \in done /\ session'[d][p] = tx.ratchets[p].state
      BY Zenon, <1>5, <2>3
    <3>2. session[d][p] = tx.ratchets[p].previous
      BY Zenon, <1>1, <1>3, <2>3, <3>1 DEF Replayable, Applies
    <3>3. CASE tx.type = "out"
      <4>1. session'[d][p] = Sealed(session[d][p])
        <5>1. IsOutgoing(d, tx)
          BY Zenon, <1>3, <3>3 DEF Replayable
        <5>2. p \in To[tx.msg]
          BY Zenon, <1>1, <3>1, <5>1 DEF IsOutgoing
        <5>3. tx.ratchets[p].state = Sealed(tx.ratchets[p].previous)
          BY Zenon, <5>1, <5>2 DEF IsOutgoing
        <5> QED
          BY Zenon, <3>1, <3>2, <5>3
      <4>2. /\ session'[d][p].sent = session[d][p].sent + 1
            /\ session'[d][p].opened = session[d][p].opened
        BY Zenon, <2>1, <4>1, SealedIs
      <4>3. session[d][p].sent <= session'[d][p].sent
        BY <2>1, <4>2 DEF Sessions
      <4> QED
        BY Zenon, <4>2, <4>3
    <3>4. CASE tx.type = "in"
      <4>1. PICK e \in log[d] :
                /\ e.kind = "dm" /\ e.msg = tx.msg /\ e.dev = d /\ tx.events = {e}
                /\ tx.ratchets[From[e.msg]].state =
                       Opened(tx.ratchets[From[e.msg]].previous, e)
        BY ZenonT(30), <1>3, <3>4 DEF Replayable, IsIncoming
      <4>2. p = From[e.msg]
        BY ZenonT(30), <1>1, <1>3, <3>1, <3>4, <4>1 DEF Replayable, IsIncoming
      <4>3. session'[d][p] = Opened(session[d][p], e)
        BY Zenon, <3>1, <3>2, <4>1, <4>2
      <4>4. /\ session'[d][p].sent = session[d][p].sent
            /\ session'[d][p].opened = session[d][p].opened \cup {e.pos}
        <5>1. e \in Events
          BY Zenon DEF TypeInv
        <5> QED
          BY Zenon, <2>1, <4>3, <5>1, OpenedIs
      <4>5. session[d][p].sent <= session'[d][p].sent
        BY <2>1, <4>4 DEF Sessions
      <4> QED
        BY ZenonT(30), <3>4, <4>1, <4>2, <4>4, <4>5
    <3> QED
      BY Zenon, <1>2, <3>3, <3>4 DEF Transactions
  <2> QED
    BY Zenon, <2>2, <2>3
<1> QED
  BY Zenon, <1>5, <1>6 DEF tx

\* The commit of the prepared transitions.
LEMMA CommitKeeps ==
    ASSUME DeliveryInv, NEW d \in Devices, NEW done, commit_prepared(d, done)
    PROVE  DeliveryInv'
<1> USE DEF DeliveryInv
<1>1. /\ UNCHANGED <<log, sent, received, outbox, journal, onDisk, needsSync>>
      /\ journal[d] # <<>> /\ stage[d] = "commit"
      /\ \/ stage' = [stage EXCEPT ![d] = "append"] /\ done = DOMAIN Tx(d).ratchets
         \/ stage' = [stage EXCEPT ![d] = "commit"]
  BY Zenon DEF commit_prepared, Advance, At, NextStage
<1>2. /\ Tx(d) \in Transactions
      /\ journal[d] = <<Tx(d)>>
      /\ Possible(d) = {<<Tx(d)>>}
  BY Zenon, <1>1, JournalHead
<1>3. Replayable(d, Tx(d))
  BY Zenon, <1>2, SingleJournal DEF PendingInv
<1>4. stage' \in [Devices -> Stages] /\ \A x \in Devices \ {d} : stage'[x] = stage[x]
  BY ZenonT(30), <1>1 DEF TypeInv, Stages
<1>5. TypeInv'
  BY Zenon, <1>1, <1>4, CommitSessions DEF TypeInv, outbox
<1>6. \A x \in Devices : Possible(x)' = Possible(x)
  BY Zenon, <1>1 DEF Possible
<1>7. OnePending'
  BY Zenon, <1>1, <1>6 DEF OnePending
<1>8. Replayable(d, Tx(d))'
  <2>1. Tx(d)' = Tx(d)
    BY Zenon, <1>1 DEF Tx
  <2> PICK tx \in Transactions : tx = Tx(d)
    BY Zenon, <1>2
  <2>2. tx.ratchets \in UNION {[S -> Transitions] : S \in SUBSET Devices}
    BY Zenon DEF Transactions
  <2>3. \A p \in DOMAIN tx.ratchets :
            /\ p \in Devices
            /\ session'[d][p] = IF p \in done THEN tx.ratchets[p].state ELSE session[d][p]
    BY <2>2, CommitSessions
  <2>4. /\ ~Past(d, {"commit", "append", "record"})'
        /\ Past(d, {"commit"})' => done = DOMAIN tx.ratchets
    BY Zenon, <1>1 DEF Past, TypeInv
  <2>5. /\ tx.type = "out" => IsOutgoing(d, tx)'
        /\ tx.type = "in" => IsIncoming(d, tx)'
    <3>1. Replayable(d, tx)
      BY Zenon, <1>3
    <3>2. tx.type = "out" => IsOutgoing(d, tx)'
      BY ZenonT(30), <3>1 DEF Replayable, IsOutgoing
    <3>3. tx.type = "in" => IsIncoming(d, tx)'
      BY ZenonT(30), <1>1, <3>1 DEF Replayable, IsIncoming
    <3> QED
      BY Zenon, <3>2, <3>3
  <2>6. \A p \in DOMAIN tx.ratchets : Applies(session[d][p], tx.ratchets[p])'
    BY Zenon, <1>3, <2>3 DEF Replayable, Applies
  <2>7. tx.type = "out" => \A c \in completed'[d] : c.msg # tx.msg
    BY Zenon, <1>1, <1>3 DEF Replayable, outbox
  <2>8. Replayable(d, tx)'
    BY Zenon, <2>3, <2>4, <2>5, <2>6, <2>7 DEF Replayable
  <2> QED
    BY Zenon, <2>1, <2>8
<1>9. PendingInv'
  BY <1>1, <1>4, <1>8, CommitSessions, PassKeeps DEF outbox
<1>10. \A x \in Devices : \A m \in Msgs : Known(x, m) => Known(x, m)'
  BY Zenon, <1>1, KnownStays DEF projections
<1>11. KnownInv'
  BY Zenon, <1>1, <1>10, KnownInvStays DEF outbox
<1>12. \A x, p \in Devices : /\ session[x][p].sent \in Nat /\ session'[x][p].sent \in Nat
                             /\ session[x][p].sent <= session'[x][p].sent
  <2>1. ASSUME NEW x \in Devices, NEW p \in Devices
        PROVE  session[x][p] \in Sessions /\ session'[x][p] \in Sessions
    BY CommitSessions DEF TypeInv
  <2>2. ASSUME NEW x \in Devices, NEW p \in Devices
        PROVE  session[x][p].sent <= session'[x][p].sent
    <3>1. CASE x = d
      BY Zenon, <3>1, CommitSessions
    <3>2. CASE x # d
      BY <2>1, <3>2, CommitSessions DEF Sessions
    <3> QED
      BY Zenon, <3>1, <3>2
  <2> QED
    BY Zenon, <2>1, <2>2 DEF Sessions
<1>13. LogInv'
  <2>1. \A x \in Devices : \A e \in log[x] : e \in Events /\ Accounted(e)
    BY Zenon DEF TypeInv, LogInv
  <2> QED
    BY Zenon, <1>1, <1>10, <1>12, <2>1, AccountedStays DEF LogInv
<1>14. OpenedInv'
  <2> SUFFICES ASSUME NEW x \in Devices, NEW p \in Devices, NEW k \in session'[x][p].opened
               PROVE  k < session'[p][x].sent
    BY Zenon DEF OpenedInv
  <2>1. k \in Nat
    BY CommitSessions DEF Sessions
  <2>2. k < session[p][x].sent
    <3>1. CASE k \in session[x][p].opened
      BY Zenon, <3>1 DEF OpenedInv
    <3>2. CASE k \notin session[x][p].opened
      <4>1. x = d
        BY <3>2, CommitSessions
      <4>2. PICK e \in log[d] : e.kind = "dm" /\ e.dev = d /\ p = From[e.msg] /\ k = e.pos
        BY <3>2, <4>1, CommitSessions
      <4> QED
        BY Zenon, <4>1, <4>2 DEF LogInv, Accounted
    <3> QED
      BY Zenon, <3>1, <3>2
  <2> QED
    BY <1>12, <2>1, <2>2
<1>15. Originals' \subseteq Originals
  BY Zenon, <1>1, <1>6, OriginalsStay, OriginalsAre
<1>16. NoPlaintextLost'
  <2> SUFFICES ASSUME NEW x \in Devices, NEW e \in Originals, e.dev = x,
                      e.pos \in session'[x][AuthorOf(e)].opened, e \notin received[x],
                      NEW w \in Possible(x)
               PROVE  \E tx \in TxsOf(w) : tx.type = "in" /\ e \in tx.events
    BY Zenon, <1>1, <1>6, <1>15 DEF NoPlaintextLost
  <2>1. AuthorOf(e) = From[e.msg] /\ From[e.msg] \in Devices
    BY Zenon, OriginalsTyped
  <2>2. CASE e.pos \in session[x][AuthorOf(e)].opened
    BY Zenon, <2>2 DEF NoPlaintextLost
  <2>3. CASE e.pos \notin session[x][AuthorOf(e)].opened
    <3>1. x = d
      BY <2>1, <2>3, CommitSessions
    <3>2. PICK f \in log[d] : /\ Tx(d).type = "in" /\ Tx(d).events = {f}
                              /\ f.kind = "dm" /\ f.dev = d
                              /\ AuthorOf(e) = From[f.msg] /\ e.pos = f.pos
      BY <2>1, <2>3, <3>1, CommitSessions
    <3>3. e = f
      BY Zenon, <3>1, <3>2, OriginalsAre DEF PositionSealedOnce, AuthorOf
    <3> QED
      BY <1>2, <3>1, <3>2, <3>3, SingleJournal
  <2> QED
    BY Zenon, <2>2, <2>3
<1>17. PositionSealedOnce' /\ OneCopy'
  BY Zenon, <1>15, SealedStays
<1> QED
  BY Zenon, <1>5, <1>7, <1>9, <1>11, <1>13, <1>14, <1>16, <1>17

-----------------------------------------------------------------------------
(* A transaction begins when nothing is pending.                           *)

\* Every message the sender of d has sealed so far lies below the next position
\* of its session, and its message is accepted.
LEMMA SealedBelow ==
    ASSUME DeliveryInv, NEW d \in Devices, journal[d] = <<>>,
           NEW e \in Originals, AuthorOf(e) = d
    PROVE  e.pos < session[d][e.dev].sent /\ Known(d, e.msg)
<1> USE DEF DeliveryInv
<1>1. e \in Events /\ e.kind = "dm" /\ From[e.msg] = d
  BY Zenon, OriginalsTyped
<1>2. ASSUME NEW x \in Devices, e \in log[x]
      PROVE  e.pos < session[d][e.dev].sent /\ Known(d, e.msg)
  BY Zenon, <1>1, <1>2 DEF LogInv, Accounted
<1>3. ASSUME NEW x \in Devices, NEW w \in Possible(x), NEW tx \in TxsOf(w), e \in tx.events
      PROVE  e.pos < session[d][e.dev].sent /\ Known(d, e.msg)
  <2>1. w \in Seq(Transactions)
    BY Zenon DEF Possible, TypeInv
  <2>2. tx \in Transactions /\ Replayable(x, tx)
    BY <2>1 DEF TxsOf, PendingInv
  <2>3. CASE tx.type = "out"
    <3>1. IsOutgoing(x, tx)
      BY Zenon, <2>2, <2>3 DEF Replayable
    <3>2. PICK p \in To[tx.msg] : e = Original(tx.msg, p, tx.ratchets[p].previous)
      BY Zenon, <1>3, <3>1 DEF IsOutgoing
    <3>3. /\ e.msg = tx.msg /\ e.dev = p /\ e.pos = tx.ratchets[p].previous.sent
          /\ x = d
      BY Zenon, <1>1, <3>1, <3>2 DEF Original, IsOutgoing
    <3>4. \A S : Past(d, S)
      BY Zenon DEF Past
    <3>5. session[d][p] = tx.ratchets[p].state /\ tx.msg \in sent[d]
      BY <2>2, <2>3, <3>1, <3>3, <3>4 DEF Replayable, IsOutgoing
    <3>6. tx.ratchets[p].previous \in Sessions
      BY Zenon, <3>1 DEF IsOutgoing, Transitions
    <3>7. tx.ratchets[p].state.sent = tx.ratchets[p].previous.sent + 1
      BY Zenon, <3>1, <3>6, SealedIs DEF IsOutgoing
    <3> QED
      BY <3>3, <3>5, <3>6, <3>7 DEF Sessions, Known
  <2>4. CASE tx.type = "in"
    <3>1. IsIncoming(x, tx)
      BY Zenon, <2>2, <2>4 DEF Replayable
    <3>2. e \in log[x]
      BY Zenon, <1>3, <3>1 DEF IsIncoming
    <3> QED
      BY Zenon, <1>2, <3>2
  <2> QED
    BY Zenon, <2>2, <2>3, <2>4 DEF Transactions
<1> QED
  BY Zenon, <1>2, <1>3, OriginalsAre

\* A transaction that begins adds its events to the originals and nothing else.
LEMMA BeginOriginals ==
    ASSUME DeliveryInv, NEW d \in Devices, Recovered(d), NEW tx \in Transactions, begin(d, tx)
    PROVE  \A e \in Originals' : e \in Originals \/ e \in tx.events
<1> USE DEF DeliveryInv
<1>1. log' = log /\ Possible(d)' = {<<tx>>} /\ \A x \in Devices \ {d} : Possible(x)' = Possible(x)
  BY DEF begin, Recovered, DirectorySynced, TypeInv, Possible, projections
<1> SUFFICES ASSUME NEW e \in Originals' PROVE e \in Originals \/ e \in tx.events
  BY Zenon
<1>2. CASE \E x \in Devices : e \in log'[x] /\ e.kind = "dm"
  BY Zenon, <1>1, <1>2, OriginalsAre
<1>3. ASSUME NEW x \in Devices, NEW w \in Possible(x)', NEW t \in TxsOf(w), e \in t.events
      PROVE  e \in Originals \/ e \in tx.events
  <2>1. CASE x = d
    BY <1>1, <1>3, <2>1, SingleJournal
  <2>2. CASE x # d
    BY Zenon, <1>1, <1>3, <2>2, OriginalsAre
  <2> QED
    BY Zenon, <2>1, <2>2
<1> QED
  BY Zenon, <1>2, <1>3, OriginalsAreNext

\* What is sealed, opened and recorded stays as it was; the transaction that
\* begins is the one to look at.
LEMMA BeginKeeps ==
    ASSUME DeliveryInv, NEW d \in Devices, Recovered(d),
           NEW tx \in Transactions, begin(d, tx),
           tx.type = "out" => IsOutgoing(d, tx),
           tx.type = "in" => IsIncoming(d, tx),
           \A p \in DOMAIN tx.ratchets : session[d][p] = tx.ratchets[p].previous,
           tx.type = "out" => \A c \in completed[d] : c.msg # tx.msg,
           \A e \in tx.events : e \in Originals \/ e.pos \notin session[e.dev][AuthorOf(e)].opened,
           PositionSealedOnce', OneCopy'
    PROVE  DeliveryInv'
<1> USE DEF DeliveryInv, projections
<1>1. /\ UNCHANGED <<session, log, sent, received, outbox, needsSync, stage>>
      /\ journal[d] = <<>> /\ stage[d] = "commit"
      /\ journal' = [journal EXCEPT ![d] = <<tx>>]
      /\ onDisk' = [onDisk EXCEPT ![d] = {<<tx>>}]
  BY DEF begin, Recovered, DirectorySynced, TypeInv
<1>2. /\ Possible(d)' = {<<tx>>}
      /\ \A x \in Devices \ {d} : Possible(x)' = Possible(x)
  BY Zenon, <1>1 DEF Possible, TypeInv
<1>3. TypeInv'
  <2>1. <<tx>> \in Seq(Transactions)
    BY SMTT(30)
  <2>2. /\ journal' \in [Devices -> Seq(Transactions)]
        /\ onDisk' \in [Devices -> SUBSET Seq(Transactions)]
    BY Zenon, <1>1, <2>1 DEF TypeInv
  <2> QED
    BY Zenon, <1>1, <2>2 DEF TypeInv, outbox
<1>4. OnePending'
  <2>1. Len(<<tx>>) <= 1
    OBVIOUS
  <2>2. /\ \A w \in Possible(d)' : Len(w) <= 1
        /\ onDisk'[d] = {journal'[d]}
    BY Zenon, <1>1, <1>2, <2>1 DEF TypeInv
  <2>3. \A x \in Devices \ {d} : journal'[x] = journal[x] /\ onDisk'[x] = onDisk[x]
    BY Zenon, <1>1 DEF TypeInv
  <2> QED
    BY ZenonT(30), <1>2, <2>2, <2>3 DEF OnePending
<1>5. PendingInv'
  <2> SUFFICES ASSUME NEW x \in Devices, NEW w \in Possible(x)', NEW t \in TxsOf(w)
               PROVE  Replayable(x, t)'
    BY Zenon DEF PendingInv
  <2>1. CASE x = d
    <3>1. t = tx
      BY Zenon, <1>2, <2>1, SingleJournal
    <3>2. journal'[d] = <<tx>> /\ stage'[d] = "commit" /\ journal'[d] # <<>>
      BY Zenon, <1>1 DEF TypeInv
    <3>3. \A S : "commit" \in S => ~Past(d, S)'
      BY Zenon, <3>2 DEF Past
    <3>4. /\ tx.type = "out" => IsOutgoing(d, tx)'
          /\ tx.type = "in" => IsIncoming(d, tx)'
      BY ZenonT(30), <1>1 DEF IsOutgoing, IsIncoming
    <3>5. \A p \in DOMAIN tx.ratchets : Applies(session[d][p], tx.ratchets[p])'
      BY ZenonT(30), <1>1 DEF Applies
    <3>6. tx.type = "out" => \A c \in completed'[d] : c.msg # tx.msg
      BY ZenonT(30), <1>1 DEF outbox
    <3> QED
      BY Zenon, <2>1, <3>1, <3>3, <3>4, <3>5, <3>6 DEF Replayable, Stages
  <2>2. CASE x # d
    <3>1. Replayable(x, t)
      BY Zenon, <1>2, <2>2 DEF PendingInv
    <3>2. \A S : Past(x, S)' <=> Past(x, S)
      BY Zenon, <1>1, <2>2 DEF Past, TypeInv
    <3>3. Past(x, {"commit", "append", "record"})' =>
              IF t.type = "out" THEN t.msg \in sent'[x] ELSE t.events \subseteq received'[x]
      BY ZenonT(30), <1>1, <3>1, <3>2 DEF Replayable, outbox
    <3> QED
      BY ZenonT(30), <1>1, <3>1, <3>2, <3>3, ReplayableStays DEF outbox
  <2> QED
    BY Zenon, <2>1, <2>2
<1>6. \A x \in Devices : \A m \in Msgs : Known(x, m) => Known(x, m)'
  BY SMTT(30), <1>1 DEF Known, TypeInv, projections
<1>7. LogInv' /\ KnownInv' /\ OpenedInv'
  BY ZenonT(30), <1>1, <1>6, LogStays, KnownInvStays DEF OpenedInv, outbox
<1>8. \A e \in Originals' : e \in Originals \/ e \in tx.events
  BY Zenon, BeginOriginals
<1>9. NoPlaintextLost'
  <2> SUFFICES ASSUME NEW x \in Devices, NEW e \in Originals', e.dev = x,
                      e.pos \in session[x][AuthorOf(e)].opened, e \notin received[x],
                      NEW w \in Possible(x)'
               PROVE  \E t \in TxsOf(w) : t.type = "in" /\ e \in t.events
    BY ZenonT(30), <1>1 DEF NoPlaintextLost
  <2>1. e \in Originals
    BY Zenon, <1>8
  <2>2. \A v \in Possible(x) : \E t \in TxsOf(v) : t.type = "in" /\ e \in t.events
    BY Zenon, <2>1 DEF NoPlaintextLost
  <2>3. x # d
    BY Zenon, <1>1, <2>2, EmptyJournal DEF Possible
  <2> QED
    BY Zenon, <1>2, <2>2, <2>3
<1> QED
  BY Zenon, <1>3, <1>4, <1>5, <1>7, <1>9

\* The events of a new message take positions that no event has.
LEMMA EnqueueKeeps ==
    ASSUME DeliveryInv, NEW d \in Devices, NEW m \in Msgs, Enqueue(d, m)
    PROVE  DeliveryInv'
<1> USE DEF DeliveryInv
<1>1. /\ From[m] = d /\ ~Known(d, m) /\ Recovered(d) /\ begin(d, Outgoing(d, m))
      /\ journal[d] = <<>>
  BY DEF Enqueue, Recovered, Known
<1>2. To[m] \subseteq Devices
  BY Zenon, DeliveryAssumption
<1>3. \A p \in To[m] : session[d][p] \in Sessions
  BY <1>2 DEF TypeInv
<1> PICK tx : tx = Outgoing(d, m)
  BY Zenon
<1>4. /\ tx.type = "out" /\ tx.msg = m
      /\ tx.events = {Original(m, p, session[d][p]) : p \in To[m]}
      /\ tx.ratchets = [p \in To[m] |-> prepare_encrypt(d, p)]
      /\ tx = [type |-> "out", msg |-> m, events |-> tx.events, ratchets |-> tx.ratchets]
  BY Zenon DEF Outgoing
<1>5. \A p \in To[m] :
          /\ prepare_encrypt(d, p) \in Transitions
          /\ prepare_encrypt(d, p).previous = session[d][p]
          /\ prepare_encrypt(d, p).state = Sealed(session[d][p])
  BY <1>3, SealedIs DEF prepare_encrypt, Transitions
<1>6. /\ tx.ratchets \in [To[m] -> Transitions]
      /\ tx.ratchets \in UNION {[S -> Transitions] : S \in SUBSET Devices}
      /\ \A p \in To[m] : /\ tx.ratchets[p].previous = session[d][p]
                          /\ tx.ratchets[p].state = Sealed(session[d][p])
  <2>1. \A p \in To[m] : tx.ratchets[p] = prepare_encrypt(d, p)
    BY Zenon, <1>4
  <2>2. tx.ratchets \in [To[m] -> Transitions]
    BY ZenonT(30), <1>4, <1>5
  <2>3. tx.ratchets \in UNION {[S -> Transitions] : S \in SUBSET Devices}
    BY Zenon, <1>2, <2>2
  <2>4. ASSUME NEW p \in To[m]
        PROVE  /\ tx.ratchets[p].previous = session[d][p]
               /\ tx.ratchets[p].state = Sealed(session[d][p])
    BY <1>5, <2>1, Zenon
  <2> QED
    BY Zenon, <2>2, <2>3, <2>4
<1>7. tx.events \subseteq Events
  <2>1. \A p \in To[m] : Original(m, p, session[d][p]) \in Events
    BY <1>2, <1>3 DEF Original, Events, Sessions
  <2> QED
    BY Zenon, <1>4, <2>1
<1>8. tx \in Transactions
  <2>1. [type |-> "out", msg |-> m, events |-> tx.events, ratchets |-> tx.ratchets] \in Transactions
    BY Zenon, <1>6, <1>7 DEF Transactions
  <2> QED
    BY ZenonT(30), <1>4, <2>1
<1>9. IsOutgoing(d, tx)
  <2>1. tx.events = {Original(m, p, tx.ratchets[p].previous) : p \in To[m]}
    <3>1. \A p \in To[m] : Original(m, p, tx.ratchets[p].previous) =
                           Original(m, p, session[d][p])
      BY <1>6, Zenon
    <3>2. tx.events = {Original(m, p, session[d][p]) : p \in To[m]}
      BY Zenon, <1>4
    <3> QED
      BY <3>1, <3>2, Zenon
  <2>2. ASSUME NEW p \in To[m]
        PROVE  tx.ratchets[p].state = Sealed(tx.ratchets[p].previous)
    BY <1>6, Zenon
  <2> QED
    <3>1. m = tx.msg
      BY Zenon, <1>4
    <3>2. From[tx.msg] = d /\ tx.ratchets \in [To[tx.msg] -> Transitions]
      BY Zenon, <1>1, <1>6, <3>1
    <3>3. \A p \in To[tx.msg] :
              tx.ratchets[p].state = Sealed(tx.ratchets[p].previous)
      BY <2>2, <3>1, Zenon
    <3>4. tx.events = {Original(tx.msg, p, tx.ratchets[p].previous) : p \in To[tx.msg]}
      BY Zenon, <2>1, <3>1
    <3> QED
      BY <3>2, <3>3, <3>4, Zenon DEF IsOutgoing
<1>10. \A c \in completed[d] : c.msg # tx.msg
  BY <1>1, <1>4 DEF KnownInv
<1>11. \A e \in tx.events :
           /\ AuthorOf(e) = d /\ e.msg = m /\ e.dev \in Devices
           /\ e.pos = session[d][e.dev].sent
           /\ e = Original(m, e.dev, session[d][e.dev])
  BY <1>1, <1>2, <1>4 DEF Original, AuthorOf
<1>12. \A e \in Originals' : e \in Originals \/ e \in tx.events
  BY Zenon, <1>1, <1>8, BeginOriginals
<1>13. \A e \in tx.events : e.pos \notin session[e.dev][AuthorOf(e)].opened
  <2> SUFFICES ASSUME NEW e \in tx.events, e.pos \in session[e.dev][d].opened PROVE FALSE
    BY Zenon, <1>11
  <2>1. e.dev \in Devices /\ e.pos = session[d][e.dev].sent /\ session[d][e.dev].sent \in Nat
    BY <1>11 DEF TypeInv, Sessions
  <2>2. e.pos < session[d][e.dev].sent
    BY Zenon, <2>1 DEF OpenedInv
  <2> QED
    BY <2>1, <2>2
<1>14. \A e \in Originals : AuthorOf(e) = d => e.pos < session[d][e.dev].sent /\ e.msg # m
  BY Zenon, <1>1, SealedBelow
<1>15. \A e \in Originals : e.msg = m => AuthorOf(e) = d
  BY Zenon, <1>1, OriginalsTyped
<1>16. \A e \in Originals : e.dev \in Devices /\ e.pos \in Nat
  BY Zenon, OriginalsTyped DEF Events
<1>17. \A p \in Devices : session[d][p].sent \in Nat
  BY Zenon DEF TypeInv, Sessions
<1>18. PositionSealedOnce'
  <2> SUFFICES ASSUME NEW e \in Originals', NEW f \in Originals',
                      AuthorOf(e) = AuthorOf(f), e.dev = f.dev, e.pos = f.pos
               PROVE  e = f
    BY Zenon DEF PositionSealedOnce
  <2>1. CASE e \in Originals /\ f \in Originals
    BY Zenon, <2>1 DEF PositionSealedOnce
  <2>2. CASE e \in tx.events /\ f \in tx.events
    BY Zenon, <1>11, <2>2
  <2>3. CASE e \in Originals /\ f \in tx.events
    BY <1>11, <1>14, <1>16, <1>17, <2>3
  <2>4. CASE e \in tx.events /\ f \in Originals
    BY <1>11, <1>14, <1>16, <1>17, <2>4
  <2> QED
    BY Zenon, <1>12, <2>1, <2>2, <2>3, <2>4
<1>19. OneCopy'
  <2> SUFFICES ASSUME NEW e \in Originals', NEW f \in Originals', e.msg = f.msg, e.dev = f.dev
               PROVE  e = f
    BY Zenon DEF OneCopy
  <2>1. CASE e \in Originals /\ f \in Originals
    BY Zenon, <2>1 DEF OneCopy
  <2>2. CASE e \in tx.events /\ f \in tx.events
    BY Zenon, <1>11, <2>2
  <2>3. CASE e \in Originals /\ f \in tx.events
    BY Zenon, <1>11, <1>14, <1>15, <2>3
  <2>4. CASE e \in tx.events /\ f \in Originals
    BY Zenon, <1>11, <1>14, <1>15, <2>4
  <2> QED
    BY Zenon, <1>12, <2>1, <2>2, <2>3, <2>4
<1>20. \A p \in DOMAIN tx.ratchets : session[d][p] = tx.ratchets[p].previous
  BY ZenonT(30), <1>6
<1> QED
  BY ZenonT(30), <1>1, <1>4, <1>8, <1>9, <1>10, <1>13, <1>18, <1>19, <1>20, BeginKeeps

\* The event that an incoming transaction opens is in the log.
LEMMA AcceptKeeps ==
    ASSUME DeliveryInv, NEW d \in Devices, NEW e \in log[d], Accept(d, e)
    PROVE  DeliveryInv'
<1> USE DEF DeliveryInv
<1>1. /\ e.kind = "dm" /\ e.dev = d /\ AuthorOf(e) = From[e.msg]
      /\ Recovered(d) /\ begin(d, Incoming(d, e))
  BY Zenon DEF Accept, ReaderOf, AuthorOf
<1>2. e \in Events /\ From[e.msg] \in Devices
  BY DeliveryAssumption DEF TypeInv, Events
<1>3. session[d][From[e.msg]] \in Sessions /\ e.pos \in Nat /\ e.msg \in Msgs
  BY Zenon, <1>2 DEF TypeInv, Events
<1> PICK tx : tx = Incoming(d, e)
  BY Zenon
<1>4. /\ tx.type = "in" /\ tx.msg = e.msg /\ tx.events = {e}
      /\ tx.ratchets = [p \in {From[e.msg]} |-> prepare_decrypt(d, e)]
      /\ tx = [type |-> "in", msg |-> e.msg, events |-> {e}, ratchets |-> tx.ratchets]
  BY Zenon DEF Incoming
<1>5. /\ prepare_decrypt(d, e) \in Transitions
      /\ prepare_decrypt(d, e).previous = session[d][From[e.msg]]
      /\ prepare_decrypt(d, e).state =
             Opened(session[d][From[e.msg]], e)
  BY Zenon, <1>1, <1>2, <1>3, OpenedIs DEF prepare_decrypt, Transitions
<1>6. /\ tx.ratchets \in [{From[e.msg]} -> Transitions]
      /\ tx.ratchets \in UNION {[S -> Transitions] : S \in SUBSET Devices}
      /\ tx.ratchets[From[e.msg]].previous = session[d][From[e.msg]]
      /\ tx.ratchets[From[e.msg]].state =
             Opened(session[d][From[e.msg]], e)
  <2>1. tx.ratchets \in [{From[e.msg]} -> Transitions]
    BY Zenon, <1>4, <1>5
  <2>2. {From[e.msg]} \in SUBSET Devices
    BY Zenon, <1>2
  <2> QED
    BY Zenon, <1>4, <1>5, <2>1, <2>2
<1>7. tx \in Transactions
  <2>1. [type |-> "in", msg |-> e.msg, events |-> {e}, ratchets |-> tx.ratchets] \in Transactions
    BY Zenon, <1>2, <1>3, <1>6 DEF Transactions
  <2> QED
    BY Zenon, <1>4, <2>1
<1>8. IsIncoming(d, tx)
  <2>1. tx.ratchets[From[e.msg]].state =
            Opened(tx.ratchets[From[e.msg]].previous, e)
    BY <1>6, Zenon
  <2>2. tx.ratchets \in [{From[tx.msg]} -> Transitions]
    BY Zenon, <1>4, <1>6
  <2> QED
    BY <1>1, <1>4, <2>1, <2>2, Zenon DEF IsIncoming
<1>9. e \in Originals
  BY Zenon, <1>1, OriginalsAre
<1>10. Originals' \subseteq Originals
  BY Zenon, <1>1, <1>4, <1>7, <1>9, BeginOriginals
<1>11. PositionSealedOnce' /\ OneCopy'
  BY Zenon, <1>10, SealedStays
<1>12. \A p \in DOMAIN tx.ratchets : session[d][p] = tx.ratchets[p].previous
  BY Zenon, <1>6
<1> QED
  BY Zenon, <1>1, <1>4, <1>7, <1>8, <1>9, <1>11, <1>12, BeginKeeps

-----------------------------------------------------------------------------
(* The theorems.                                                           *)

\* The initial states satisfy the invariant.
LEMMA InitKeeps == Init => DeliveryInv
<1> SUFFICES ASSUME Init PROVE DeliveryInv
  BY Zenon
<1> USE DEF Init
<1>1. TypeInv
  <2>1. <<>> \in Seq(Transactions) /\ NewSession \in Sessions
    BY Zenon, EmptySeq DEF NewSession, Sessions
  <2> QED
    BY Zenon, <2>1 DEF TypeInv, Stages
<1>2. \A d \in Devices : Possible(d) = {<<>>}
  BY Zenon DEF Possible
<1>3. Originals = {}
  BY <1>2, EmptyJournal DEF Originals
<1>4. OnePending /\ PendingInv
  BY SMTT(30), <1>2, EmptyJournal DEF OnePending, PendingInv
<1>5. LogInv /\ OpenedInv /\ KnownInv
  BY Zenon DEF LogInv, OpenedInv, KnownInv, NewSession
<1>6. PositionSealedOnce /\ OneCopy /\ NoPlaintextLost
  BY Zenon, <1>3 DEF PositionSealedOnce, OneCopy, NoPlaintextLost
<1> QED
  BY Zenon, <1>1, <1>4, <1>5, <1>6 DEF DeliveryInv

\* Time passing changes none of what the invariant speaks of.
LEMMA ExpireKeeps ==
    ASSUME DeliveryInv, UNCHANGED <<projections, outbox, journal, onDisk, needsSync, stage>>
    PROVE  DeliveryInv'
<1>1. \A x \in Devices : Possible(x)' = Possible(x)
  BY Zenon DEF Possible
<1>2. Originals' = Originals
  BY Zenon, <1>1 DEF Originals, projections
<1>3. TypeInv' /\ OnePending'
  BY Zenon, <1>1 DEF DeliveryInv, TypeInv, OnePending, projections, outbox
<1>4. NoPlaintextLost'
  BY Zenon, <1>1, <1>2 DEF DeliveryInv, NoPlaintextLost, projections
<1>5. \A x \in Devices : \A m : Known(x, m) => Known(x, m)'
  BY Zenon DEF Known, projections
<1>6. \A x \in Devices : \A S : Past(x, S)' => Past(x, S)
  BY Zenon DEF Past
<1> QED
  BY Zenon, <1>1, <1>3, <1>4, <1>5, <1>6, BookkeepingKeeps

\* Every step preserves it.
LEMMA NextKeeps == DeliveryInv /\ [Next]_vars => DeliveryInv'
<1> SUFFICES ASSUME DeliveryInv, [Next]_vars PROVE DeliveryInv'
  BY Zenon
<1>1. CASE UNCHANGED vars
  <2>1. UNCHANGED <<projections, outbox, journal, onDisk, needsSync, stage>>
    BY Zenon, <1>1 DEF vars, projections, outbox
  <2> QED
    BY Zenon, <2>1, ExpireKeeps
<1>2. ASSUME NEW d \in Devices, Recover(d) PROVE DeliveryInv'
  BY Zenon, <1>2, CommitKeeps, AppendKeeps, RecordKeeps, ReceiptKeeps, InstallKeeps, RequestKeeps,
     RewriteKeeps, SyncKeeps DEF Recover
<1>3. ASSUME NEW d \in Devices, NEW e \in log[d],
             Accept(d, e) \/ Confirm(d, e) \/ retire_destination(d, e) \/ finish_receipt(d, e)
      PROVE  DeliveryInv'
  BY Zenon, <1>3, AcceptKeeps, ConfirmKeeps, RetireDestinationKeeps, FinishKeeps
<1> QED
  BY Zenon, <1>1, <1>2, <1>3, EnqueueKeeps, TransferKeeps, StorageErrorKeeps, CrashKeeps, ExpireKeeps
     DEF Next, Expire

\* The invariant of every reachable state.
LEMMA DeliveryInvHolds == Spec => []DeliveryInv
BY InitKeeps, NextKeeps, PTL DEF Spec

(* Whatever crashes, power losses and storage errors strike the acceptance,   *)
(* the recovery pass or the journal rewrite, no position of a sending session *)
(* seals two messages (prepare_encrypt, DeliveryStore::begin).                *)
THEOREM PositionsSealedOnce == Spec => []PositionSealedOnce
<1>1. DeliveryInv => PositionSealedOnce
  BY Zenon DEF DeliveryInv
<1> QED
  BY <1>1, DeliveryInvHolds, PTL

(* The plaintext of a message whose key is spent is recorded, or in every     *)
(* journal that a crash can bring back (the receive side of the journal).     *)
THEOREM PlaintextsSurvive == Spec => []NoPlaintextLost
<1>1. DeliveryInv => NoPlaintextLost
  BY Zenon DEF DeliveryInv
<1> QED
  BY <1>1, DeliveryInvHolds, PTL

-----------------------------------------------------------------------------
(* What is offered, and by which request.                                  *)

\* A message that is offered was accepted by its sender.
LEMMA OfferedIs ==
    ASSUME DeliveryInv, NEW x \in Devices, NEW m
    PROVE  m \in Offered(x) <=> From[m] = x /\ Known(x, m)
<1> USE DEF DeliveryInv
<1>1. ASSUME NEW tx \in TxsOf(journal[x]), tx.type = "out"
      PROVE  From[tx.msg] = x /\ Known(x, tx.msg)
  <2>1. Replayable(x, tx)
    BY Zenon DEF PendingInv, Possible
  <2> QED
    BY Zenon, <1>1, <2>1 DEF Replayable, IsOutgoing, Known, TxsOf
<1>2. m \in Offered(x) => From[m] = x /\ Known(x, m)
  BY <1>1 DEF Offered, PendingOut, KnownInv
<1>3. Known(x, m) => m \in Offered(x)
  BY DEF Known, Offered, PendingOut, TxsOf
<1> QED
  BY Zenon, <1>2, <1>3

\* A new message is offered by its sender.
LEMMA EnqueueOffers ==
    ASSUME DeliveryInv, NEW d \in Devices, NEW m \in Msgs, Enqueue(d, m)
    PROVE  /\ From[m] = d /\ ~Known(d, m) /\ journal[d] = <<>>
           /\ \E tx : /\ tx.type = "out" /\ tx.msg = m
                      /\ journal' = [journal EXCEPT ![d] = <<tx>>]
           /\ UNCHANGED <<sent, received, completed>>
           /\ \A x \in Devices \ {d} : Offered(x)' = Offered(x)
           /\ Offered(d)' = Offered(d) \cup {m}
<1> USE DEF DeliveryInv
<1> PICK tx : tx = Outgoing(d, m)
  BY Zenon
<1>1. /\ From[m] = d /\ ~Known(d, m)
      /\ journal[d] = <<>> /\ journal' = [journal EXCEPT ![d] = <<tx>>]
      /\ UNCHANGED <<sent, received, completed>>
  <2>1. /\ From[m] = d /\ ~Known(d, m) /\ journal[d] = <<>> /\ begin(d, tx)
    BY DEF Enqueue, Recovered, Known
  <2>2. Append(journal[d], tx) = <<tx>>
    BY <2>1
  <2> QED
    BY Zenon, <2>1, <2>2 DEF begin, projections, outbox
<1>3. tx.type = "out" /\ tx.msg = m
  BY Zenon DEF Outgoing
<1>4. \A x \in Devices \ {d} : Offered(x)' = Offered(x)
  BY Zenon, <1>1 DEF Offered, PendingOut, TypeInv
<1>5. Offered(d)' = Offered(d) \cup {m}
  <2>1. TxsOf(journal[d]) = {} /\ TxsOf(journal'[d]) = {tx}
    BY Zenon, <1>1, EmptyJournal, SingleJournal DEF TypeInv
  <2> QED
    BY ZenonT(30), <1>1, <1>3, <2>1 DEF Offered, PendingOut
<1> QED
  BY Zenon, <1>1, <1>3, <1>4, <1>5

\* An incoming transaction offers nothing.
LEMMA AcceptOffers ==
    ASSUME DeliveryInv, NEW d \in Devices, NEW e \in log[d], Accept(d, e)
    PROVE  /\ journal[d] = <<>>
           /\ \E tx : tx.type = "in" /\ journal' = [journal EXCEPT ![d] = <<tx>>]
           /\ UNCHANGED <<sent, received, completed>>
           /\ \A x \in Devices : Offered(x)' = Offered(x)
<1> TypeInv
  BY Zenon DEF DeliveryInv
<1> PICK tx : tx = Incoming(d, e)
  BY Zenon
<1>1. /\ journal[d] = <<>> /\ journal' = [journal EXCEPT ![d] = <<tx>>]
      /\ UNCHANGED <<sent, received, completed>>
  <2>1. Recovered(d) /\ begin(d, tx)
    BY Zenon DEF Accept
  <2>2. journal[d] = <<>>
    BY Zenon, <2>1 DEF Recovered
  <2>3. /\ journal' = [journal EXCEPT ![d] = Append(journal[d], tx)]
        /\ UNCHANGED <<sent, received, completed>>
    BY Zenon, <2>1 DEF begin, projections, outbox
  <2>4. Append(journal[d], tx) = <<tx>>
    BY <2>2
  <2> QED
    BY Zenon, <2>2, <2>3, <2>4
<1>2. tx.type = "in"
  BY ZenonT(30) DEF Incoming
<1>3. \A x \in Devices \ {d} : Offered(x)' = Offered(x)
  <2> TAKE x \in Devices \ {d}
  <2>1. journal'[x] = journal[x] /\ sent'[x] = sent[x]
    BY Zenon, <1>1 DEF TypeInv
  <2> QED
    BY Zenon, <1>1, <2>1 DEF Offered, PendingOut
<1>4. Offered(d)' = Offered(d)
  <2>1. TxsOf(journal[d]) = {} /\ TxsOf(journal'[d]) = {tx}
    BY Zenon, <1>1, EmptyJournal, SingleJournal DEF TypeInv
  <2> QED
    BY ZenonT(30), <1>1, <1>2, <2>1 DEF Offered, PendingOut
<1> QED
  BY Zenon, <1>1, <1>2, <1>3, <1>4

\* A journal that is dropped, or brought back, was recorded.
LEMMA JournalOffers ==
    ASSUME DeliveryInv, NEW d \in Devices,
           (\E synced \in BOOLEAN : rewrite(d, synced))
               \/ (\E power \in BOOLEAN : \E w : Crash(d, w, power))
    PROVE  /\ UNCHANGED <<sent, received, completed>>
           /\ \A x \in Devices : Offered(x)' = Offered(x)
<1> USE DEF DeliveryInv
<1>1. UNCHANGED <<sent, received, completed>>
  BY Zenon DEF rewrite, Crash, projections, outbox
<1>2. ASSUME NEW w \in Possible(d), NEW tx \in TxsOf(w), tx.type = "out",
             Past(d, {"commit", "append", "record"})
      PROVE  tx.msg \in sent[d]
  BY ZenonT(30), <1>2 DEF PendingInv, Replayable
<1>3. Offered(d)' = Offered(d) /\ \A x \in Devices \ {d} : journal'[x] = journal[x]
  <2>1. CASE \E synced \in BOOLEAN : rewrite(d, synced)
    <3>1. /\ journal[d] # <<>> /\ stage[d] = "rewrite"
          /\ journal' = [journal EXCEPT ![d] = Tail(@)]
      BY Zenon, <2>1 DEF rewrite, At
    <3>2. journal[d] = <<Tx(d)>> /\ journal[d] \in Possible(d)
      BY Zenon, <3>1, JournalHead DEF Possible
    <3>3. journal'[d] = <<>> /\ \A x \in Devices \ {d} : journal'[x] = journal[x]
      BY <3>1, <3>2 DEF TypeInv
    <3>4. Past(d, {"commit", "append", "record"})
      BY Zenon, <3>1 DEF Past
    <3>5. \A tx \in TxsOf(journal[d]) : tx.type = "out" => tx.msg \in sent[d]
      BY Zenon, <1>2, <3>2, <3>4
    <3> QED
      BY Zenon, <1>1, <3>3, <3>5, EmptyJournal DEF Offered, PendingOut
  <2>2. CASE \E power \in BOOLEAN : \E w : Crash(d, w, power)
    <3>1. PICK v \in Possible(d) : journal' = [journal EXCEPT ![d] = v]
      BY ZenonT(30), <2>2 DEF Crash, Possible
    <3>2. journal'[d] = v /\ \A x \in Devices \ {d} : journal'[x] = journal[x]
      BY Zenon, <3>1 DEF TypeInv
    <3>3. CASE journal[d] # <<>>
      BY Zenon, <1>1, <3>2, <3>3 DEF Offered, PendingOut, OnePending, Possible
    <3>4. CASE journal[d] = <<>>
      <4>1. \A tx \in TxsOf(v) : tx.type = "out" => tx.msg \in sent[d]
        BY Zenon, <1>2, <3>4 DEF Past
      <4> QED
        BY Zenon, <1>1, <3>2, <3>4, <4>1, EmptyJournal DEF Offered, PendingOut
    <3> QED
      BY Zenon, <3>2, <3>3, <3>4
  <2> QED
    BY Zenon, <2>1, <2>2
<1> QED
  BY Zenon, <1>1, <1>3 DEF Offered, PendingOut

\* The requests of one device: a message of the last seven days is recorded by its
\* request or pending, the request stage comes before the rewrite, a pending
\* message is alone with its request, and so is every message within the window.
RequestsOf(d) ==
    /\ \A m \in sent[d] : m \in expired \/ m \in requests[d] \/ m \in PendingOut(d)
    /\ journal[d] # <<>> /\ stage[d] = "rewrite" =>
           \A m \in PendingOut(d) : m \in requests[d]
    /\ \A w \in Possible(d) : \A tx \in TxsOf(w) : tx.type = "out" => NoConflict(d, tx.msg)
    /\ \A m, n \in Offered(d) :
           Request[m] = Request[n] => m = n \/ m \in expired \/ n \in expired

RequestInv == \A d \in Devices : RequestsOf(d)

\* Steps that record no request and accept no message.
LEMMA RequestsStay ==
    ASSUME NEW d \in Devices, RequestsOf(d),
           requests'[d] = requests[d], expired \subseteq expired',
           \A m \in sent'[d] : m \in sent[d] \/ m \in PendingOut(d)',
           \A m \in PendingOut(d) : m \in PendingOut(d)' \/ m \in requests[d],
           journal'[d] # <<>> /\ stage'[d] = "rewrite" =>
               journal[d] # <<>> /\ stage[d] = "rewrite" /\ PendingOut(d)' = PendingOut(d),
           \A w \in Possible(d)' : w \in Possible(d) \/ \A tx \in TxsOf(w) : tx.type # "out",
           Offered(d)' = Offered(d)
    PROVE  RequestsOf(d)'
<1>1. \A m \in sent'[d] : m \in expired' \/ m \in requests'[d] \/ m \in PendingOut(d)'
  BY Zenon DEF RequestsOf
<1>2. journal'[d] # <<>> /\ stage'[d] = "rewrite" =>
          \A m \in PendingOut(d)' : m \in requests'[d]
  BY Zenon DEF RequestsOf
<1>3. \A w \in Possible(d)' : \A tx \in TxsOf(w) : tx.type = "out" => NoConflict(d, tx.msg)'
  BY Zenon DEF RequestsOf, NoConflict
<1>4. \A m, n \in Offered(d)' :
          Request[m] = Request[n] => m = n \/ m \in expired' \/ n \in expired'
  BY Zenon DEF RequestsOf
<1> QED
  BY Zenon, <1>1, <1>2, <1>3, <1>4 DEF RequestsOf

\* Those that leave the journal, the transcript and the pass of d alone.
LEMMA RequestsIdle ==
    ASSUME NEW d \in Devices, RequestsOf(d),
           requests'[d] = requests[d], expired \subseteq expired',
           sent'[d] = sent[d], journal'[d] = journal[d], onDisk'[d] \subseteq Possible(d),
           stage'[d] = stage[d] \/ stage'[d] # "rewrite"
    PROVE  RequestsOf(d)'
<1>1. PendingOut(d)' = PendingOut(d) /\ Offered(d)' = Offered(d)
  BY Zenon DEF PendingOut, Offered
<1>2. Possible(d)' \subseteq Possible(d)
  BY Zenon DEF Possible
<1> QED
  BY Zenon, <1>1, <1>2, RequestsStay

\* Recording the request.
LEMMA RequestInstalls ==
    ASSUME DeliveryInv, RequestInv, NEW d \in Devices, install_request(d)
    PROVE  RequestInv'
<1>1. /\ UNCHANGED <<projections, journal, onDisk, expired>>
      /\ journal[d] # <<>> /\ (Tx(d).type = "out" => NoConflict(d, Tx(d).msg))
      /\ \A x \in Devices \ {d} : requests'[x] = requests[x] /\ stage'[x] = stage[x]
      /\ requests'[d] = IF Tx(d).type = "out" THEN (requests[d] \ expired) \cup {Tx(d).msg}
                                              ELSE requests[d]
  BY Zenon DEF install_request, Advance, At, DeliveryInv, TypeInv
<1>2. journal[d] = <<Tx(d)>> /\ Possible(d) = {<<Tx(d)>>}
  BY Zenon, <1>1, JournalHead DEF DeliveryInv
<1>3. /\ PendingOut(d)' = PendingOut(d) /\ Offered(d)' = Offered(d) /\ Possible(d)' = Possible(d)
  BY Zenon, <1>1 DEF PendingOut, Offered, Possible, projections
<1>4. TxsOf(journal[d]) = {Tx(d)}
  BY Zenon, <1>2, SingleJournal
<1>5. \A m \in PendingOut(d) : m \in requests'[d]
  BY Zenon, <1>1, <1>4 DEF PendingOut
<1>6. RequestsOf(d)'
  <2>1. \A m \in sent'[d] : m \in expired' \/ m \in requests'[d] \/ m \in PendingOut(d)'
    BY Zenon, <1>1, <1>3 DEF RequestInv, RequestsOf, projections
  <2>2. \A w \in Possible(d)' : \A tx \in TxsOf(w) : tx.type = "out" => NoConflict(d, tx.msg)'
    <3> PICK t : t = Tx(d)
      BY Zenon
    <3>1. t.type = "out" => NoConflict(d, t.msg)'
      BY Zenon, <1>1 DEF NoConflict
    <3>2. \A w \in Possible(d)' : \A tx \in TxsOf(w) : tx = t
      BY Zenon, <1>2, <1>3, <1>4
    <3> QED
      BY Zenon, <3>1, <3>2
  <2> QED
    BY Zenon, <1>1, <1>3, <1>5, <2>1, <2>2 DEF RequestInv, RequestsOf
<1>7. ASSUME NEW x \in Devices \ {d} PROVE RequestsOf(x)'
  BY Zenon, <1>1, RequestsIdle DEF RequestInv, Possible, projections
<1> QED
  BY Zenon, <1>6, <1>7 DEF RequestInv

\* A new message: no message of its request is within the window.
LEMMA RequestBegins ==
    ASSUME DeliveryInv, RequestInv, NEW d \in Devices, NEW m \in Msgs, Enqueue(d, m)
    PROVE  RequestInv'
<1>1. /\ journal[d] = <<>> /\ ~Requested(d, m)
      /\ UNCHANGED <<sent, requests, expired, stage>>
      /\ stage[d] = "commit"
  BY Zenon DEF Enqueue, Recovered, begin, projections, outbox, environment
<1>2. PICK tx : /\ tx.type = "out" /\ tx.msg = m
                /\ journal' = [journal EXCEPT ![d] = <<tx>>]
                /\ onDisk' = [onDisk EXCEPT ![d] = {<<tx>>}]
  <2>1. begin(d, Outgoing(d, m))
    BY Zenon DEF Enqueue
  <2>2. Append(journal[d], Outgoing(d, m)) = <<Outgoing(d, m)>>
    BY <1>1
  <2>3. Outgoing(d, m).type = "out" /\ Outgoing(d, m).msg = m
    BY Zenon DEF Outgoing
  <2> QED
    BY Zenon, <2>1, <2>2, <2>3 DEF begin, DirectorySynced
<1>3. /\ Possible(d)' = {<<tx>>} /\ PendingOut(d) = {}
      /\ \A x \in Devices \ {d} : journal'[x] = journal[x] /\ onDisk'[x] = onDisk[x]
  BY Zenon, <1>1, <1>2, EmptyJournal DEF Possible, PendingOut, DeliveryInv, TypeInv
<1>4. Offered(d)' = Offered(d) \cup {m} /\ Offered(d) = sent[d]
  BY Zenon, <1>3, EnqueueOffers DEF Offered
<1>5. \A x \in requests[d] : Request[x] = Request[m] => x \in expired
  BY Zenon, <1>1 DEF Requested
<1>6. \A n \in Offered(d) : Request[n] = Request[m] => n \in expired
  BY Zenon, <1>3, <1>4, <1>5 DEF RequestInv, RequestsOf
<1>7. RequestsOf(d)'
  <2>1. \A n \in sent'[d] : n \in expired' \/ n \in requests'[d] \/ n \in PendingOut(d)'
    BY Zenon, <1>1, <1>3 DEF RequestInv, RequestsOf
  <2>2. \A w \in Possible(d)' : \A t \in TxsOf(w) : t.type = "out" => NoConflict(d, t.msg)'
    <3>1. NoConflict(d, m)'
      BY Zenon, <1>1, <1>5 DEF NoConflict
    <3>2. \A w \in Possible(d)' : \A t \in TxsOf(w) : t = tx
      <4>1. Possible(d)' = {<<tx>>} /\ TxsOf(<<tx>>) = {tx}
        BY Zenon, <1>3, SingleJournal
      <4> QED
        BY Zenon, <4>1
    <3>3. \A w \in Possible(d)' : \A t \in TxsOf(w) : t.msg = m
      BY Zenon, <1>2, <3>2
    <3> QED
      BY Zenon, <3>1, <3>3
  <2>3. \A n, k \in Offered(d)' :
            Request[n] = Request[k] => n = k \/ n \in expired' \/ k \in expired'
    BY Zenon, <1>1, <1>4, <1>6 DEF RequestInv, RequestsOf
  <2> QED
    BY Zenon, <1>1, <2>1, <2>2, <2>3 DEF RequestsOf
<1>8. ASSUME NEW x \in Devices \ {d} PROVE RequestsOf(x)'
  BY Zenon, <1>1, <1>3, RequestsIdle DEF RequestInv, Possible
<1> QED
  BY Zenon, <1>7, <1>8 DEF RequestInv

\* A transaction that is dropped has its request recorded; one that comes back
\* was known.
LEMMA RequestsSurvive ==
    ASSUME DeliveryInv, RequestInv, NEW d \in Devices,
           (\E synced \in BOOLEAN : rewrite(d, synced))
               \/ (\E power \in BOOLEAN : \E w : Crash(d, w, power))
    PROVE  RequestInv'
<1>1. /\ UNCHANGED <<sent, requests, expired>>
      /\ \A x \in Devices \ {d} : /\ journal'[x] = journal[x] /\ onDisk'[x] = onDisk[x]
                                  /\ stage'[x] = stage[x]
      /\ stage'[d] = "commit"
  <2>1. CASE \E synced \in BOOLEAN : rewrite(d, synced)
    BY Zenon, <2>1 DEF rewrite, NextStage, projections, outbox, DeliveryInv, TypeInv
  <2>2. CASE \E power \in BOOLEAN : \E w : Crash(d, w, power)
    BY ZenonT(30), <2>2 DEF Crash, projections, outbox, DeliveryInv, TypeInv
  <2> QED
    BY Zenon, <2>1, <2>2
<1>2. \A x \in Devices : Offered(x)' = Offered(x)
  BY Zenon, JournalOffers
<1>3. \A m \in PendingOut(d) : m \in PendingOut(d)' \/ m \in requests[d]
  <2>1. CASE \E synced \in BOOLEAN : rewrite(d, synced)
    BY Zenon, <2>1 DEF rewrite, At, RequestInv, RequestsOf
  <2>2. CASE \E power \in BOOLEAN : \E w : Crash(d, w, power)
    <3>0. PICK v \in Possible(d) : journal' = [journal EXCEPT ![d] = v]
      BY ZenonT(30), <2>2 DEF Crash, Possible
    <3>1. journal[d] # <<>> => journal'[d] = journal[d]
      BY Zenon, <3>0 DEF DeliveryInv, OnePending, Possible, TypeInv
    <3>2. journal[d] = <<>> => PendingOut(d) = {}
      BY Zenon, EmptyJournal DEF PendingOut
    <3> QED
      BY Zenon, <3>1, <3>2 DEF PendingOut
  <2> QED
    BY Zenon, <2>1, <2>2
<1>4. \A w \in Possible(d)' : w \in Possible(d) \/ w = <<>>
  <2>1. CASE \E synced \in BOOLEAN : rewrite(d, synced)
    <3>1. PICK synced \in BOOLEAN : rewrite(d, synced)
      BY Zenon, <2>1
    <3>2. journal[d] # <<>> /\ journal' = [journal EXCEPT ![d] = Tail(@)]
      BY Zenon, <3>1 DEF rewrite, At
    <3>3. journal[d] = <<Tx(d)>>
      BY Zenon, <3>2, JournalHead DEF DeliveryInv
    <3>4. Tail(<<Tx(d)>>) = <<>>
      OBVIOUS
    <3>5. journal'[d] = <<>>
      BY Zenon, <3>2, <3>3, <3>4 DEF DeliveryInv, TypeInv
    <3>6. onDisk'[d] \subseteq onDisk[d] \cup {journal'[d]}
      BY Zenon, <3>1 DEF rewrite, DeliveryInv, TypeInv
    <3> QED
      BY Zenon, <3>5, <3>6 DEF Possible
  <2>2. CASE \E power \in BOOLEAN : \E w : Crash(d, w, power)
    <3>1. PICK v \in Possible(d) : /\ journal' = [journal EXCEPT ![d] = v]
                                   /\ onDisk' = onDisk \/ onDisk' = [onDisk EXCEPT ![d] = {v}]
      BY ZenonT(30), <2>2 DEF Crash, Possible
    <3>2. journal'[d] = v /\ onDisk'[d] \subseteq onDisk[d] \cup {v}
      BY Zenon, <3>1 DEF DeliveryInv, TypeInv
    <3> QED
      BY Zenon, <3>1, <3>2 DEF Possible
  <2> QED
    BY Zenon, <2>1, <2>2
<1>5. RequestsOf(d)'
  BY Zenon, <1>1, <1>2, <1>3, <1>4, EmptyJournal, RequestsStay DEF RequestInv
<1>6. ASSUME NEW x \in Devices \ {d} PROVE RequestsOf(x)'
  BY Zenon, <1>1, RequestsIdle DEF RequestInv, Possible
<1> QED
  BY Zenon, <1>5, <1>6 DEF RequestInv

\* An incoming transaction, and a plaintext that is recorded.
LEMMA RequestsAside ==
    ASSUME DeliveryInv, RequestInv, NEW d \in Devices,
           record_durable(d) \/ \E e \in log[d] : Accept(d, e)
    PROVE  RequestInv'
<1>1. CASE \E e \in log[d] : Accept(d, e)
  <2>1. PICK e \in log[d] : Accept(d, e)
    BY Zenon, <1>1
  <2>2. /\ UNCHANGED <<sent, requests, expired, stage>> /\ stage[d] = "commit"
        /\ \E w : journal' = [journal EXCEPT ![d] = w] /\ onDisk' = [onDisk EXCEPT ![d] = {w}]
    BY ZenonT(30), <2>1
       DEF Accept, Recovered, begin, DirectorySynced, projections, outbox, environment
  <2>3. PICK tx : tx.type = "in" /\ journal' = [journal EXCEPT ![d] = <<tx>>]
    BY Zenon, <2>1, AcceptOffers
  <2>4. /\ Possible(d)' = {<<tx>>}
        /\ \A x \in Devices \ {d} : journal'[x] = journal[x] /\ onDisk'[x] = onDisk[x]
    BY Zenon, <2>2, <2>3 DEF Possible, DeliveryInv, TypeInv
  <2>5. PendingOut(d) = {} /\ Offered(d)' = Offered(d)
    BY Zenon, <2>1, AcceptOffers, EmptyJournal DEF PendingOut
  <2>6. RequestsOf(d)'
    <3>1. \A w \in Possible(d)' : \A t \in TxsOf(w) : t = tx
      BY Zenon, <2>4, SingleJournal
    <3>2. \A w \in Possible(d)' : \A t \in TxsOf(w) : t.type # "out"
      BY Zenon, <2>3, <3>1
    <3>3. stage'[d] = "commit" /\ requests'[d] = requests[d] /\ sent'[d] = sent[d]
          /\ expired \subseteq expired'
      BY Zenon, <2>2
    <3> QED
      BY Zenon, <2>5, <3>2, <3>3, RequestsStay DEF RequestInv
  <2>7. ASSUME NEW x \in Devices \ {d} PROVE RequestsOf(x)'
    BY Zenon, <2>2, <2>4, RequestsIdle DEF RequestInv, Possible
  <2> QED
    BY Zenon, <2>6, <2>7 DEF RequestInv
<1>2. CASE record_durable(d)
  <2>1. /\ UNCHANGED <<requests, expired, journal, onDisk>> /\ journal[d] # <<>>
        /\ stage' = [stage EXCEPT ![d] = "receipt"]
        /\ \A x \in Devices \ {d} : sent'[x] = sent[x]
        /\ sent'[d] = sent[d] \/ (Tx(d).type = "out" /\ sent'[d] = sent[d] \cup {Tx(d).msg})
    BY Zenon, <1>2 DEF record_durable, Advance, At, NextStage, outbox, DeliveryInv, TypeInv
  <2>2. TxsOf(journal[d]) = {Tx(d)}
    BY Zenon, <2>1, JournalHead, SingleJournal DEF DeliveryInv
  <2>3. /\ PendingOut(d)' = PendingOut(d) /\ Possible(d)' = Possible(d)
        /\ Tx(d).type = "out" => Tx(d).msg \in PendingOut(d)
    BY Zenon, <2>1, <2>2 DEF PendingOut, Possible
  <2>4. Offered(d)' = Offered(d)
    BY Zenon, <2>1, <2>3 DEF Offered
  <2>5. stage'[d] = "receipt" /\ \A x \in Devices \ {d} : stage'[x] = stage[x]
    BY Zenon, <2>1 DEF DeliveryInv, TypeInv
  <2>6. RequestsOf(d)'
    BY Zenon, <2>1, <2>3, <2>4, <2>5, RequestsStay DEF RequestInv
  <2>7. ASSUME NEW x \in Devices \ {d} PROVE RequestsOf(x)'
    BY Zenon, <2>1, <2>5, RequestsIdle DEF RequestInv, Possible
  <2> QED
    BY Zenon, <2>6, <2>7 DEF RequestInv
<1> QED
  BY Zenon, <1>1, <1>2

\* The other steps have nothing to do with requests.
LEMMA RequestsApart ==
    ASSUME DeliveryInv, RequestInv, UNCHANGED <<sent, requests, journal>>,
           expired \subseteq expired',
           \A x \in Devices : onDisk'[x] \subseteq Possible(x),
           \A x \in Devices : stage'[x] = stage[x] \/ stage'[x] # "rewrite"
    PROVE  RequestInv'
BY Zenon, RequestsIdle DEF RequestInv

\* Steps of the pass between the first stage and the outbox record.
LEMMA RequestsPass ==
    ASSUME DeliveryInv, RequestInv, NEW d \in Devices,
           \/ \E done : commit_prepared(d, done) \/ append_durable(d, done)
           \/ append_receipt(d) \/ install_record(d) \/ StorageError(d)
    PROVE  RequestInv'
<1>1. UNCHANGED <<sent, requests, journal, onDisk, expired>>
  BY ZenonT(30) DEF commit_prepared, append_durable, append_receipt, install_record, StorageError,
         Advance, projections, outbox
<1>2. \E v \in Stages \ {"rewrite"} : stage' = [stage EXCEPT ![d] = v]
  <2>1. ASSUME NEW s \in {"commit", "append", "receipt", "install"}, NEW all, Advance(d, s, all)
        PROVE  \E v \in Stages \ {"rewrite"} : stage' = [stage EXCEPT ![d] = v]
    BY Zenon, <2>1 DEF Advance, NextStage, Stages
  <2>2. CASE StorageError(d)
    BY Zenon, <2>2 DEF StorageError, Advance, Stages
  <2>3. CASE ~StorageError(d)
    BY ZenonT(30), <2>1, <2>3 DEF commit_prepared, append_durable, append_receipt, install_record
  <2> QED
    BY Zenon, <2>2, <2>3
<1>3. \A x \in Devices : stage'[x] = stage[x] \/ stage'[x] # "rewrite"
  BY Zenon, <1>2 DEF DeliveryInv, TypeInv, Stages
<1> QED
  BY Zenon, <1>1, <1>3, RequestsApart DEF Possible

\* Steps that carry events, sync a directory or let time pass.
LEMMA RequestsCarry ==
    ASSUME DeliveryInv, RequestInv,
           \/ UNCHANGED vars \/ \E m : Expire(m)
           \/ \E d \in Devices :
                \/ sync_replacement(d)
                \/ \E e : \/ Transfer(d, e) \/ Confirm(d, e) \/ retire_destination(d, e)
                          \/ finish_receipt(d, e)
    PROVE  RequestInv'
<1>1. UNCHANGED <<sent, requests, journal, stage>> /\ expired \subseteq expired'
  BY ZenonT(30) DEF vars, Expire, sync_replacement, Transfer, Confirm, retire_destination,
         finish_receipt, projections, outbox, environment
<1>2. \/ UNCHANGED onDisk
      \/ \E d \in Devices : onDisk' = [onDisk EXCEPT ![d] = {journal[d]}]
  BY ZenonT(30) DEF vars, Expire, sync_replacement, Transfer, Confirm, retire_destination,
         finish_receipt, DirectorySynced
<1>3. \A x \in Devices : onDisk'[x] \subseteq Possible(x)
  BY Zenon, <1>2 DEF Possible, DeliveryInv, TypeInv
<1> QED
  BY Zenon, <1>1, <1>3, RequestsApart

\* The invariant of the requests holds throughout.
LEMMA RequestInvHolds == Spec => [](DeliveryInv /\ RequestInv)
<1>1. Init => RequestInv
  <2> SUFFICES ASSUME Init, NEW d \in Devices PROVE RequestsOf(d)
    BY Zenon DEF RequestInv
  <2>1. PendingOut(d) = {} /\ Possible(d) = {<<>>} /\ sent[d] = {} /\ journal[d] = <<>>
    BY Zenon, EmptyJournal DEF Init, PendingOut, Possible
  <2> QED
    BY Zenon, <2>1, EmptyJournal DEF RequestsOf, Offered
<1>2. DeliveryInv /\ RequestInv /\ [Next]_vars => RequestInv'
  <2> SUFFICES ASSUME DeliveryInv, RequestInv, [Next]_vars PROVE RequestInv'
    BY Zenon
  <2>1. ASSUME NEW d \in Devices, Recover(d) PROVE RequestInv'
    BY ZenonT(30), <2>1, RequestsPass, RequestsAside, RequestInstalls, RequestsSurvive,
       RequestsCarry DEF Recover
  <2> QED
    BY ZenonT(60), <2>1, RequestBegins, RequestsAside, RequestsCarry, RequestsPass,
       RequestsSurvive DEF Next
<1> QED
  BY <1>1, <1>2, InitKeeps, NextKeeps, PTL DEF Spec

\* An event that is sealed belongs to a message its sender has accepted.
LEMMA OriginalsOffered ==
    ASSUME DeliveryInv, NEW e \in Originals
    PROVE  e.msg \in Offered(From[e.msg]) /\ From[e.msg] \in Devices
<1> USE DEF DeliveryInv
<1>1. e \in Events /\ e.kind = "dm" /\ From[e.msg] \in Devices
  BY Zenon, OriginalsTyped
<1>2. ASSUME NEW x \in Devices, e \in log[x] PROVE Known(From[e.msg], e.msg)
  BY Zenon, <1>1, <1>2 DEF LogInv, Accounted
<1>3. ASSUME NEW x \in Devices, NEW w \in Possible(x), NEW tx \in TxsOf(w), e \in tx.events
      PROVE  Known(From[e.msg], e.msg)
  <2>1. w \in Seq(Transactions)
    BY Zenon DEF Possible, TypeInv
  <2>2. tx \in Transactions /\ Replayable(x, tx)
    BY <2>1 DEF TxsOf, PendingInv
  <2>3. CASE tx.type = "out"
    <3>1. IsOutgoing(x, tx)
      BY Zenon, <2>2, <2>3 DEF Replayable
    <3>2. PICK p \in To[tx.msg] : e = Original(tx.msg, p, tx.ratchets[p].previous)
      BY Zenon, <1>3, <3>1 DEF IsOutgoing
    <3>3. e.msg = tx.msg /\ From[e.msg] = x
      BY Zenon, <3>1, <3>2 DEF Original, IsOutgoing
    <3>4. CASE journal[x] = <<>>
      <4>1. tx.msg \in sent[x]
        BY Zenon, <2>2, <2>3, <3>4 DEF Replayable, Past
      <4> QED
        BY Zenon, <3>3, <4>1 DEF Known
    <3>5. CASE journal[x] # <<>>
      <4>1. w = journal[x]
        BY Zenon, <3>5 DEF OnePending, Possible
      <4> QED
        BY Zenon, <2>3, <3>3, <4>1 DEF Known, TxsOf
    <3> QED
      BY Zenon, <3>4, <3>5
  <2>4. CASE tx.type = "in"
    <3>1. e \in log[x]
      BY Zenon, <1>3, <2>2, <2>4 DEF Replayable, IsIncoming
    <3> QED
      BY Zenon, <1>2, <3>1
  <2> QED
    BY Zenon, <2>2, <2>3, <2>4 DEF Transactions
<1> QED
  BY Zenon, <1>1, <1>2, <1>3, OriginalsAre, OfferedIs

(* Whatever crashes, a host that repeats a request within seven days of its   *)
(* acceptance makes one message with one event per destination: two events of *)
(* one request are of one message unless one of the two was accepted seven    *)
(* days ago or earlier (DeliveryStore::request and begin, recover_next).      *)
THEOREM RequestsAcceptedOnce == Spec => []OneAcceptance
<1>1. ASSUME DeliveryInv, RequestInv PROVE OneAcceptance
  <2> SUFFICES ASSUME NEW e \in Originals, NEW f \in Originals
               PROVE  /\ e.msg = f.msg /\ e.dev = f.dev => e = f
                      /\ From[e.msg] = From[f.msg] /\ Request[e.msg] = Request[f.msg] =>
                             e.msg = f.msg \/ e.msg \in expired \/ f.msg \in expired
    BY Zenon DEF OneAcceptance
  <2>1. /\ e.msg \in Offered(From[e.msg]) /\ From[e.msg] \in Devices
        /\ f.msg \in Offered(From[f.msg])
    BY Zenon, <1>1, OriginalsOffered
  <2> QED
    BY Zenon, <1>1, <2>1 DEF DeliveryInv, OneCopy, RequestInv, RequestsOf
<1> QED
  BY <1>1, RequestInvHolds, PTL

(* Every journal that a crash can bring back holds at most one transaction,   *)
(* and recover_next can apply it: its ratchet transitions are not stale, its  *)
(* delivery has not completed and its request is not recorded for another     *)
(* message.                                                                   *)
THEOREM JournalsReplay == Spec => []ReplayApplies
<1>1. ASSUME DeliveryInv, RequestInv PROVE ReplayApplies
  <2> SUFFICES ASSUME NEW d \in Devices, NEW w \in Possible(d)
               PROVE  /\ Len(w) <= 1
                      /\ \A i \in DOMAIN w :
                          /\ \A p \in DOMAIN w[i].ratchets : Applies(session[d][p], w[i].ratchets[p])
                          /\ w[i].type = "out" => ~IsCompleted(d, Delivery(w[i]))
                                                  /\ NoConflict(d, w[i].msg)
    BY Zenon DEF ReplayApplies
  <2>1. \A i \in DOMAIN w : Replayable(d, w[i])
    BY Zenon, <1>1 DEF DeliveryInv, PendingInv, TxsOf
  <2>2. \A i \in DOMAIN w : w[i].type = "out" => NoConflict(d, w[i].msg)
    BY Zenon, <1>1 DEF RequestInv, RequestsOf, TxsOf
  <2> QED
    BY Zenon, <1>1, <2>1, <2>2 DEF DeliveryInv, OnePending, Replayable, IsCompleted, Delivery
<1> QED
  BY <1>1, RequestInvHolds, PTL

-----------------------------------------------------------------------------
(* The refinement of AbstractDelivery.                                     *)

\* The sets that a step leaves alone when it leaves their parts alone.
LEMMA AcceptedStays ==
    ASSUME \A x \in Devices : Offered(x)' = Offered(x)
    PROVE  Accepted' = Accepted
BY Zenon DEF Accepted

\* Likewise for what is stored.
LEMMA StoredStays ==
    ASSUME UNCHANGED received
    PROVE  Stored' = Stored
BY DEF Stored

\* Likewise for what is Delivered.
LEMMA DeliveredStays ==
    ASSUME UNCHANGED completed
    PROVE  Delivered' = Delivered
BY Zenon DEF Delivered

\* A new message is a new promise.
LEMMA EnqueueAccepts ==
    ASSUME DeliveryInv, NEW d \in Devices, NEW m \in Msgs, Enqueue(d, m)
    PROVE  /\ m \notin Accepted /\ Accepted' = Accepted \cup {m}
           /\ Stored' = Stored /\ Delivered' = Delivered
<1>1. m \notin Accepted
  BY EnqueueOffers, OfferedIs DEF Accepted
<1>2. Accepted' = Accepted \cup {m}
  <2>1. /\ \A x \in Devices \ {d} : Offered(x)' = Offered(x)
        /\ Offered(d)' = Offered(d) \cup {m}
    BY Zenon, EnqueueOffers
  <2> QED
    BY Zenon, <2>1 DEF Accepted
<1> QED
  BY Zenon, <1>1, <1>2, EnqueueOffers, StoredStays, DeliveredStays

\* An incoming transaction promises the host nothing.
LEMMA AcceptStutters ==
    ASSUME DeliveryInv, NEW d \in Devices, NEW e \in log[d], Accept(d, e)
    PROVE  Accepted' = Accepted /\ Stored' = Stored /\ Delivered' = Delivered
BY Zenon, AcceptOffers, AcceptedStays, StoredStays, DeliveredStays

\* Nor does dropping a journal or bringing one back.
LEMMA JournalStutters ==
    ASSUME DeliveryInv, NEW d \in Devices,
           (\E synced \in BOOLEAN : rewrite(d, synced))
               \/ (\E power \in BOOLEAN : \E w : Crash(d, w, power))
    PROVE  Accepted' = Accepted /\ Stored' = Stored /\ Delivered' = Delivered
BY Zenon, JournalOffers, AcceptedStays, StoredStays, DeliveredStays

\* Recording the plaintext of an incoming event stores it, unless a replay does.
LEMMA RecordStores ==
    ASSUME DeliveryInv, NEW d \in Devices, record_durable(d)
    PROVE  /\ Accepted' = Accepted /\ Delivered' = Delivered
           /\ \/ Stored' = Stored
              \/ \E m \in Accepted : d \in To[m] /\ Stored' = Stored \cup {<<m, d>>}
<1> USE DEF DeliveryInv
<1>1. /\ UNCHANGED <<outbox, journal>> /\ journal[d] # <<>>
  BY Zenon DEF record_durable, At
<1>2. /\ Tx(d) \in Transactions
      /\ journal[d] = <<Tx(d)>>
      /\ Possible(d) = {<<Tx(d)>>}
  BY Zenon, <1>1, JournalHead
<1>3. Replayable(d, Tx(d)) /\ TxsOf(journal[d]) = {Tx(d)}
  BY Zenon, <1>2, SingleJournal DEF PendingInv
<1>4. Delivered' = Delivered
  BY Zenon, <1>1, DeliveredStays DEF outbox
<1>5. CASE Tx(d).type = "out"
  <2>1. sent' = [sent EXCEPT ![d] = @ \cup {Tx(d).msg}] /\ received' = received
    BY Zenon, <1>5 DEF record_durable
  <2>2. \A x \in Devices \ {d} : Offered(x)' = Offered(x)
    BY Zenon, <1>1, <2>1 DEF Offered, PendingOut, TypeInv
  <2>3. Offered(d)' = Offered(d)
    BY Zenon, <1>1, <1>3, <1>5, <2>1 DEF Offered, PendingOut, TypeInv
  <2> QED
    BY Zenon, <1>4, <2>1, <2>2, <2>3, AcceptedStays, StoredStays
<1>6. CASE Tx(d).type = "in"
  <2>1. received' = [received EXCEPT ![d] = @ \cup Tx(d).events] /\ sent' = sent
    BY Zenon, <1>6 DEF record_durable
  <2>2. Accepted' = Accepted
    BY Zenon, <1>1, <2>1, AcceptedStays DEF Offered, PendingOut
  <2>3. IsIncoming(d, Tx(d))
    BY Zenon, <1>3, <1>6 DEF Replayable
  <2>4. PICK e \in log[d] : e.kind = "dm" /\ e.dev = d /\ Tx(d).events = {e}
    BY Zenon, <2>3 DEF IsIncoming
  <2>5. Stored' = Stored \cup {<<e.msg, d>>}
    <3>1. received'[d] = received[d] \cup {e} /\ \A x \in Devices \ {d} : received'[x] = received[x]
      BY Zenon, <2>1, <2>4 DEF TypeInv
    <3> QED
      BY <3>1 DEF Stored
  <2>6. e.msg \in Accepted /\ d \in To[e.msg]
    <3>1. Accounted(e) /\ e.msg \in Msgs
      BY DEF LogInv, TypeInv, Events
    <3>2. d \in To[e.msg] /\ Known(From[e.msg], e.msg) /\ From[e.msg] \in Devices
      BY Zenon, <2>4, <3>1, DeliveryAssumption DEF Accounted
    <3> QED
      BY <3>2, OfferedIs DEF Accepted
  <2> QED
    BY Zenon, <1>4, <2>2, <2>5, <2>6
<1> QED
  BY Zenon, <1>2, <1>5, <1>6 DEF Transactions

\* A completed message that retires a destination stays Delivered.
LEMMA RetireStutters ==
    ASSUME TypeInv, NEW d \in Devices, NEW c \in completed[d], NEW e,
           completed' = [completed EXCEPT ![d] = (@ \ {c}) \cup {Retire(c, e)}]
    PROVE  Delivered' = Delivered
<1>1. Retire(c, e).msg = c.msg
  <2>1. c \in [msg : Msgs, events : SUBSET Events, remaining : SUBSET Events]
    BY Zenon DEF TypeInv
  <2> QED
    BY Zenon, <2>1 DEF Retire
<1>2. /\ completed'[d] = (completed[d] \ {c}) \cup {Retire(c, e)}
      /\ \A x \in Devices \ {d} : completed'[x] = completed[x]
  BY Zenon DEF TypeInv
<1>3. \A m : (\E y \in completed'[d] : y.msg = m) <=> (\E y \in completed[d] : y.msg = m)
  BY Zenon, <1>1, <1>2
<1> QED
  BY <1>2, <1>3 DEF Delivered

\* A receipt is proof that an eligible device stored the message.
LEMMA ConfirmDelivers ==
    ASSUME DeliveryInv, NEW d \in Devices, NEW r \in log[d], Confirm(d, r)
    PROVE  /\ Accepted' = Accepted /\ Stored' = Stored
           /\ \/ Delivered' = Delivered
              \/ \E m : /\ \E x \in Eligible[m] : <<m, x>> \in Stored
                        /\ Delivered' = Delivered \cup {m}
<1> USE DEF DeliveryInv
<1> DEFINE e == OriginalOf(r)
<1>1. /\ r.kind = "receipt" /\ mark_delivered_for(d, e)
      /\ UNCHANGED <<sent, received, journal>>
  BY Zenon DEF Confirm, projections
<1>2. Accepted' = Accepted /\ Stored' = Stored
  BY Zenon, <1>1, AcceptedStays, StoredStays DEF Offered, PendingOut
<1>3. /\ r.dev \in Eligible[r.msg] /\ e \in received[r.dev] /\ e.msg = r.msg
      /\ r.dev \in Devices
  <2>1. r \in Events /\ Accounted(r)
    BY Zenon DEF TypeInv, LogInv
  <2>2. e.msg = r.msg
    BY Zenon, <2>1 DEF OriginalOf, Events
  <2> QED
    BY Zenon, <1>1, <2>1, <2>2 DEF Accounted, Events
<1>4. <<r.msg, r.dev>> \in Stored
  BY <1>3 DEF Stored
<1> HIDE DEF e
<1>5. ASSUME NEW x \in messages[d], x.msg = e.msg,
             completed' = [completed EXCEPT ![d] = @ \cup
                 {[msg |-> x.msg, events |-> x.events, remaining |-> x.events \ {e}]}]
      PROVE  Delivered' = Delivered \cup {r.msg}
  <2> DEFINE c == [msg |-> x.msg, events |-> x.events, remaining |-> x.events \ {e}]
  <2>1. c.msg = r.msg
    BY Zenon, <1>3, <1>5
  <2>2. completed' = [completed EXCEPT ![d] = @ \cup {c}]
    BY Zenon, <1>5
  <2> HIDE DEF c
  <2>3. completed'[d] = completed[d] \cup {c} /\ \A y \in Devices \ {d} : completed'[y] = completed[y]
    BY Zenon, <2>2 DEF TypeInv
  <2> QED
    BY <2>1, <2>3 DEF Delivered
<1>6. ASSUME NEW c \in completed[d],
             completed' = [completed EXCEPT ![d] = (@ \ {c}) \cup {Retire(c, e)}]
      PROVE  Delivered' = Delivered
  BY ZenonT(30), <1>6, RetireStutters
<1>7. Delivered' = Delivered \/ Delivered' = Delivered \cup {r.msg}
  BY Zenon, <1>1, <1>5, <1>6 DEF mark_delivered_for, Entries
<1> QED
  BY Zenon, <1>2, <1>3, <1>4, <1>7

\* Every other step leaves all three alone.
LEMMA OtherStutters ==
    ASSUME DeliveryInv, NEW d \in Devices,
           \/ \E done : commit_prepared(d, done) \/ append_durable(d, done)
           \/ append_receipt(d) \/ install_record(d) \/ install_request(d)
           \/ sync_replacement(d) \/ StorageError(d)
           \/ \E e : Transfer(d, e) \/ finish_receipt(d, e) \/ retire_destination(d, e)
    PROVE  Accepted' = Accepted /\ Stored' = Stored /\ Delivered' = Delivered
<1>1. UNCHANGED <<sent, received, journal>>
  BY ZenonT(30) DEF commit_prepared, append_durable, append_receipt, install_record, install_request,
         sync_replacement, StorageError, Transfer, finish_receipt, retire_destination,
         projections, outbox
<1>2. Accepted' = Accepted /\ Stored' = Stored
  BY ZenonT(30), <1>1, AcceptedStays, StoredStays DEF Offered, PendingOut
<1>3. CASE \E e : retire_destination(d, e)
  BY ZenonT(30), <1>2, <1>3, RetireStutters DEF retire_destination, DeliveryInv
<1>4. CASE UNCHANGED completed
  BY Zenon, <1>2, <1>4, DeliveredStays
<1> QED
  BY ZenonT(30), <1>3, <1>4 DEF commit_prepared, append_durable, append_receipt, install_record,
         install_request, sync_replacement, StorageError, Transfer, finish_receipt, outbox

(* Seen from the host, the store, its journal, the recovery pass and the     *)
(* crashes are AbstractDelivery: a message is accepted once, stored by a     *)
(* destination only after that and Delivered only after an eligible device   *)
(* stored it, and nothing of it is taken back (DeliveryStore, recover_next,  *)
(* mark_delivered_for).                                                      *)
THEOREM PromiseKept == Spec => KeepsPromise
<1>1. Init => Promise!AInit
  <2> SUFFICES ASSUME Init PROVE Accepted = {} /\ Stored = {} /\ Delivered = {}
    BY Zenon DEF Promise!AInit
  <2>1. \A d \in Devices : Offered(d) = {} /\ received[d] = {} /\ completed[d] = {}
    BY Zenon, EmptyJournal DEF Init, Offered, PendingOut
  <2> QED
    BY Zenon, <2>1 DEF Accepted, Stored, Delivered
<1>2. DeliveryInv /\ [Next]_vars => [Promise!ANext]_<<Accepted, Stored, Delivered>>
  <2> SUFFICES ASSUME DeliveryInv, [Next]_vars
               PROVE  Promise!ANext \/ UNCHANGED <<Accepted, Stored, Delivered>>
    BY Zenon
  <2>1. CASE UNCHANGED vars
    BY ZenonT(30), <2>1, AcceptedStays, StoredStays, DeliveredStays DEF vars, Offered, PendingOut
  <2>2. ASSUME NEW d \in Devices, NEW m \in Msgs, Enqueue(d, m) PROVE Promise!ANext
    BY Zenon, <2>2, EnqueueAccepts DEF Promise!ANext, Promise!AAccept
  <2>3. ASSUME NEW d \in Devices, record_durable(d)
        PROVE  Promise!ANext \/ UNCHANGED <<Accepted, Stored, Delivered>>
    <3>1. CASE Stored' = Stored
      BY Zenon, <2>3, <3>1, RecordStores
    <3>2. CASE Stored' # Stored
      <4>1. PICK m \in Accepted : d \in To[m] /\ Stored' = Stored \cup {<<m, d>>}
        BY Zenon, <2>3, <3>2, RecordStores
      <4>2. <<m, d>> \in Stored' \ Stored
        BY Zenon, <3>2, <4>1
      <4>3. Promise!AStore(m, d)
        BY ZenonT(30), <2>3, <4>1, <4>2, RecordStores DEF Promise!AStore
      <4> QED
        BY Zenon, <4>2, <4>3 DEF Promise!ANext
    <3> QED
      BY Zenon, <3>1, <3>2
  <2>4. ASSUME NEW d \in Devices, NEW r \in log[d], Confirm(d, r)
        PROVE  Promise!ANext \/ UNCHANGED <<Accepted, Stored, Delivered>>
    <3>1. CASE Delivered' = Delivered
      BY Zenon, <2>4, <3>1, ConfirmDelivers
    <3>2. CASE Delivered' # Delivered
      <4>1. PICK m : /\ \E x \in Eligible[m] : <<m, x>> \in Stored
                     /\ Delivered' = Delivered \cup {m}
        BY Zenon, <2>4, <3>2, ConfirmDelivers
      <4>2. m \in Delivered' \ Delivered
        BY Zenon, <3>2, <4>1
      <4>3. Promise!ADeliver(m)
        BY Zenon, <2>4, <4>1, <4>2, ConfirmDelivers DEF Promise!ADeliver
      <4> QED
        BY Zenon, <4>2, <4>3 DEF Promise!ANext
    <3> QED
      BY Zenon, <3>1, <3>2
  <2>5. ASSUME NEW d \in Devices, Recover(d)
        PROVE  Promise!ANext \/ UNCHANGED <<Accepted, Stored, Delivered>>
    BY ZenonT(30), <2>3, <2>5, JournalStutters, OtherStutters DEF Recover
  <2>6. ASSUME NEW m, Expire(m) PROVE UNCHANGED <<Accepted, Stored, Delivered>>
    BY ZenonT(30), <2>6, AcceptedStays, StoredStays, DeliveredStays
       DEF Expire, projections, outbox, Offered, PendingOut
  <2> QED
    BY ZenonT(30), <2>1, <2>2, <2>4, <2>5, <2>6, AcceptStutters, JournalStutters, OtherStutters
       DEF Next
<1> QED
  BY <1>1, <1>2, DeliveryInvHolds, PTL DEF Spec, KeepsPromise, Promise!ASpec

=============================================================================
