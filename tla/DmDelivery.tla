----------------------------- MODULE DmDelivery -----------------------------
(***************************************************************************)
(* Direct-message delivery between devices: acceptance of a message into   *)
(* the write-ahead journal, the recovery pass that installs it, reception, *)
(* the signed receipt that travels back and the Delivered status           *)
(* (node/delivery_store.rs, node/delivery_runtime.rs, node/dm.rs,          *)
(* node/outgoing_message.rs, node/dm_ratchet.rs).                          *)
(*                                                                         *)
(* Every device keeps, on disk, its ratchet sessions, its event log, the   *)
(* sent and received transcripts, the outbox (messages, completed,         *)
(* receipts, completed_receipts, requests) and the journal.  A journal     *)
(* rewrite is a rename: until the directory is synced, a power loss may    *)
(* bring the previous file back, so onDisk[d] is the set of journals a     *)
(* power loss can leave.  The Double Ratchet is reduced to the positions a *)
(* session has sealed and opened; module DoubleRatchet models it.          *)
(***************************************************************************)
EXTENDS Integers, Sequences, FiniteSets

CONSTANTS
    Devices,
    Msgs,        \* the messages a host asks to send
    Request,     \* Request[m]: the request id m is sent under; a repeat has the same
    From,        \* From[m]: the device that sends m
    To,          \* To[m]: the devices m is fanned out to
    Eligible,    \* Eligible[m] \subseteq To[m]: those that owe a receipt
    UserId,      \* UserId[d]: the order of user ids, which breaks ties
    MaxCrashes,  \* bound: crashes in a behaviour
    MaxFaults    \* bound: storage errors in a behaviour

ASSUME DeliveryAssumption ==
    /\ From \in [Msgs -> Devices]
    /\ DOMAIN Request = Msgs
    /\ UserId \in [Devices -> Nat]
    /\ \A d, p \in Devices : UserId[d] = UserId[p] => d = p
    /\ To \in [Msgs -> SUBSET Devices]
    /\ Eligible \in [Msgs -> SUBSET Devices]
    /\ \A m \in Msgs : /\ Eligible[m] \subseteq To[m]
                       /\ From[m] \notin To[m]
    /\ MaxCrashes \in Nat
    /\ MaxFaults \in Nat

VARIABLES
    session,    \* session[d][p]: the durable ratchet session of d with p
    log,        \* log[d]: the event log of d
    sent,       \* sent[d]: the sent transcript
    received,   \* received[d]: original events whose plaintext is recorded
    messages,   \* messages[d]: outbox, accepted and not yet confirmed
    completed,  \* completed[d]: outbox, confirmed, with what is left to carry
    receipts,   \* receipts[d]: outbox, receipts still to carry
    finished,   \* finished[d]: completed_receipts
    requests,   \* requests[d]: messages whose request is recorded in the outbox
    journal,    \* journal[d]: pending transactions, in memory and in the file
    onDisk,     \* onDisk[d]: journals a power loss can leave
    needsSync,  \* needsSync[d]: the last replacement is not known durable
    stage,      \* stage[d]: how far the recovery pass of journal[d][1] is
    expired,    \* messages accepted seven days ago or earlier
    crashes,    \* crashes so far
    faults      \* storage errors so far

vars == <<session, log, sent, received, messages, completed, receipts, finished,
          requests, journal, onDisk, needsSync, stage, expired, crashes, faults>>

\* The original event of message m for device p, sealed from session s of the
\* sender with p, and the receipt p signs for it.  Until a session has opened
\* something it seals on the chain its initiator starts from.
Original(m, p, s) ==
    [kind |-> "dm", msg |-> m, dev |-> p, pos |-> s.sent, initial |-> s.opened = {}]
Receipt(e) == [e EXCEPT !.kind = "receipt"]
OriginalOf(r) == [r EXCEPT !.kind = "dm"]

AuthorOf(e) == IF e.kind = "dm" THEN From[e.msg] ELSE e.dev
ReaderOf(e) == IF e.kind = "dm" THEN e.dev ELSE From[e.msg]

NewSession == [sent |-> 0, opened |-> {}, initiator |-> FALSE]

-----------------------------------------------------------------------------
(* The ratchet, as the journal sees it: a prepared transition names the    *)
(* session it was computed from and the session it leads to.               *)

\* The first to seal is the initiator; opening an initial chain makes a responder.
Sealed(s) == [s EXCEPT !.sent = @ + 1, !.initiator = @ \/ s.opened = {}]
Opened(s, e) == [s EXCEPT !.opened = @ \cup {e.pos}, !.initiator = @ /\ ~e.initial]

\* Mutant: the prepared session is not the advanced one.
prepare_encrypt_Unmoved(d, p) ==
    [previous |-> session[d][p], state |-> session[d][p]]

prepare_encrypt(d, p) ==
    [previous |-> session[d][p],
     state |-> Sealed(session[d][p])]

\* A position that was opened once never opens again.  When both ends started as
\* initiator, the lower user id keeps its session and can never open the initial
\* chain of the other, which becomes the responder unless it has opened something.
\* Bound: fewer than MAX_SKIP positions are skipped (DoubleRatchet has that limit).
Opens(d, e) ==
    LET p == AuthorOf(e)
        s == session[d][p]
    IN  /\ e.pos \notin s.opened
        /\ e.initial /\ s.initiator => s.opened = {} /\ UserId[p] < UserId[d]

prepare_decrypt(d, e) ==
    LET p == AuthorOf(e)
    IN  [previous |-> session[d][p], state |-> Opened(session[d][p], e)]

\* A transition applies when it is already there or starts where the session is;
\* anything else is refused as stale.
Applies(current, prepared) == current = prepared.state \/ current = prepared.previous

-----------------------------------------------------------------------------
(* Transactions *)

Outgoing(d, m) ==
    [type |-> "out", msg |-> m,
     events |-> {Original(m, p, session[d][p]) : p \in To[m]},
     ratchets |-> [p \in To[m] |-> prepare_encrypt(d, p)]]

\* The receipt is prepared only for a sender that expects one.
Incoming(d, e) ==
    [type |-> "in", msg |-> e.msg, events |-> {e},
     ratchets |-> [p \in {From[e.msg]} |-> prepare_decrypt(d, e)]]

ReceiptsOf(tx) ==
    IF tx.type = "in"
    THEN {Receipt(e) : e \in {x \in tx.events : x.dev \in Eligible[x.msg]}}
    ELSE {}

\* Mutants: the receipt is appended before the plaintext; no outbox record; no
\* request record.
NextStage_ReceiptFirst(s) ==
    CASE s = "commit"  -> "append"
      [] s = "append"  -> "receipt"
      [] s = "receipt" -> "record"
      [] s = "record"  -> "install"
      [] s = "install" -> "request"
      [] s = "request" -> "rewrite"
      [] OTHER         -> "commit"

NextStage_NoInstall(s) ==
    CASE s = "commit"  -> "append"
      [] s = "append"  -> "record"
      [] s = "record"  -> "receipt"
      [] s = "receipt" -> "request"
      [] s = "request" -> "rewrite"
      [] OTHER         -> "commit"

NextStage_NoRequest(s) ==
    CASE s = "commit"  -> "append"
      [] s = "append"  -> "record"
      [] s = "record"  -> "receipt"
      [] s = "receipt" -> "install"
      [] s = "install" -> "rewrite"
      [] OTHER         -> "commit"

\* The recovery pass installs a transaction in this order.
NextStage(s) ==
    CASE s = "commit"  -> "append"
      [] s = "append"  -> "record"
      [] s = "record"  -> "receipt"
      [] s = "receipt" -> "install"
      [] s = "install" -> "request"
      [] s = "request" -> "rewrite"
      [] OTHER         -> "commit"

\* recover_delivery returned success: nothing is pending, the last replacement
\* of the journal is durable and no pass is under way.
Recovered(d) == journal[d] = <<>> /\ ~needsSync[d] /\ stage[d] = "commit"

\* Appending to a file of the directory syncs the directory as well.
DirectorySynced(d, w) == onDisk' = [onDisk EXCEPT ![d] = {w}]

-----------------------------------------------------------------------------
Init ==
    /\ session = [d \in Devices |-> [p \in Devices |-> NewSession]]
    /\ log = [d \in Devices |-> {}]
    /\ sent = [d \in Devices |-> {}]
    /\ received = [d \in Devices |-> {}]
    /\ messages = [d \in Devices |-> {}]
    /\ completed = [d \in Devices |-> {}]
    /\ receipts = [d \in Devices |-> {}]
    /\ finished = [d \in Devices |-> {}]
    /\ requests = [d \in Devices |-> {}]
    /\ journal = [d \in Devices |-> <<>>]
    /\ onDisk = [d \in Devices |-> {<<>>}]
    /\ needsSync = [d \in Devices |-> FALSE]
    /\ stage = [d \in Devices |-> "commit"]
    /\ expired = {}
    /\ crashes = 0
    /\ faults = 0

projections == <<session, log, sent, received>>
outbox == <<messages, completed, receipts, finished, requests>>
environment == <<expired, crashes, faults>>

\* DeliveryStore::begin: the transaction is appended durably, and from there on
\* it is accepted.
begin(d, tx) ==
    /\ journal' = [journal EXCEPT ![d] = Append(@, tx)]
    /\ DirectorySynced(d, Append(journal[d], tx))
    /\ UNCHANGED <<projections, outbox, needsSync, stage, environment>>

\* The messages of the transactions pending in a journal.
TxsOf(w) == {w[i] : i \in DOMAIN w}
PendingOut(d) == {tx.msg : tx \in {x \in TxsOf(journal[d]) : x.type = "out"}}

\* DeliveryStore::request: a pending or recorded transaction answers for the
\* request of m, if it was accepted less than seven days ago.
Requested(d, m) ==
    \E x \in requests[d] \cup PendingOut(d) : Request[x] = Request[m] /\ x \notin expired

\* A host asks for a new message m; its request may be one it sent before and
\* never heard the answer of.
Enqueue(d, m) ==
    /\ From[m] = d /\ m \notin sent[d]
    /\ ~Requested(d, m)
    /\ Recovered(d)
    /\ begin(d, Outgoing(d, m))

\* has_receipt_for
HasReceipt(d, e) == Receipt(e) \in receipts[d] \cup finished[d]

\* Mutant: an incoming transaction is appended without syncing the file.
Accept_Buffered(d, e) ==
    /\ Recovered(d)
    /\ e \in log[d] /\ e.kind = "dm" /\ ReaderOf(e) = d
    /\ e \notin received[d]
    /\ Opens(d, e)
    /\ d \in Eligible[e.msg] => ~HasReceipt(d, e)
    /\ journal' = [journal EXCEPT ![d] = Append(@, Incoming(d, e))]
    /\ onDisk' = [onDisk EXCEPT ![d] = @ \cup {Append(journal[d], Incoming(d, e))}]
    /\ UNCHANGED <<projections, outbox, needsSync, stage, environment>>

\* emit_new_messages offers every unprocessed event of the log again.
Accept(d, e) ==
    /\ Recovered(d)
    /\ e \in log[d] /\ e.kind = "dm" /\ ReaderOf(e) = d
    /\ e \notin received[d]
    /\ Opens(d, e)
    /\ d \in Eligible[e.msg] => ~HasReceipt(d, e)
    /\ begin(d, Incoming(d, e))

-----------------------------------------------------------------------------
(* recover_next: one transaction is installed step by step under the       *)
(* delivery lock.  A storage error ends the pass, and the next pass starts *)
(* again from the first step.                                              *)

Tx(d) == journal[d][1]

Advance(d, s, all) ==
    /\ IF all
       THEN stage' = [stage EXCEPT ![d] = NextStage(s)] /\ faults' = faults
       ELSE /\ faults < MaxFaults
            /\ stage' = [stage EXCEPT ![d] = "commit"]
            /\ faults' = faults + 1
    /\ UNCHANGED <<expired, crashes>>

At(d, s) == journal[d] # <<>> /\ stage[d] = s

\* Commit the prepared transitions; done holds the ones that reached the disk.
commit_prepared(d, done) ==
    /\ At(d, "commit") /\ ~needsSync[d]
    /\ \A p \in DOMAIN Tx(d).ratchets : Applies(session[d][p], Tx(d).ratchets[p])
    /\ done \subseteq DOMAIN Tx(d).ratchets
    /\ session' = [session EXCEPT ![d] =
                     [p \in Devices |-> IF p \in done THEN Tx(d).ratchets[p].state
                                                      ELSE @[p]]]
    /\ Advance(d, "commit", done = DOMAIN Tx(d).ratchets)
    /\ UNCHANGED <<log, sent, received, outbox, journal, onDisk, needsSync>>

\* Append the destination events, or the original event; done likewise.
append_durable(d, done) ==
    /\ At(d, "append")
    /\ done \subseteq Tx(d).events
    /\ log' = [log EXCEPT ![d] = @ \cup done]
    /\ Advance(d, "append", done = Tx(d).events)
    /\ UNCHANGED <<session, sent, received, outbox, journal, onDisk, needsSync>>

\* Record the plaintext in the sent or in the received transcript.
record_durable(d) ==
    /\ At(d, "record")
    /\ IF Tx(d).type = "out"
       THEN /\ sent' = [sent EXCEPT ![d] = @ \cup {Tx(d).msg}]
            /\ UNCHANGED received
       ELSE /\ received' = [received EXCEPT ![d] = @ \cup Tx(d).events]
            /\ UNCHANGED sent
    /\ Advance(d, "record", TRUE)
    /\ UNCHANGED <<session, log, outbox, journal, onDisk, needsSync>>

\* Append the receipt event.
append_receipt(d) ==
    /\ At(d, "receipt")
    /\ log' = [log EXCEPT ![d] = @ \cup ReceiptsOf(Tx(d))]
    /\ Advance(d, "receipt", TRUE)
    /\ UNCHANGED <<session, sent, received, outbox, journal, onDisk, needsSync>>

Delivery(tx) == [msg |-> tx.msg, events |-> tx.events]
IsCompleted(d, delivery) ==
    \E c \in completed[d] : c.msg = delivery.msg /\ c.events = delivery.events

\* Install the outbox record; a completed delivery cannot regress, and a
\* finished receipt is not queued again.
install_record(d) ==
    /\ At(d, "install")
    /\ IF Tx(d).type = "out"
       THEN /\ ~IsCompleted(d, Delivery(Tx(d)))
            /\ messages' = [messages EXCEPT ![d] = @ \cup
                              {x \in {Delivery(Tx(d))} : x.events # {}}]
            /\ UNCHANGED receipts
       ELSE /\ receipts' = [receipts EXCEPT ![d] =
                              @ \cup (ReceiptsOf(Tx(d)) \ finished[d])]
            /\ UNCHANGED messages
    /\ Advance(d, "install", TRUE)
    /\ UNCHANGED <<projections, completed, finished, requests, journal, onDisk, needsSync>>

\* The request of m is not recorded for another message within the window.
NoConflict(d, m) == \A x \in requests[d] : Request[x] = Request[m] => x = m \/ x \in expired

\* Record the request of an outgoing message; the records that have expired go.
install_request(d) ==
    /\ At(d, "request")
    /\ Tx(d).type = "out" => NoConflict(d, Tx(d).msg)
    /\ requests' = [requests EXCEPT ![d] =
          IF Tx(d).type = "out" THEN (@ \ expired) \cup {Tx(d).msg} ELSE @]
    /\ Advance(d, "request", TRUE)
    /\ UNCHANGED <<projections, messages, completed, receipts, finished, journal, onDisk,
                   needsSync>>

\* Drop the installed transaction.  The rename commits even when the directory
\* sync after it fails; then a power loss may bring the old journal back.
rewrite(d, synced) ==
    /\ At(d, "rewrite")
    /\ synced \/ faults < MaxFaults
    /\ journal' = [journal EXCEPT ![d] = Tail(@)]
    /\ onDisk' = [onDisk EXCEPT ![d] = IF synced THEN {journal'[d]} ELSE @ \cup {journal'[d]}]
    /\ needsSync' = [needsSync EXCEPT ![d] = ~synced]
    /\ stage' = [stage EXCEPT ![d] = NextStage("rewrite")]
    /\ faults' = faults + (IF synced THEN 0 ELSE 1)
    /\ UNCHANGED <<projections, outbox, expired, crashes>>

\* A step of the pass fails before it changed anything.
StorageError(d) ==
    /\ journal[d] # <<>> /\ stage[d] # "commit"
    /\ Advance(d, stage[d], FALSE)
    /\ UNCHANGED <<projections, outbox, journal, onDisk, needsSync>>

\* Every entry point retries the sync the last replacement lacks.
sync_replacement(d) ==
    /\ needsSync[d]
    /\ needsSync' = [needsSync EXCEPT ![d] = FALSE]
    /\ onDisk' = [onDisk EXCEPT ![d] = {journal[d]}]
    /\ UNCHANGED <<projections, outbox, journal, stage, environment>>

-----------------------------------------------------------------------------
(* Transport and confirmation *)

\* Log synchronisation, direct or through a relay, brings an event to the device
\* it is for; it may happen again, later or never.
Transfer(d, e) ==
    /\ e \in log[AuthorOf(e)] \ log[d]
    /\ ReaderOf(e) = d
    /\ log' = [log EXCEPT ![d] = @ \cup {e}]
    /\ UNCHANGED <<session, sent, received, outbox, journal, onDisk, needsSync, stage, environment>>

\* The outbox entry of message m that carries event e.
Entries(d, e) == {x \in messages[d] \cup completed[d] : x.msg = e.msg /\ e \in x.events}

Retire(c, e) == [c EXCEPT !.remaining = @ \ {e}]

\* mark_delivered_for: the first receipt completes the message and leaves the
\* other destinations to be carried, a later one retires its destination.
mark_delivered_for(d, e) ==
    \/ \E x \in Entries(d, e) \cap messages[d] :
         /\ e.dev \in Eligible[e.msg]
         /\ messages' = [messages EXCEPT ![d] = @ \ {x}]
         /\ completed' = [completed EXCEPT ![d] = @ \cup
               {[msg |-> x.msg, events |-> x.events, remaining |-> x.events \ {e}]}]
    \/ \E c \in Entries(d, e) \cap completed[d] :
         /\ e \in c.remaining
         /\ completed' = [completed EXCEPT ![d] = (@ \ {c}) \cup {Retire(c, e)}]
         /\ UNCHANGED messages

\* Mutant: a receipt is applied while a transaction is pending.
Confirm_WhilePending(d, r) ==
    /\ r \in log[d] /\ r.kind = "receipt" /\ ReaderOf(r) = d
    /\ stage[d] = "commit"
    /\ mark_delivered_for(d, OriginalOf(r))
    /\ DirectorySynced(d, journal[d])
    /\ UNCHANGED <<projections, receipts, finished, requests, journal, needsSync, stage, environment>>

\* process_delivery_control: an authentic receipt in the log.
Confirm(d, r) ==
    /\ r \in log[d] /\ r.kind = "receipt" /\ ReaderOf(r) = d
    /\ Recovered(d)
    /\ mark_delivered_for(d, OriginalOf(r))
    /\ DirectorySynced(d, journal[d])
    /\ UNCHANGED <<projections, receipts, finished, requests, journal, needsSync, stage, environment>>

\* The peer or a relay holds event e: a completed message needs it carried no
\* more.  Transport success alone never completes a message.
retire_destination(d, e) ==
    /\ Recovered(d)
    /\ \E c \in Entries(d, e) \cap completed[d] :
         /\ e \in c.remaining
         /\ completed' = [completed EXCEPT ![d] = (@ \ {c}) \cup {Retire(c, e)}]
    /\ DirectorySynced(d, journal[d])
    /\ UNCHANGED <<projections, messages, receipts, finished, requests, journal, needsSync,
                   stage, environment>>

\* The peer or a relay holds receipt r.
finish_receipt(d, r) ==
    /\ Recovered(d)
    /\ r \in receipts[d]
    /\ receipts' = [receipts EXCEPT ![d] = @ \ {r}]
    /\ finished' = [finished EXCEPT ![d] = @ \cup {r}]
    /\ DirectorySynced(d, journal[d])
    /\ UNCHANGED <<projections, messages, completed, requests, journal, needsSync, stage, environment>>

-----------------------------------------------------------------------------
\* The process ends and the store is opened again (open_paths).  After a power
\* loss the journal is any file the disk may hold.
Crash(d, w, power) ==
    /\ crashes < MaxCrashes
    /\ w \in (IF power THEN onDisk[d] ELSE {journal[d]})
    /\ journal' = [journal EXCEPT ![d] = w]
    /\ onDisk' = IF power THEN [onDisk EXCEPT ![d] = {w}] ELSE onDisk
    /\ needsSync' = [needsSync EXCEPT ![d] = FALSE]
    /\ stage' = [stage EXCEPT ![d] = "commit"]
    /\ crashes' = crashes + 1
    /\ UNCHANGED <<projections, outbox, expired, faults>>

\* Seven days have passed since m was accepted (the clock does not run back).
Expire(m) ==
    /\ m \in (sent[From[m]] \cup PendingOut(From[m])) \ expired
    /\ expired' = expired \cup {m}
    /\ UNCHANGED <<projections, outbox, journal, onDisk, needsSync, stage, crashes, faults>>

Recover(d) ==
    \/ \E done \in SUBSET Devices : commit_prepared(d, done)
    \/ journal[d] # <<>> /\ \E done \in SUBSET Tx(d).events : append_durable(d, done)
    \/ record_durable(d)
    \/ append_receipt(d)
    \/ install_record(d)
    \/ install_request(d)
    \/ \E synced \in BOOLEAN : rewrite(d, synced)
    \/ sync_replacement(d)

Next ==
    \/ \E m \in Msgs : Expire(m)
    \/ \E d \in Devices :
        \/ \E m \in Msgs : Enqueue(d, m)
        \/ \E e \in log[d] : Accept(d, e) \/ Confirm(d, e)
        \/ \E e \in log[d] : retire_destination(d, e) \/ finish_receipt(d, e)
        \/ \E p \in Devices : \E e \in log[p] : Transfer(d, e)
        \/ Recover(d)
        \/ StorageError(d)
        \/ \E power \in BOOLEAN : \E w \in onDisk[d] \cup {journal[d]} : Crash(d, w, power)

Spec == Init /\ [][Next]_vars

\* What the delivery loop of d does on a tick: it recovers, pulls control
\* conversations and queued events, offers unprocessed events again and applies
\* receipts.
Tick(d) ==
    \/ Recover(d)
    \/ \E p \in Devices : \E e \in log[p] : Transfer(d, e)
    \/ \E e \in log[d] : Accept(d, e) \/ Confirm(d, e)

\* The loop keeps ticking.  Which of the things it can do comes first is open.
Fairness == \A d \in Devices : WF_vars(Tick(d))

FairSpec == Spec /\ Fairness

-----------------------------------------------------------------------------
(* Properties *)

\* The transactions of d that a crash can still leave in the journal.
Possible(d) == onDisk[d] \cup {journal[d]}

\* Every original event there is, in a log or in a journal.
Originals ==
    {e \in UNION {log[d] : d \in Devices} : e.kind = "dm"}
        \cup UNION {UNION {tx.events : tx \in UNION {TxsOf(w) : w \in Possible(d)}} : d \in Devices}

\* A position of a sending session seals one message: the journal makes the
\* advanced session durable before the event can leave, and nothing is prepared
\* from a session a pending transaction is about to replace.
PositionSealedOnce ==
    \A e, f \in Originals :
        AuthorOf(e) = AuthorOf(f) /\ e.dev = f.dev /\ e.pos = f.pos => e = f

\* "Within the seven-day retained retry window, the same request returns the
\* original message": whatever crashed and however often the host repeats it, two
\* events of one request are of one message, sealed once for each destination,
\* unless one of the two was accepted seven days ago or earlier.
OneAcceptance ==
    \A e, f \in Originals :
        /\ e.msg = f.msg /\ e.dev = f.dev => e = f
        /\ From[e.msg] = From[f.msg] /\ Request[e.msg] = Request[f.msg] =>
               e.msg = f.msg \/ e.msg \in expired \/ f.msg \in expired

\* The replay of a transaction that a crash left in the journal always applies:
\* it is the only one, because every entry point recovers first, its ratchet
\* transitions are not stale, its delivery has not completed and its request is
\* not recorded for another message.
ReplayApplies ==
    \A d \in Devices : \A w \in Possible(d) : Len(w) <= 1 /\ \A i \in DOMAIN w :
        /\ \A p \in DOMAIN w[i].ratchets : Applies(session[d][p], w[i].ratchets[p])
        /\ w[i].type = "out" => ~IsCompleted(d, Delivery(w[i])) /\ NoConflict(d, w[i].msg)

\* Opening a message burns its key.  Until the plaintext is recorded, every
\* journal a crash can leave holds it: no plaintext is lost.
NoPlaintextLost ==
    \A e \in Originals : \A d \in Devices :
        e.dev = d /\ e.pos \in session[d][AuthorOf(e)].opened /\ e \notin received[d]
            => \A w \in Possible(d) : \E tx \in TxsOf(w) : tx.type = "in" /\ e \in tx.events

\* What the store and its journal show to the outside.
Offered(d) == sent[d] \cup PendingOut(d)
Accepted == UNION {Offered(d) : d \in Devices}
Stored == UNION {{<<e.msg, d>> : e \in received[d]} : d \in Devices}
Delivered == UNION {{c.msg : c \in completed[d]} : d \in Devices}

Promise == INSTANCE AbstractDelivery WITH
    accepted <- Accepted, stored <- Stored, delivered <- Delivered

\* A message is accepted once, stored by a destination only after that, and
\* reported Delivered only after an eligible device stored it; neither a crash
\* nor a replay takes any of it back (recover_next, mark_delivered_for).
KeepsPromise == Promise!ASpec

\* Event e lost the tie-break: both ends started as initiator, and the reader,
\* whose user id is the lower, will never open the initial chain of the other.
GivenUp(e) ==
    /\ e.initial /\ session[e.dev][From[e.msg]].initiator
    /\ UserId[e.dev] < UserId[From[e.msg]]

\* Once accepted, a message is eventually Delivered, unless each of its eligible
\* copies lost the tie-break of a simultaneous initiation (prepare_decrypt refuses
\* it for good): recovery, transport, reception and the receipt's way back all
\* complete.
EventuallyDelivered ==
    []<>(\A e \in Originals : e.dev \in Eligible[e.msg] /\ ~GivenUp(e) =>
            \E c \in completed[From[e.msg]] : c.msg = e.msg)
=============================================================================
