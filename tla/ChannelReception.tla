--------------------------- MODULE ChannelReception ---------------------------
(***************************************************************************)
(* The durable receive scheduler of one channel on one device:             *)
(* node/channel/checkpoint.rs, its pending, replay and file_preview parts, *)
(* and the message lane of node/serving.rs that drives them.               *)
(*                                                                         *)
(* Three actors share one SQLite profile.  The projector walks the causal  *)
(* order of the retained events, installs receiver checkpoints and files   *)
(* every message as pending work.  The message lane selects pending        *)
(* messages, opens at most two of them privately, and commits them one     *)
(* transaction each.  The file lane does the same for file manifests on    *)
(* the very same receiver rows.  The log lock is held while a message turn *)
(* is prepared, not while it is committed, so appends, projection and file *)
(* commits fall between preparation and commit.                            *)
(***************************************************************************)
EXTENDS SenderKey

CONSTANTS
    Events,       \* events of the channel this device may come to retain
    Ev,           \* Ev[e]: kind, chain and position of event e
    Parents,      \* Parents[e]: events that precede e causally
    Bodies,       \* message bodies one invocation may open (64)
    Pages,        \* selector pages one invocation may read (64)
    MaxJobs,      \* bound on causal-order rebuilds
    MaxCrashes,   \* bound on process deaths
    None

ReceiverRow == [revision : Nat, key_revision : Nat, chain : ChainType]

ASSUME ReceptionAssumption ==
    /\ Bodies \in Nat \ {0}
    /\ Pages \in Nat \ {0}
    /\ \A e \in Events : Ev[e] \in [kind : {"message", "file", "rotation", "inheritance"},
                                   chain : Seeds, n : Position]
    /\ None \notin ReceiverRow

VARIABLES
    order,        \* event_order_current: job, source revision, rows
    proj,         \* channel_projection_work: job and next rank
    current,      \* channel_current: the source the projection has reached
    receivers,    \* channel_receivers, one row per chain
    pending,      \* channel_pending
    processed,    \* channel_processed
    retry,        \* channel_retry_chains rows of the message kind
    sched,        \* channel_pending_schedule row of the message kind
    transcript,   \* ReceivedStore: events in commit order
    lane,         \* the message lane's turn, in memory
    file,         \* the file lane's prepared candidate, in memory
    relinquished, \* history: positions a receiver never held a key for, or dropped
    dropped,      \* history: candidates of turns that were given up
    crashes

vars == <<order, proj, current, receivers, pending, processed, retry, sched,
          transcript, lane, file, relinquished, dropped, crashes>>
durable == <<order, proj, current, receivers, pending, processed, retry, sched,
             transcript, relinquished>>

Chains == Seeds
Kinds == {"message", "file"}
MaxOf(a, b) == IF a >= b THEN a ELSE b
Wire(e) == [seed |-> Ev[e].chain, step |-> Ev[e].n]
Skd(e) == [chain_key |-> Wire(e), n |-> Ev[e].n]
Retained == Elems(order.rows)

Idle == [pc |-> "idle", bodies |-> 0, pages |-> 0, cands |-> <<>>,
         ids |-> {}, more |-> FALSE, note |-> None]

Init ==
    /\ order = [job |-> 0, rev |-> 0, ready |-> TRUE, rows |-> <<>>]
    /\ proj = [job |-> 0, next |-> 0]
    /\ current = None
    /\ receivers = [c \in Chains |-> None]
    /\ pending = [e \in Events |-> None]
    /\ processed = {}
    /\ retry = [c \in Chains |-> None]
    /\ sched = [prefer_retry |-> FALSE, after |-> None]
    /\ transcript = <<>>
    /\ lane = Idle
    /\ file = None
    /\ relinquished = [c \in Chains |-> {}]
    /\ dropped = {}
    /\ crashes = 0

-----------------------------------------------------------------------------
(* The event repository and the source fence.                              *)

Source == [job |-> order.job, rev |-> order.rev]

\* Mutant: a turn prepared before an append is still accepted after it.
require_source_SameJob(src) == order.ready /\ src.job = order.job

require_source(src) == order.ready /\ src = Source

LogLocked == lane.pc \in {"page", "body", "note"}

\* An event that sorts last extends the ready order under the same job; any
\* other arrival makes the job obsolete until the order is rebuilt.
AppendEvent(e) ==
    /\ ~LogLocked
    /\ e \in Events \ Retained
    /\ Parents[e] \subseteq Retained
    /\ \E i \in 0..Len(order.rows) :
         LET rows == SubSeq(order.rows, 1, i) \o <<e>>
                       \o SubSeq(order.rows, i + 1, Len(order.rows))
             tail == i = Len(order.rows)
         IN  /\ Parents[e] \subseteq Elems(SubSeq(order.rows, 1, i))
             /\ tail \/ order.job < MaxJobs
             /\ order' = [order EXCEPT !.rev = @ + 1, !.rows = rows,
                                       !.ready = @ /\ tail]
    /\ UNCHANGED <<proj, current, receivers, pending, processed, retry, sched,
                   transcript, lane, file, relinquished, dropped, crashes>>

\* The order worker replaces the obsolete job by a new one over all events.
Reorder ==
    /\ ~LogLocked
    /\ ~order.ready
    /\ order' = [order EXCEPT !.job = @ + 1, !.ready = TRUE]
    /\ UNCHANGED <<proj, current, receivers, pending, processed, retry, sched,
                   transcript, lane, file, relinquished, dropped, crashes>>

-----------------------------------------------------------------------------
(* Receiver rows and the wake queue.                                       *)

wake_chain(c, rev, n) ==
    [retry EXCEPT ![c] = IF @ = None
                         THEN [rev |-> rev, n |-> n]
                         ELSE [rev |-> MaxOf(@.rev, rev), n |-> MaxOf(@.n, n)]]

\* Mutant: new key material arrives but waiting messages are not woken.
install_distribution_Silent(c, skd) ==
    IF receivers[c] # None
    THEN UNCHANGED <<receivers, retry, relinquished>>
    ELSE /\ receivers' = [receivers EXCEPT ![c] =
                            [revision |-> 0, key_revision |-> 0,
                             chain |-> from_distribution(skd)]]
         /\ retry' = retry
         /\ relinquished' = [relinquished EXCEPT ![c] = 0..(skd.n - 1)]

\* First wins: an old distribution cannot replace a checkpoint with holes.
install_distribution(c, skd) ==
    IF receivers[c] # None
    THEN UNCHANGED <<receivers, retry, relinquished>>
    ELSE /\ receivers' = [receivers EXCEPT ![c] =
                            [revision |-> 0, key_revision |-> 0,
                             chain |-> from_distribution(skd)]]
         /\ retry' = wake_chain(c, 0, skd.n)
         /\ relinquished' = [relinquished EXCEPT ![c] = 0..(skd.n - 1)]

refresh_distribution_on(c, skd) ==
    IF receivers[c] = None
    THEN install_distribution(c, skd)
    ELSE LET row  == receivers[c]
             next == refresh_distribution(row.chain, skd)
             key  == IF next = row.chain THEN row.key_revision ELSE row.key_revision + 1
         IN  /\ receivers' = [receivers EXCEPT ![c] =
                                IF next = row.chain THEN row
                                ELSE [revision |-> row.revision + 1,
                                      key_revision |-> key, chain |-> next]]
             /\ retry' = wake_chain(c, key, next.n)
             /\ relinquished' = [relinquished EXCEPT ![c] = @ \cup (row.chain.n..(next.n - 1))]

\* A row that is filed again keeps its reason unless another job attempted it.
Filed(e, ordinal) ==
    IF pending[e] = None
    THEN [ordinal |-> ordinal, reason |-> 0, job |-> None, key |-> 0, wake_at |-> 0]
    ELSE [pending[e] EXCEPT !.ordinal = ordinal,
            !.reason = IF pending[e].job \notin {None, order.job} THEN 0 ELSE @]

NextRank == IF proj.job = order.job THEN proj.next ELSE 0

\* One row of the causal order goes through the reducer.
ProjectRow ==
    /\ ~LogLocked
    /\ order.ready
    /\ NextRank < Len(order.rows)
    /\ proj' = [job |-> order.job, next |-> NextRank + 1]
    /\ LET e == order.rows[NextRank + 1]
           c == Ev[e].chain
       IN  \/ /\ Ev[e].kind \in Kinds
              /\ pending' = IF e \in processed THEN pending
                            ELSE [pending EXCEPT ![e] = Filed(e, NextRank)]
              /\ UNCHANGED <<receivers, retry, relinquished, processed>>
           \/ /\ Ev[e].kind = "rotation"
              /\ IF e \in processed THEN UNCHANGED <<receivers, retry, relinquished>>
                 ELSE install_distribution(c, Skd(e))
              /\ processed' = processed \cup {e}
              /\ UNCHANGED pending
           \/ /\ Ev[e].kind = "inheritance"
              /\ IF e \in processed THEN UNCHANGED <<receivers, retry, relinquished>>
                 ELSE refresh_distribution_on(c, Skd(e))
              /\ processed' = processed \cup {e}
              /\ UNCHANGED pending
    /\ UNCHANGED <<order, current, sched, transcript, lane, file, dropped, crashes>>

\* The last row done, the projection becomes the channel's current state.
install_current ==
    /\ ~LogLocked
    /\ order.ready
    /\ order.rows # <<>>
    /\ NextRank = Len(order.rows)
    /\ current # Source
    /\ current' = Source
    /\ UNCHANGED <<order, proj, receivers, pending, processed, retry, sched,
                   transcript, lane, file, relinquished, dropped, crashes>>

-----------------------------------------------------------------------------
(* Selection.  A page is one transaction over the pending rows.            *)

Before(e, f) ==
    LET key(x) == IF pending[x].reason = 1 THEN pending[x].key
                  ELSE IF pending[x].reason = 3 THEN pending[x].wake_at ELSE 0
    IN  \/ key(e) < key(f)
        \/ key(e) = key(f) /\ pending[e].ordinal <= pending[f].ordinal

First(ids) == CHOOSE e \in ids : \A f \in ids : Before(e, f)

Waiting(reason) ==
    {e \in Events : pending[e] # None /\ Ev[e].kind = "message" /\ pending[e].reason = reason}

\* Messages of chain c that its wake row makes eligible again: the ones
\* refused under older keys first, then the ones behind a gap now in reach.
Woken(c) ==
    LET refused == {e \in Waiting(1) : Ev[e].chain = c /\ pending[e].key < retry[c].rev}
        gap     == {e \in Waiting(3) : Ev[e].chain = c /\ pending[e].wake_at <= retry[c].n}
    IN  <<refused, gap>>

\* The wake rows are visited round robin.
RetryChain ==
    LET rows  == {c \in Chains : retry[c] # None}
        later == IF sched.after = None THEN rows ELSE {c \in rows : c > sched.after}
        from  == IF later = {} THEN rows ELSE later
    IN  IF rows = {} THEN None ELSE CHOOSE c \in from : \A d \in from : c <= d

\* retry_page: an exhausted wake row is retired.
retry_page(c, excluded) ==
    LET refused == Woken(c)[1] \ excluded
        ids     == IF refused # {} THEN refused ELSE Woken(c)[2] \ excluded
    IN  [ids |-> ids, more |-> TRUE,
         retry |-> IF ids = {} THEN [retry EXCEPT ![c] = None] ELSE retry,
         sched |-> [prefer_retry |-> FALSE, after |-> c]]

\* pending_page_excluding: new rows and wake rows take turns.
pending_page(excluded) ==
    LET fresh == Waiting(0) \ excluded
        c     == RetryChain
    IN  IF c # None /\ (sched.prefer_retry \/ fresh = {})
        THEN retry_page(c, excluded)
        ELSE [ids |-> fresh, more |-> fresh # {}, retry |-> retry,
              sched |-> [sched EXCEPT !.prefer_retry = @ \/ fresh # {}]]

-----------------------------------------------------------------------------
(* Preparation and commit of one event, shared by both lanes.              *)

Candidate(e, row, chain, src) ==
    [event |-> e, chain |-> Ev[e].chain, revision |-> row.revision,
     key_revision |-> row.key_revision, src |-> src, next |-> Opened(chain, Ev[e].n)]

\* Mutant: the candidate is published without comparing the row's revision.
Installable_NoCas(p) == require_source(p.src)

\* The event is new, and the candidate's authority and the row it was prepared
\* from are unchanged.
Installable(p) ==
    /\ p.event \notin processed
    /\ require_source(p.src)
    /\ receivers[p.chain].revision = p.revision

\* Mutant: the consumed event stays in the pending table.
install_receive_KeepsPending(p) ==
    /\ receivers' = [receivers EXCEPT ![p.chain] =
                        [revision |-> @.revision + 1, key_revision |-> @.key_revision,
                         chain |-> p.next]]
    /\ relinquished' = [relinquished EXCEPT ![p.chain] =
                           @ \cup Evicted(receivers[p.chain].chain, Ev[p.event].n)]
    /\ retry' = wake_chain(p.chain, p.key_revision, p.next.n)
    /\ processed' = processed \cup {p.event}
    /\ pending' = pending
    /\ transcript' = Append(transcript, p.event)

\* install_receive_on with the transcript row, in one transaction.
install_receive(p) ==
    /\ receivers' = [receivers EXCEPT ![p.chain] =
                        [revision |-> @.revision + 1, key_revision |-> @.key_revision,
                         chain |-> p.next]]
    /\ relinquished' = [relinquished EXCEPT ![p.chain] =
                           @ \cup Evicted(receivers[p.chain].chain, Ev[p.event].n)]
    /\ retry' = wake_chain(p.chain, p.key_revision, p.next.n)
    /\ processed' = processed \cup {p.event}
    /\ pending' = [pending EXCEPT ![p.event] = None]
    /\ transcript' = Append(transcript, p.event)

-----------------------------------------------------------------------------
(* The message lane: process_channel_reception_inner.                      *)

Exhausted == lane.bodies = 0 \/ lane.pages = 0

Private == {lane.cands[i].event : i \in 1..Len(lane.cands)}

\* The turn ends with its private candidates uncommitted.
GiveUp == lane' = Idle /\ dropped' = dropped \cup Private

Start ==
    /\ lane.pc = "idle"
    /\ current # None
    /\ require_source(current)
    /\ lane' = [Idle EXCEPT !.pc = "turn", !.bodies = Bodies, !.pages = Pages]
    /\ UNCHANGED <<durable, file, dropped, crashes>>

\* prepare_message_turn_with_budget reads the next page, or gives up the
\* turn when the budget is spent.
Page ==
    /\ lane.pc \in {"turn", "page"}
    /\ \/ /\ ~Exhausted /\ require_source(current)
          /\ LET page == pending_page(Private)
             IN  /\ retry' = page.retry
                 /\ sched' = page.sched
                 /\ lane' = [lane EXCEPT
                      !.pages = @ - 1, !.ids = page.ids, !.more = page.more,
                      !.pc = IF page.ids # {} THEN "body"
                             ELSE IF page.more THEN "page" ELSE "commit"]
          /\ UNCHANGED dropped
       \/ /\ Exhausted \/ ~require_source(current)
          /\ GiveUp
          /\ UNCHANGED <<retry, sched>>
    /\ UNCHANGED <<order, proj, current, receivers, pending, processed,
                   transcript, file, relinquished, crashes>>

\* The lane after the body of e: the rest of the page, or the next page.
After(e) ==
    [lane EXCEPT !.bodies = @ - 1, !.ids = @ \ {e},
                 !.pc = IF lane.ids = {e} THEN "page" ELSE "body"]

\* prepare_receive, following the turn's first candidate on its chain.
Body ==
    /\ lane.pc = "body"
    /\ LET e     == First(lane.ids)
           row   == receivers[Ev[e].chain]
           prior == {i \in 1..Len(lane.cands) : lane.cands[i].chain = Ev[e].chain}
           base  == IF prior = {} THEN row.chain ELSE lane.cands[1].next
           used  == IF prior = {} THEN row ELSE [row EXCEPT !.revision = @ + 1]
           gap   == KeyOutcome(base, Ev[e].n) = "gap"
           refuse(key, wake) ==
             [After(e) EXCEPT !.pc = "note",
                              !.note = [event |-> e, key |-> key, wake_at |-> wake]]
           stale == prior # {} /\ row # None /\ lane.cands[1].revision # row.revision
       IN  \/ (lane.bodies = 0 \/ stale) /\ GiveUp
           \/ /\ lane.bodies > 0 /\ ~stale
              /\ lane' =
                   IF row = None THEN refuse(-1, None)
                   ELSE IF ~Opens(base, Ev[e].n, Wire(e))
                   THEN refuse(row.key_revision,
                               IF gap THEN MaxOf(Ev[e].n - MAX_SKIP, 0) ELSE None)
                   ELSE [After(e) EXCEPT
                           !.cands = Append(@, Candidate(e, used, base, current)),
                           !.pc = IF Len(lane.cands) = 1 THEN "commit" ELSE @]
              /\ UNCHANGED dropped
    /\ UNCHANGED <<durable, file, crashes>>

\* note_attempt records why the event waits and what would wake it.
Note ==
    /\ lane.pc = "note"
    /\ pending' = [pending EXCEPT ![lane.note.event] =
           [@ EXCEPT !.job = order.job,
                     !.key = lane.note.key,
                     !.reason = IF lane.note.wake_at = None THEN 1 ELSE 3,
                     !.wake_at = IF lane.note.wake_at = None THEN 0 ELSE lane.note.wake_at]]
    /\ lane' = [lane EXCEPT !.note = None, !.pc = IF lane.ids = {} THEN "page" ELSE "body"]
    /\ UNCHANGED <<order, proj, current, receivers, processed, retry, sched,
                   transcript, file, relinquished, dropped, crashes>>

\* commit_reception of the next candidate; a failure drops the rest.
Commit ==
    /\ lane.pc = "commit"
    /\ lane.cands # <<>>
    /\ LET p == Head(lane.cands)
       IN  \/ /\ Installable(p)
              /\ install_receive(p)
              /\ lane' = [lane EXCEPT !.cands = Tail(@)]
              /\ UNCHANGED dropped
           \/ /\ ~Installable(p)
              /\ GiveUp
              /\ UNCHANGED <<receivers, retry, processed, pending, transcript, relinquished>>
    /\ UNCHANGED <<order, proj, current, sched, file, crashes>>

\* All candidates committed: another turn under the same budget, or done.
Committed ==
    /\ lane.pc = "commit"
    /\ lane.cands = <<>>
    /\ lane' = IF lane.more /\ ~Exhausted
               THEN [lane EXCEPT !.pc = "turn", !.ids = {}]
               ELSE Idle
    /\ UNCHANGED <<durable, file, dropped, crashes>>

-----------------------------------------------------------------------------
(* The file lane.  Which manifest it prepares next is left open; what it   *)
(* prepares and how it commits is the code shared with the message lane.   *)

FilePrepare(e) ==
    /\ file = None
    /\ Ev[e].kind = "file"
    /\ pending[e] # None
    /\ current # None
    /\ require_source(current)
    /\ receivers[Ev[e].chain] # None
    /\ LET row == receivers[Ev[e].chain]
       IN  /\ Opens(row.chain, Ev[e].n, Wire(e))
           /\ file' = Candidate(e, row, row.chain, current)
    /\ UNCHANGED <<durable, lane, dropped, crashes>>

FileCommit ==
    /\ file # None
    /\ file' = None
    /\ \/ Installable(file) /\ install_receive(file)
       \/ /\ ~Installable(file)
          /\ UNCHANGED <<receivers, retry, processed, pending, transcript, relinquished>>
    /\ UNCHANGED <<order, proj, current, sched, lane, dropped, crashes>>

\* Memory is lost; every transaction that committed stays.
Crash ==
    /\ crashes < MaxCrashes
    /\ crashes' = crashes + 1
    /\ GiveUp
    /\ file' = None
    /\ UNCHANGED durable

Next ==
    \/ \E e \in Events : AppendEvent(e) \/ FilePrepare(e)
    \/ Reorder \/ ProjectRow \/ install_current
    \/ Start \/ Page \/ Body \/ Note \/ Commit \/ Committed
    \/ FileCommit \/ Crash

Spec == Init /\ [][Next]_vars

\* The order worker, the projector and the reception loop keep running.
Fairness ==
    /\ WF_vars(Reorder) /\ WF_vars(ProjectRow) /\ WF_vars(install_current)
    /\ WF_vars(Start) /\ WF_vars(Page) /\ WF_vars(Body) /\ WF_vars(Note)
    /\ WF_vars(Commit) /\ WF_vars(Committed) /\ WF_vars(FileCommit)

FairSpec == Spec /\ Fairness
-----------------------------------------------------------------------------
(* Properties.                                                             *)

\* A message or a file card enters the transcript at most once, and exactly
\* when it leaves the pending table: whatever the two lanes, appends and
\* crashes do, install_receive_on consumes a source once.
ExactlyOnce ==
    /\ \A i, j \in 1..Len(transcript) : transcript[i] = transcript[j] => i = j
    /\ Elems(transcript) = {e \in processed : Ev[e].kind \in Kinds}
    /\ \A e \in processed : pending[e] = None

OpenedAt(c) == {Ev[e].n : e \in {x \in Elems(transcript) : Ev[x].chain = c}}

\* The positions a receiver row can no longer open are the ones it opened, the
\* ones it never had a key for and the ones the cap on buffered keys cost it: no
\* commit of one lane overwrites the checkpoint of the other, and none publishes
\* a key without its message.
ConsumedIsOpened ==
    \A c \in Chains :
      receivers[c] # None => Spent(receivers[c].chain) = OpenedAt(c) \cup relinquished[c]

\* Plaintext is only published under the authority of the channel state that
\* is current at that instant: a turn prepared before an append never commits
\* after it.
AuthorityFence ==
    [][transcript' # transcript => current = Source /\ order.ready]_vars

Openable(e) ==
    /\ pending[e] # None
    /\ receivers[Ev[e].chain] # None
    /\ Opens(receivers[Ev[e].chain].chain, Ev[e].n, Wire(e))

\* Every message that can be opened is opened in the end, with no further
\* event arriving: the reception loop drains the pending table.
PendingDrains ==
    <>[](\A e \in Events : Ev[e].kind = "message" => ~Openable(e))

\* The same for the messages no turn was given up on: a message is only left
\* behind when it was the private candidate of a turn that an append, another
\* lane's commit, the end of the budget or a crash cut short.
UndroppedDrain ==
    <>[](\A e \in Events \ dropped : Ev[e].kind = "message" => ~Openable(e))
===============================================================================
