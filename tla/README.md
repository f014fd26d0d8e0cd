# A TLA+ verification of mesh-talk

mesh-talk is a local-first, server-less messenger.  Every device keeps its own
signed event log, opens the ciphertext it is entitled to, and exchanges events
with the devices and post offices it can reach.  The code under verification is
the Rust core, `src/crates/mesh-talk-core/src`; paths below are relative to it.

Contents: [the system](#the-system), [hazards](#what-makes-it-hard),
[modules](#modules), [runs](#runs), [findings](#findings), [proofs](#proofs),
[what is not modelled](#what-is-not-modelled), [where to go next](#where-to-go-next).

## The system

| part | state | operations | talks to |
|---|---|---|---|
| Event log (`eventlog/`) | events linked by parent ids; heads, sequence per author, clock | author, append, compact profiles | sync, every projection |
| Reconciliation (`node/session.rs`, `eventlog/sync.rs`) | per session: wire version, what was advertised, round count | request, answer, apply a frame, push, upgrade, complete | event log, transport |
| Sender-key ratchet of channels (`channel/sender_key.rs`) | sending key per epoch; receiving chain with buffered skipped keys | seal, open, install or refresh a distribution, checkpoint | delivery journal, channel reception |
| Channel receive scheduler (`node/channel/checkpoint/`) | causal order, projection cursor, receiver rows, pending and wake tables | reorder, project, select, open, commit; two lanes | event log, sender keys, transcript |
| Double Ratchet (`ratchet/`, `node/dm_ratchet.rs`) | root key, two chains, skipped keys | encrypt, decrypt, bootstrap, tie-break | delivery |
| Direct-message delivery (`node/delivery_store.rs`, `node/dm.rs`) | journal, outbox, sessions, transcripts, receipts | accept a request, recover, receive, confirm, retire | event log, ratchet, record log |
| Record log (`storage/record_log.rs`) | an append-only encrypted file, rollback boundary | create, load, append, durable append, replace, recover a failed append | every sidecar store |
| Causal order (`eventlog/repository/order/`) | order job: work rows, ranks; the published order | seed, rank, drain, catch up, publish, retire | event log, every channel projection |
| Channel membership (`channel/model.rs`, `node/channel/projection_facts.rs`) | members, epoch, owner, name, invitations, departures | snapshot, leave, rename, transfer, accept, dissolve | causal order |
| Channel projection (`node/channel/checkpoint/replay.rs`, `work.rs`, `node/serving.rs`) | projection rows per job, current channel, durable queue of demand | discover, project, publish, bind, finish, resume | causal order, membership, receive scheduler |
| Session pool (`node/session_pool.rs`) | authentication gates, permits, idle connections | admit, acquire, recycle, retire | transport, sync |
| Post office and federation (`postoffice/`) | mailboxes, arrivals, recency | accept, evict, expire, exchange inventories | event log, sync |
| Profile storage (`storage/profile/`) | SQLite profile, migration phases | freeze, import, verify, publish, clean up | event log, post office |
| Repository queues (`eventlog/repository/`) | scan cursors, pending tickets, maintenance work | discover, select, complete, retire | event log, delivery |
| Discovery (`discovery/`) | bounded roster of peers and routes | announce, observe, stage, evict | session pool |
| Identity, accounts, transitions (`identity/`, `node/account_*`) | keys, certificates, account documents | log in, link, adopt, sync documents | everything that signs |
| Transport (`transport/`) | Noise channel | handshake, send, receive | session pool |
| Files and media, message actions, privacy routes, recovery, search | projections and blobs | transfer, recall, react, route, archive | transcript |
| Runtime, host, user interface, tools | tasks and sessions | start, stop, present | everything |

Two paths carry the product's promises.  A **direct message** is accepted into
the delivery journal, sealed by the Double Ratchet, appended to the log, carried
by reconciliation, opened once at each destination and confirmed by a signed
receipt.  A **channel message** is sealed by the author's sender key, journalled
and recovered in the same way, and then opened by each member's receive
scheduler, which may have to wait for the key.  Both rest on the event log, its
reconciliation, the causal order from which every device derives the same channel,
the connections the session pool admits, and the record log under the stores.  Those
parts are modelled; the rest is listed under [what is not
modelled](#what-is-not-modelled).

## What makes it hard

`PROJECT.json` lists each hazard at its source line.  In short:

* a crash between the journal, the key row, the events and the key in memory must
  neither reuse a key nor lose an accepted message;
* a rename that was not synced brings an old journal or log back;
* messages arrive late, twice, in any order or never, and skipped keys are bounded;
* two lanes and an append race on one receiver row, with work prepared under a
  lock and committed after it;
* two devices initiate a ratchet session at once;
* an order that is computed in bounded pieces, while events are appended between any
  two of them, must be the order every other device computes;
* the membership a device stores is derived from that order, restarted when a departure
  surfaces late, and driven by a queue whose entries are retired by stale consumers;
* dials, inbound connections and idle channels compete for permits, with wake-ups that
  can be missed and capacity that is inspected before it is taken;
* compaction removes events that a concurrent reconciliation may be about to name;
* counters end (u32 positions, u64 clocks) and must refuse rather than wrap;
* everything accepted, pending or unsynchronised must make progress.

## Modules

Every module's header says which files it translates, and `PROJECT.json` maps each
definition to its lines.  Definitions that model a function carry its name.
Definitions named `X_Something` are deliberately wrong variants of `X` used to
confirm that a property can fail; no specification uses them.

**`SenderKey`** — `channel/sender_key.rs` and its checkpoint codec as pure operators.
Keys are symbolic: a chain key is its seed and the number of steps taken, so a key
that does not belong to its position is expressible.  `message_key` is given in closed
form; `MCChannelKeys` also writes the loop of the code and compares the two.

**`ChannelKeys`** — one author's chain and the devices that follow it.  `Send` journals
a prepared transaction; `RecoverSenders`, `RecoverEvents`, `RecoverRetire` are the
steps of `recover_next` in the order of the code, `RewriteFails` its error path,
`Crash` the loss of memory.  Receivers install rotations (first wins), open messages
in any order, and apply receive-only snapshots of siblings whenever they arrive.

**`ChannelReception`** — the receive scheduler of one channel on one device: the
projector (`Reorder`, `ProjectRow`, `install_current`), the message lane (`Start`,
`Page`, `Body`, `Note`, `Commit`, `Committed`), the file lane (`FilePrepare`,
`FileCommit`), appends and crashes.  One SQLite transaction is one action.

**`DmDelivery`** — acceptance, the recovery pass stage by stage, reception, receipts
and the outbox, for several devices.  `onDisk` is the set of journals that a power
loss can leave, because a journal rewrite is a rename whose directory may not be
synced yet.  Every entry point of the code recovers first; `Recovered` is that guard.
The ratchet is reduced to positions and to which end began it: when both did, the lower
user id keeps its session and can never open what the other sealed on its initial chain.
A request record answers for its message for seven days; `Expire` is the passing of that
time, after which the same request makes a new message, as the host documentation says.

**`AbstractDelivery`** — what delivery promises a host; `DmDelivery` implements it
(`KeepsPromise`, checked by TLC and proved in general).

**`DoubleRatchet`** and **`DmSession`** — the ratchet over symbolic keys, and two devices
that use it, with the tie-break of simultaneous initiation.  Every message ever sent
may arrive at any time, again and again.

**`EventLog`** — the log of one conversation at several nodes, with its three summaries.
A node may receive any signed event whose parents it has.

**`EventSync`** — sessions between nodes on top of `EventLog`: advertisement, one frame,
pushes, version upgrades, early ends, broken connections; frames are applied event by
event under the store lock while the rest of the world goes on.  It extends `EventLog`,
and every step of it is a step of `EventLog`'s specification or leaves the logs alone
(theorem `SyncRefinesLog`).

**`AuthenticationGate`** — the gate of each route in `node/session_pool.rs`: two queues of
tickets by priority, the flag that lets an ordinary dial pass after a control one, the
registry of weak references, and tokio's `Notify` (a waiter that is not enrolled when
`notify_waiters` runs misses it).

**`SessionPool`** — extends the gate with the dial path of `node/privacy_runtime.rs`, the
accept loop of `node/serving.rs` and inbound connections over four fair semaphores;
idle outbound channels are evicted and idle inbound ones are told to retire, one at a
time, when somebody waits.  Time limits may strike whenever they are armed.

**`CausalOrder`** — the persistent Kahn order: phases SEED, RUN, TAIL, READY, OBSOLETE of a
job, iteration by iteration, and the part of an append that extends or retires it.

**`ChannelMembership`** — what one event of that order does to a channel
(`MembershipReducer`, `ChannelState`), and the facts kept with it: which events carry
authority, who departed, what descends from this device's acceptance.

**`ChannelProjection`** — composes the two: `project_step` reduces the published order into
rows of its job, restarts when a departure is found that earlier rows did not know, and
publishes `channel_current`; discovery, the durable queue and the turn of the recovery
loop bring it about.

**`RecordLog`** — the record log on a disk that may fail any write or sync.  `disk` and
`old` are the contents a power loss can leave in the current file and behind renames
that were not synced.  Appends that were not synced survive as a prefix, whole or torn.

**`MC*`** modules give constants their values; **`*_proofs`** hold the theorems.

## Runs

States are distinct states.  Deadlock checking is off in the runs whose bounded
behaviours end (all messages sent, all events signed); `channel_keys` keeps it on,
because a receiver there can always be given a message again.

| run | instance | what it shows |
|---|---|---|
| `channel_keys` | 1 receiver, 7 sends, positions end at 6, jumps of 3, 2 buffered keys, 1 crash, 1 snapshot in flight; 167,696 states | no key seals two messages (`NoKeyReuse`); an epoch has one chain and it ends before the last position (`OneChainPerEpoch`); no position opens twice (`SingleUse`); buffer, queue and checkpoint codec agree (`BufferExact`); keys are dropped oldest first and only when full (`DropsOnlyOldest`); an accepted message reaches the log (`AcceptedReachesLog`) |
| `reception` | 5 events on one chain for both lanes, or 4 on a chain whose key comes last; 1 buffered key, 2 bodies, 3 pages, 1 rebuild, 1 crash; 135,127 states | each source is consumed once, exactly when it enters the transcript (`ExactlyOnce`); no lane overwrites the other's checkpoint (`ConsumedIsOpened`); plaintext is published only under current authority (`AuthorityFence`); what can be opened is opened in the end, unless a turn that was cut short held it (`UndroppedDrain`) |
| `reception_race` | 3 events, appends during a turn | **violation** of `PendingDrains`, see findings |
| `delivery` | 3 messages both ways between 2 devices, two of them by one request, 2 of the 3 with 2 crashes or power losses, or 1 message to 2 devices with 2 crashes, or with one and a storage error; 172,987 states | a position seals one message; a request repeated within seven days is one message (`OneAcceptance`); replay of a journal always applies; an opened plaintext is never lost; refinement of `AbstractDelivery` (`KeepsPromise`); Delivered in the end, unless given up to the tie-break (`EventuallyDelivered`) |
| `session` | 5 messages each way, jumps of 2, 2 skipped keys; 541,887 states | replays are refused (`ReplayRefused`); every message opens in any order except those lost to the tie-break or to distance (`AnyOrderOpens`) |
| `sync` | 2 nodes, 4 events, clocks end at 3, 1 event per frame, 1 pushed frame per round, 6 rounds; 582,447 states | the index is exact, no author reuses a sequence and clocks respect causality, compaction included (`IndexExact`, `NoEquivocation`, `ClocksCausal`); frames carry parents first; Complete means everything advertised was pulled and pushed, for a node that runs no other session (`DoneMeansConverged`); a session is never stuck on content |
| `sync_live` | sessions in both directions, 2 events of 2 wire versions, 3 rounds, 1 broken connection; 52,956 states | nothing is sent that the peer's version refuses (`VersionsAgree`); every content event reaches both nodes, although a session may complete early (`EventuallyEverywhere`) |
| `sync_rounds` | 2 events, 2 wire versions, 2 rounds | **violation** of `RoundsBounded`, see findings |
| `record_log` | 3 interchangeable records, 2 crashes; 78,528 states | durable records survive (`DurableSurvives`); what callers were told is what the file holds, batches are whole and failed appends stay out (`AnswersHold`) |
| `pool` | an ordinary and a control dial of one route, the accept loop, 2 inbound connections, 3 permits, 1 cancellation or loss; 128,517 states | one authentication per route (`OneAuthentication`); a free gate with waiters has woken its next (`NoLostHandoff`); permits and retirements have owners (`PermitsAccounted`); dials and the accept loop get their turn (`DialsAdmitted`, `SlotComesFree`) |
| `pool_race` | the same with 2 routes | **violation** of `IdleNeverBlocks`, see findings |
| `projection` | 3 channels of 4 or 5 events, of which a behaviour has one, 1 crash; 156,707 states | a published order is canonical (`PublishedCanonical`) and its job never corrupt (`OrderNeverCorrupt`); the stored channel is the reduction of that order (`CurrentIsReduction`); a departed member stays out until added again (`DepartureSticks`); facts about the acceptance are exact (`AcceptanceCutoff`); demand is not lost and ends (`NothingForgotten`, `EventuallyCurrent`) |

### Bounds and why they suffice

* *Keys.* Six positions with jumps of three and room for two skipped keys make every
  outcome of `message_key` happen: buffered, consumed, gap, exhausted, forward with and
  without eviction.  A snapshot can lie behind the chain, within reach and beyond it.
  One crash can fall at each step of a recovery; a second one adds no new durable state,
  since recovery starts over from the journal.
* *Reception.* Two chains: one with messages, a file and a snapshot that jumps a gap, so
  that both lanes compete; one whose key arrives last, so that messages wait and are woken.
  A behaviour has the events of one of them (`OneCase`): the chains share only the lane.
  With room for one skipped key, a second gap costs a waiting message its key.
* *Delivery.* Three messages give a session that seals, receives and seals again, that
  either end or both begin, and a request that is repeated before or after its seven days.
  With crashes two of the three are asked for: a repeated request, or a message each way.
  Two crashes bring an old journal back and cut its replay; the fan-out gives a
  transaction with two destinations that can be cut.  A behaviour has one of the
  workloads (`OneWorkload`).
* *Sessions.* With room for two keys, five messages reach the jump limit, the eviction and
  two turns of the ratchet.
* *Log and sync.* Four events give a profile, its successor, a message beside them and
  one more that is signed while a frame is on its way; with clocks and sequences that end
  at three, the last ones meet the limit.  One event per frame makes every transfer
  take several frames.  In `sync` hashes grow in the order of signing (`HashesInOrder`);
  ids only break ties.  Liveness is checked with sessions in both directions, where two
  events signed by one node are enough for a session to meet only duplicates and complete
  early while one event is missing; the second event needs the next wire version.  Two
  events leave nothing to compact, so compaction beside sessions is explored in `sync`.
* *Records.* Three records make a batch of two beside another record, and two crashes a
  crash during the repair of the first.  Records are interchangeable: symmetry is sound,
  as no record is named and no liveness is checked.
* *Pool.* Three permits, of which a direction may hold two, are the least with which both
  directions compete for the last one; two dials make one wait at the gate for the other.
  A channel that `recycle_channel` puts in the place of an older idle one of its route
  needs more permits: that case is left to the theorem `PermitsStayAccounted`.
* *Projection.* Each history is the smallest with its conflict: a leave concurrent with an
  owner's snapshot of the same epoch, and the return of the member; an acceptance
  concurrent with a message; a dissolution concurrent with a transfer,
  whose new owner adds this device.  Every order of arrival is explored.  Channel 1 spends one iteration of the order per call, so everything can fall
  between any two; in the others a call finishes the order, as the code's budgets allow.

### Fairness

Weak fairness only.  `ChannelKeys`: the steps of recovery, which every entry point and
every round of `node/delivery_runtime.rs` repeats while the process is up.
`ChannelReception`: the order worker, the projector and the reception loop, each a task
that loops.  `DmDelivery`: one condition per device, that its delivery loop keeps ticking
(`Tick`); which of the things a tick can do comes first is open.
`SessionPool`: a dial, the accept loop and the set of inbound connections go on when they
can, since their awaits have time limits.  `ChannelProjection`: discovery, the resumption
after a restart and the turns of the recovery loop.  `EventSync`: the
session's own steps and the application of a frame; a node keeps opening sessions.
Nothing is assumed fair that a peer or a user decides: sends, crashes, errors, breaks,
signing and compaction may or may not happen.

## Findings

**`reception_race`** — `node/channel/checkpoint/pending.rs:270`.  When the only eligible
message of a woken chain is the candidate the turn already holds, `retry_page` removes
the chain's wake row.  If an append makes that candidate's commit stale, the message
stays pending with no wake row, and no later turn selects it until another event of the
chain commits.  `serving.rs` promises to retry "with no reachable peer or new event".

**`sync_rounds`** — `node/session.rs:969`.  The round limit is compared by equality at the
end of an ordinary round.  A round that ends early in a version upgrade has counted
itself but returns before the comparison, so if it was the last permitted one the counter
passes the limit and no later round stops.  The constant is described as a "Backstop on
sync rounds for one conversation".

**`pool_race`** — `node/session_pool.rs:533`.  `acquire` makes room first
(`prepare_capacity` evicts an idle channel or asks an idle inbound connection to retire)
and polls its acquisition afterwards.  When the last free permit goes to somebody else in
between, the waiter queues behind an idle pooled channel, and only a change of the inbound
idle set, the channel's expiry or the waiter's own time limit lets it look again.  The
comment at line 479 says that "Idle connections must never prevent a new identity/route
or an incoming peer from making progress".  The wait is bounded, so `DialsAdmitted` and
`SlotComesFree` hold.

Met while modelling, and not findings:

* With sessions in *both* directions a session can complete early.  The other session
  brings the frame first, this one applies only duplicates, takes that for convergence,
  and completes.  `request_round` is said to converge the conversation "in both
  directions", and `DoneMeansConverged` says so of a requester that takes part in no other
  session.  The next session brings the rest, so in general the eventual convergence is
  the promise (`EventuallyEverywhere`, with sessions in both directions).
* Compaction can hold content back.  A responder that has not compacted sends superseded
  profiles first, oldest first; if they fill the frame, and the requester compacts after
  every frame, each round brings the same profiles again.  `EventuallyEverywhere` is
  stated for logs that come to have nothing left to compact.
* A turn of the recovery loop that finds a conversation is no channel of this device
  retires its demand without comparing the source it read.  An event appended meanwhile
  may be what makes it one; its demand is gone until the next event or the next start.
  `ChannelProjection` records such a loss in `dropped`, and `NothingForgotten` and
  `EventuallyCurrent` are stated for demand that was not lost this way.

## Proofs

TLAPS checks eight modules.  What is proved holds for all values of the constants that
satisfy the named assumptions: any number of devices, messages, events, crashes.

**`SenderKey_proofs`** — lemmas about one receiver's chain, which the next two modules use.
A chain is `Sound` when its key belongs to its position and its buffer is exact.  The loop
of `message_key` that buffers what a jump skips is `SkipTo`, in closed form; `Follows` is
its contract (which positions are kept, which dropped, what the chain key is then) and
`OpenSpends` its effect (which positions can no longer be opened).  The checkpoint codec
is shown to invert on every sound chain (`SoundForks`), and distributions and snapshots
to leave sound chains.

**`ChannelKeys_proofs`** — `KeyReuseImpossible: Spec => []NoKeyReuse`.  `NoKeyReuse` is not
inductive: a step must know that the durable row, the journal and the log are at most one
ratchet step apart.  `SenderInv` says so in three parts: keys are coherent (the step of
the chain key is the position), the journal's row is one step past the stored or live one
or equal to it, and every logged message lies below the stored position with the seed
of the row.  One lemma per action; receivers leave the author alone.
`OneChainAnnounced: Spec => []OneChainPerEpoch` adds `RotationInv`: the announcement in
the log or in the journal is that of the row.  The receivers have `ReceiverInv`: a chain
is the author's, its buffer is sound (every kept position has its key and one place in the
eviction order, no more than the bound), and what was opened lies behind the chain and
outside the buffer.  From it follow `PositionsOpenOnce: Spec => []SingleUse`,
`BuffersStayExact: Spec => []BufferExact` and `OnlyOldestDropped: Spec => DropsOnlyOldest`.

**`ChannelReception_proofs`** — `ReceivedOnce: Spec => []ExactlyOnce`,
`NothingConsumedUnread: Spec => []ConsumedIsOpened` and `PublishedUnderAuthority: Spec =>
AuthorityFence`.  What makes `ReceptionInv` inductive is what a private candidate remembers
of the durable rows.  A candidate whose revision a row still has is exactly one open ahead
of that row (`FromRow`), so publishing it spends its own position and what the cap costs,
nothing else; a turn's second candidate on a chain is one open ahead of the first
(`CandsOk`), so it fits the row the first will have left; and if a candidate's source is
still the source of the order, the projection has reached it (`Authorised`), so the fence
holds although appends and rebuilds fall between preparation and commit.  A step of the
other lane, of the projector or of the repository moves a row by one revision or not at
all (`RowsMove`), which outdates a candidate but never falsifies it.

**`DmDelivery_proofs`** — `PositionsSealedOnce`, `RequestsAcceptedOnce`, `JournalsReplay`
and `PlaintextsSurvive` (`Spec => []` of `PositionSealedOnce`, `OneAcceptance`,
`ReplayApplies`, `NoPlaintextLost`) and `PromiseKept`, the refinement of
`AbstractDelivery`.  None of the four is inductive.  `DeliveryInv` adds: a pending
transaction is alone and on disk (`OnePending`); every journal a crash can leave is
replayable, which says for each stage of the pass what is already durable, and so covers
an old journal that comes back (`PendingInv`); what is in a log lies below its author's
next position, belongs to a message its author has sent or has pending, and a receipt has
its recorded plaintext (`LogInv`); only sealed positions are opened (`OpenedInv`); whatever
the outbox and the transcript hold was asked for (`KnownInv`) and is one copy per
destination (`OneCopy`).  A second invariant on top, `RequestInv`, is about request ids: a
message that was sent is recorded under its request, pending or older than seven days;
the request is recorded before the journal is dropped; and two messages a device was
asked for under one request are the same unless one is older than that.  Acceptance is
the step that needs it, since `request` looks only at what is pending or recorded.  One
lemma per action, with a common lemma for each group of actions that leave the same
variables alone.  For the refinement, `OfferedIs` identifies what the host was promised
with the messages that are known, which neither a dropped nor a returning journal changes.

**`DmSession_proofs`** — `OpenedOnce: Spec => []ReplayRefused`.  `SessionInv` says of every
stored session that it is in order (`StateOk`) and has spent the key of every message it
opened (`Spent`).  A key is spent when the session cannot come to it again: its root is
shorter than the session's, it does not lie ahead on the receiving chain, and it is not
among the skipped keys.  A walk, an eviction and a turn of the DH ratchet keep that
(`SkipKeeps`, `TurnKeeps`), because roots and positions only grow and a walk stores only
keys that were not derived before.  Taking a skipped key spends it because each is kept
once; hence the place `ratchet_decrypt` removes is the only one with that key.  The
tie-break replaces only a session without a receiving chain, which has opened nothing.
The counters of a chain are naturals, so the theorem is about fewer than 2^32 messages.

**`EventSync_proofs`** — of the log: `SequencesUnique`, `LogConsistent`,
`ClocksRespectCausality`, from `LogInv`: types, exact summaries, exact frontier, closed
parents, and that a node's own counter covers all it ever signed. The interesting step is
compaction, which recomputes the counters: `SupersededIsLow` shows that what it drops is
never an author's highest sequence or the highest clock, and `CompactKeepsSummaries` that
no summary moves. Of the protocol: `SyncRefinesLog: SyncSpec => LogSpec` and, with the
theorems above, `SyncKeepsLogs`: sessions, whatever they carry and wherever they break,
cannot make an index inexact, a sequence reused or a clock acausal. Of what sessions
carry: `FramesApply: SyncSpec => []ParentsFirst`, `NothingUnsupported: SyncSpec =>
[]VersionsAgree` and `GivesUpOnProfilesOnly: SyncSpec => StuckOnlyOnProfiles`. They start
from the export: `ordered_ids` lists a causally closed log without repetition and parents
first, and what is cut from that list for a peer is grounded in what the peer advertised.
`SyncInv` carries that to the receiver. An advertisement stays below the peer's content, a
frame on its way or half applied finds each content parent in the log it is applied to or
earlier in the frame (`LinksSound`, `FramesSound`), and nothing signed later is a parent
of what was signed (`Extends`): so a frame stays applicable while both logs grow and are
compacted under it. It also fixes, for each place in a session, the versions of what is on
the wire, and that an answer after a push accounts for the push.

**`SessionPool_proofs`** — of the gate: `RouteAuthenticatesOnce` and `HandoffReachesWaiter`, from
`GateInv`: types, that the registry of a route leads to the gate every dial of the route
holds (`RegistryLeads`), that a lease is held by at most one dial of a gate
(`LeaseExclusive`), and that the dial whose turn it is has been woken or is not asleep.
Of semaphores: `Balanced` says that the permits of each kind
are free, owned or pooled and add up to the capacity, that nobody waits for a free one,
waits twice or waits for what it has; each operation (release, drop, abandon, acquire,
poll, drop of idle channels) keeps it, and gives permits only to those in line.
Of the pool: `PoolRefinesGate`: the dial path, timeouts and cancellations
included, uses the gates only by their operations, so both hold in the node
(`PoolAuthenticatesOnce`).  `PermitsStayAccounted: Spec => []PermitsAccounted`, from
`PoolInv` and `RetireInv`.  `PoolInv` is `Balanced` with, for each task, exactly the
permits its place in the code calls for (`Placed`, `ConnHolding`); only a task inside a
wait may hold part of what it wants, which is what a timeout or a cancellation must give
back.  `RetireInv` says that registered connections are distinct and wait, and that the
one told to retire is registered no more and keeps the token until its channel is gone.

**`Storage_proofs`** — of the record log: `DurableRecordsSurvive`, about records that
`append_durable` or `sync` acknowledged and no rewrite left out, and `CallersAreRight`,
by which a batch stored by replacement is whole or absent (the rename may be undone); both
from `RecordInv`, which adds to the promises and the types that the caller's index keeps
the same promises (a poisoned handle is cut back to it), that contents only hold records
that were passed in, and what a file without its header looks like. Of the order:
`PublishedIsCanonical: OrderSpec => []PublishedCanonical`. `OrderInv` has one part per
phase: how far the seeding is, that the ranks so far are the greedy ones of the base and a
degree counts the parents not drained yet (`RunInv`), that the tail follows the log
(`TailInv`), and that events past the base rank above everything before them (`LiveInv`),
which is why the tail may be copied. `OrderSpec` has one iteration per step; a call with a
larger budget is several steps in a row. `EngineNeverCorrupt: OrderSpec =>
[]OrderNeverCorrupt` rests on the same invariant. Its core is `SomeReady`: an acyclic base
with vertices left has a ready one, the undrained event of the lowest place in the log
(`LeastNat`: a set of naturals with a member has a least one).

Assumptions are the named `ASSUME`s of the modules (natural-number bounds, at least one
superseded profile per rewrite, wire versions up to the last, absent values that are no
values, two different devices of a session, channel events with a kind, a chain and a
position, finitely many parents, distinct priorities, a sender that is not its own
destination, distinct user ids, finitely many dials and connections and a task for every connection slot);
TLC evaluates them in the runs. Only model-checked: every liveness property, which is out
of the prover's reach; `AnyOrderOpens` of `DmSession`, which relates the two ratchets and
needs an invariant over all keys either side ever derived; `DoneMeansConverged`, which
compares what two logs held at different times; and `ChannelProjection` with
`ChannelMembership`, whose reduction is a fold over the order: the library's induction
theorems take an operator as a parameter, which the provers cannot instantiate, so it
would have to be a recursive function first. `ordered_ids` is one, and its lemmas go
through `Climb`, induction stated for a set of numbers.

## What is not modelled

* *Inside the modelled parts.*  Payloads, encodings of events and wall-clock times are
  values.  AEAD and key derivation are symbolic: a message opens exactly with the key that
  sealed it, and a signature verifies exactly for an event that was signed.  A SQLite
  transaction is atomic and durable.  A crash while the record log is
  being created may leave a blank file that `load` refuses; no promise exists before the
  first append, so the model only keeps it from being read as a log.  `EventLog` excludes
  peers of earlier releases that name a profile as a parent; compaction is one step.
  `DmSession` and `DmDelivery` give up the messages the higher device sealed as initiator
  when both initiate (`GivenUp`): such a message stays unconfirmed in its sender's outbox.
  `DmDelivery` has no skip limit, which `DmSession` has, so it is about peers that fall
  less than `MAX_SKIP` messages behind; its clock does not run back; and the sync of the
  outbox file and that of its directory are one step.  In the code a power loss between
  the two, after an earlier journal rename was left unsynced, would bring back a
  transaction whose delivery is already recorded as completed, which the replay refuses.
  `ChannelKeys` takes a distribution from the author's live chain, where
  `channel_account_maintenance.rs` reads the durable row.  `ChannelReception` has no
  malformed headers, and a commit that keeps no evidence and one that installs only the
  evidence are one case.  `CausalOrder` leaves out the compactions and retirements that
  make an order job obsolete (an append does so in the model).  `SessionPool` drops the
  registration and the channel of an idle connection in one step, and the gate clears
  `active` and notifies in one; only spurious wakes lie between.  `Compact` has no
  threshold of bytes, so it happens more often than in the code.
  `SessionPool` leaves out the bounded caches beside the permits (timings, cooldowns,
  affinities, scan cursors).  `ChannelMembership` knows devices, not accounts: the
  inheritance of membership by the devices of an account and the account authority are
  left out, and so are the activity rows beside the state.
* *Stores with questions of their own.*  Post office and federation, the receive queue,
  profile publication, the maintenance scan, the roster, account transitions and account
  documents.  The modelled parts meet them as peers that may hold events, as events that
  are offered again, or not at all.
* *Environment.*  Encrypted database and Noise transport.
* *Mostly cryptography, file work or presentation.*  Identity, files, message actions,
  bodies, privacy routes, recovery, search, binaries, host and user interface.

`PROJECT.json` gives the reason for each part.

## Where to go next

1. `PostOffice`, then `Federation`: arrivals before events, whole-mailbox retention,
   expiry, a crash between two files; theorem: the held set is causally closed.
2. `ReceiveQueue`: cursor, tickets and byte budget; every event is offered in bounded turns.
3. `Publication`: migration phases with a crash at each cut; both sources or none.
4. `Maintenance`: the paged scan that prepares a compaction, as a refinement of `Compact`.
5. Theorems: `AnyOrderOpens` of `DmSession`, `DoneMeansConverged` of `EventSync`.

The number of runs is kept small: a question that a theorem answers for all instances
gives way to the next one.
