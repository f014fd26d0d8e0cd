-------------------------- MODULE ChannelProjection --------------------------
(***************************************************************************)
(* How a device keeps the current state of a channel: the durable queue of *)
(* channels to prepare, project_step, which reduces the published order    *)
(* one event at a time into rows of that order's job, and the recovery     *)
(* turn, which publishes the result and retires the demand.                *)
(*                                                                         *)
(* Every caller of project_step and discover_step holds the log's mutex,   *)
(* so each call is one step here, and an append, another consumer or a     *)
(* crash falls between any two.  An order that is not ready takes the call *)
(* for itself (order_step).                                                *)
(***************************************************************************)
EXTENDS ChannelMembership

CONSTANTS
    Channel,        \* Channel[e]: the conversation of e
    OrderBudget,    \* OrderBudget[c]: iterations a call may spend on c's order
    MaxCrashes      \* bound on crashes

VARIABLES
    derived,    \* job -> rows of channel_legacy_scan and channel_projection_work
    channel,    \* the row of channel_current, or None
    unseen,     \* committed events are past the cursor of channel_source_scan
    queued,     \* whether channel_runtime_work has the channel
    resume,     \* the restarted node has not yet queued its current channels
    owed,       \* an append whose caller has yet to process the channel
    turn,       \* the recovery turn under way
    dropped,    \* a turn retired demand for events it had not seen
    crashes

channelVars == <<derived, channel>>
demandVars == <<unseen, queued, resume, owed, dropped>>
vars == <<log, job, current, derived, channel, unseen, queued, resume, owed,
          turn, dropped, crashes>>

Idle == [at |-> "idle", job |-> 0, source |-> 0]

Init ==
    /\ OrderInit
    /\ derived = <<>>
    /\ channel = None
    /\ unseen = FALSE /\ queued = FALSE /\ resume = FALSE /\ owed = FALSE
    /\ turn = Idle
    /\ dropped = FALSE
    /\ crashes = 0

\* The source fence: the job and revision a decision was prepared for are
\* still those of the published order.
require_source(j, source) ==
    /\ current = [job |-> j, source |-> source]
    /\ source = revision

Fresh == channel # None /\ require_source(channel.job, channel.source)

(***************************************************************************)
(* Events arrive, and discovery finds them.                                *)
(***************************************************************************)

\* A served round or a local send: the append commits and its caller then
\* processes the channel, unless the round fails after the append.
receive_event(e) ==
    /\ \A f \in Range(log) : Channel[f] = Channel[e]
    /\ append_with_gate(e)
    /\ owed' \in {owed, TRUE}
    /\ unseen' = TRUE
    /\ UNCHANGED <<channelVars, queued, resume, turn, dropped, crashes>>

\* A page of 128 committed headers: the histories here are shorter.  Discovery
\* queues a channel it knows, by a membership change in the page or by its row
\* in channel_current or channel_dirty; a channel starts with a membership
\* change, and has one of the rows from then on.
discover_step ==
    /\ unseen
    /\ unseen' = FALSE
    /\ queued' = TRUE
    /\ dropped' = FALSE
    /\ UNCHANGED <<orderVars, channelVars, resume, owed, turn, crashes>>

resume_current_channels_step ==
    /\ resume
    /\ resume' = FALSE
    /\ queued' = (queued \/ channel # None)
    /\ UNCHANGED <<orderVars, channelVars, unseen, owed, turn, dropped, crashes>>

(***************************************************************************)
(* project_step over a published order, one operator per early return.     *)
(***************************************************************************)
NewRows == [legacy |-> 0, rebuilding |-> FALSE, next |-> 0, reducer |-> new_reducer]
Rows == IF job.id \in DOMAIN derived THEN derived[job.id] ELSE NewRows
SetRows(r) == derived' = [j \in DOMAIN derived \cup {job.id} |->
                            IF j = job.id THEN r ELSE derived[j]]

Published == current # Unpublished
Current == channel # None /\ channel.job = job.id
                          /\ channel.source = current.source /\ channel.next = Len(job.rows)

\* Jobs whose rows nobody reads any more.
Retired == DOMAIN derived \ ({job.id} \cup IF channel = None THEN {} ELSE {channel.job})

already ==
    /\ Current
    /\ UNCHANGED <<derived, channel>>

\* The rows of one retired job go a page at a time; nobody reads them.
cleanup_generation ==
    /\ ~Current
    /\ \E old \in Retired :
        derived' = [j \in DOMAIN derived \ {old} |-> derived[j]]
    /\ UNCHANGED channel

\* Deletes the rows of the job a page at a time, with the flag kept until the
\* last one is gone: no other step of this job happens in between.
rebuild ==
    /\ ~Current /\ Retired = {} /\ Rows.rebuilding
    /\ SetRows([NewRows EXCEPT !.legacy = Rows.legacy])
    /\ UNCHANGED channel

prepare_legacy_departures_Again ==
    /\ ~Current /\ Retired = {} /\ ~Rows.rebuilding
    /\ Rows.legacy < Len(job.rows)
    /\ LET candidate == legacy_cut(job.rows[Rows.legacy + 1], job.rows)
       IN  /\ SetRows([Rows EXCEPT !.legacy = IF candidate THEN @ ELSE @ + 1,
                                   !.rebuilding = candidate])
           /\ channel' = IF candidate /\ channel # None /\ channel.job = job.id
                         THEN [channel EXCEPT !.source = -1] ELSE channel

\* The cut of a leave is replayed an ancestor at a time under a query of its
\* own, which no append changes: one step here.
prepare_legacy_departures ==
    /\ ~Current /\ Retired = {} /\ ~Rows.rebuilding
    /\ Rows.legacy < Len(job.rows)
    /\ LET candidate == legacy_cut(job.rows[Rows.legacy + 1], job.rows)
           restart == candidate /\ Rows.next > 0
       IN  /\ SetRows([Rows EXCEPT !.legacy = @ + 1, !.rebuilding = restart])
           /\ channel' = IF restart /\ channel # None /\ channel.job = job.id
                         THEN [channel EXCEPT !.source = -1] ELSE channel

reduce_header ==
    /\ ~Current /\ Retired = {} /\ ~Rows.rebuilding
    /\ Rows.legacy = Len(job.rows) /\ Rows.next < Len(job.rows)
    /\ SetRows([Rows EXCEPT !.next = @ + 1,
                            !.reducer = step(@, job.rows[Rows.next + 1])])
    /\ UNCHANGED channel

\* A ready reduction; it also queues a channel this device is or was in.
install_current ==
    /\ ~Current /\ Retired = {} /\ ~Rows.rebuilding
    /\ Rows.legacy = Len(job.rows) /\ Rows.next = Len(job.rows)
    /\ channel' = IF Rows.reducer.prior = None THEN channel
                  ELSE [job |-> job.id, source |-> current.source, next |-> Rows.next,
                        state |-> Rows.reducer.prior, known |-> Rows.reducer.known]
    /\ UNCHANGED derived

RECURSIVE order_iterations(_, _)
order_iterations(j, n) ==
    IF n = 0 \/ j.phase = "READY" THEN {j}
    ELSE IF j.phase = "OBSOLETE" THEN {advance(j)}
    ELSE UNION {order_iterations(k, n - 1) : k \in {advance(j)}}

\* One call: the job after as many iterations as the budget allows; a call that
\* replaces an obsolete job ends there.
order_step == \E j \in order_iterations(job, OrderBudget[Channel[log[1]]]) : commit_order(j)

\* What a call does that leaves the channel unprepared, and the two ways in
\* which one ends ready.
project_more ==
    \/ order_step /\ UNCHANGED channelVars
    \/ /\ Published
       /\ cleanup_generation \/ rebuild \/ prepare_legacy_departures \/ reduce_header
       /\ UNCHANGED orderVars

project_publish == Published /\ install_current /\ UNCHANGED orderVars
project_already == Published /\ already /\ UNCHANGED orderVars

(***************************************************************************)
(* The recovery turn, under the lock of the pending channels throughout,   *)
(* and the other callers of project_step.                                  *)
(***************************************************************************)
Turn(at) == [Idle EXCEPT !.at = at, !.source = revision]

turn_project ==
    /\ turn.at = "idle"
    /\ queued \/ owed
    /\ log # <<>>
    /\ queued' = TRUE
    /\ owed' = FALSE
    /\ \/ project_more /\ turn' = Idle
       \/ project_publish /\ turn' = Turn("published")
       \/ project_already /\ turn' = Turn("current")
    /\ dropped' = FALSE
    /\ UNCHANGED <<unseen, resume, crashes>>

\* install_current_channel_metadata after the step that published: the turn
\* ends, its allowance spent, unless there is nothing to install.
turn_published ==
    /\ turn.at = "published"
    /\ turn' = IF channel = None \/ ~channel.known THEN [turn EXCEPT !.at = "none"] ELSE Idle
    /\ UNCHANGED <<orderVars, channelVars, demandVars, crashes>>

\* install_current_channel_metadata and source_binding of a turn with nothing
\* left to project; a stale source is an error that ends the turn.
turn_bind ==
    /\ turn.at = "current"
    /\ turn' = IF channel = None \/ ~channel.known THEN [turn EXCEPT !.at = "none"]
               ELSE IF Fresh
                    THEN [at |-> "bound", job |-> channel.job, source |-> channel.source]
                    ELSE Idle
    /\ UNCHANGED <<orderVars, channelVars, demandVars, crashes>>

\* finish_runtime without a source to check: the channel is not this device's,
\* as far as the turn has seen.
finish_runtime_none ==
    /\ turn.at = "none"
    /\ queued' = FALSE
    /\ dropped' = (turn.source # revision)
    /\ turn' = Idle
    /\ UNCHANGED <<orderVars, channelVars, unseen, resume, owed, crashes>>

check_source_Unfenced == TRUE

check_source ==
    /\ channel # None /\ channel.job = turn.job /\ channel.source = turn.source
    /\ require_source(turn.job, turn.source)

\* After the messages were opened.
finish_runtime ==
    /\ turn.at = "bound"
    /\ queued' = IF check_source THEN FALSE ELSE queued
    /\ turn' = Idle
    /\ UNCHANGED <<orderVars, channelVars, unseen, resume, owed, dropped, crashes>>

\* File reception, reactions, join history and local admission project the
\* channel for themselves, whatever turn is under way.
consumer_project ==
    /\ log # <<>>
    /\ \/ project_more /\ UNCHANGED queued
       \/ project_publish /\ queued' = (queued \/ Rows.reducer.known)
       \/ project_already /\ UNCHANGED queued
    /\ UNCHANGED <<unseen, resume, owed, turn, dropped, crashes>>

crash ==
    /\ crashes < MaxCrashes
    /\ crashes' = crashes + 1
    /\ turn' = Idle
    /\ owed' = FALSE
    /\ resume' = TRUE
    /\ UNCHANGED <<orderVars, channelVars, unseen, queued, dropped>>

Recovery ==
    \/ discover_step \/ resume_current_channels_step
    \/ turn_project \/ turn_published \/ turn_bind \/ finish_runtime \/ finish_runtime_none

Next ==
    \/ \E e \in Events : receive_event(e)
    \/ Recovery
    \/ consumer_project
    \/ crash

Spec == Init /\ [][Next]_vars

\* The recovery loop ticks, and each tick takes every one of these steps that
\* it can.
FairSpec ==
    /\ Spec
    /\ WF_vars(discover_step)
    /\ WF_vars(resume_current_channels_step)
    /\ WF_vars(turn_project)
    /\ WF_vars(turn_published \/ turn_bind \/ finish_runtime \/ finish_runtime_none)

(***************************************************************************)
(* What the projection promises.                                           *)
(***************************************************************************)

\* The canonical order of a parent-closed set of events, by its definition.
Canonical(S) ==
    LET Least(placed) ==
            CHOOSE e \in S \ Range(placed) :
                /\ Parents[e] \subseteq Range(placed)
                /\ \A f \in S \ Range(placed) :
                    Parents[f] \subseteq Range(placed) => Priority[e] <= Priority[f]
    IN  Iterate(LAMBDA placed, i : Append(placed, Least(placed)), <<>>,
                [i \in 1..Cardinality(S) |-> i])

(* The stored state of a channel is a function of the set of events it names  *)
(* as its source: the reduction of their canonical order.  Whatever order the *)
(* events came in, however often the order's job was replaced, extended or    *)
(* rebuilt under a half-done reduction, and wherever a crash fell, two        *)
(* devices that retain the same events agree on the channel.                  *)
CurrentIsReduction ==
    channel # None /\ channel.source # -1 =>
        LET r == reduce(Canonical(Range(SubSeq(log, 1, channel.source))))
        IN  channel.state = r.prior /\ channel.known = r.known

(* A member whose leave was applied is back only by a snapshot that knows of  *)
(* the leave: "concurrent stale owner snapshots cannot restore the member"    *)
(* (channel/model.rs).  It also holds of every reduction under way.           *)
DepartureSticks ==
    \A j \in DOMAIN derived :
        LET r == derived[j].reducer IN
        \A d \in r.departures :
            d.member \in r.prior.members =>
                \E e \in r.allowed :
                    /\ Ev[e].kind = "MembershipChange"
                    /\ d.member \in Ev[e].members
                    /\ descends(e, d.leave)

(* The facts of the acceptance cutoff, which are handed from parents to       *)
(* children one event at a time, say which events descend from the acceptance *)
(* of this device; a message after the acceptance is opened only if it does.  *)
AcceptanceCutoff ==
    \A j \in DOMAIN derived :
        LET r == derived[j].reducer
            ranked == SubSeq(job.rows, 1, derived[j].next)
        IN  j = job.id /\ r.prior # None /\ r.prior.accept # None =>
            \A i \in 1..Len(ranked) :
                /\ <<ranked[i], r.prior.accept>> \in r.after
                        <=> descends(ranked[i], r.prior.accept)
                /\ ranked[i] \in r.admitted
                    /\ (\E k \in 1..i : ranked[k] = r.prior.accept) =>
                        descends(ranked[i], r.prior.accept)

(* No demand is lost: once discovery has looked at every event, the channel   *)
(* is up to date, or in the durable queue, or the caller of an append or the  *)
(* restarted node is about to put it there.  The one way out is the finish of *)
(* a turn on a channel that is not this device's, which checks no source.     *)
NothingForgotten ==
    log # <<>> /\ ~unseen => Fresh \/ queued \/ owed \/ resume \/ dropped

(* When events stop coming, the channel's state becomes that of all of them,  *)
(* and the demand that drove it there is retired: the recovery loop does not  *)
(* come back to a prepared channel for ever.                                  *)
EventuallyCurrent == <>[](log # <<>> => (Fresh \/ dropped) /\ ~queued)
=============================================================================
