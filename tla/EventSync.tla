------------------------------ MODULE EventSync ------------------------------
(***************************************************************************)
(* Reconciliation of the event log over a secure channel (node/session.rs, *)
(* eventlog/sync.rs).  A requester repeats rounds: it advertises what it   *)
(* has, applies one frame of what it lacks, and pushes what the responder  *)
(* lacks.  Nodes go on signing, compacting and running other sessions      *)
(* between any two messages.  A node's store is locked while it applies a  *)
(* frame, event by event.                                                  *)
(***************************************************************************)
EXTENDS EventLog, Sequences, FiniteSetsExt, Functions

CONSTANTS
    Links,         \* pairs <<requester, responder>> that run sessions
    Level,         \* Level[kind]: the wire version from which a kind may be sent
    TopLevel,      \* the last wire version
    FrameMax,      \* events that fit one frame
    MaxFollowups,  \* frames a round may push
    MaxRounds,     \* MAX_SYNC_ROUNDS
    MaxAborts      \* bound: connections that break

ASSUME SyncAssumption ==
    /\ Links \subseteq Nodes \X Nodes
    /\ Level \in [Kinds \cup {Profile} -> 1 .. TopLevel]
    /\ {TopLevel, FrameMax, MaxFollowups, MaxRounds} \subseteq Nat \ {0}
    /\ MaxAborts \in Nat

VARIABLES
    session,  \* session[l]: SyncProgress of the requester, and where it stands
    wire,     \* wire[l]: messages on their way to the responder
    reply,    \* reply[l]: the responder's answer on its way back
    batch,    \* batch[n]: the frame node n is applying under its store lock
    aborts    \* connections broken so far

syncVars == <<session, wire, reply, batch, aborts>>

None == [type |-> "none"]
Fresh == [pc |-> "idle", level |-> 1, have |-> {}, rhave |-> {}, progress |-> FALSE,
          prev |-> {}, rounds |-> 0]

\* Mutant: a conversation that has completed once is not begun again.
Resting_Done == {"idle", "stuck", "failed"}

\* No session is under way: the next one begins with a fresh SyncProgress.
Resting == {"idle", "done", "stuck", "failed"}

Requester(l) == l[1]
Responder(l) == l[2]
Free(n) == batch[n] = None

SyncInit ==
    /\ LogInit
    /\ session = [l \in Links |-> Fresh]
    /\ wire = [l \in Links |-> <<>>]
    /\ reply = [l \in Links |-> None]
    /\ batch = [n \in Nodes |-> None]
    /\ aborts = 0

-----------------------------------------------------------------------------
\* The events of S that are ready when done is listed: their retained parents are.
Ready(S, done) == {e \in S \ done : \A p \in S : p.id \in e.parents => p \in done}

\* Mutant: the newest event is next, ready or not.
next_ready_Newest(S, done) ==
    CHOOSE e \in S \ done : \A f \in S \ done : e = f \/ Newer(e, f)

\* The ready event with the least clock and id.
next_ready(S, done) ==
    CHOOSE e \in Ready(S, done) : \A f \in Ready(S, done) : e = f \/ Newer(f, e)

\* order::ordered_ids, causal_events: repeatedly the next ready event.
ordered_ids(S) ==
    LET order[k \in 0 .. Cardinality(S)] ==
            IF k = 0 THEN <<>>
            ELSE Append(order[k - 1], next_ready(S, Range(order[k - 1])))
    IN  order[Cardinality(S)]

\* The events of q the peer does not have, in the order of q.
Lacking(q, have) ==
    LET kept[k \in 0 .. Len(q)] ==
            IF k = 0 THEN <<>>
            ELSE IF q[k] \in have THEN kept[k - 1] ELSE Append(kept[k - 1], q[k])
    IN  kept[Len(q)]

\* select_export_frames: the events the peer lacks, in causal order, cut into at
\* most so many frames.
select_export_frames(S, have, frames) ==
    LET unsent[q \in Seq(S)] == Lacking(q, have)
        lacking == unsent[ordered_ids(S)]
        count   == Min({Len(lacking), frames * FrameMax})
    IN  [i \in 1 .. (count + FrameMax - 1) \div FrameMax |->
            SubSeq(lacking, (i - 1) * FrameMax + 1, Min({i * FrameMax, count}))]

\* supports_event_kind: the version a set of events needs.
Required(S) == Max({1} \cup {Level[e.kind] : e \in S})

-----------------------------------------------------------------------------
\* SyncProgress::step_backend, phase 0: compare digests, when one is cached.
Probe(l) ==
    LET a == Requester(l)
        s == IF session[l].pc \in Resting THEN Fresh ELSE session[l]
        v == Max({s.level, Required(events[a])})
    IN  /\ session[l].pc \in Resting \cup {"start"}
        /\ Free(a)
        /\ \/ /\ session' = [session EXCEPT ![l] =
                    [s EXCEPT !.pc = "probe", !.level = v, !.have = events[a]]]
              /\ wire' = [wire EXCEPT ![l] =
                    Append(@, [type |-> "fp", level |-> v, have |-> events[a]])]
           \/ /\ session' = [session EXCEPT ![l] = [s EXCEPT !.pc = "round", !.level = v]]
              /\ UNCHANGED wire
        /\ UNCHANGED <<logVars, reply, batch, aborts>>

\* The request of a round, with the ids the requester has.
Request(l) ==
    LET a == Requester(l)
    IN  /\ session[l].pc = "round"
        /\ Free(a)
        /\ session' = [session EXCEPT ![l].pc = "wait", ![l].rounds = @ + 1, ![l].have = events[a]]
        /\ wire' = [wire EXCEPT ![l] =
              Append(@, [type |-> "request", level |-> session[l].level, have |-> events[a]])]
        /\ UNCHANGED <<logVars, reply, batch, aborts>>

\* Mutant: the responder answers in whatever version it is asked.
unsupported_metadata_Never(b, v) == FALSE

\* unsupported_metadata: the log of b needs a later version than v.
unsupported_metadata(b, v) == Required(events[b]) > v

\* serve_wire_backend for a probe or a request: an upgrade when the log needs a
\* later version, otherwise the comparison (there may be no cached digest), or
\* one frame and the ids the responder has.
Serve(l) ==
    LET b == Responder(l)
        m == wire[l][1]
        s == events[b]
        frames == select_export_frames(s, m.have, 1)
    IN  /\ wire[l] # <<>>
        /\ m.type \in {"fp", "request"}
        /\ Free(b)
        /\ wire' = [wire EXCEPT ![l] = Tail(@)]
        /\ \/ /\ unsupported_metadata(b, m.level)
              /\ reply' = [reply EXCEPT ![l] = [type |-> "upgrade"]]
           \/ /\ ~unsupported_metadata(b, m.level)
              /\ m.type = "fp"
              /\ \E matched \in {m.have = s, FALSE} :
                    reply' = [reply EXCEPT ![l] = [type |-> "fp", matched |-> matched]]
           \/ /\ ~unsupported_metadata(b, m.level)
              /\ m.type = "request"
              /\ reply' = [reply EXCEPT ![l] =
                    [type |-> "response", have |-> s,
                     events |-> IF frames = <<>> THEN <<>> ELSE frames[1]]]
        /\ UNCHANGED <<logVars, session, batch, aborts>>

\* The answer UpgradeRequired: start again one version up, unless there is none.
Upgrade(l) ==
    /\ session[l].pc \in {"probe", "wait"}
    /\ reply[l].type = "upgrade"
    /\ session' = [session EXCEPT ![l] =
          IF @.level < TopLevel THEN [@ EXCEPT !.pc = "start", !.level = session[l].level + 1]
                                ELSE [@ EXCEPT !.pc = "failed"]]
    /\ reply' = [reply EXCEPT ![l] = None]
    /\ UNCHANGED <<logVars, wire, batch, aborts>>

\* The answer to a probe: equal logs end the session.
Compared(l) ==
    /\ session[l].pc = "probe"
    /\ reply[l].type = "fp"
    /\ session' = [session EXCEPT ![l].pc = IF reply[l].matched THEN "done" ELSE "round"]
    /\ reply' = [reply EXCEPT ![l] = None]
    /\ UNCHANGED <<logVars, wire, batch, aborts>>

\* The response: refused when it holds a kind of a later version, otherwise its
\* events are applied under the lock.
Respond(l) ==
    LET a == Requester(l)
        m == reply[l]
    IN  /\ session[l].pc = "wait"
        /\ m.type = "response"
        /\ Free(a)
        /\ reply' = [reply EXCEPT ![l] = None]
        /\ IF Required(Range(m.events)) > session[l].level
           THEN /\ session' = [session EXCEPT ![l].pc = "failed"]
                /\ UNCHANGED batch
           ELSE /\ session' = [session EXCEPT ![l].pc = IF m.events = <<>> THEN "push" ELSE "apply",
                                              ![l].rhave = m.have, ![l].progress = FALSE]
                /\ batch' = [batch EXCEPT ![a] = IF m.events = <<>> THEN None
                                ELSE [type |-> "response", link |-> l, events |-> m.events]]
        /\ UNCHANGED <<logVars, wire, aborts>>

\* serve_wire_backend for a followup.
Followup(l) ==
    LET b == Responder(l)
        m == wire[l][1]
    IN  /\ wire[l] # <<>>
        /\ m.type = "followup"
        /\ Free(b)
        /\ IF Required(Range(m.events)) > m.level
           THEN /\ session' = [session EXCEPT ![l].pc = "failed"]
                /\ wire' = [wire EXCEPT ![l] = <<>>]
                /\ reply' = [reply EXCEPT ![l] = None]
                /\ UNCHANGED batch
           ELSE /\ wire' = [wire EXCEPT ![l] = Tail(@)]
                /\ batch' = [batch EXCEPT ![b] = IF m.events = <<>> THEN None
                                ELSE [type |-> "followup", link |-> l, events |-> m.events]]
                /\ UNCHANGED <<session, reply>>
        /\ UNCHANGED <<logVars, aborts>>

\* The store lock is released after the last event; a requester goes on to push.
Applied(n, applied) ==
    LET rest == Tail(batch[n].events)
        l    == batch[n].link
    IN  /\ batch' = [batch EXCEPT ![n] = IF rest = <<>> THEN None ELSE [@ EXCEPT !.events = rest]]
        /\ session' = IF batch[n].type = "followup" THEN session
                      ELSE [session EXCEPT ![l].pc = IF rest = <<>> THEN "push" ELSE @,
                                           ![l].progress = @ \/ applied]

\* apply_received_events: each event is appended, or skipped as a duplicate or
\* as rejected.
apply_received(n) ==
    LET e == batch[n].events[1]
    IN  /\ ~Free(n)
        /\ \/ /\ Ingest(n, e)
              /\ Applied(n, TRUE)
           \/ /\ ~(verify_signature(e) /\ validate(n, e))
              /\ Applied(n, FALSE)
              /\ UNCHANGED logVars
        /\ UNCHANGED <<wire, reply, aborts>>

\* Frames as followup messages, at least one.
Messages(frames, v) ==
    LET some == IF frames = <<>> THEN <<<<>>>> ELSE frames
    IN  [i \in 1 .. Len(some) |-> [type |-> "followup", level |-> v, events |-> some[i]]]

Sent(frames) == UNION {Range(frames[i]) : i \in 1 .. Len(frames)}

\* Mutant: a push is called stuck without looking for its effect.
no_progress_Hasty(s) == s.prev # {} /\ ~s.progress

\* Nothing was applied, and no event of the last push shows at the responder.
no_progress(s) == s.prev # {} /\ ~s.progress /\ s.prev \cap s.rhave = {}

\* Mutant: the session ends although this round brought something.
after_round_Pull(s, sent) ==
    IF sent = {} THEN "done" ELSE IF s.rounds = MaxRounds THEN "failed" ELSE "round"

\* Nothing moved in either direction, or too many rounds, or another round.
after_round(s, sent) ==
    IF ~s.progress /\ sent = {} THEN "done" ELSE IF s.rounds = MaxRounds THEN "failed" ELSE "round"

\* The rest of step_backend, on a fresh view of the log: select what the
\* responder lacks; start again when it needs a later version; give up when the
\* last push left no trace and nothing was applied; otherwise push, and end when
\* nothing moved in either direction.
Push(l) ==
    LET a == Requester(l)
        s == session[l]
        frames == select_export_frames(events[a], s.rhave, MaxFollowups)
        sent == Sent(frames)
    IN  /\ s.pc = "push"
        /\ Free(a)
        /\ \/ /\ Required(sent) > s.level
              /\ wire' = [wire EXCEPT ![l] = @ \o Messages(<<>>, s.level)]
              /\ session' = [session EXCEPT ![l] =
                    [s EXCEPT !.pc = "start", !.level = Required(sent), !.prev = {}, !.rhave = {}]]
           \/ /\ Required(sent) <= s.level
              /\ no_progress(s)
              /\ wire' = [wire EXCEPT ![l] = <<>>]
              /\ session' = [session EXCEPT ![l].pc = "stuck"]
           \/ /\ Required(sent) <= s.level
              /\ ~no_progress(s)
              /\ wire' = [wire EXCEPT ![l] = @ \o Messages(frames, s.level)]
              /\ session' = [session EXCEPT ![l] =
                    [s EXCEPT !.prev = sent, !.rhave = {}, !.pc = after_round(s, sent)]]
        /\ UNCHANGED <<logVars, reply, batch, aborts>>

\* The connection breaks, a view goes stale, or a write fails in the middle of a
\* batch: the session is discarded, what was applied stays.
Abort(l) ==
    /\ session[l].pc \notin Resting
    /\ aborts < MaxAborts
    /\ aborts' = aborts + 1
    /\ session' = [session EXCEPT ![l] = [Fresh EXCEPT !.pc = "failed"]]
    /\ wire' = [wire EXCEPT ![l] = <<>>]
    /\ reply' = [reply EXCEPT ![l] = None]
    /\ batch' = [n \in Nodes |-> IF ~Free(n) /\ batch[n].link = l THEN None ELSE batch[n]]
    /\ UNCHANGED logVars

\* Local work on the log needs the store lock.
Local(n) ==
    /\ Free(n)
    /\ \/ \E i \in Ids, kind \in Kinds : Author(n, i, kind, heads[n])
       \/ \E i \in Ids, parents \in ProfileParents(n) : Author(n, i, Profile, parents)
       \/ Compact(n)
    /\ UNCHANGED syncVars

SessionStep(l) ==
    \/ Probe(l) \/ Request(l) \/ Serve(l) \/ Upgrade(l) \/ Compared(l)
    \/ Respond(l) \/ Followup(l) \/ Push(l)

SyncNext ==
    \/ \E l \in Links : SessionStep(l) \/ Abort(l)
    \/ \E n \in Nodes : apply_received(n) \/ Local(n)

SyncSpec == SyncInit /\ [][SyncNext]_<<logVars, syncVars>>

\* A node keeps syncing with its peers and a connection that does not break
\* moves on.  Signing, compacting and breaking are not fair.
FairSync ==
    /\ SyncSpec
    /\ \A l \in Links : WF_<<logVars, syncVars>>(SessionStep(l))
    /\ \A n \in Nodes : WF_<<logVars, syncVars>>(apply_received(n))

-----------------------------------------------------------------------------
Content(S) == {e \in S : e.kind # Profile}

\* A received event finds its parents in the log or before it in the frame,
\* whatever happened since the frame was cut; only a compacted profile can be
\* missing, so no content event is ever rejected.
ParentsFirst ==
    \A n \in Nodes : ~Free(n) =>
        \A i \in 1 .. Len(batch[n].events) : \A p \in created :
            p.id \in batch[n].events[i].parents =>
                \/ p \in events[n]
                \/ \E j \in 1 .. (i - 1) : batch[n].events[j] = p
                \/ p.kind = Profile

\* Whatever a peer sends is of a version the other side accepts, although either
\* log may come to need a later version at any moment of the session.
VersionsAgree ==
    \A l \in Links :
        /\ reply[l].type = "response" => Required(Range(reply[l].events)) <= session[l].level
        /\ \A i \in 1 .. Len(wire[l]) : wire[l][i].type = "followup" =>
               Required(Range(wire[l][i].events)) <= wire[l][i].level

\* The requester of l takes part in no other session.
Alone(l) == \A k \in Links \ {l} : Requester(l) \notin {Requester(k), Responder(k)}

\* request_round "converges the conversation in both directions", as long as its
\* node runs no other session: when it completes, the responder has every content
\* event the requester last advertised, and the requester, if there was a round,
\* every one the responder last advertised.  Beside another session it may
\* complete early, having met only duplicates (see EventuallyEverywhere).
DoneMeansConverged ==
    [][\A l \in Links : Alone(l) /\ session[l].pc # "done" /\ session'[l].pc = "done" =>
          /\ Content(session[l].have) \subseteq events[Responder(l)]
          /\ session[l].pc = "push" => Content(session[l].rhave) \subseteq events[Requester(l)]
      ]_<<logVars, syncVars>>

\* MAX_SYNC_ROUNDS is a "backstop on sync rounds for one conversation": no session
\* runs more rounds than that.
RoundsBounded == \A l \in Links : session[l].rounds <= MaxRounds

\* A session gives up as stuck only over profiles the responder has compacted;
\* it never gives up on a content event.
StuckOnlyOnProfiles ==
    [][\A l \in Links : session[l].pc = "push" /\ session'[l].pc = "stuck" =>
          Content(session[l].prev) = {}]_<<logVars, syncVars>>

\* Sessions bring every content event to every node, as soon as none is signed for
\* a while: connections break, versions are upgraded in the middle of a round, and
\* a session that finds the frames of another one already applied completes before
\* its own work is done, but the next one brings the rest.  This is for logs with
\* nothing left to compact: a node that drops the profiles of every frame it is
\* sent may be sent the same ones again, ahead of any content.
EventuallyEverywhere ==
    <>[](\A n \in Nodes : Cardinality(superseded(n)) < CompactMin)
        => []<>(\A n \in Nodes : Content(created) \subseteq events[n])
=============================================================================
