------------------------------ MODULE EventLog ------------------------------
(***************************************************************************)
(* The replicated event log of one conversation (eventlog/store.rs, its    *)
(* SQL form eventlog/repository.rs, and the authoring path of              *)
(* node/node.rs).  Every node keeps a set of signed events linked by parent*)
(* ids, with three summaries of it: the head frontier, the highest sequence*)
(* per author and the highest clock.  Here a node may be given any event   *)
(* that was ever signed; EventSync says how events really travel.          *)
(***************************************************************************)
EXTENDS Integers, FiniteSets

CONSTANTS
    Nodes,       \* the devices; each signs its own events
    Ids,         \* content hashes, in the order of their bytes
    Kinds,       \* event kinds other than Profile
    MaxClock,    \* u64::MAX, the last clock and the last sequence
    CompactMin   \* COMPACT_PROFILE_MIN, superseded profiles that make a rewrite worth it

Profile == "Profile"

ASSUME LogAssumption ==
    /\ Ids \subseteq Int
    /\ Profile \notin Kinds
    /\ MaxClock \in Nat
    /\ CompactMin \in Nat \ {0}

VARIABLES
    created,   \* every event ever signed
    events,    \* events[n]: the events node n retains
    heads,     \* heads[n]: ids of the frontier of n
    version,   \* version[n][a]: the highest sequence of author a at n
    clock      \* clock[n]: the highest lamport clock at n

logVars == <<created, events, heads, version, clock>>

Event == [id : Ids, author : Nodes, seq : 1 .. MaxClock, parents : SUBSET Ids,
          lamport : 1 .. MaxClock, kind : Kinds \cup {Profile}]

IdsOf(S) == {e.id : e \in S}

LogInit ==
    /\ created = {}
    /\ events = [n \in Nodes |-> {}]
    /\ heads = [n \in Nodes |-> {}]
    /\ version = [n \in Nodes |-> [a \in Nodes |-> 0]]
    /\ clock = [n \in Nodes |-> 0]

-----------------------------------------------------------------------------
\* EventLog::validate for an authentic event: new, with every parent present, and
\* the only one of its author with that sequence.
validate(n, e) ==
    /\ e \notin events[n]
    /\ e.parents \subseteq IdsOf(events[n])
    /\ \A f \in events[n] : ~(f.author = e.author /\ f.seq = e.seq)

\* EventLog::index_trusted.  A profile is a leaf beside the frontier.
index_trusted(n, e) ==
    /\ events' = [events EXCEPT ![n] = @ \cup {e}]
    /\ heads' = [heads EXCEPT ![n] = IF e.kind = Profile THEN @ ELSE (@ \ e.parents) \cup {e.id}]
    /\ version' = [version EXCEPT ![n][e.author] = IF e.seq > @ THEN e.seq ELSE @]
    /\ clock' = [clock EXCEPT ![n] = IF e.lamport > @ THEN e.lamport ELSE @]

\* Mutant: the clock of the newest event is used again.
prepare_Same(n) == IF clock[n] = 0 THEN 1 ELSE clock[n]

\* EventLog::prepare and next_sequence; the additions are checked.
prepare(n) == clock[n] + 1
next_sequence(n) == version[n][n] + 1

OwnProfiles(n) == {e \in events[n] : e.author = n /\ e.kind = Profile}

\* append_event_checked: sign the next event on the frontier and append it.  A
\* profile for a linked device has no parents; the avatar of a profile card
\* also names the card.
Author(n, i, kind, parents) ==
    LET e == [id |-> i, author |-> n, seq |-> next_sequence(n), parents |-> parents,
              lamport |-> prepare(n), kind |-> kind]
    IN  /\ i \notin IdsOf(created)
        /\ clock[n] < MaxClock
        /\ version[n][n] < MaxClock
        /\ validate(n, e)
        /\ created' = created \cup {e}
        /\ index_trusted(n, e)

ProfileParents(n) ==
    LET base == {heads[n], {}}
    IN  base \cup {ps \cup {card.id} : ps \in base, card \in OwnProfiles(n)}

\* Event::verify_signature: a signature verifies when the event was signed.
verify_signature(e) == e \in created

\* EventLog::append of an event received.
Ingest(n, e) ==
    /\ verify_signature(e)
    /\ validate(n, e)
    /\ index_trusted(n, e)
    /\ UNCHANGED created

-----------------------------------------------------------------------------
\* superseded_profile_ids: profiles nobody names as parent, the newest two of
\* each author excepted.
Leaves(n) == {e \in events[n] : e.kind = Profile /\ \A f \in events[n] : e.id \notin f.parents}
Newer(f, e) == f.lamport > e.lamport \/ (f.lamport = e.lamport /\ f.id > e.id)
Later(n, e) == {f \in Leaves(n) : f.author = e.author /\ Newer(f, e)}

\* Mutants: the newest are dropped; a profile that is a parent is dropped.
superseded_Newest(n) ==
    {e \in Leaves(n) : Cardinality({f \in Leaves(n) : f.author = e.author /\ Newer(e, f)}) >= 2}

superseded_Named(n) ==
    {e \in events[n] : e.kind = Profile /\ Cardinality(
        {f \in events[n] : f.kind = Profile /\ f.author = e.author /\ Newer(f, e)}) >= 2}

superseded(n) == {e \in Leaves(n) : Cardinality(Later(n, e)) >= 2}

Highest(S) == CHOOSE m \in S : \A k \in S : k <= m

\* apply_profile_maintenance, and rewrite_kept of the file form: the superseded
\* profiles are dropped in one transaction, and the summaries recomputed.
Compact(n) ==
    LET drop == superseded(n)
        kept == events[n] \ drop
    IN  /\ Cardinality(drop) >= CompactMin
        /\ events' = [events EXCEPT ![n] = kept]
        /\ heads' = [heads EXCEPT ![n] = @ \ IdsOf(drop)]
        /\ version' = [version EXCEPT ![n] =
             [a \in Nodes |-> IF \E e \in drop : e.author = a
                              THEN Highest({e.seq : e \in {f \in kept : f.author = a}})
                              ELSE version[n][a]]]
        /\ clock' = [clock EXCEPT ![n] = Highest({e.lamport : e \in kept})]
        /\ UNCHANGED created

LogNext ==
    \E n \in Nodes :
        \/ \E i \in Ids, kind \in Kinds : Author(n, i, kind, heads[n])
        \/ \E i \in Ids, parents \in ProfileParents(n) : Author(n, i, Profile, parents)
        \/ \E e \in created : Ingest(n, e)
        \/ Compact(n)

\* What a node may do to its log: sign, take in a signed event whose parents it
\* has, compact.  EventSync implements it: every applied frame and every
\* interleaved compaction is one of these steps.
LogSpec == LogInit /\ [][LogNext]_logVars

-----------------------------------------------------------------------------
\* Well-formed events and summaries; clocks and sequences stop at the end of
\* their width, they never pass it.
LogTypeOK ==
    /\ created \subseteq Event
    /\ events \in [Nodes -> SUBSET created]
    /\ heads \in [Nodes -> SUBSET Ids]
    /\ version \in [Nodes -> [Nodes -> 0 .. MaxClock]]
    /\ clock \in [Nodes -> 0 .. MaxClock]

\* A retained event has all its parents retained: neither ingestion in any order
\* nor compaction leaves a dangling parent.
ParentsHeld == \A n \in Nodes : \A e \in events[n] : e.parents \subseteq IdsOf(events[n])

\* The stored heads are exactly the content events no content event names.
HeadsAreFrontier ==
    \A n \in Nodes :
        heads[n] = {i \in IdsOf({e \in events[n] : e.kind # Profile}) :
                       \A f \in events[n] : f.kind # Profile => i \notin f.parents}

\* The stored maxima are the maxima of what is retained.
SummariesExact ==
    \A n \in Nodes :
        /\ \A e \in events[n] : e.seq <= version[n][e.author] /\ e.lamport <= clock[n]
        /\ \A a \in Nodes : version[n][a] # 0 =>
               \E e \in events[n] : e.author = a /\ e.seq = version[n][a]
        /\ clock[n] # 0 => \E e \in events[n] : e.lamport = clock[n]

\* What validate and index_trusted maintain, and compaction recomputes, is right
\* after every arrival order and every compaction.
IndexExact == ParentsHeld /\ HeadsAreFrontier /\ SummariesExact

\* No author signs two events with one sequence, compaction notwithstanding: the
\* equivocation check never meets an honest author.
NoEquivocation ==
    \A e, f \in created : e.author = f.author /\ e.seq = f.seq => e = f

\* A child's clock is above its parents', so the clock order of the log lists
\* parents first.
ClocksCausal ==
    \A e, f \in created : f.id \in e.parents => f.lamport < e.lamport
=============================================================================
