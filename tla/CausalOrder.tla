----------------------------- MODULE CausalOrder -----------------------------
(***************************************************************************)
(* The persistent topological order of one conversation (EventRepository,  *)
(* eventlog/repository/order).  A job copies the events committed so far   *)
(* (SEED), ranks them by Kahn's algorithm with the least priority first    *)
(* (RUN), catches up with the events appended meanwhile (TAIL) and is      *)
(* published (READY).  An append whose priority is above every retained    *)
(* event extends the order in place; any other makes the job obsolete, and *)
(* a fresh one replaces it.                                                *)
(*                                                                         *)
(* Every row of the job is durable.  A call of order_step is a transaction *)
(* of as many iterations of its loop as the budget allows, so an append or *)
(* a crash falls between any two.  Commit ordinals are positions in log.   *)
(***************************************************************************)
EXTENDS Integers, Sequences, FiniteSets, Functions

CONSTANTS
    Events,     \* events of the conversation that may be appended
    Parents,    \* Parents[e]: the causal parents e is signed over
    Priority,   \* the rank of (clock, id) of e among all such pairs
    None

ASSUME OrderAssumption ==
    /\ Parents \in [Events -> SUBSET Events]
    /\ \A e \in Events : IsFiniteSet(Parents[e])
    /\ Priority \in [Events -> Nat]
    /\ \A e, f \in Events : Priority[e] = Priority[f] => e = f
    /\ None \notin Events

VARIABLES
    log,        \* retained_events in commit order
    job,        \* the row of event_order_jobs with its work and rank rows
    current     \* event_order_current: the published job and its revision

orderVars == <<log, job, current>>

Unpublished == [job |-> 0, source |-> 0]

\* The revision of the conversation, which is also its event count.
revision == Len(log)

NewJob_Numbered(id, n) ==
    [id |-> 1, phase |-> IF n = 0 THEN "NONE" ELSE "SEED",
     source |-> n, base |-> n, seeded |-> 0,
     status |-> [e \in Events |-> "absent"], degree |-> [e \in Events |-> 0],
     rows |-> <<>>, pop |-> None, child |-> 0]

\* A new job over the events committed so far.  Job identities are never
\* used twice.
NewJob(id, n) ==
    [id |-> id, phase |-> IF n = 0 THEN "NONE" ELSE "SEED",
     source |-> n, base |-> n, seeded |-> 0,
     status |-> [e \in Events |-> "absent"], degree |-> [e \in Events |-> 0],
     rows |-> <<>>, pop |-> None, child |-> 0]

OrderInit ==
    /\ log = <<>>
    /\ job = NewJob(0, 0)
    /\ current = Unpublished

(***************************************************************************)
(* The append's part in the order, in the append's own transaction.        *)
(***************************************************************************)
AboveAll_Ranked(e) == \A f \in Range(job.rows) : Priority[f] < Priority[e]

AboveAll(e) == \A f \in Range(log) : Priority[f] < Priority[e]

\* No job to keep up, or one that is being retired.
append_unordered ==
    /\ job.phase \in {"NONE", "OBSOLETE"}
    /\ UNCHANGED <<job, current>>

append_safe(e) ==
    /\ job.phase \notin {"NONE", "OBSOLETE"}
    /\ AboveAll(e)
    /\ job' = [job EXCEPT !.source = revision + 1,
                          !.rows = IF job.phase = "READY" THEN Append(@, e) ELSE @]
    /\ current' = IF job.phase = "READY"
                  THEN [current EXCEPT !.source = revision + 1] ELSE current

append_unsafe(e) ==
    /\ job.phase \notin {"NONE", "OBSOLETE"}
    /\ ~AboveAll(e)
    /\ job' = [job EXCEPT !.phase = "OBSOLETE"]
    /\ current' = Unpublished

append_with_gate(e) ==
    /\ e \notin Range(log)
    /\ Parents[e] \subseteq Range(log)
    /\ log' = Append(log, e)
    /\ append_unordered \/ append_safe(e) \/ append_unsafe(e)

(***************************************************************************)
(* The loop of order_step, one iteration of a job j at a time.  An         *)
(* iteration that finds the job corrupt fails and leaves it as it was.     *)
(***************************************************************************)
seed(j) ==
    IF j.seeded < j.base
    THEN LET e == log[j.seeded + 1] IN
         [j EXCEPT !.seeded = @ + 1,
                   !.status[e] = "waiting",
                   !.degree[e] = Cardinality(Parents[e])]
    ELSE [j EXCEPT !.phase = "RUN"]

Ready(j) == {e \in Events : j.status[e] = "waiting" /\ j.degree[e] = 0}

rank(j) ==
    IF Len(j.rows) = j.base THEN [j EXCEPT !.phase = "TAIL"]
    ELSE IF Ready(j) = {} THEN j
    ELSE LET e == CHOOSE e \in Ready(j) : \A f \in Ready(j) : Priority[e] <= Priority[f] IN
         [j EXCEPT !.rows = Append(@, e), !.status[e] = "draining", !.pop = e, !.child = 0]

Undrained_WholeLog(j) == {k \in j.child + 1 .. revision : j.pop \in Parents[log[k]]}

\* The children of the ranked event that the base holds and that its drain has
\* not reached yet.
Undrained(j) == {k \in j.child + 1 .. j.base : j.pop \in Parents[log[k]]}

drain(j) ==
    IF Undrained(j) = {}
    THEN [j EXCEPT !.status[j.pop] = "done", !.pop = None, !.child = 0]
    ELSE LET k == CHOOSE k \in Undrained(j) : \A l \in Undrained(j) : k <= l IN
         IF j.status[log[k]] = "waiting" /\ j.degree[log[k]] > 0
         THEN [j EXCEPT !.degree[log[k]] = @ - 1, !.child = k]
         ELSE j

tail(j) ==
    IF Len(j.rows) < j.source THEN [j EXCEPT !.rows = Append(@, log[Len(@) + 1])]
    ELSE [j EXCEPT !.phase = "READY"]

\* The rows of an obsolete job go one at a time and nobody reads them, so the
\* sweep is one iteration; it ends with the replacement job.
advance(j) ==
    CASE j.phase \in {"NONE", "OBSOLETE"} -> NewJob(j.id + 1, revision)
      [] j.phase = "SEED" -> seed(j)
      [] j.phase = "RUN" /\ j.pop = None -> rank(j)
      [] j.phase = "RUN" /\ j.pop # None -> drain(j)
      [] j.phase = "TAIL" -> tail(j)
      [] j.phase = "READY" -> j

\* A call of order_step that takes the job to j; one that is READY is
\* published in the same transaction.
commit_order(j) ==
    /\ job.phase # "READY"
    /\ log # <<>>
    /\ job' = j
    /\ current' = IF j.phase = "READY" THEN [job |-> j.id, source |-> j.source] ELSE current
    /\ UNCHANGED log

\* Budgets differ from call to call: one iteration a call is every schedule.
OrderNext == commit_order(advance(job)) \/ \E e \in Events : append_with_gate(e)
OrderSpec == OrderInit /\ [][OrderNext]_orderVars

(***************************************************************************)
(* What the order promises.                                                *)
(***************************************************************************)
Before(s, i) == {s[j] : j \in 1..i - 1}

\* s orders S canonically: each event once, and at each rank the least of the
\* events whose parents all have a lower rank.
IsCanonical(s, S) ==
    /\ Range(s) = S
    /\ IsInjective(s)
    /\ \A i \in 1..Len(s) :
        /\ Parents[s[i]] \subseteq Before(s, i)
        /\ \A e \in S \ Before(s, i) :
            Parents[e] \subseteq Before(s, i) => Priority[s[i]] <= Priority[e]

(* A published order is the canonical order of exactly the events retained    *)
(* now, whatever the phase of the job was in which each of them was appended: *)
(* "Safe tail is canonical in commit order only because every append proved   *)
(* > MAX(all preceding priorities)" (order/engine.rs).                        *)
PublishedCanonical ==
    current # Unpublished =>
        /\ current = [job |-> job.id, source |-> revision]
        /\ job.phase = "READY"
        /\ IsCanonical(job.rows, Range(log))

(* order_step never reaches one of its "corrupt" exits, after which the       *)
(* conversation could not be ordered again: a base with vertices left has a   *)
(* ready one, no edge is drained into a vertex that is gone or has none to    *)
(* drain, and a live job agrees with the source it will be published for.     *)
OrderNeverCorrupt ==
    /\ job.phase \notin {"NONE", "OBSOLETE"} => job.source = revision
    /\ job.phase \notin {"NONE", "READY"} => advance(job) # job
    /\ job.phase = "RUN" /\ job.pop # None =>
        \A k \in Undrained(job) : job.status[log[k]] = "waiting" /\ job.degree[log[k]] > 0
    /\ job.phase = "TAIL" => \A e \in Events : job.status[e] \in {"absent", "done"}
=============================================================================
