-------------------------- MODULE EventSync_proofs ---------------------------
(***************************************************************************)
(* Proofs about EventLog for any set of nodes, any supply of ids and any   *)
(* width of clocks: the retained log is parent-closed, its summaries are   *)
(* exact and no author signs two events with one sequence.  Reconciliation *)
(* changes the logs of the nodes only by the operations of EventLog, for   *)
(* any links, wire versions, frame sizes and limits, so what is proved of  *)
(* the log alone holds while sessions run.  The rest is about the          *)
(* sessions: an export is cut from a causal order, each link keeps what it *)
(* has on the wire applicable and within its version, so no content event  *)
(* is rejected, no frame is refused and no session gives up on content.    *)
(***************************************************************************)
EXTENDS EventSync, FiniteSetTheorems, SequenceTheorems, WellFoundedInduction, TLAPS

UniqueIds == \A e, f \in created : e.id = f.id => e = f

\* An author's clocks grow with its sequences.
ClocksGrow ==
    \A e, f \in created : e.author = f.author /\ e.seq < f.seq => e.lamport < f.lamport

\* An author's own summaries cover everything it ever signed, also the profiles
\* it has compacted since.
OwnCovered ==
    \A e \in created : e.seq <= version[e.author][e.author] /\ e.lamport <= clock[e.author]

\* Parents are signed before their children.
ParentsSigned == \A e \in created : e.parents \subseteq IdsOf(created)

LogInv ==
    /\ LogTypeOK
    /\ UniqueIds
    /\ NoEquivocation
    /\ ClocksGrow
    /\ OwnCovered
    /\ ParentsHeld
    /\ SummariesExact
    /\ HeadsAreFrontier
    /\ ParentsSigned
    /\ ClocksCausal

-----------------------------------------------------------------------------
\* Initially there is nothing, and nothing to get wrong.
LEMMA InitInv == LogInit => LogInv
BY LogAssumption DEF LogInit, LogInv, LogTypeOK, UniqueIds, NoEquivocation, ClocksGrow,
   OwnCovered, ParentsHeld, SummariesExact, HeadsAreFrontier, ParentsSigned, ClocksCausal, IdsOf

\* Indexing an event keeps the log of a node typed, closed and summarised when
\* the parents are there.
LEMMA IndexKeeps ==
    ASSUME LogTypeOK, ParentsHeld, SummariesExact,
           NEW n \in Nodes, NEW e \in Event,
           validate(n, e), index_trusted(n, e), created \cup {e} \subseteq created',
           created' \subseteq Event
    PROVE  LogTypeOK' /\ ParentsHeld' /\ SummariesExact'
<1>1. LogTypeOK'
  BY LogAssumption DEF LogTypeOK, index_trusted, Event, validate
<1>2. ParentsHeld'
  BY DEF LogTypeOK, ParentsHeld, index_trusted, IdsOf, validate
<1>3. SummariesExact'
  <2> SUFFICES ASSUME NEW k \in Nodes
               PROVE  /\ \A g \in events'[k] : g.seq <= version'[k][g.author] /\ g.lamport <= clock'[k]
                      /\ \A a \in Nodes : version'[k][a] # 0 =>
                             \E g \in events'[k] : g.author = a /\ g.seq = version'[k][a]
                      /\ clock'[k] # 0 => \E g \in events'[k] : g.lamport = clock'[k]
    BY Zenon DEF SummariesExact
  <2> USE LogAssumption
  <2>1. CASE k # n
    BY <2>1 DEF SummariesExact, index_trusted, LogTypeOK
  <2>2. CASE k = n
    <3>1. events'[n] = events[n] \cup {e}
      BY Zenon DEF index_trusted, LogTypeOK
    <3>2. version'[n] = [version[n] EXCEPT ![e.author] = IF e.seq > @ THEN e.seq ELSE @]
      BY Zenon DEF index_trusted, LogTypeOK
    <3>3. clock'[n] = IF e.lamport > clock[n] THEN e.lamport ELSE clock[n]
      BY Zenon DEF index_trusted, LogTypeOK
    <3>4. \A g \in events[n] : g \in Event
      BY Zenon DEF LogTypeOK
    <3>5. version[n] \in [Nodes -> 0 .. MaxClock] /\ clock[n] \in 0 .. MaxClock
      BY Zenon DEF LogTypeOK
    <3>6. e.author \in Nodes /\ e.seq \in 1 .. MaxClock /\ e.lamport \in 1 .. MaxClock
      BY Zenon DEF Event
    <3>7. \A g \in events'[k] : g.seq <= version'[k][g.author] /\ g.lamport <= clock'[k]
      BY <2>2, <3>1, <3>2, <3>3, <3>4, <3>5, <3>6 DEF SummariesExact, Event
    <3>8. ASSUME NEW a \in Nodes, version'[k][a] # 0
          PROVE  \E g \in events'[k] : g.author = a /\ g.seq = version'[k][a]
      <4>1. CASE a = e.author /\ e.seq > version[n][a]
        BY Zenon, <2>2, <3>1, <3>2, <3>5, <3>6, <4>1
      <4>2. CASE ~(a = e.author /\ e.seq > version[n][a])
        <5>1. version'[n][a] = version[n][a]
          BY Zenon, <3>2, <3>5, <3>6, <4>2
        <5>. QED
          BY <2>2, <3>1, <3>8, <5>1 DEF SummariesExact
      <4>. QED
        BY Zenon, <4>1, <4>2
    <3>9. clock'[k] # 0 => \E g \in events'[k] : g.lamport = clock'[k]
      BY <2>2, <3>1, <3>3 DEF SummariesExact
    <3>. QED
      BY Zenon, <3>7, <3>8, <3>9
  <2>. QED
    BY Zenon, <2>1, <2>2
<1>. QED
  BY Zenon, <1>1, <1>2, <1>3

\* Indexing keeps the frontier exact: nobody names the new event yet.
LEMMA IndexKeepsFrontier ==
    ASSUME LogTypeOK, ParentsHeld, HeadsAreFrontier,
           NEW n \in Nodes, NEW e, e.id \notin IdsOf(events[n]),
           validate(n, e), index_trusted(n, e)
    PROVE  HeadsAreFrontier'
<1> DEFINE Frontier(S) == {i \in IdsOf({g \in S : g.kind # Profile}) :
                              \A f \in S : f.kind # Profile => i \notin f.parents}
<1>1. \A k \in Nodes : heads[k] = Frontier(events[k])
  BY Zenon DEF HeadsAreFrontier
<1>2. SUFFICES ASSUME NEW k \in Nodes PROVE heads'[k] = Frontier(events'[k])
  BY Zenon DEF HeadsAreFrontier
<1>3. CASE k # n
  BY ZenonT(30), <1>1, <1>3 DEF index_trusted, LogTypeOK
<1>4. CASE k = n
  <2>1. events'[n] = events[n] \cup {e}
    BY Zenon DEF index_trusted, LogTypeOK
  <2>2. heads'[n] = IF e.kind = Profile THEN heads[n] ELSE (heads[n] \ e.parents) \cup {e.id}
    BY Zenon DEF index_trusted, LogTypeOK
  <2>3. \A f \in events[n] : e.id \notin f.parents
    BY Zenon DEF ParentsHeld
  <2>4. e.id \notin e.parents
    BY Zenon DEF validate
  <2>5. CASE e.kind = Profile
    <3>1. Frontier(events[n] \cup {e}) = Frontier(events[n])
      BY Zenon, <2>5 DEF IdsOf
    <3>. QED
      BY Zenon, <1>1, <1>4, <2>1, <2>2, <2>5, <3>1
  <2>6. CASE e.kind # Profile
    <3>1. Frontier(events[n] \cup {e}) = (Frontier(events[n]) \ e.parents) \cup {e.id}
      BY Zenon, <2>3, <2>4, <2>6 DEF IdsOf
    <3>. QED
      BY ZenonT(30), <1>1, <1>4, <2>1, <2>2, <2>6, <3>1
  <2>. QED
    BY Zenon, <2>5, <2>6
<1>. QED
  BY Zenon, <1>3, <1>4

\* Signing: the new event is above everything its author signed before.
LEMMA AuthorInv ==
    ASSUME LogInv, NEW n \in Nodes, NEW i \in Ids, NEW kind \in Kinds \cup {Profile},
           NEW parents \in SUBSET Ids, Author(n, i, kind, parents)
    PROVE  LogInv'
<1> DEFINE e == [id |-> i, author |-> n, seq |-> next_sequence(n), parents |-> parents,
                 lamport |-> prepare(n), kind |-> kind]
<1> USE LogAssumption
<1>1. /\ i \notin IdsOf(created) /\ clock[n] < MaxClock /\ version[n][n] < MaxClock
      /\ validate(n, e) /\ created' = created \cup {e} /\ index_trusted(n, e)
  BY Zenon DEF Author
<1>2. version[n][n] \in 0 .. MaxClock /\ clock[n] \in 0 .. MaxClock
  BY Zenon DEF LogInv, LogTypeOK
<1>3. e \in Event
  BY <1>1, <1>2 DEF Event, next_sequence, prepare
<1>4. /\ e.id = i /\ e.author = n /\ e.seq = version[n][n] + 1 /\ e.lamport = clock[n] + 1
  BY Zenon DEF next_sequence, prepare
<1> HIDE DEF e
<1>5. created \subseteq Event
  BY Zenon DEF LogInv, LogTypeOK
<1>6. LogTypeOK' /\ ParentsHeld' /\ SummariesExact'
  BY Zenon, <1>1, <1>3, <1>5, IndexKeeps DEF LogInv
<1>7. UniqueIds'
  BY <1>1, <1>4 DEF LogInv, UniqueIds, IdsOf
<1>8. \A g \in created : g.author = n => g.seq < e.seq /\ g.lamport < e.lamport
  BY <1>2, <1>4, <1>5 DEF LogInv, OwnCovered, Event
<1>9. NoEquivocation'
  BY <1>1, <1>3, <1>4, <1>5, <1>8 DEF LogInv, NoEquivocation, Event
<1>10. ClocksGrow'
  BY <1>1, <1>3, <1>4, <1>5, <1>8 DEF LogInv, ClocksGrow, Event
<1>11. OwnCovered'
  <2> SUFFICES ASSUME NEW g \in created'
               PROVE  g.seq <= version'[g.author][g.author] /\ g.lamport <= clock'[g.author]
    BY Zenon DEF OwnCovered
  <2>1. /\ version'[n][n] = e.seq
        /\ clock'[n] = e.lamport
        /\ \A k \in Nodes \ {n} : version'[k] = version[k] /\ clock'[k] = clock[k]
    BY <1>1, <1>2, <1>4 DEF index_trusted, LogInv, LogTypeOK
  <2>2. g \in Event
    BY Zenon, <1>1, <1>3, <1>5
  <2>3. CASE g.author = n
    BY <1>1, <1>3, <1>8, <2>1, <2>2, <2>3 DEF Event
  <2>4. CASE g.author # n
    <3>1. g \in created
      BY Zenon, <1>1, <1>4, <2>4
    <3>. QED
      BY Zenon, <2>1, <2>2, <2>4, <3>1 DEF LogInv, OwnCovered, Event
  <2>. QED
    BY Zenon, <2>3, <2>4
<1>12. \A k \in Nodes : events[k] \subseteq created
  BY Zenon DEF LogInv, LogTypeOK
<1>13. HeadsAreFrontier'
  BY Zenon, <1>1, <1>4, <1>12, IndexKeepsFrontier DEF LogInv, IdsOf
<1>14. e.parents \subseteq IdsOf(events[n])
  BY Zenon, <1>1 DEF validate
<1>15. ParentsSigned'
  BY Zenon, <1>1, <1>12, <1>14 DEF LogInv, ParentsSigned, IdsOf
<1>16. ClocksCausal'
  <2> SUFFICES ASSUME NEW g \in created', NEW f \in created', f.id \in g.parents
               PROVE  f.lamport < g.lamport
    BY Zenon DEF ClocksCausal
  <2>1. f # e
    BY <1>1, <1>4, <1>12, <1>14 DEF LogInv, ParentsSigned, IdsOf
  <2>2. f \in created
    BY Zenon, <1>1, <2>1
  <2>3. CASE g \in created
    BY Zenon, <2>2, <2>3 DEF LogInv, ClocksCausal
  <2>4. CASE g = e
    <3>1. PICK h \in events[n] : h.id = f.id
      BY Zenon, <1>14, <2>4 DEF IdsOf
    <3>2. h = f
      BY Zenon, <1>12, <2>2, <3>1 DEF LogInv, UniqueIds
    <3>3. f.lamport <= clock[n] /\ f \in Event
      BY Zenon, <1>5, <2>2, <3>1, <3>2 DEF LogInv, SummariesExact
    <3>. QED
      BY <1>2, <1>4, <2>4, <3>3 DEF Event
  <2>. QED
    BY Zenon, <1>1, <2>3, <2>4
<1>. QED
  BY Zenon, <1>6, <1>7, <1>9, <1>10, <1>11, <1>13, <1>15, <1>16 DEF LogInv

\* Receiving: summaries only grow.
LEMMA IngestInv ==
    ASSUME LogInv, NEW n \in Nodes, NEW e \in created, Ingest(n, e)
    PROVE  LogInv'
<1> USE LogAssumption
<1>1. validate(n, e) /\ index_trusted(n, e) /\ created' = created
  BY Zenon DEF Ingest
<1>2. created \subseteq Event /\ e \in Event
  BY Zenon DEF LogInv, LogTypeOK
<1>3. LogTypeOK' /\ ParentsHeld' /\ SummariesExact'
  BY Zenon, <1>1, <1>2, IndexKeeps DEF LogInv
<1>4. UniqueIds' /\ NoEquivocation' /\ ClocksGrow' /\ ParentsSigned' /\ ClocksCausal'
  BY Zenon, <1>1 DEF LogInv, UniqueIds, NoEquivocation, ClocksGrow, ParentsSigned, ClocksCausal
<1>5. OwnCovered'
  <2> SUFFICES ASSUME NEW g \in created
               PROVE  g.seq <= version'[g.author][g.author] /\ g.lamport <= clock'[g.author]
    BY Zenon, <1>1 DEF OwnCovered
  <2>1. g \in Event /\ g.seq <= version[g.author][g.author] /\ g.lamport <= clock[g.author]
    BY Zenon, <1>2 DEF LogInv, OwnCovered
  <2>2. \A k \in Nodes : /\ version[k][k] \in 0 .. MaxClock /\ version'[k][k] \in 0 .. MaxClock
                         /\ clock[k] \in 0 .. MaxClock /\ clock'[k] \in 0 .. MaxClock
    BY Zenon, <1>3 DEF LogInv, LogTypeOK
  <2>3. \A k \in Nodes : version[k][k] <= version'[k][k] /\ clock[k] <= clock'[k]
    BY <1>1, <1>2 DEF index_trusted, LogInv, LogTypeOK, Event
  <2>. QED
    BY <2>1, <2>2, <2>3 DEF Event
<1>6. e.id \notin IdsOf(events[n])
  BY Zenon, <1>1 DEF LogInv, LogTypeOK, UniqueIds, IdsOf, validate
<1>7. HeadsAreFrontier'
  BY Zenon, <1>1, <1>6, IndexKeepsFrontier DEF LogInv
<1>. QED
  BY Zenon, <1>3, <1>4, <1>5, <1>7 DEF LogInv

\* A superseded profile is older than another retained event of its author, so it
\* carries neither the author's highest sequence nor the highest clock.
LEMMA SupersededIsLow ==
    ASSUME LogInv, NEW n \in Nodes, NEW e \in superseded(n)
    PROVE  \E f \in events[n] : f.author = e.author /\ f.seq > e.seq /\ f.lamport > e.lamport
<1>1. e \in events[n] /\ Cardinality(Later(n, e)) >= 2
  BY Zenon DEF superseded, Leaves
<1>2. Later(n, e) # {}
  BY <1>1, FS_EmptySet
<1>3. PICK f \in events[n] : f.author = e.author /\ Newer(f, e)
  BY Zenon, <1>2 DEF Later, Leaves
<1>4. e \in created /\ f \in created /\ e \in Event /\ f \in Event
  BY Zenon, <1>1 DEF LogInv, LogTypeOK
<1>5. e.seq \in Int /\ f.seq \in Int /\ e.lamport \in Int /\ f.lamport \in Int /\ e.id \in Int /\ f.id \in Int
  <2>1. \A g \in Event : g.seq \in Int /\ g.lamport \in Int
    BY LogAssumption DEF Event
  <2>2. e.id \in Ids /\ f.id \in Ids
    BY Zenon, <1>4 DEF Event
  <2>. QED
    BY ZenonT(30), <1>4, <2>1, <2>2, LogAssumption
<1>6. f # e
  BY <1>3, <1>5 DEF Newer
<1>7. f.seq # e.seq
  BY Zenon, <1>3, <1>4, <1>6 DEF LogInv, NoEquivocation
<1>8. ~(f.seq < e.seq)
  BY <1>3, <1>4, <1>5 DEF LogInv, ClocksGrow, Newer
<1>9. f.seq > e.seq
  BY <1>5, <1>7, <1>8
<1>10. f.lamport > e.lamport
  BY Zenon, <1>3, <1>4, <1>5, <1>9 DEF LogInv, ClocksGrow
<1>. QED
  BY Zenon, <1>3, <1>9, <1>10

\* The highest element, when there is one.
LEMMA HighestIs ==
    ASSUME NEW S \in SUBSET Int, NEW m \in S, \A k \in S : k <= m
    PROVE  Highest(S) = m
<1>1. \A x \in S : (\A k \in S : k <= x) => x = m
  <2> SUFFICES ASSUME NEW x \in S, \A k \in S : k <= x
               PROVE  x = m
    BY Zenon
  <2>1. x <= m /\ m <= x /\ x \in Int /\ m \in Int
    BY Zenon
  <2>. QED
    BY <2>1
<1>. QED
  BY ZenonT(30), <1>1 DEF Highest

\* Compaction recomputes the summaries and finds them unchanged.
LEMMA CompactKeepsSummaries ==
    ASSUME LogInv, NEW n \in Nodes, Compact(n)
    PROVE  version' = version /\ clock' = clock
<1> DEFINE drop == superseded(n)
           kept == events[n] \ drop
<1> USE LogAssumption
<1>1. /\ Cardinality(drop) >= CompactMin
      /\ version' = [version EXCEPT ![n] =
             [a \in Nodes |-> IF \E e \in drop : e.author = a
                              THEN Highest({e.seq : e \in {f \in kept : f.author = a}})
                              ELSE version[n][a]]]
      /\ clock' = [clock EXCEPT ![n] = Highest({e.lamport : e \in kept})]
  BY Zenon DEF Compact
<1>2. drop \subseteq events[n] /\ \A e \in events[n] : e \in Event
  BY Zenon DEF superseded, Leaves, LogInv, LogTypeOK
<1>3. \A e \in drop : \E f \in events[n] : f.author = e.author /\ f.seq > e.seq /\ f.lamport > e.lamport
  BY Zenon, SupersededIsLow
<1> HIDE DEF drop
<1>4. /\ \A e \in events[n] : e.seq <= version[n][e.author] /\ e.lamport <= clock[n]
      /\ \A a \in Nodes : version[n][a] # 0 =>
             \E e \in events[n] : e.author = a /\ e.seq = version[n][a]
      /\ clock[n] # 0 => \E e \in events[n] : e.lamport = clock[n]
  BY Zenon DEF LogInv, SummariesExact
<1>5. version[n] \in [Nodes -> 0 .. MaxClock] /\ clock[n] \in 0 .. MaxClock
  BY Zenon DEF LogInv, LogTypeOK
<1>6. ASSUME NEW a \in Nodes, NEW d \in drop, d.author = a
      PROVE  Highest({e.seq : e \in {f \in kept : f.author = a}}) = version[n][a]
  <2>1. d \in Event /\ d.seq <= version[n][a]
    BY Zenon, <1>2, <1>4, <1>6
  <2>2. version[n][a] # 0
    BY <1>5, <2>1 DEF Event
  <2>3. PICK top \in events[n] : top.author = a /\ top.seq = version[n][a]
    BY Zenon, <1>4, <2>2
  <2>4. top \notin drop
    <3> SUFFICES ASSUME top \in drop PROVE FALSE
      BY Zenon
    <3>1. PICK f \in events[n] : f.author = top.author /\ f.seq > top.seq
      BY Zenon, <1>3
    <3>2. f \in Event /\ top \in Event /\ f.seq <= version[n][a]
      BY Zenon, <1>2, <1>4, <2>3, <3>1
    <3>. QED
      BY <1>5, <2>3, <3>1, <3>2 DEF Event
  <2>5. version[n][a] \in {e.seq : e \in {f \in kept : f.author = a}}
    BY Zenon, <2>3, <2>4
  <2>6. \A k \in {e.seq : e \in {f \in kept : f.author = a}} : k <= version[n][a] /\ k \in Int
    BY <1>2, <1>4 DEF Event
  <2>. QED
    BY ZenonT(30), <2>5, <2>6, HighestIs
<1>7. version' = version
  <2>1. [a \in Nodes |-> IF \E e \in drop : e.author = a
                         THEN Highest({e.seq : e \in {f \in kept : f.author = a}})
                         ELSE version[n][a]] = version[n]
    BY ZenonT(30), <1>5, <1>6
  <2>. QED
    BY ZenonT(30), <1>1, <2>1 DEF LogInv, LogTypeOK
<1>8. Highest({e.lamport : e \in kept}) = clock[n]
  <2>1. PICK d \in drop : TRUE
    BY <1>1, FS_EmptySet
  <2>2. d \in Event /\ d.lamport <= clock[n]
    BY Zenon, <1>2, <1>4
  <2>3. clock[n] # 0
    BY <1>5, <2>2 DEF Event
  <2>4. PICK top \in events[n] : top.lamport = clock[n]
    BY Zenon, <1>4, <2>3
  <2>5. top \notin drop
    <3> SUFFICES ASSUME top \in drop PROVE FALSE
      BY Zenon
    <3>1. PICK f \in events[n] : f.lamport > top.lamport
      BY Zenon, <1>3
    <3>2. f \in Event /\ f.lamport <= clock[n]
      BY Zenon, <1>2, <1>4, <3>1
    <3>. QED
      BY <1>5, <2>4, <3>1, <3>2 DEF Event
  <2>6. clock[n] \in {e.lamport : e \in kept}
    BY Zenon, <2>4, <2>5
  <2>7. \A k \in {e.lamport : e \in kept} : k <= clock[n] /\ k \in Int
    BY <1>2, <1>4 DEF Event
  <2>. QED
    BY ZenonT(30), <2>6, <2>7, HighestIs
<1>9. clock' = clock
  BY Zenon, <1>1, <1>8 DEF LogInv, LogTypeOK
<1>. QED
  BY Zenon, <1>7, <1>9

\* Compaction: what is dropped is named by nobody, and no summary moves.
LEMMA CompactInv ==
    ASSUME LogInv, NEW n \in Nodes, Compact(n)
    PROVE  LogInv'
<1> USE LogAssumption
<1>1. version' = version /\ clock' = clock
  BY Zenon, CompactKeepsSummaries
<1>2. /\ created' = created
      /\ events' = [events EXCEPT ![n] = @ \ superseded(n)]
      /\ heads' = [heads EXCEPT ![n] = @ \ IdsOf(superseded(n))]
  BY Zenon DEF Compact
<1>3. LogTypeOK'
  BY Zenon, <1>1, <1>2 DEF LogInv, LogTypeOK
<1>4. UniqueIds' /\ NoEquivocation' /\ ClocksGrow' /\ OwnCovered' /\ ParentsSigned' /\ ClocksCausal'
  BY Zenon, <1>1, <1>2 DEF LogInv, UniqueIds, NoEquivocation, ClocksGrow, OwnCovered, ParentsSigned, ClocksCausal
<1>5. \A e \in superseded(n) : \A f \in events[n] : e.id \notin f.parents
  BY Zenon DEF superseded, Leaves
<1>6. ParentsHeld'
  <2> SUFFICES ASSUME NEW k \in Nodes, NEW e \in events'[k], NEW p \in e.parents
               PROVE  p \in IdsOf(events'[k])
    BY Zenon DEF ParentsHeld
  <2>1. e \in events[k]
    BY Zenon, <1>2 DEF LogInv, LogTypeOK
  <2>2. PICK f \in events[k] : f.id = p
    BY Zenon, <2>1 DEF LogInv, ParentsHeld, IdsOf
  <2>3. f \in events'[k]
    BY Zenon, <1>2, <1>5, <2>1, <2>2 DEF LogInv, LogTypeOK
  <2>. QED
    BY Zenon, <2>2, <2>3 DEF IdsOf
<1>7. SummariesExact'
  <2> SUFFICES ASSUME NEW k \in Nodes
               PROVE  /\ \A e \in events'[k] : e.seq <= version[k][e.author] /\ e.lamport <= clock[k]
                      /\ \A a \in Nodes : version[k][a] # 0 =>
                             \E e \in events'[k] : e.author = a /\ e.seq = version[k][a]
                      /\ clock[k] # 0 => \E e \in events'[k] : e.lamport = clock[k]
    BY <1>1 DEF SummariesExact
  <2>1. /\ \A e \in events[k] : e.seq <= version[k][e.author] /\ e.lamport <= clock[k]
        /\ \A a \in Nodes : version[k][a] # 0 =>
               \E e \in events[k] : e.author = a /\ e.seq = version[k][a]
        /\ clock[k] # 0 => \E e \in events[k] : e.lamport = clock[k]
    BY Zenon DEF LogInv, SummariesExact
  <2>2. events'[k] \subseteq events[k] /\ (k # n => events'[k] = events[k])
    BY Zenon, <1>2 DEF LogInv, LogTypeOK
  <2>3. CASE k = n
    <3>1. \A e \in events[n] : /\ e.seq \in Int /\ e.lamport \in Int
                               /\ version[n][e.author] \in Int /\ clock[n] \in Int
      BY DEF LogInv, LogTypeOK, Event
    <3>2. ASSUME NEW e \in events[n], e \notin events'[n]
          PROVE  e.seq # version[n][e.author] /\ e.lamport # clock[n]
      <4>1. e \in superseded(n)
        BY Zenon, <1>2, <3>2 DEF LogInv, LogTypeOK
      <4>2. PICK f \in events[n] : f.author = e.author /\ f.seq > e.seq /\ f.lamport > e.lamport
        BY Zenon, <4>1, SupersededIsLow
      <4>. QED
        BY <2>1, <2>3, <3>1, <4>2
    <3>. QED
      BY <2>1, <2>2, <2>3, <3>2
  <2>4. CASE k # n
    BY Zenon, <2>1, <2>2, <2>4
  <2>. QED
    BY Zenon, <2>3, <2>4
<1>8. HeadsAreFrontier'
  <2> DEFINE Unreplaced(S) == {g \in S : g.kind # Profile}
             Frontier(S) == {i \in IdsOf(Unreplaced(S)) : \A f \in S : f.kind # Profile => i \notin f.parents}
  <2>1. \A k \in Nodes : heads[k] = Frontier(events[k])
    BY Zenon DEF LogInv, HeadsAreFrontier
  <2>2. SUFFICES ASSUME NEW k \in Nodes PROVE heads'[k] = Frontier(events'[k])
    BY Zenon DEF HeadsAreFrontier
  <2>3. CASE k # n
    BY ZenonT(30), <1>2, <2>1, <2>3 DEF LogInv, LogTypeOK
  <2>4. CASE k = n
    <3>1. events'[n] = events[n] \ superseded(n) /\ heads'[n] = heads[n] \ IdsOf(superseded(n))
      BY Zenon, <1>2 DEF LogInv, LogTypeOK
    <3>2. \A e \in superseded(n) : e.kind = Profile /\ e \in events[n]
      BY Zenon DEF superseded, Leaves
    <3>3. Frontier(events[n] \ superseded(n)) = Frontier(events[n])
      BY Zenon, <3>2 DEF IdsOf
    <3>4. Frontier(events[n]) \cap IdsOf(superseded(n)) = {}
      BY Zenon, <3>2 DEF LogInv, LogTypeOK, UniqueIds, IdsOf
    <3>. QED
      BY ZenonT(30), <2>1, <2>4, <3>1, <3>3, <3>4
  <2>. QED
    BY Zenon, <2>3, <2>4
<1>. QED
  BY Zenon, <1>3, <1>4, <1>6, <1>7, <1>8 DEF LogInv

\* The invariant is inductive.
LEMMA StepInv == LogInv /\ [LogNext]_logVars => LogInv'
<1> SUFFICES ASSUME LogInv, [LogNext]_logVars
             PROVE  LogInv'
  BY Zenon
<1>1. CASE UNCHANGED logVars
  BY <1>1 DEF logVars, LogInv, LogTypeOK, UniqueIds, NoEquivocation, ClocksGrow, OwnCovered,
     ParentsHeld, SummariesExact, HeadsAreFrontier, ParentsSigned, ClocksCausal
<1>2. ASSUME NEW n \in Nodes, NEW i \in Ids, NEW kind \in Kinds, Author(n, i, kind, heads[n])
      PROVE  LogInv'
  <2>1. heads[n] \in SUBSET Ids
    BY Zenon DEF LogInv, LogTypeOK
  <2>. QED
    BY Zenon, <1>2, <2>1, AuthorInv
<1>3. ASSUME NEW n \in Nodes, NEW i \in Ids, NEW parents \in ProfileParents(n),
             Author(n, i, Profile, parents)
      PROVE  LogInv'
  <2>1. heads[n] \in SUBSET Ids /\ \A e \in OwnProfiles(n) : e.id \in Ids
    BY DEF LogInv, LogTypeOK, OwnProfiles, Event
  <2>2. parents \in SUBSET Ids
    BY <2>1 DEF ProfileParents
  <2>. QED
    BY Zenon, <1>3, <2>2, AuthorInv
<1>4. ASSUME NEW n \in Nodes, NEW e \in created, Ingest(n, e)
      PROVE  LogInv'
  BY Zenon, <1>4, IngestInv
<1>5. ASSUME NEW n \in Nodes, Compact(n)
      PROVE  LogInv'
  BY Zenon, <1>5, CompactInv
<1>. QED
  BY Zenon, <1>1, <1>2, <1>3, <1>4, <1>5 DEF LogNext

\* The log invariant holds in every behaviour.
THEOREM LogInvariance == LogSpec => []LogInv
<1>. QED
  BY InitInv, StepInv, PTL DEF LogSpec

\* No author ever signs two events with one sequence: the equivocation check of
\* EventLog::validate refuses nothing that an unmodified peer sends.
THEOREM SequencesUnique == LogSpec => []NoEquivocation
<1>1. LogInv => NoEquivocation
  BY Zenon DEF LogInv
<1>. QED
  BY <1>1, LogInvariance, PTL

\* Every retained log is typed and closed under parents, and its summaries and
\* its frontier are exact.
THEOREM LogConsistent == LogSpec => [](LogTypeOK /\ IndexExact)
<1>1. LogInv => LogTypeOK /\ IndexExact
  BY Zenon DEF LogInv, IndexExact
<1>. QED
  BY <1>1, LogInvariance, PTL

\* A child's clock is above its parents' clocks, so the clock order in which the
\* log is read never shows a child first.
THEOREM ClocksRespectCausality == LogSpec => []ClocksCausal
<1>1. LogInv => ClocksCausal
  BY Zenon DEF LogInv
<1>. QED
  BY <1>1, LogInvariance, PTL

-----------------------------------------------------------------------------
(* Sessions.                                                               *)

\* A step of a session reads the logs and leaves them alone.
LEMMA SessionsLeaveLogs ==
    ASSUME NEW l \in Links, SessionStep(l) \/ Abort(l)
    PROVE  UNCHANGED logVars
<1>1. CASE Probe(l) \/ Request(l) \/ Serve(l) \/ Upgrade(l) \/ Compared(l)
  BY Zenon, <1>1 DEF Probe, Request, Serve, Upgrade, Compared
<1>2. CASE Respond(l) \/ Followup(l) \/ Push(l) \/ Abort(l)
  BY ZenonT(30), <1>2 DEF Respond, Followup, Push, Abort
<1> QED
  BY Zenon, <1>1, <1>2 DEF SessionStep

\* apply_received_events, whatever the frame holds: an event is appended by the
\* log's own operation, or skipped.
LEMMA ApplyIngests ==
    ASSUME NEW n \in Nodes, apply_received(n)
    PROVE  LogNext \/ UNCHANGED logVars
<1> DEFINE e == batch[n].events[1]
<1>1. CASE Ingest(n, e)
  <2>1. e \in created
    BY Zenon, <1>1 DEF Ingest, verify_signature
  <2> QED
    BY Zenon, <1>1, <2>1 DEF LogNext
<1>2. CASE UNCHANGED logVars
  BY Zenon, <1>2
<1> QED
  BY ZenonT(30), <1>1, <1>2 DEF apply_received

\* Local work is signing or compacting.
LEMMA LocalIsLog ==
    ASSUME NEW n \in Nodes, Local(n)
    PROVE  LogNext
BY Zenon DEF Local, LogNext

\* Sessions in any number and direction, frames applied event by event while
\* nodes sign and compact, upgrades and broken connections: to the log, each
\* step is one that EventLog allows (apply_received_events calls
\* EventLog::append and nothing else).
THEOREM SyncRefinesLog == SyncSpec => LogSpec
<1>1. SyncInit => LogInit
  BY Zenon DEF SyncInit
<1>2. ASSUME [SyncNext]_<<logVars, syncVars>> PROVE [LogNext]_logVars
  <2>1. CASE \E l \in Links : SessionStep(l) \/ Abort(l)
    BY Zenon, <2>1, SessionsLeaveLogs
  <2>2. CASE \E n \in Nodes : apply_received(n)
    BY Zenon, <2>2, ApplyIngests
  <2>3. CASE \E n \in Nodes : Local(n)
    BY Zenon, <2>3, LocalIsLog
  <2>4. CASE UNCHANGED <<logVars, syncVars>>
    BY Zenon, <2>4
  <2> QED
    BY Zenon, <1>2, <2>1, <2>2, <2>3, <2>4 DEF SyncNext
<1> QED
  BY <1>1, <1>2, PTL DEF SyncSpec, LogSpec

\* While nodes reconcile, whatever connections break and whatever is compacted
\* under them, the index of every log is exact, no author reuses a sequence and
\* clocks respect causality.
THEOREM SyncKeepsLogs == SyncSpec => [](IndexExact /\ NoEquivocation /\ ClocksCausal)
<1>1. LogInv => IndexExact /\ NoEquivocation /\ ClocksCausal
  BY Zenon DEF LogInv, IndexExact
<1> QED
  BY <1>1, SyncRefinesLog, LogInvariance, PTL

-----------------------------------------------------------------------------
(* The causal order of an export.                                          *)

\* A set of numbers with a member has a least one.
LEMMA LeastOf ==
    ASSUME NEW T, T \subseteq Nat, T # {}
    PROVE  \E x \in T : \A y \in T : x <= y
<1> DEFINE U == {0..n : n \in T}
<1>1. \A n \in T : IsFiniteSet(0..n) /\ (0..n) \in SUBSET Nat
  BY FS_Interval
<1>2. \A n \in T : (0..n) \in FiniteSubsetsOf(Nat)
  BY Zenon, <1>1 DEF FiniteSubsetsOf
<1>3. U \subseteq FiniteSubsetsOf(Nat) /\ U # {}
  BY ZenonT(30), <1>2
<1>4. PICK x \in U : \A y \in U : <<y, x>> \notin StrictSubsetOrdering(Nat)
  BY ZenonT(30), <1>3, FS_StrictSubsetOrderingWellFounded, WFMin
<1>5. PICK n \in T : x = 0..n
  BY Zenon
<1>6. ASSUME NEW m \in T, m < n PROVE FALSE
  <2>1. /\ (0..m) \in SUBSET Nat /\ (0..n) \in SUBSET Nat
        /\ (0..m) # (0..n) /\ (0..m) \subseteq (0..n)
    BY <1>6
  <2>2. <<0..m, 0..n>> \in StrictSubsetOrdering(Nat)
    BY Zenon, <2>1 DEF StrictSubsetOrdering
  <2> QED
    BY ZenonT(30), <2>2, <1>4, <1>5
<1> QED
  BY <1>6

\* What holds of 0 and of the successor of everything it holds of, holds of all.
LEMMA Climb ==
    ASSUME NEW K, 0 \in K, \A k \in Nat : k \in K => k + 1 \in K
    PROVE  Nat \subseteq K
<1> SUFFICES ASSUME Nat \ K # {} PROVE FALSE
  BY Zenon
<1>1. PICK x \in Nat \ K : \A y \in Nat \ K : x <= y
  BY Zenon, LeastOf
<1>2. x # 0 /\ x - 1 \in Nat
  BY <1>1
<1>3. x - 1 \in K
  BY <1>1, <1>2
<1> QED
  BY <1>1, <1>2, <1>3

\* The events of S so far, after each of m steps of the loop.
Orders(S, m, g) ==
    g = [k \in 0 .. m |-> IF k = 0 THEN <<>>
                          ELSE Append(g[k - 1], next_ready(S, Range(g[k - 1])))]

\* The function ordered_ids defines by recursion is there, step by step.
LEMMA OrderExists ==
    ASSUME NEW S
    PROVE  \A m \in Nat : \E g : Orders(S, m, g)
<1> DEFINE K == {m \in Nat : \E g : Orders(S, m, g)}
<1>1. 0 \in K
  <2> DEFINE g == [k \in 0 .. 0 |-> <<>>]
  <2>1. Orders(S, 0, g)
    BY DEF Orders
  <2> QED
    BY Zenon, <2>1
<1>2. ASSUME NEW m \in Nat, m \in K PROVE m + 1 \in K
  <2>1. PICK g : Orders(S, m, g)
    BY Zenon, <1>2
  <2> DEFINE h == [k \in 0 .. (m + 1) |-> IF k <= m THEN g[k]
                                          ELSE Append(g[m], next_ready(S, Range(g[m])))]
  <2>2. \A k \in 0 .. m : g[k] = IF k = 0 THEN <<>>
                                 ELSE Append(g[k - 1], next_ready(S, Range(g[k - 1])))
    BY Zenon, <2>1 DEF Orders
  <2>3. \A k \in 0 .. (m + 1) :
          h[k] = IF k = 0 THEN <<>> ELSE Append(h[k - 1], next_ready(S, Range(h[k - 1])))
    <3> TAKE k \in 0 .. (m + 1)
    <3>1. CASE k = 0
      BY <3>1, <2>2
    <3>2. CASE k # 0 /\ k <= m
      <4>1. k \in 0 .. m /\ h[k - 1] = g[k - 1] /\ h[k] = g[k]
        BY <3>2
      <4> HIDE DEF h
      <4> QED
        BY Zenon, <4>1, <3>2, <2>2
    <3>3. CASE k = m + 1
      <4>1. k - 1 = m /\ m \in 0 .. (m + 1) /\ h[k - 1] = g[m] /\ k # 0
        BY <3>3
      <4>2. h[k] = Append(g[m], next_ready(S, Range(g[m])))
        BY <3>3
      <4> QED
        BY Zenon, <4>1, <4>2
    <3> QED
      BY <3>1, <3>2, <3>3
  <2>4. Orders(S, m + 1, h)
    <3>1. h = [k \in 0 .. (m + 1) |-> h[k]]
      BY Zenon
    <3> HIDE DEF h
    <3> QED
      BY Zenon, <3>1, <2>3 DEF Orders
  <2> QED
    BY <2>4
<1>3. Nat \subseteq K
  <2> HIDE DEF K
  <2> QED
    BY Zenon, <1>1, <1>2, Climb
<1> QED
  BY Zenon, <1>3

\* What ordered_ids returns is the last of these steps.
LEMMA OrderIs ==
    ASSUME NEW S, Cardinality(S) \in Nat
    PROVE  \E g : Orders(S, Cardinality(S), g) /\ ordered_ids(S) = g[Cardinality(S)]
<1> DEFINE g == CHOOSE f : Orders(S, Cardinality(S), f)
<1>1. Orders(S, Cardinality(S), g)
  BY Zenon, OrderExists
<1>2. ordered_ids(S) = g[Cardinality(S)]
  BY Zenon DEF ordered_ids, Orders
<1> QED
  BY Zenon, <1>1, <1>2

\* What the log promises of a set of events: ids tell them apart, and a child's
\* clock is above its parents'.
Dated(S) ==
    /\ IsFiniteSet(S)
    /\ \A e \in S : e.id \in Int /\ e.lamport \in Nat
    /\ \A e, f \in S : e.id = f.id => e = f
    /\ \A e, f \in S : f.id \in e.parents => f.lamport < e.lamport

\* Clock and id order the events.
LEMMA FirstOf ==
    ASSUME NEW S, Dated(S), NEW R \in SUBSET S, R # {}
    PROVE  \E e \in R : \A f \in R : e = f \/ Newer(f, e)
<1> DEFINE Below(e) == {f \in R : Newer(e, f)}
           T == {Cardinality(Below(e)) : e \in R}
<1>1. IsFiniteSet(R)
  BY Zenon, FS_Subset DEF Dated
<1>2. \A e \in R : IsFiniteSet(Below(e)) /\ Cardinality(Below(e)) \in Nat
  <2> TAKE e \in R
  <2>1. Below(e) \in SUBSET R
    BY Zenon
  <2> HIDE DEF Below
  <2>2. IsFiniteSet(Below(e))
    BY Zenon, <1>1, <2>1, FS_Subset
  <2> QED
    BY Zenon, <2>2, FS_CardinalityType
<1>3. PICK e \in R : \A f \in R : Cardinality(Below(e)) <= Cardinality(Below(f))
  <2>1. T \subseteq Nat /\ T # {}
    BY Zenon, <1>2
  <2>2. PICK x \in T : \A y \in T : x <= y
    <3> HIDE DEF T
    <3> QED
      BY Zenon, <2>1, LeastOf
  <2> QED
    BY Zenon, <2>2
<1>4. ASSUME NEW f \in R, f # e, ~Newer(f, e) PROVE FALSE
  <2>1. /\ e \in S /\ f \in S /\ e.id # f.id
        /\ \A g \in R : g.id \in Int /\ g.lamport \in Nat
    BY Zenon, <1>4 DEF Dated
  <2>2. Newer(e, f)
    BY <2>1, <1>4 DEF Newer
  <2>3. /\ f \in Below(e) /\ f \notin Below(f)
        /\ Below(f) \subseteq Below(e)
    BY <2>1, <2>2 DEF Newer
  <2> HIDE DEF Below
  <2>4. Cardinality(Below(f)) <= Cardinality(Below(e)) /\ Cardinality(Below(f)) # Cardinality(Below(e))
    BY Zenon, <1>2, <2>3, FS_Subset
  <2> QED
    BY <1>2, <1>3, <2>4
<1> QED
  BY Zenon, <1>3, <1>4

\* As long as something is left, something is ready.
LEMMA SomethingReady ==
    ASSUME NEW S, Dated(S), NEW done, S \ done # {}
    PROVE  next_ready(S, done) \in Ready(S, done)
<1>1. PICK e \in S \ done : \A f \in S \ done : e = f \/ Newer(f, e)
  BY Zenon, FirstOf
<1>2. e \in Ready(S, done)
  <2> SUFFICES ASSUME NEW p \in S, p.id \in e.parents, p \notin done PROVE FALSE
    BY Zenon DEF Ready
  <2>1. p.lamport < e.lamport /\ p.lamport \in Nat /\ e.lamport \in Nat
    BY Zenon DEF Dated
  <2> QED
    BY <1>1, <2>1 DEF Newer
<1>3. Ready(S, done) \in SUBSET S
  BY Zenon DEF Ready
<1>4. \E x \in Ready(S, done) : \A f \in Ready(S, done) : x = f \/ Newer(f, x)
  BY Zenon, <1>2, <1>3, FirstOf
<1> QED
  BY Zenon, <1>4 DEF next_ready

\* A list of events of S, each once, parents first.
Listing(S, q) ==
    /\ q \in Seq(S)
    /\ \A i, j \in 1 .. Len(q) : q[i] = q[j] => i = j
    /\ \A i \in 1 .. Len(q) : \A p \in S : p.id \in q[i].parents =>
           \E j \in 1 .. (i - 1) : q[j] = p

\* A listing of S without repetition that is as long as S is large has all of S.
LEMMA ListingCounts ==
    ASSUME NEW S, NEW q, Listing(S, q)
    PROVE  IsFiniteSet(Range(q)) /\ Cardinality(Range(q)) = Len(q) /\ Range(q) \subseteq S
<1>1. /\ q \in Seq(S) /\ Len(q) \in Nat /\ DOMAIN q = 1 .. Len(q)
      /\ \A i \in 1 .. Len(q) : q[i] \in S
  BY Zenon, LenProperties, ElementOfSeq DEF Listing
<1>2. 1 \in Int /\ Len(q) \in Int /\ (1 > Len(q) => Len(q) = 0)
  BY <1>1
<1>3. IsFiniteSet(1 .. Len(q)) /\ Cardinality(1 .. Len(q)) = Len(q)
  BY <1>2, FS_Interval
<1>4. q \in [1 .. Len(q) -> Range(q)] /\ Range(q) = {q[i] : i \in 1 .. Len(q)}
  BY <1>1 DEF Range
<1>5. q \in Surjection(1 .. Len(q), Range(q))
  BY Zenon, <1>4 DEF Surjection
<1>6. q \in Injection(1 .. Len(q), Range(q))
  BY Zenon, <1>4 DEF Injection, IsInjective, Listing
<1> QED
  BY Zenon, <1>1, <1>3, <1>4, <1>5, <1>6, FS_Surjection

\* The next ready event keeps a listing causal.
LEMMA ListNext ==
    ASSUME NEW S, NEW q, Listing(S, q), NEW e \in Ready(S, Range(q))
    PROVE  Listing(S, Append(q, e)) /\ Len(Append(q, e)) = Len(q) + 1
<1>1. /\ q \in Seq(S) /\ Len(q) \in Nat /\ e \in S /\ e \notin Range(q)
      /\ \A p \in S : p.id \in e.parents => p \in Range(q)
      /\ Range(q) = {q[i] : i \in 1 .. Len(q)}
  BY DEF Listing, Ready, Range
<1> DEFINE r == Append(q, e)
<1>2. /\ r \in Seq(S) /\ Len(r) = Len(q) + 1
      /\ \A i \in 1 .. Len(q) : r[i] = q[i]
      /\ r[Len(q) + 1] = e
  BY <1>1
<1> HIDE DEF r
<1>3. \A i, j \in 1 .. Len(r) : r[i] = r[j] => i = j
  BY <1>1, <1>2 DEF Listing
<1>4. ASSUME NEW i \in 1 .. Len(r), NEW p \in S, p.id \in r[i].parents
      PROVE  \E j \in 1 .. (i - 1) : r[j] = p
  <2>1. CASE i \in 1 .. Len(q)
    <3>1. PICK j \in 1 .. (i - 1) : q[j] = p
      BY Zenon, <1>2, <1>4, <2>1 DEF Listing
    <3> QED
      BY <1>1, <1>2, <2>1, <3>1
  <2>2. CASE i = Len(q) + 1
    <3>1. PICK j \in 1 .. Len(q) : q[j] = p
      BY Zenon, <1>1, <1>2, <1>4, <2>2
    <3> QED
      BY <1>1, <1>2, <2>2, <3>1
  <2> QED
    BY <1>1, <1>2, <2>1, <2>2
<1> QED
  BY Zenon, <1>2, <1>3, <1>4 DEF Listing, r

\* ordered_ids lists every event once, each after its parents.
LEMMA OrderedIds ==
    ASSUME NEW S, Dated(S)
    PROVE  Listing(S, ordered_ids(S)) /\ Range(ordered_ids(S)) = S
<1> DEFINE n == Cardinality(S)
<1>1. IsFiniteSet(S) /\ n \in Nat
  BY Zenon, FS_CardinalityType DEF Dated
<1>2. PICK g : Orders(S, n, g) /\ ordered_ids(S) = g[n]
  BY Zenon, <1>1, OrderIs
<1>3. \A k \in 0 .. n : g[k] = IF k = 0 THEN <<>>
                               ELSE Append(g[k - 1], next_ready(S, Range(g[k - 1])))
  BY Zenon, <1>2 DEF Orders
<1> DEFINE K == {k \in Nat : k <= n => Listing(S, g[k]) /\ Len(g[k]) = k}
<1>4. 0 \in K
  <2>1. g[0] = <<>>
    BY <1>1, <1>3
  <2>2. Listing(S, <<>>) /\ Len(<<>>) = 0
    BY DEF Listing
  <2> QED
    BY Zenon, <2>1, <2>2
<1>5. ASSUME NEW k \in Nat, k \in K PROVE k + 1 \in K
  <2> SUFFICES ASSUME k + 1 <= n PROVE Listing(S, g[k + 1]) /\ Len(g[k + 1]) = k + 1
    OBVIOUS
  <2>1. Listing(S, g[k]) /\ Len(g[k]) = k
    BY <1>1, <1>5
  <2>2. g[k + 1] = Append(g[k], next_ready(S, Range(g[k])))
    <3>1. k + 1 \in 0 .. n /\ k + 1 # 0 /\ (k + 1) - 1 = k
      BY <1>1
    <3> QED
      BY Zenon, <1>3, <3>1
  <2>3. S \ Range(g[k]) # {}
    <3>1. Cardinality(Range(g[k])) = k /\ Range(g[k]) \subseteq S
      BY Zenon, <2>1, ListingCounts
    <3>2. S \ Range(g[k]) = {} => S = Range(g[k])
      BY Zenon, <3>1
    <3> QED
      BY <1>1, <3>1, <3>2
  <2>4. next_ready(S, Range(g[k])) \in Ready(S, Range(g[k]))
    BY Zenon, <2>3, SomethingReady
  <2> QED
    BY Zenon, <2>1, <2>2, <2>4, ListNext
<1>6. Listing(S, g[n]) /\ Len(g[n]) = n
  <2>1. Nat \subseteq K
    <3> HIDE DEF K
    <3> QED
      BY Zenon, <1>4, <1>5, Climb
  <2> QED
    BY <1>1, <2>1
<1>7. Range(g[n]) = S
  BY Zenon, <1>1, <1>6, ListingCounts, FS_Subset
<1> QED
  BY Zenon, <1>2, <1>6, <1>7

\* What is kept of q after each of the m first events.
Keeps(q, have, m, g) ==
    g = [k \in 0 .. m |-> IF k = 0 THEN <<>>
                          ELSE IF q[k] \in have THEN g[k - 1] ELSE Append(g[k - 1], q[k])]

\* The function Lacking defines by recursion is there, step by step.
LEMMA KeepExists ==
    ASSUME NEW q, NEW have
    PROVE  \A m \in Nat : \E g : Keeps(q, have, m, g)
<1> DEFINE K == {m \in Nat : \E g : Keeps(q, have, m, g)}
<1>1. 0 \in K
  <2> DEFINE g == [k \in 0 .. 0 |-> <<>>]
  <2>1. Keeps(q, have, 0, g)
    BY DEF Keeps
  <2> QED
    BY Zenon, <2>1
<1>2. ASSUME NEW m \in Nat, m \in K PROVE m + 1 \in K
  <2>1. PICK g : Keeps(q, have, m, g)
    BY Zenon, <1>2
  <2> DEFINE next(k, r) == IF q[k] \in have THEN r ELSE Append(r, q[k])
             h == [k \in 0 .. (m + 1) |-> IF k <= m THEN g[k] ELSE next(m + 1, g[m])]
  <2>2. \A k \in 0 .. m : g[k] = IF k = 0 THEN <<>> ELSE next(k, g[k - 1])
    BY Zenon, <2>1 DEF Keeps
  <2>3. \A k \in 0 .. (m + 1) : h[k] = IF k = 0 THEN <<>> ELSE next(k, h[k - 1])
    <3> HIDE DEF next
    <3> SUFFICES ASSUME NEW k \in 0 .. (m + 1)
                 PROVE  h[k] = IF k = 0 THEN <<>> ELSE next(k, h[k - 1])
      BY Zenon
    <3>1. CASE k = 0
      BY <3>1, <2>2
    <3>2. CASE k # 0 /\ k <= m
      <4>1. k \in 0 .. m /\ h[k - 1] = g[k - 1] /\ h[k] = g[k]
        BY <3>2
      <4> HIDE DEF h
      <4> QED
        BY Zenon, <4>1, <3>2, <2>2
    <3>3. CASE k = m + 1
      <4>1. k - 1 = m /\ m \in 0 .. (m + 1) /\ h[k - 1] = g[m] /\ k # 0
        BY <3>3
      <4>2. h[k] = next(k, g[m])
        BY <3>3
      <4> QED
        BY Zenon, <4>1, <4>2
    <3> QED
      BY <3>1, <3>2, <3>3
  <2>4. Keeps(q, have, m + 1, h)
    <3>1. h = [k \in 0 .. (m + 1) |-> h[k]]
      BY Zenon
    <3> HIDE DEF h
    <3> QED
      BY Zenon, <3>1, <2>3 DEF Keeps
  <2> QED
    BY <2>4
<1>3. Nat \subseteq K
  <2> HIDE DEF K
  <2> QED
    BY Zenon, <1>1, <1>2, Climb
<1> QED
  BY Zenon, <1>3

\* What Lacking returns is the last of these steps.
LEMMA KeepIs ==
    ASSUME NEW q, NEW have, Len(q) \in Nat
    PROVE  \E g : Keeps(q, have, Len(q), g) /\ Lacking(q, have) = g[Len(q)]
<1> DEFINE g == CHOOSE f : Keeps(q, have, Len(q), f)
<1>1. Keeps(q, have, Len(q), g)
  BY Zenon, KeepExists
<1>2. Lacking(q, have) = g[Len(q)]
  BY Zenon DEF Lacking, Keeps
<1> QED
  BY Zenon, <1>1, <1>2

\* A list of events of S whose parents are earlier in it or at the peer.
Trimmed(S, have, r) ==
    /\ r \in Seq(S)
    /\ \A i \in 1 .. Len(r) : \A p \in S : p.id \in r[i].parents =>
           p \in have \/ \E j \in 1 .. (i - 1) : r[j] = p

Covers(q, have, k, r) ==
    \A j \in 1 .. k : q[j] \in have \/ \E i \in 1 .. Len(r) : r[i] = q[j]

\* The next event of the order is kept or left out.
LEMMA TrimNext ==
    ASSUME NEW S, NEW have, NEW q, Listing(S, q), NEW k \in Nat, k < Len(q),
           NEW r, Trimmed(S, have, r), Covers(q, have, k, r), q[k + 1] \notin have
    PROVE  Trimmed(S, have, Append(r, q[k + 1])) /\ Covers(q, have, k + 1, Append(r, q[k + 1]))
<1> DEFINE e == q[k + 1]
           t == Append(r, e)
<1>1. Len(q) \in Nat /\ e \in S /\ r \in Seq(S) /\ Len(r) \in Nat
  BY LenProperties, ElementOfSeq DEF Listing, Trimmed
<1>2. \A p \in S : p.id \in e.parents => \E j \in 1 .. k : q[j] = p
  <2>1. k + 1 \in 1 .. Len(q) /\ (k + 1) - 1 = k
    BY <1>1
  <2> QED
    BY Zenon, <2>1 DEF Listing
<1> HIDE DEF e
<1>3. /\ t \in Seq(S) /\ Len(t) = Len(r) + 1
      /\ \A i \in 1 .. Len(r) : t[i] = r[i]
      /\ t[Len(r) + 1] = e
  BY <1>1
<1> HIDE DEF t
<1>4. ASSUME NEW i \in 1 .. Len(t), NEW p \in S, p.id \in t[i].parents, p \notin have
      PROVE  \E j \in 1 .. (i - 1) : t[j] = p
  <2>1. CASE i \in 1 .. Len(r)
    <3>1. PICK j \in 1 .. (i - 1) : r[j] = p
      BY Zenon, <1>3, <1>4, <2>1 DEF Trimmed
    <3> QED
      BY <1>1, <1>3, <2>1, <3>1
  <2>2. CASE i = Len(r) + 1
    <3>1. PICK j \in 1 .. k : q[j] = p
      BY Zenon, <1>2, <1>3, <1>4, <2>2
    <3>2. PICK x \in 1 .. Len(r) : r[x] = p
      BY Zenon, <1>4, <3>1 DEF Covers
    <3> QED
      BY <1>1, <1>3, <2>2, <3>2
  <2> QED
    BY <1>1, <1>3, <2>1, <2>2
<1>5. ASSUME NEW j \in 1 .. (k + 1), q[j] \notin have
      PROVE  \E i \in 1 .. Len(t) : t[i] = q[j]
  <2>1. CASE j \in 1 .. k
    <3>1. PICK i \in 1 .. Len(r) : r[i] = q[j]
      BY Zenon, <1>5, <2>1 DEF Covers
    <3> QED
      BY <1>1, <1>3, <3>1
  <2>2. CASE j = k + 1
    <3>1. Len(t) \in 1 .. Len(t) /\ t[Len(t)] = q[j]
      BY <1>1, <1>3, <2>2 DEF e
    <3> QED
      BY Zenon, <3>1
  <2> QED
    BY <2>1, <2>2
<1>6. Trimmed(S, have, t) /\ Covers(q, have, k + 1, t)
  BY Zenon, <1>3, <1>4, <1>5 DEF Trimmed, Covers
<1> QED
  BY Zenon, <1>6 DEF t, e

\* What the peer lacks keeps the order.
LEMMA LackingTrims ==
    ASSUME NEW S, NEW have, NEW q, Listing(S, q)
    PROVE  Trimmed(S, have, Lacking(q, have))
<1> DEFINE n == Len(q)
<1>1. n \in Nat
  BY Zenon, LenProperties DEF Listing
<1>2. PICK g : Keeps(q, have, n, g) /\ Lacking(q, have) = g[n]
  BY Zenon, <1>1, KeepIs
<1>3. \A k \in 0 .. n : g[k] = IF k = 0 THEN <<>>
                               ELSE IF q[k] \in have THEN g[k - 1] ELSE Append(g[k - 1], q[k])
  BY Zenon, <1>2 DEF Keeps
<1> DEFINE K == {k \in Nat : k <= n => Trimmed(S, have, g[k]) /\ Covers(q, have, k, g[k])}
<1>4. 0 \in K
  <2>1. g[0] = <<>>
    BY <1>1, <1>3
  <2>2. Trimmed(S, have, <<>>) /\ Covers(q, have, 0, <<>>)
    BY DEF Trimmed, Covers
  <2> QED
    BY Zenon, <2>1, <2>2
<1>5. ASSUME NEW k \in Nat, k \in K PROVE k + 1 \in K
  <2> SUFFICES ASSUME k + 1 <= n
               PROVE  Trimmed(S, have, g[k + 1]) /\ Covers(q, have, k + 1, g[k + 1])
    OBVIOUS
  <2>1. Trimmed(S, have, g[k]) /\ Covers(q, have, k, g[k])
    BY <1>1, <1>5
  <2>2. g[k + 1] = IF q[k + 1] \in have THEN g[k] ELSE Append(g[k], q[k + 1])
    <3>1. k + 1 \in 0 .. n /\ k + 1 # 0 /\ (k + 1) - 1 = k
      BY <1>1
    <3> QED
      BY Zenon, <1>3, <3>1
  <2>3. CASE q[k + 1] \in have
    BY <2>1, <2>2, <2>3 DEF Covers
  <2>4. CASE q[k + 1] \notin have
    <3>1. k < Len(q)
      BY <1>1
    <3> QED
      BY Zenon, <2>1, <2>2, <2>4, <3>1, TrimNext
  <2> QED
    BY Zenon, <2>3, <2>4
<1>6. Nat \subseteq K
  <2> HIDE DEF K
  <2> QED
    BY Zenon, <1>4, <1>5, Climb
<1> QED
  BY <1>1, <1>2, <1>6

-----------------------------------------------------------------------------
(* Frames.                                                                 *)

\* Whole frames of a division fit.
LEMMA DivFits ==
    ASSUME NEW x \in Nat, NEW m \in Nat \ {0}
    PROVE  /\ x \div m \in Nat
           /\ \A i \in Nat : i <= x \div m => i * m <= x
<1>1. x \div m \in Nat /\ (x \div m) * m <= x
  OBVIOUS
<1>2. ASSUME NEW i \in Nat, i <= x \div m PROVE i * m <= (x \div m) * m
  BY <1>1, <1>2
<1> QED
  BY <1>1, <1>2

\* Every position lies in a frame.
LEMMA FrameOf ==
    ASSUME NEW m \in Nat \ {0}
    PROVE  \A i \in Nat : \A j \in 1 .. (i * m) : \E s \in 1 .. i :
               (s - 1) * m + 1 <= j /\ j <= s * m
<1> DEFINE K == {i \in Nat : \A j \in 1 .. (i * m) : \E s \in 1 .. i :
                                 (s - 1) * m + 1 <= j /\ j <= s * m}
<1>1. 0 \in K
  OBVIOUS
<1>2. ASSUME NEW i \in Nat, i \in K PROVE i + 1 \in K
  <2> SUFFICES ASSUME NEW j \in 1 .. ((i + 1) * m)
               PROVE  \E s \in 1 .. (i + 1) : (s - 1) * m + 1 <= j /\ j <= s * m
    OBVIOUS
  <2>1. CASE j \in 1 .. (i * m)
    <3>1. PICK s \in 1 .. i : (s - 1) * m + 1 <= j /\ j <= s * m
      BY Zenon, <1>2, <2>1
    <3>2. s \in 1 .. (i + 1)
      OBVIOUS
    <3> QED
      BY Zenon, <3>1, <3>2
  <2>2. CASE j > i * m
    <3>1. (i + 1) \in 1 .. (i + 1) /\ (i + 1) - 1 = i /\ i * m \in Nat
      OBVIOUS
    <3> QED
      BY <2>2, <3>1
  <2> QED
    BY <2>1, <2>2
<1>3. Nat \subseteq K
  <2> HIDE DEF K
  <2> QED
    BY Zenon, <1>1, <1>2, Climb
<1> QED
  BY Zenon, <1>3

\* The smaller of two numbers.
LEMMA MinOfTwo ==
    ASSUME NEW a \in Int, NEW b \in Int
    PROVE  Min({a, b}) \in Int /\ Min({a, b}) <= a /\ Min({a, b}) <= b /\ Min({a, b}) \in {a, b}
<1>1. \E x \in {a, b} : \A y \in {a, b} : x =< y
  OBVIOUS
<1>2. Min({a, b}) \in {a, b} /\ \A y \in {a, b} : Min({a, b}) <= y
  BY Zenon, <1>1 DEF Min
<1> QED
  BY Zenon, <1>2

\* Frames whose events find their parents of C at the peer, before them in the
\* frame or in an earlier frame.
Framed(S, have, C, F) ==
    /\ F \in Seq(Seq(S))
    /\ \A i \in 1 .. Len(F) : F[i] # <<>>
    /\ \A i \in 1 .. Len(F) : \A t \in 1 .. Len(F[i]) : \A p \in C : p.id \in F[i][t].parents =>
           \/ p \in have
           \/ \E u \in 1 .. (t - 1) : F[i][u] = p
           \/ \E h \in 1 .. (i - 1) : p \in Range(F[h])

\* select_export_frames cuts the causal order, so no event goes before its parent.
LEMMA ExportFramed ==
    ASSUME NEW S, Dated(S), NEW have, NEW k \in Nat \ {0}, NEW C,
           \A e \in S : \A p \in C : p.id \in e.parents => p \in S
    PROVE  Framed(S, have, C, select_export_frames(S, have, k))
<1> DEFINE r == Lacking(ordered_ids(S), have)
           c == Min({Len(r), k * FrameMax})
           N == (c + FrameMax - 1) \div FrameMax
           lo(i) == (i - 1) * FrameMax + 1
           hi(i) == Min({i * FrameMax, c})
           F == select_export_frames(S, have, k)
<1>1. FrameMax \in Nat \ {0}
  BY Zenon, SyncAssumption
<1>2. Trimmed(S, have, r)
  BY Zenon, OrderedIds, LackingTrims
<1>3. F = [i \in 1 .. N |-> SubSeq(r, lo(i), hi(i))]
  <2> DEFINE unsent == [q \in Seq(S) |-> Lacking(q, have)]
             x == unsent[ordered_ids(S)]
             y == Min({Len(x), k * FrameMax})
  <2>1. F = [i \in 1 .. (y + FrameMax - 1) \div FrameMax |->
                SubSeq(x, (i - 1) * FrameMax + 1, Min({i * FrameMax, y}))]
    BY Zenon DEF select_export_frames
  <2>2. x = r
    BY Zenon, OrderedIds DEF Listing
  <2> HIDE DEF x
  <2> QED
    BY Zenon, <2>1, <2>2
<1>4. r \in Seq(S) /\ Len(r) \in Nat /\ k * FrameMax \in Nat
  BY <1>1, <1>2 DEF Trimmed
<1> HIDE DEF r, F
<1>5. c \in Nat /\ c <= Len(r)
  <2>1. Len(r) \in Int /\ k * FrameMax \in Int
    BY <1>4
  <2>2. c <= Len(r) /\ c \in {Len(r), k * FrameMax}
    BY Zenon, <2>1, MinOfTwo
  <2> HIDE DEF c
  <2> QED
    BY Zenon, <1>4, <2>2
<1> HIDE DEF c
<1>6. N \in Nat /\ \A i \in Nat : i <= N => i * FrameMax <= c + FrameMax - 1
  <2>1. c + FrameMax - 1 \in Nat
    BY <1>1, <1>5
  <2> QED
    BY Zenon, <1>1, <2>1, DivFits
<1> HIDE DEF N
<1>7. ASSUME NEW i \in 1 .. N
      PROVE  /\ lo(i) \in Nat /\ hi(i) \in Nat /\ 1 <= lo(i) /\ lo(i) <= hi(i) /\ hi(i) <= c
             /\ hi(i) \in {i * FrameMax, c}
  <2>1. i * FrameMax <= c + FrameMax - 1 /\ i * FrameMax \in Nat /\ (i - 1) * FrameMax \in Nat
    BY <1>1, <1>6
  <2>2. (i - 1) * FrameMax = i * FrameMax - FrameMax
    BY <1>1
  <2>3. hi(i) \in {i * FrameMax, c} /\ hi(i) <= c /\ hi(i) <= i * FrameMax
    <3>1. i * FrameMax \in Int /\ c \in Int
      BY <1>5, <2>1
    <3> QED
      BY Zenon, <3>1, MinOfTwo
  <2> HIDE DEF hi
  <2> QED
    BY <1>1, <1>5, <2>1, <2>2, <2>3
<1> HIDE DEF lo, hi
<1>8. ASSUME NEW i \in 1 .. N
      PROVE  /\ F[i] \in Seq(S) /\ Len(F[i]) = hi(i) - lo(i) + 1
             /\ \A t \in 1 .. Len(F[i]) : F[i][t] = r[lo(i) + t - 1]
  <2>1. lo(i) \in 1 .. Len(r) + 1 /\ hi(i) \in lo(i) - 1 .. Len(r)
    BY <1>4, <1>5, <1>7
  <2>2. F[i] = SubSeq(r, lo(i), hi(i))
    BY Zenon, <1>3
  <2> QED
    BY SMTT(30), <1>4, <1>7, <2>1, <2>2, SubSeqProperties
<1>9. Len(F) = N /\ F \in Seq(Seq(S))
  <2>1. F \in [1 .. N -> Seq(S)]
    BY Zenon, <1>3, <1>8
  <2> QED
    BY <1>6, <2>1
<1>10. \A i \in 1 .. N : F[i] # <<>>
  BY <1>7, <1>8
<1>11. ASSUME NEW i \in 1 .. N, NEW t \in 1 .. Len(F[i]), NEW p \in C, p.id \in F[i][t].parents,
              p \notin have, ~\E u \in 1 .. (t - 1) : F[i][u] = p
       PROVE  \E h \in 1 .. (i - 1) : p \in Range(F[h])
  <2>1. /\ lo(i) + t - 1 \in 1 .. Len(r) /\ F[i][t] = r[lo(i) + t - 1]
        /\ lo(i) \in Nat /\ hi(i) \in Nat /\ Len(F[i]) = hi(i) - lo(i) + 1
    <3>1. /\ lo(i) \in Nat /\ hi(i) \in Nat /\ 1 <= lo(i) /\ hi(i) <= c
          /\ Len(F[i]) = hi(i) - lo(i) + 1 /\ F[i][t] = r[lo(i) + t - 1]
      BY Zenon, <1>7, <1>8
    <3> QED
      BY <1>4, <1>5, <3>1
  <2>2. r[lo(i) + t - 1] \in S
    BY Zenon, <1>4, <2>1, ElementOfSeq
  <2>3. p \in S
    BY Zenon, <1>11, <2>1, <2>2
  <2>4. PICK j \in 1 .. ((lo(i) + t - 1) - 1) : r[j] = p
    <3> DEFINE x == lo(i) + t - 1
    <3>1. x \in 1 .. Len(r) /\ p.id \in r[x].parents
      BY Zenon, <1>11, <2>1
    <3> HIDE DEF x
    <3>2. \E j \in 1 .. (x - 1) : r[j] = p
      BY Zenon, <1>2, <1>11, <2>3, <3>1 DEF Trimmed
    <3> QED
      BY Zenon, <3>2 DEF x
  <2>5. j < lo(i)
    <3> SUFFICES ASSUME j >= lo(i) PROVE FALSE
      BY <2>1, <2>4
    <3>1. j - lo(i) + 1 \in 1 .. (t - 1) /\ j - lo(i) + 1 \in 1 .. Len(F[i]) /\ lo(i) + (j - lo(i) + 1) - 1 = j
      BY SMTT(30), <2>1, <2>4
    <3>2. F[i][j - lo(i) + 1] = r[j]
      BY Zenon, <1>8, <3>1
    <3> QED
      BY Zenon, <1>11, <2>4, <3>1, <3>2
  <2>6. j \in 1 .. ((i - 1) * FrameMax) /\ i - 1 \in Nat
    BY <1>1, <1>6, <2>4, <2>5 DEF lo
  <2>7. PICK s \in 1 .. (i - 1) : (s - 1) * FrameMax + 1 <= j /\ j <= s * FrameMax
    BY Zenon, <1>1, <2>6, FrameOf
  <2>8. s \in 1 .. N /\ lo(s) <= j /\ j <= s * FrameMax /\ j <= c
    <3>1. s \in 1 .. N /\ lo(s) <= j
      BY <1>6, <2>7 DEF lo
    <3>2. j <= c
      BY <1>5, <1>7, <2>5
    <3> QED
      BY Zenon, <2>7, <3>1, <3>2
  <2>9. j - lo(s) + 1 \in 1 .. Len(F[s]) /\ lo(s) + (j - lo(s) + 1) - 1 = j
    <3>1. /\ lo(s) \in Nat /\ hi(s) \in {s * FrameMax, c} /\ Len(F[s]) = hi(s) - lo(s) + 1
      BY Zenon, <1>7, <1>8, <2>8
    <3>2. j <= hi(s) /\ hi(s) \in Int
      BY <1>1, <1>5, <2>8, <3>1
    <3> QED
      BY <2>8, <3>1, <3>2
  <2>10. F[s][j - lo(s) + 1] = p
    BY Zenon, <1>8, <2>4, <2>8, <2>9
  <2>11. F[s] \in Seq(S) /\ DOMAIN F[s] = 1 .. Len(F[s])
    BY Zenon, <1>8, <2>8, LenProperties
  <2>12. p \in Range(F[s])
    BY Zenon, <2>9, <2>10, <2>11 DEF Range
  <2> QED
    BY Zenon, <2>7, <2>12
<1>12. Framed(S, have, C, F)
  BY Zenon, <1>9, <1>10, <1>11 DEF Framed
<1> QED
  BY Zenon, <1>12 DEF F

\* The last version any of the events needs.
LEMMA RequiredIs ==
    ASSUME NEW S \in SUBSET Event
    PROVE  /\ Required(S) \in {1} \cup {Level[e.kind] : e \in S}
           /\ Required(S) \in 1 .. TopLevel
           /\ \A v \in {1} \cup {Level[e.kind] : e \in S} : v <= Required(S)
<1> DEFINE V == {1} \cup {Level[e.kind] : e \in S}
           U == {TopLevel - v : v \in V}
<1>1. TopLevel \in Nat \ {0} /\ Level \in [Kinds \cup {Profile} -> 1 .. TopLevel]
  BY Zenon, SyncAssumption
<1>2. \A e \in S : Level[e.kind] \in 1 .. TopLevel
  BY Zenon, <1>1 DEF Event
<1>3. V \subseteq 1 .. TopLevel /\ 1 \in V
  BY <1>1, <1>2
<1> HIDE DEF V
<1>4. U \subseteq Nat /\ U # {}
  BY <1>1, <1>3
<1>5. PICK x \in U : \A y \in U : x <= y
  <2> HIDE DEF U
  <2> QED
    BY Zenon, <1>4, LeastOf
<1>6. PICK m \in V : x = TopLevel - m
  BY Zenon, <1>5
<1>7. \A v \in V : m >= v
  <2> TAKE v \in V
  <2>1. TopLevel - m <= TopLevel - v
    BY Zenon, <1>5, <1>6
  <2> QED
    BY <1>1, <1>3, <2>1
<1>8. Required(S) = Max(V)
  BY Zenon DEF Required, V
<1>9. Max(V) \in V /\ \A v \in V : Max(V) >= v
  BY Zenon, <1>7 DEF Max
<1>10. \A v \in V : v <= Max(V)
  BY Zenon, <1>3, <1>9
<1> QED
  BY Zenon, <1>3, <1>8, <1>9, <1>10 DEF V

\* Fewer events need no later version.
LEMMA RequiredGrows ==
    ASSUME NEW S \in SUBSET Event, NEW T \in SUBSET S
    PROVE  Required(T) <= Required(S)
<1>1. T \in SUBSET Event
  BY Zenon
<1>2. Required(T) \in {1} \cup {Level[e.kind] : e \in T}
  BY Zenon, <1>1, RequiredIs
<1>3. Required(T) \in {1} \cup {Level[e.kind] : e \in S}
  BY Zenon, <1>2
<1> QED
  BY Zenon, <1>3, RequiredIs

\* No events need the first version.
LEMMA RequiredNone == Required({}) = 1
<1>1. Required({}) \in {1} \cup {Level[e.kind] : e \in {}}
  BY Zenon, RequiredIs
<1> QED
  BY Zenon, <1>1

-----------------------------------------------------------------------------
(* Frames on their way.                                                    *)

\* The events of q find their parents of C in X or before them.
Grounded(q, X, C) ==
    \A i \in 1 .. Len(q) : \A p \in C : p.id \in q[i].parents =>
        p \in X \/ \E j \in 1 .. (i - 1) : q[j] = p

\* Events, signed so far, that can be applied in turn to a log that holds X.
Sound(q, X, c) == Range(q) \subseteq c /\ Grounded(q, X, Content(c))

\* Nothing signed later is a parent of what is signed.
Extends(c, d) == c \subseteq d /\ \A p \in d \ c : \A e \in c : p.id \notin e.parents

\* What can be applied stays so when more is signed and the log grows.
LEMMA SoundStays ==
    ASSUME NEW c, NEW d, Extends(c, d), NEW q \in Seq(Event), NEW X, NEW Y, Content(X) \subseteq Y,
           Sound(q, X, c)
    PROVE  Sound(q, Y, d)
<1>1. /\ Len(q) \in Nat /\ DOMAIN q = 1 .. Len(q)
  BY Zenon, LenProperties
<1>2. Range(q) \subseteq c /\ c \subseteq d /\ \A i \in 1 .. Len(q) : q[i] \in c
  BY Zenon, <1>1 DEF Sound, Range, Extends
<1> SUFFICES ASSUME NEW i \in 1 .. Len(q), NEW p \in Content(d), p.id \in q[i].parents
             PROVE  p \in Y \/ \E j \in 1 .. (i - 1) : q[j] = p
  BY Zenon, <1>2 DEF Sound, Grounded
<1>3. p \in Content(c)
  BY Zenon, <1>2 DEF Extends, Content
<1>4. p \in X \/ \E j \in 1 .. (i - 1) : q[j] = p
  BY Zenon, <1>3 DEF Sound, Grounded
<1> QED
  BY Zenon, <1>3, <1>4 DEF Content

\* The first event of a frame finds its parents in the log; the rest follow it.
LEMMA SoundTail ==
    ASSUME NEW c, NEW q \in Seq(Event), q # <<>>, NEW X, NEW Y, Content(X) \subseteq Y,
           Sound(q, X, c), q[1] \in Content(c) => q[1] \in Y
    PROVE  Sound(Tail(q), Y, c)
<1>1. Len(q) \in Nat \ {0}
  BY Zenon, EmptySeq
<1> DEFINE r == Tail(q)
<1>2. /\ r \in Seq(Event) /\ Len(r) = Len(q) - 1
      /\ \A i \in 1 .. Len(r) : r[i] = q[i + 1]
  BY <1>1
<1> HIDE DEF r
<1>3. DOMAIN r = 1 .. Len(r) /\ DOMAIN q = 1 .. Len(q)
  BY Zenon, <1>2, LenProperties
<1>4. Range(r) \subseteq c
  <2> SUFFICES ASSUME NEW i \in 1 .. Len(r) PROVE r[i] \in c
    BY Zenon, <1>3 DEF Range
  <2>1. i + 1 \in 1 .. Len(q)
    BY <1>1, <1>2
  <2> QED
    BY Zenon, <1>2, <1>3, <2>1 DEF Sound, Range
<1>5. ASSUME NEW i \in 1 .. Len(r), NEW p \in Content(c), p.id \in r[i].parents, p \notin Y
      PROVE  \E j \in 1 .. (i - 1) : r[j] = p
  <2>1. i + 1 \in 1 .. Len(q) /\ (i + 1) - 1 = i
    BY <1>1, <1>2
  <2>2. PICK j \in 1 .. i : q[j] = p
    <3>1. p \notin X
      BY Zenon, <1>5 DEF Content
    <3> QED
      BY <1>2, <1>5, <2>1, <3>1 DEF Sound, Grounded
  <2>3. j # 1
    BY Zenon, <1>5, <2>2
  <2>4. j - 1 \in 1 .. (i - 1) /\ j - 1 \in 1 .. Len(r) /\ (j - 1) + 1 = j
    BY <1>1, <1>2, <2>2, <2>3
  <2> QED
    BY Zenon, <1>2, <2>2, <2>4
<1> QED
  BY Zenon, <1>4, <1>5 DEF Sound, Grounded, r

-----------------------------------------------------------------------------
(* One link.                                                               *)

\* What is on the wire, in answer and under the lock.
Message ==
    [type : {"fp", "request"}, level : 1 .. TopLevel, have : SUBSET Event]
    \cup [type : {"followup"}, level : 1 .. TopLevel, events : Seq(Event)]
Answer ==
    {None} \cup [type : {"upgrade"}] \cup [type : {"fp"}, matched : BOOLEAN]
    \cup [type : {"response"}, have : SUBSET Event, events : Seq(Event)]
Work == {None} \cup [type : {"response", "followup"}, link : Links, events : Seq(Event)]
Session ==
    [pc : Resting \cup {"start", "probe", "round", "wait", "apply", "push"}, level : 1 .. TopLevel,
     have : SUBSET Event, rhave : SUBSET Event, progress : BOOLEAN, prev : SUBSET Event, rounds : Nat]

\* The events pushed on wire w before position i.
Pushed(w, i) ==
    {e \in Event : \E j \in 1 .. (i - 1) : w[j].type = "followup" /\ e \in Range(w[j].events)}

\* A probe or request is the last message, its answer is still to come, and it
\* advertises what the log X of the requester holds.
AskedLast(X, s, w, r) ==
    \A i \in 1 .. Len(w) : w[i].type # "followup" =>
        /\ i = Len(w)
        /\ s.pc \in {"probe", "wait"}
        /\ r = None
        /\ w[i].level = s.level
        /\ Content(w[i].have) \subseteq X

\* A push fits its version, and what the responder will have by then: B and the
\* pushes before it.
PushesSound(c, B, w) ==
    \A i \in 1 .. Len(w) : w[i].type = "followup" =>
        /\ Required(Range(w[i].events)) <= w[i].level
        /\ Sound(w[i].events, B \cup Pushed(w, i), c)

\* An answer is sent when all before it was read.  It fits the version and the
\* log X of the requester, and shows the pushes that reached the log Y.
AnswerSound(c, X, Y, s, w, r) ==
    r # None =>
        /\ s.pc \in {"probe", "wait"}
        /\ w = <<>>
        /\ r.type = "response" =>
             /\ Required(Range(r.events)) <= s.level
             /\ Sound(r.events, X, c)
             /\ Content(r.have) \subseteq Y
             /\ Content(s.prev) \subseteq r.have

\* While a requester applies and pushes, it knows what the responder has.
RoundSound(Y, s, w, r) ==
    s.pc \in {"apply", "push"} =>
        /\ w = <<>>
        /\ r = None
        /\ Content(s.rhave) \subseteq Y
        /\ Content(s.prev) \subseteq s.rhave

\* No push is lost while the session lasts.
PushesKept(B, s, w) == s.pc \notin Resting => Content(s.prev) \subseteq B \cup Pushed(w, Len(w) + 1)

\* A link between the logs X and Y, with the events ap of it being applied.
Link(c, X, Y, ap, s, w, r) ==
    /\ AskedLast(X, s, w, r)
    /\ PushesSound(c, Y \cup ap, w)
    /\ AnswerSound(c, X, Y, s, w, r)
    /\ RoundSound(Y, s, w, r)
    /\ PushesKept(Y \cup ap, s, w)

\* A push on the wire is a sequence of events.
LEMMA MessageParts ==
    ASSUME NEW w \in Seq(Message)
    PROVE  /\ Len(w) \in Nat
           /\ \A i \in 1 .. Len(w) :
                 /\ w[i].level \in 1 .. TopLevel
                 /\ w[i].type \in {"fp", "request", "followup"}
                 /\ w[i].type = "followup" => w[i].events \in Seq(Event)
                 /\ w[i].type # "followup" => w[i].have \in SUBSET Event
<1>1. Len(w) \in Nat /\ \A i \in 1 .. Len(w) : w[i] \in Message
  BY Zenon, ElementOfSeq, LenProperties
<1>2. ASSUME NEW m \in Message
      PROVE  /\ m.level \in 1 .. TopLevel
             /\ m.type \in {"fp", "request", "followup"}
             /\ m.type = "followup" => m.events \in Seq(Event)
             /\ m.type # "followup" => m.have \in SUBSET Event
  BY Zenon DEF Message
<1> QED
  BY Zenon, <1>1, <1>2

\* The logs may grow, and what was being applied may have been.
LEMMA LinkStays ==
    ASSUME NEW c, NEW d, Extends(c, d), NEW X, NEW X2, NEW Y, NEW Y2, NEW ap, NEW ap2,
           Content(X) \subseteq X2, Content(Y) \subseteq Y2, Content(ap) \subseteq Y2 \cup ap2,
           NEW s \in Session, NEW w \in Seq(Message), NEW r \in Answer,
           Link(c, X, Y, ap, s, w, r)
    PROVE  Link(d, X2, Y2, ap2, s, w, r)
<1>1. AskedLast(X2, s, w, r)
  <2>1. \A S : Content(S) \subseteq X => Content(S) \subseteq X2
    BY Zenon DEF Content
  <2> QED
    BY Zenon, <2>1 DEF Link, AskedLast
<1>2. PushesSound(d, Y2 \cup ap2, w)
  <2> SUFFICES ASSUME NEW i \in 1 .. Len(w), w[i].type = "followup"
               PROVE  /\ Required(Range(w[i].events)) <= w[i].level
                      /\ Sound(w[i].events, Y2 \cup ap2 \cup Pushed(w, i), d)
    BY Zenon DEF PushesSound
  <2>1. /\ Required(Range(w[i].events)) <= w[i].level
        /\ Sound(w[i].events, Y \cup ap \cup Pushed(w, i), c)
    BY Zenon DEF Link, PushesSound
  <2>2. w[i].events \in Seq(Event)
    BY Zenon, MessageParts
  <2> DEFINE Z == Y \cup ap \cup Pushed(w, i)
             Z2 == Y2 \cup ap2 \cup Pushed(w, i)
             q == w[i].events
  <2>3. Content(Z) \subseteq Z2 /\ Sound(q, Z, c) /\ q \in Seq(Event)
    BY Zenon, <2>1, <2>2 DEF Content
  <2> HIDE DEF Z, Z2, q
  <2>4. Sound(q, Z2, d)
    BY Zenon, <2>3, SoundStays
  <2> QED
    BY Zenon, <2>1, <2>4 DEF Z2, q
<1>3. AnswerSound(d, X2, Y2, s, w, r)
  <2> SUFFICES ASSUME r # None, r.type = "response"
               PROVE  Sound(r.events, X2, d) /\ Content(r.have) \subseteq Y2
    BY Zenon DEF Link, AnswerSound
  <2>1. Sound(r.events, X, c) /\ Content(r.have) \subseteq Y
    BY Zenon DEF Link, AnswerSound
  <2>2. r.events \in Seq(Event)
    BY Zenon DEF Answer, None
  <2>3. Sound(r.events, X2, d)
    BY Zenon, <2>1, <2>2, SoundStays
  <2> QED
    BY Zenon, <2>1, <2>3 DEF Content
<1>4. RoundSound(Y2, s, w, r)
  <2>1. \A S : Content(S) \subseteq Y => Content(S) \subseteq Y2
    BY Zenon DEF Content
  <2> QED
    BY Zenon, <2>1 DEF Link, RoundSound
<1>5. PushesKept(Y2 \cup ap2, s, w)
  <2> SUFFICES ASSUME s.pc \notin Resting, NEW e \in Content(s.prev)
               PROVE  e \in Y2 \cup ap2 \cup Pushed(w, Len(w) + 1)
    BY Zenon DEF PushesKept
  <2>1. e \in Y \cup ap \cup Pushed(w, Len(w) + 1)
    BY Zenon DEF Link, PushesKept
  <2> QED
    BY Zenon, <2>1 DEF Content
<1> QED
  BY Zenon, <1>1, <1>2, <1>3, <1>4, <1>5 DEF Link

\* Steps of the session that neither write nor read.
LEMMA LinkMoves ==
    ASSUME NEW c, NEW X, NEW Y, NEW ap, NEW s \in Session, NEW w \in Seq(Message), NEW r \in Answer,
           Link(c, X, Y, ap, s, w, r),
           \A i \in 1 .. Len(w) : w[i].type = "followup",
           NEW t \in Session, t.pc \in Resting \cup {"start", "round"},
           t.pc \in Resting \/ t.prev = {} \/ (s.pc \notin Resting /\ t.prev = s.prev)
    PROVE  Link(c, X, Y, ap, t, w, None)
<1>1. AskedLast(X, t, w, None)
  BY Zenon DEF AskedLast
<1>2. PushesSound(c, Y \cup ap, w)
  BY Zenon DEF Link
<1>3. AnswerSound(c, X, Y, t, w, None)
  BY Zenon DEF AnswerSound
<1>4. RoundSound(Y, t, w, None)
  <2>1. t.pc \notin {"apply", "push"}
    BY Zenon DEF Resting
  <2> QED
    BY Zenon, <2>1 DEF RoundSound
<1>5. PushesKept(Y \cup ap, t, w)
  <2>1. CASE t.pc \in Resting
    BY Zenon, <2>1 DEF PushesKept
  <2>2. CASE t.prev = {}
    BY Zenon, <2>2 DEF PushesKept, Content
  <2>3. CASE s.pc \notin Resting /\ t.prev = s.prev
    BY Zenon, <2>3 DEF PushesKept, Link
  <2> QED
    BY Zenon, <2>1, <2>2, <2>3
<1> QED
  BY Zenon, <1>1, <1>2, <1>3, <1>4, <1>5 DEF Link

\* Outside a round nothing is asked and nothing answered.
LEMMA LinkQuiet ==
    ASSUME NEW c, NEW X, NEW Y, NEW ap, NEW s \in Session, NEW w \in Seq(Message), NEW r \in Answer,
           Link(c, X, Y, ap, s, w, r), s.pc \notin {"probe", "wait"}
    PROVE  r = None /\ \A i \in 1 .. Len(w) : w[i].type = "followup"
BY Zenon DEF Link, AskedLast, AnswerSound

\* A probe or a request goes behind the pushes.
LEMMA LinkAsks ==
    ASSUME NEW c, NEW X, NEW Y, NEW ap, NEW s \in Session, NEW w \in Seq(Message), NEW r \in Answer,
           Link(c, X, Y, ap, s, w, r), s.pc \notin {"probe", "wait"},
           NEW t \in Session, t.pc \in {"probe", "wait"},
           t.prev = {} \/ (s.pc \notin Resting /\ t.prev = s.prev),
           NEW m \in Message, m.type # "followup", m.level = t.level, m.have = X
    PROVE  Link(c, X, Y, ap, t, Append(w, m), r)
<1> DEFINE v == Append(w, m)
<1>1. r = None /\ Len(w) \in Nat /\ \A i \in 1 .. Len(w) : w[i].type = "followup"
  BY LinkQuiet, MessageParts
<1>2. /\ Len(v) = Len(w) + 1 /\ v[Len(w) + 1] = m
      /\ \A i \in 1 .. Len(w) : v[i] = w[i]
  BY <1>1
<1> HIDE DEF v
<1>3. AskedLast(X, t, v, r)
  <2> SUFFICES ASSUME NEW i \in 1 .. Len(v), v[i].type # "followup"
               PROVE  i = Len(v) /\ v[i].level = t.level /\ Content(v[i].have) \subseteq X
    BY Zenon, <1>1 DEF AskedLast
  <2>1. i = Len(w) + 1
    BY <1>1, <1>2
  <2> QED
    BY Zenon, <1>2, <2>1 DEF Content
<1>4. \A i \in 1 .. Len(w) + 1 : Pushed(v, i) = Pushed(w, i)
  <2> TAKE i \in 1 .. Len(w) + 1
  <2>1. \A j \in 1 .. (i - 1) : v[j] = w[j]
    BY <1>1, <1>2
  <2> QED
    BY Zenon, <2>1 DEF Pushed
<1>5. PushesSound(c, Y \cup ap, v)
  <2> SUFFICES ASSUME NEW i \in 1 .. Len(v), v[i].type = "followup"
               PROVE  /\ Required(Range(v[i].events)) <= v[i].level
                      /\ Sound(v[i].events, Y \cup ap \cup Pushed(v, i), c)
    BY Zenon DEF PushesSound
  <2>1. i \in 1 .. Len(w) /\ i \in 1 .. Len(w) + 1
    BY <1>1, <1>2
  <2> QED
    BY Zenon, <1>2, <1>4, <2>1 DEF Link, PushesSound
<1>6. AnswerSound(c, X, Y, t, v, r)
  BY Zenon, <1>1 DEF AnswerSound
<1>7. RoundSound(Y, t, v, r)
  BY Zenon DEF RoundSound
<1>8. PushesKept(Y \cup ap, t, v)
  <2> SUFFICES ASSUME NEW e \in Content(t.prev)
               PROVE  e \in Y \cup ap \cup Pushed(v, Len(v) + 1)
    BY Zenon DEF PushesKept
  <2>1. e \in Y \cup ap \cup Pushed(w, Len(w) + 1)
    BY Zenon DEF Link, PushesKept, Content
  <2>2. \A j \in 1 .. ((Len(w) + 1) - 1) : j \in 1 .. ((Len(v) + 1) - 1) /\ v[j] = w[j]
    BY <1>1, <1>2
  <2>3. Pushed(w, Len(w) + 1) \subseteq Pushed(v, Len(v) + 1)
    BY Zenon, <2>2 DEF Pushed
  <2> QED
    BY Zenon, <2>1, <2>3
<1> QED
  BY Zenon, <1>3, <1>5, <1>6, <1>7, <1>8 DEF Link, v

\* The responder answers the last message, when it has applied all pushes.
LEMMA LinkServed ==
    ASSUME NEW c, NEW X, NEW Y, NEW s \in Session, NEW w \in Seq(Message), NEW r \in Answer,
           Link(c, X, Y, {}, s, w, r), w # <<>>, w[1].type # "followup",
           NEW a \in Answer,
           a.type = "response" => /\ Required(Range(a.events)) <= w[1].level
                                  /\ Sound(a.events, X, c)
                                  /\ a.have = Y
    PROVE  Link(c, X, Y, {}, s, Tail(w), a)
<1>1. Len(w) \in Nat \ {0} /\ 1 \in 1 .. Len(w)
  BY EmptySeq
<1>2. Len(w) = 1 /\ s.pc \in {"probe", "wait"} /\ w[1].level = s.level
  BY Zenon, <1>1 DEF Link, AskedLast
<1>3. Tail(w) = <<>>
  <2>1. Tail(w) \in Seq(Message) /\ Len(Tail(w)) = 0
    BY <1>1, <1>2
  <2> QED
    BY Zenon, <2>1, EmptySeq
<1>4. Len(<<>>) = 0 /\ 1 .. 0 = {}
  OBVIOUS
<1>5. Content(s.prev) \subseteq Y
  <2>1. s.pc \notin Resting /\ (Len(w) + 1) - 1 = 1 /\ \A j \in 1 .. 1 : j = 1
    BY <1>2 DEF Resting
  <2>2. Pushed(w, Len(w) + 1) = {}
    BY Zenon, <2>1 DEF Pushed
  <2> QED
    BY Zenon, <2>1, <2>2 DEF Link, PushesKept
<1>6. AskedLast(X, s, <<>>, a) /\ PushesSound(c, Y \cup {}, <<>>)
  BY Zenon, <1>4 DEF AskedLast, PushesSound
<1>7. AnswerSound(c, X, Y, s, <<>>, a)
  BY Zenon, <1>2, <1>5 DEF AnswerSound, Content
<1>8. RoundSound(Y, s, <<>>, a)
  BY Zenon, <1>2 DEF RoundSound
<1>9. PushesKept(Y \cup {}, s, <<>>)
  BY Zenon, <1>5 DEF PushesKept
<1> QED
  BY Zenon, <1>3, <1>6, <1>7, <1>8, <1>9 DEF Link

\* The requester takes the response.
LEMMA LinkResponded ==
    ASSUME NEW c, NEW X, NEW Y, NEW ap, NEW s \in Session, NEW w \in Seq(Message), NEW r \in Answer,
           Link(c, X, Y, ap, s, w, r), r.type = "response",
           NEW t \in Session, t.pc \in {"apply", "push"}, t.rhave = r.have, t.prev = s.prev
    PROVE  Link(c, X, Y, ap, t, w, None)
<1>1. r # None
  BY DEF None
<1>2. /\ s.pc \notin Resting /\ w = <<>> /\ Content(r.have) \subseteq Y
      /\ Content(s.prev) \subseteq r.have
  <2>1. s.pc \in {"probe", "wait"} => s.pc \notin Resting
    BY Zenon DEF Resting
  <2> QED
    BY Zenon, <1>1, <2>1 DEF Link, AnswerSound
<1>3. 1 .. Len(w) = {}
  BY <1>2
<1>4. AskedLast(X, t, w, None) /\ PushesSound(c, Y \cup ap, w) /\ AnswerSound(c, X, Y, t, w, None)
  BY Zenon, <1>3 DEF AskedLast, PushesSound, AnswerSound
<1>5. RoundSound(Y, t, w, None)
  BY Zenon, <1>2 DEF RoundSound
<1>6. PushesKept(Y \cup ap, t, w)
  BY Zenon, <1>2 DEF PushesKept, Link
<1> QED
  BY Zenon, <1>4, <1>5, <1>6 DEF Link

\* The responder takes the next push to its log.
LEMMA LinkFollowed ==
    ASSUME NEW c, NEW X, NEW Y, NEW s \in Session, NEW w \in Seq(Message), NEW r \in Answer,
           Link(c, X, Y, {}, s, w, r), w # <<>>, w[1].type = "followup"
    PROVE  Link(c, X, Y, Range(w[1].events), s, Tail(w), r)
<1> DEFINE v == Tail(w)
           ap == Range(w[1].events)
<1>1. Len(w) \in Nat \ {0}
  BY Zenon, EmptySeq
<1>2. /\ v \in Seq(Message) /\ Len(v) = Len(w) - 1
      /\ \A i \in 1 .. Len(v) : v[i] = w[i + 1]
  BY <1>1
<1> HIDE DEF v
<1>3. r = None /\ s.pc \notin {"apply", "push"}
  BY Zenon DEF Link, AnswerSound, RoundSound
<1>4. \A i \in 1 .. Len(v) : i + 1 \in 1 .. Len(w) /\ (i + 1 = Len(w) => i = Len(v))
  BY <1>1, <1>2
<1>5. AskedLast(X, s, v, r)
  <2> SUFFICES ASSUME NEW i \in 1 .. Len(v), v[i].type # "followup"
               PROVE  /\ i = Len(v) /\ s.pc \in {"probe", "wait"} /\ r = None
                      /\ v[i].level = s.level /\ Content(v[i].have) \subseteq X
    BY Zenon DEF AskedLast
  <2> DEFINE k == i + 1
  <2>1. k \in 1 .. Len(w) /\ (k = Len(w) => i = Len(v)) /\ v[i] = w[k]
    BY Zenon, <1>2, <1>4
  <2> HIDE DEF k
  <2> QED
    BY Zenon, <2>1 DEF Link, AskedLast
<1>6. ASSUME NEW i \in 1 .. Len(v) + 1
      PROVE  Pushed(w, i + 1) \subseteq ap \cup Pushed(v, i)
  <2> SUFFICES ASSUME NEW e \in Event, NEW j \in 1 .. ((i + 1) - 1),
                      w[j].type = "followup", e \in Range(w[j].events), j # 1
               PROVE  \E h \in 1 .. (i - 1) : v[h].type = "followup" /\ e \in Range(v[h].events)
    BY Zenon DEF Pushed
  <2>1. j - 1 \in 1 .. (i - 1) /\ j - 1 \in 1 .. Len(v) /\ (j - 1) + 1 = j
    BY <1>1, <1>2
  <2>2. v[j - 1] = w[j]
    BY Zenon, <1>2, <2>1
  <2> QED
    BY Zenon, <2>1, <2>2
<1>7. PushesSound(c, Y \cup ap, v)
  <2> SUFFICES ASSUME NEW i \in 1 .. Len(v), v[i].type = "followup"
               PROVE  /\ Required(Range(v[i].events)) <= v[i].level
                      /\ Sound(v[i].events, Y \cup ap \cup Pushed(v, i), c)
    BY Zenon DEF PushesSound
  <2> DEFINE k == i + 1
             Z == Y \cup {} \cup Pushed(w, k)
             Z2 == Y \cup ap \cup Pushed(v, i)
             q == v[i].events
  <2>1. k \in 1 .. Len(w) /\ v[i] = w[k]
    BY Zenon, <1>2, <1>4
  <2>2. Z \subseteq Z2
    <3>1. i \in 1 .. Len(v) + 1
      BY <1>1, <1>2
    <3> QED
      BY Zenon, <1>6, <3>1
  <2> HIDE DEF k
  <2>3. Required(Range(v[i].events)) <= v[i].level /\ Sound(q, Z, c)
    BY Zenon, <2>1 DEF Link, PushesSound
  <2>4. q \in Seq(Event)
    BY Zenon, <1>2, MessageParts
  <2>5. Content(Z) \subseteq Z2 /\ Extends(c, c)
    BY Zenon, <2>2 DEF Content, Extends
  <2> HIDE DEF Z, Z2, q
  <2>6. Sound(q, Z2, c)
    BY Zenon, <2>3, <2>4, <2>5, SoundStays
  <2> QED
    BY Zenon, <2>3, <2>6 DEF Z2, q
<1>8. PushesKept(Y \cup ap, s, v)
  <2>1. Len(v) + 1 \in 1 .. Len(v) + 1 /\ (Len(v) + 1) + 1 = Len(w) + 1
    BY <1>1, <1>2
  <2>2. Pushed(w, Len(w) + 1) \subseteq ap \cup Pushed(v, Len(v) + 1)
    BY Zenon, <1>6, <2>1
  <2> QED
    BY Zenon, <2>2 DEF PushesKept, Link
<1> QED
  BY Zenon, <1>3, <1>5, <1>7, <1>8 DEF Link, AnswerSound, RoundSound, v

\* The requester has applied an event of the response.
LEMMA LinkApplied ==
    ASSUME NEW c, NEW X, NEW Y, NEW ap, NEW s \in Session, NEW w \in Seq(Message), NEW r \in Answer,
           Link(c, X, Y, ap, s, w, r), s.pc = "apply",
           NEW t \in Session, t.pc \in {"apply", "push"}, t.rhave = s.rhave, t.prev = s.prev
    PROVE  Link(c, X, Y, ap, t, w, r)
<1>1. /\ w = <<>> /\ r = None /\ Content(s.rhave) \subseteq Y /\ Content(s.prev) \subseteq s.rhave
  BY Zenon DEF Link, RoundSound
<1>2. 1 .. Len(w) = {} /\ s.pc \notin Resting
  BY <1>1 DEF Resting
<1>3. AskedLast(X, t, w, r) /\ PushesSound(c, Y \cup ap, w) /\ AnswerSound(c, X, Y, t, w, r)
  BY Zenon, <1>1, <1>2 DEF AskedLast, PushesSound, AnswerSound
<1>4. RoundSound(Y, t, w, r) /\ PushesKept(Y \cup ap, t, w)
  BY Zenon, <1>1, <1>2 DEF RoundSound, PushesKept, Link
<1> QED
  BY Zenon, <1>3, <1>4 DEF Link

\* An empty wire between sessions.
LEMMA LinkIdle ==
    ASSUME NEW c, NEW X, NEW Y, NEW ap, NEW s \in Session, s.pc \in Resting
    PROVE  Link(c, X, Y, ap, s, <<>>, None)
<1>1. 1 .. Len(<<>>) = {} /\ s.pc \notin {"apply", "push"}
  BY DEF Resting
<1> QED
  BY Zenon, <1>1 DEF Link, AskedLast, PushesSound, AnswerSound, RoundSound, PushesKept

\* The frames F of a round, as the messages of G: at least one.
PushedAs(S, have, C, F, v, G) ==
    /\ \A i \in 1 .. Len(G) : \A t \in 1 .. Len(G[i]) : \A p \in C :
           p.id \in G[i][t].parents =>
               \/ p \in have
               \/ \E u \in 1 .. (t - 1) : G[i][u] = p
               \/ \E h \in 1 .. (i - 1) : p \in Range(G[h])
    /\ \A i \in 1 .. Len(G) : Range(G[i]) \subseteq Sent(F) /\ Range(G[i]) \subseteq S
    /\ Sent(F) = Sent(G)
    /\ Messages(F, v) \in Seq(Message) /\ Len(Messages(F, v)) = Len(G)
    /\ \A i \in 1 .. Len(G) : /\ Messages(F, v)[i].type = "followup"
                              /\ Messages(F, v)[i].level = v
                              /\ Messages(F, v)[i].events = G[i]

\* The pushes of a round keep the order of its frames.
LEMMA MessagesAre ==
    ASSUME NEW S \in SUBSET Event, NEW have, NEW C, NEW F, Framed(S, have, C, F), NEW v \in 1 .. TopLevel
    PROVE  \E G \in Seq(Seq(Event)) : PushedAs(S, have, C, F, v, G)
<1> DEFINE G == IF F = <<>> THEN <<<<>>>> ELSE F
           M == Messages(F, v)
<1>1. F \in Seq(Seq(S)) /\ Len(F) \in Nat
  BY DEF Framed
<1>2. G \in Seq(Seq(S)) /\ Len(G) \in Nat /\ \A i \in 1 .. Len(G) : G[i] \in Seq(S)
  <2>1. CASE F = <<>>
    <3>1. <<>> \in Seq(S)
      OBVIOUS
    <3>2. <<<<>>>> \in Seq(Seq(S))
      BY <3>1
    <3>3. Len(G) = 1 /\ G[1] = <<>> /\ G = <<<<>>>>
      BY Zenon, <2>1
    <3>4. \A i \in 1 .. Len(G) : i = 1
      BY <3>3
    <3>5. Len(G) \in Nat
      BY Zenon, <3>3
    <3> QED
      BY Zenon, <3>1, <3>2, <3>3, <3>4, <3>5
  <2>2. CASE F # <<>>
    BY Zenon, <1>1, <2>2, ElementOfSeq
  <2> QED
    BY Zenon, <2>1, <2>2
<1>3. M = [i \in 1 .. Len(G) |-> [type |-> "followup", level |-> v, events |-> G[i]]]
  BY Zenon DEF Messages
<1>4. \A i \in 1 .. Len(F) : \A t \in 1 .. Len(F[i]) : \A p \in C : p.id \in F[i][t].parents =>
          \/ p \in have
          \/ \E u \in 1 .. (t - 1) : F[i][u] = p
          \/ \E h \in 1 .. (i - 1) : p \in Range(F[h])
  BY Zenon DEF Framed
<1>5. \A i \in 1 .. Len(G) : \A t \in 1 .. Len(G[i]) : \A p \in C : p.id \in G[i][t].parents =>
          \/ p \in have
          \/ \E u \in 1 .. (t - 1) : G[i][u] = p
          \/ \E h \in 1 .. (i - 1) : p \in Range(G[h])
  <2>1. CASE F = <<>>
    <3>1. G = <<<<>>>> /\ Len(G) = 1 /\ G[1] = <<>> /\ \A i \in 1 .. Len(G) : i = 1
      BY <2>1
    <3>2. \A i \in 1 .. Len(G) : 1 .. Len(G[i]) = {}
      BY <3>1
    <3> QED
      BY Zenon, <3>2
  <2>2. CASE F # <<>>
    BY Zenon, <1>4, <2>2
  <2> QED
    BY Zenon, <2>1, <2>2
<1>6. \A i \in 1 .. Len(G) : Range(G[i]) \subseteq Sent(G) /\ Range(G[i]) \subseteq S
  <2> TAKE i \in 1 .. Len(G)
  <2>1. Range(G[i]) \subseteq Sent(G)
    BY Zenon DEF Sent
  <2>2. DOMAIN G[i] = 1 .. Len(G[i]) /\ \A t \in 1 .. Len(G[i]) : G[i][t] \in S
    BY Zenon, <1>2, LenProperties, ElementOfSeq
  <2> QED
    BY Zenon, <2>1, <2>2 DEF Range
<1>7. Sent(F) = Sent(G)
  <2>1. CASE F = <<>>
    <3>1. G = <<<<>>>> /\ Len(G) = 1 /\ G[1] = <<>> /\ \A i \in 1 .. Len(G) : i = 1
      BY <2>1
    <3>2. Range(<<>>) = {} /\ 1 .. Len(F) = {}
      BY <2>1 DEF Range
    <3>3. Sent(F) = {}
      BY Zenon, <3>2 DEF Sent
    <3>4. Sent(G) = {}
      BY Zenon, <3>1, <3>2 DEF Sent
    <3> QED
      BY Zenon, <3>3, <3>4
  <2>2. CASE F # <<>>
    BY Zenon, <2>2
  <2> QED
    BY Zenon, <2>1, <2>2
<1> HIDE DEF G, M
<1>8. G \in Seq(Seq(Event)) /\ \A i \in 1 .. Len(G) : G[i] \in Seq(Event)
  <2>1. \A i \in 1 .. Len(G) : G[i] \in Seq(Event)
    BY Zenon, <1>2, SeqMonotonic
  <2>2. DOMAIN G = 1 .. Len(G) /\ G = [i \in 1 .. Len(G) |-> G[i]]
    BY Zenon, <1>2, LenProperties
  <2>3. G \in [1 .. Len(G) -> Seq(Event)]
    BY Zenon, <2>1, <2>2
  <2> QED
    BY <1>2, <2>1, <2>3
<1>9. /\ M \in Seq(Message) /\ Len(M) = Len(G)
      /\ \A i \in 1 .. Len(G) : M[i].type = "followup" /\ M[i].level = v /\ M[i].events = G[i]
  <2>1. \A i \in 1 .. Len(G) : [type |-> "followup", level |-> v, events |-> G[i]] \in Message
    BY Zenon, <1>8 DEF Message
  <2>2. M \in [1 .. Len(G) -> Message]
    BY Zenon, <1>3, <2>1
  <2>3. M \in Seq(Message) /\ Len(M) = Len(G)
    <3>1. Len(G) \in Nat /\ DOMAIN M = 1 .. Len(G)
      BY Zenon, <1>2, <2>2
    <3>2. M \in Seq(Message)
      BY Zenon, <2>2, <3>1, SeqDef
    <3> QED
      BY <3>1, <3>2, LenProperties
  <2>4. \A i \in 1 .. Len(G) : M[i] = [type |-> "followup", level |-> v, events |-> G[i]]
    BY Zenon, <1>3
  <2>5. ASSUME NEW i \in 1 .. Len(G)
        PROVE  M[i].type = "followup" /\ M[i].level = v /\ M[i].events = G[i]
    <3>1. M[i] = [type |-> "followup", level |-> v, events |-> G[i]]
      BY Zenon, <2>4
    <3> QED
      BY ONLY <3>1
  <2> QED
    BY Zenon, <2>3, <2>5
<1>10. PushedAs(S, have, C, F, v, G)
  BY Zenon, <1>5, <1>6, <1>7, <1>9 DEF M, PushedAs
<1> QED
  BY Zenon, <1>8, <1>10

\* The round's pushes, cut from the requester's log X against what the responder
\* was seen to have, go on an empty wire.
LEMMA LinkPushed ==
    ASSUME NEW c \in SUBSET Event, NEW X \in SUBSET c, NEW Y, NEW ap,
           NEW s \in Session, NEW w \in Seq(Message), NEW r \in Answer,
           Link(c, X, Y, ap, s, w, r), s.pc = "push",
           NEW F, Framed(X, s.rhave, Content(c), F), Required(Sent(F)) <= s.level,
           NEW t \in Session, t.pc \in Resting \cup {"start", "round"}, t.prev \in SUBSET Sent(F)
    PROVE  /\ Link(c, X, Y, ap, t, w \o Messages(F, s.level), r)
           /\ w \o Messages(F, s.level) \in Seq(Message)
<1> DEFINE M == Messages(F, s.level)
<1>1. w = <<>> /\ r = None /\ Content(s.rhave) \subseteq Y
  BY Zenon DEF Link, RoundSound
<1>2. s.level \in 1 .. TopLevel /\ X \in SUBSET Event
  BY Zenon DEF Session
<1>3. PICK G \in Seq(Seq(Event)) :
         /\ \A i \in 1 .. Len(G) : \A k \in 1 .. Len(G[i]) : \A p \in Content(c) :
                p.id \in G[i][k].parents =>
                    \/ p \in s.rhave
                    \/ \E u \in 1 .. (k - 1) : G[i][u] = p
                    \/ \E h \in 1 .. (i - 1) : p \in Range(G[h])
         /\ \A i \in 1 .. Len(G) : Range(G[i]) \subseteq Sent(F) /\ Range(G[i]) \subseteq X
         /\ Sent(F) = Sent(G)
         /\ M \in Seq(Message) /\ Len(M) = Len(G)
         /\ \A i \in 1 .. Len(G) : M[i].type = "followup" /\ M[i].level = s.level /\ M[i].events = G[i]
  <2> DEFINE C == Content(c)
             have == s.rhave
             v == s.level
  <2>1. X \in SUBSET Event /\ Framed(X, have, C, F) /\ v \in 1 .. TopLevel
    BY Zenon, <1>2
  <2> HIDE DEF C, have, v
  <2>2. \E G \in Seq(Seq(Event)) : PushedAs(X, have, C, F, v, G)
    BY Zenon, <2>1, MessagesAre
  <2> QED
    BY Zenon, <2>2 DEF C, have, v, M, PushedAs
<1> HIDE DEF M
<1>4. w \o M = M
  BY <1>1, <1>3
<1>5. Len(G) \in Nat /\ Len(M) = Len(G)
  BY <1>3
<1>6. \A i \in 1 .. Len(G) + 1 : \A h \in 1 .. (i - 1) : Range(G[h]) \subseteq Pushed(M, i)
  <2> TAKE i \in 1 .. Len(G) + 1
  <2> TAKE h \in 1 .. (i - 1)
  <2>1. h \in 1 .. Len(G)
    BY <1>5
  <2>2. Range(G[h]) \subseteq Event /\ M[h].type = "followup" /\ M[h].events = G[h]
    BY Zenon, <1>2, <1>3, <2>1
  <2> QED
    BY Zenon, <2>2 DEF Pushed
<1>7. PushesSound(c, Y \cup ap, M)
  <2> SUFFICES ASSUME NEW i \in 1 .. Len(G)
               PROVE  Required(Range(G[i])) <= s.level /\ Sound(G[i], Y \cup ap \cup Pushed(M, i), c)
    BY Zenon, <1>3 DEF PushesSound
  <2>1. Range(G[i]) \subseteq c /\ Range(G[i]) \in SUBSET Event
    BY Zenon, <1>2, <1>3
  <2>2. Required(Range(G[i])) <= s.level
    <3>1. Range(G[i]) \in SUBSET Sent(F) /\ Sent(F) \in SUBSET Event
      <4>1. Range(G[i]) \subseteq Sent(F) /\ Sent(F) = Sent(G)
        BY Zenon, <1>3
      <4>2. \A j \in 1 .. Len(G) : Range(G[j]) \subseteq Event
        BY Zenon, <1>2, <1>3
      <4>3. Sent(G) \subseteq Event
        BY Zenon, <4>2 DEF Sent
      <4> QED
        BY Zenon, <4>1, <4>3
    <3>2. Required(Range(G[i])) <= Required(Sent(F))
      BY Zenon, <3>1, RequiredGrows
    <3>3. Required(Range(G[i])) \in 1 .. TopLevel /\ Required(Sent(F)) \in 1 .. TopLevel
      BY Zenon, <2>1, <3>1, RequiredIs
    <3> QED
      BY <1>2, <3>2, <3>3
  <2>3. i \in 1 .. Len(G) + 1
    BY <1>5
  <2>4. ASSUME NEW k \in 1 .. Len(G[i]), NEW p \in Content(c), p.id \in G[i][k].parents
        PROVE  p \in Y \cup ap \cup Pushed(M, i) \/ \E j \in 1 .. (k - 1) : G[i][j] = p
    BY Zenon, <1>1, <1>3, <1>6, <2>3, <2>4 DEF Content
  <2> QED
    BY Zenon, <2>1, <2>2, <2>4 DEF Sound, Grounded
<1>8. PushesKept(Y \cup ap, t, M)
  <2>1. Len(G) + 1 \in 1 .. Len(G) + 1 /\ \A i \in 1 .. Len(G) : i \in 1 .. ((Len(G) + 1) - 1)
    BY <1>5
  <2>2. Sent(G) \subseteq Pushed(M, Len(M) + 1)
    BY Zenon, <1>5, <1>6, <2>1 DEF Sent
  <2> QED
    BY Zenon, <1>3, <2>2 DEF PushesKept, Content
<1>9. AskedLast(X, t, M, r)
  BY Zenon, <1>3 DEF AskedLast
<1>10. RoundSound(Y, t, M, r)
  BY Zenon DEF RoundSound, Resting
<1>11. Link(c, X, Y, ap, t, M, r)
  BY Zenon, <1>1, <1>7, <1>8, <1>9, <1>10 DEF Link, AnswerSound
<1> QED
  BY Zenon, <1>3, <1>4, <1>11 DEF M

-----------------------------------------------------------------------------
(* The invariant of the sessions.                                          *)

SyncTypeOK ==
    /\ session \in [Links -> Session]
    /\ wire \in [Links -> Seq(Message)]
    /\ reply \in [Links -> Answer]
    /\ batch \in [Nodes -> Work]

\* Content has only content for parents: profiles are leaves beside the frontier.
ContentParents ==
    \A e \in Content(created) : \A p \in created : p.id \in e.parents => p.kind # Profile

\* The events of a push of link l in the frame w.
Applying(w, l) == IF w.type = "followup" /\ w.link = l THEN Range(w.events) ELSE {}

\* A frame that node n with log X applies.
Frame(c, X, n, w) ==
    w # None =>
        /\ w.events # <<>>
        /\ Sound(w.events, X, c)
        /\ n = IF w.type = "response" THEN Requester(w.link) ELSE Responder(w.link)

LinksSound ==
    \A l \in Links : Link(created, events[Requester(l)], events[Responder(l)],
                          Applying(batch[Responder(l)], l), session[l], wire[l], reply[l])
FramesSound == \A n \in Nodes : Frame(created, events[n], n, batch[n])

\* A requester waits for its response to be applied.
Locked == \A n \in Nodes : batch[n].type = "response" => session[batch[n].link].pc = "apply"

LogKept == LogInv /\ IsFiniteSet(created) /\ ContentParents

SyncInv == LogKept /\ SyncTypeOK /\ LinksSound /\ FramesSound /\ Locked

\* Whatever a node does to its log, nothing signed later is a parent of what is
\* signed, and no content is lost.
LEMMA LogGrows ==
    ASSUME LogKept, [LogNext]_logVars
    PROVE  /\ LogKept' /\ Extends(created, created')
           /\ \A n \in Nodes : Content(events[n]) \subseteq events'[n]
<1> USE DEF LogKept
<1>1. LogInv'
  BY Zenon, StepInv
<1>2. /\ UniqueIds /\ ParentsSigned /\ HeadsAreFrontier /\ created \subseteq Event
      /\ events \in [Nodes -> SUBSET created]
  BY Zenon DEF LogInv, LogTypeOK
<1>3. ASSUME NEW n \in Nodes, NEW i, NEW kind, NEW parents, Author(n, i, kind, parents),
             kind # Profile => parents = heads[n]
      PROVE  /\ IsFiniteSet(created') /\ ContentParents' /\ Extends(created, created')
             /\ \A k \in Nodes : Content(events[k]) \subseteq events'[k]
  <2> DEFINE e == [id |-> i, author |-> n, seq |-> next_sequence(n), parents |-> parents,
                   lamport |-> prepare(n), kind |-> kind]
  <2>1. /\ i \notin IdsOf(created) /\ created' = created \cup {e}
        /\ events' = [events EXCEPT ![n] = @ \cup {e}]
    BY Zenon, <1>3 DEF Author, index_trusted
  <2>2. e.id = i /\ e.kind = kind /\ e.parents = parents
    BY Zenon
  <2> HIDE DEF e
  <2>3. IsFiniteSet(created')
    BY Zenon, <2>1, FS_AddElement
  <2>4. \A p \in created : e.id # p.id /\ e.id \notin p.parents
    BY Zenon, <1>2, <2>1, <2>2 DEF ParentsSigned, IdsOf
  <2>5. Extends(created, created')
    BY Zenon, <2>1, <2>4 DEF Extends
  <2>6. \A k \in Nodes : Content(events[k]) \subseteq events'[k]
    BY Zenon, <1>2, <2>1 DEF Content
  <2>7. \A p \in created' : e.kind # Profile /\ p.id \in e.parents => p.kind # Profile
    <3> SUFFICES ASSUME NEW p \in created', kind # Profile, p.id \in heads[n]
                 PROVE  p.kind # Profile
      BY Zenon, <1>3, <2>2
    <3>1. PICK f \in events[n] : f.kind # Profile /\ f.id = p.id
      <4>1. p.id \in IdsOf({g \in events[n] : g.kind # Profile})
        BY Zenon, <1>2 DEF HeadsAreFrontier
      <4> QED
        BY Zenon, <4>1 DEF IdsOf
    <3>2. f \in created
      BY Zenon, <1>2
    <3>3. p \in created
      BY Zenon, <2>1, <2>4, <3>1, <3>2
    <3> QED
      BY Zenon, <1>2, <3>1, <3>2, <3>3 DEF UniqueIds
  <2>8. ContentParents'
    <3> SUFFICES ASSUME NEW f \in created', f.kind # Profile, NEW p \in created', p.id \in f.parents
                 PROVE  p.kind # Profile
      BY Zenon DEF ContentParents, Content
    <3>1. CASE f = e
      BY Zenon, <2>7, <3>1
    <3>2. CASE f \in created
      <4>1. p \in created
        BY Zenon, <2>1, <2>4, <3>2
      <4> QED
        BY Zenon, <3>2, <4>1 DEF ContentParents, Content
    <3> QED
      BY Zenon, <2>1, <3>1, <3>2
  <2> QED
    BY Zenon, <2>3, <2>5, <2>6, <2>8
<1>4. ASSUME created' = created
      PROVE  IsFiniteSet(created') /\ ContentParents' /\ Extends(created, created')
  BY Zenon, <1>4 DEF ContentParents, Content, Extends
<1>5. ASSUME NEW n \in Nodes, NEW e \in created, Ingest(n, e)
      PROVE  created' = created /\ \A k \in Nodes : Content(events[k]) \subseteq events'[k]
  BY Zenon, <1>2, <1>5 DEF Ingest, index_trusted, Content
<1>6. ASSUME NEW n \in Nodes, Compact(n)
      PROVE  created' = created /\ \A k \in Nodes : Content(events[k]) \subseteq events'[k]
  <2>1. created' = created /\ events' = [events EXCEPT ![n] = events[n] \ superseded(n)]
    BY Zenon, <1>6 DEF Compact
  <2>2. \A e \in superseded(n) : e.kind = Profile
    BY Zenon DEF superseded, Leaves
  <2> QED
    BY Zenon, <1>2, <2>1, <2>2 DEF Content
<1>7. ASSUME UNCHANGED logVars
      PROVE  created' = created /\ \A k \in Nodes : Content(events[k]) \subseteq events'[k]
  BY Zenon, <1>7 DEF logVars, Content
<1>8. ASSUME NEW n \in Nodes, NEW i \in Ids, NEW kind \in Kinds, Author(n, i, kind, heads[n])
      PROVE  /\ IsFiniteSet(created') /\ ContentParents' /\ Extends(created, created')
             /\ \A k \in Nodes : Content(events[k]) \subseteq events'[k]
  BY Zenon, <1>3, <1>8
<1>9. ASSUME NEW n \in Nodes, NEW i \in Ids, NEW parents \in ProfileParents(n),
             Author(n, i, Profile, parents)
      PROVE  /\ IsFiniteSet(created') /\ ContentParents' /\ Extends(created, created')
             /\ \A k \in Nodes : Content(events[k]) \subseteq events'[k]
  BY Zenon, <1>3, <1>9
<1> QED
  BY Zenon, <1>1, <1>4, <1>5, <1>6, <1>7, <1>8, <1>9 DEF LogNext

\* Every log can be cut into frames.
LEMMA LogFramed ==
    ASSUME LogKept, NEW n \in Nodes, NEW have, NEW k \in Nat \ {0}
    PROVE  /\ Framed(events[n], have, Content(created), select_export_frames(events[n], have, k))
           /\ events[n] \in SUBSET created /\ created \in SUBSET Event
<1>1. /\ UniqueIds /\ ParentsHeld /\ ClocksCausal /\ created \subseteq Event
      /\ events[n] \subseteq created /\ IsFiniteSet(created)
  BY Zenon DEF LogKept, LogInv, LogTypeOK
<1>2. \A e \in Event : e.id \in Int /\ e.lamport \in Nat
  <2>1. \A e \in Event : e.id \in Ids /\ e.lamport \in 1 .. MaxClock
    BY Zenon DEF Event
  <2>2. Ids \subseteq Int /\ 1 .. MaxClock \subseteq Nat
    BY LogAssumption
  <2> QED
    BY Zenon, <2>1, <2>2
<1>3. IsFiniteSet(events[n])
  BY Zenon, <1>1, FS_Subset
<1>4. Dated(events[n])
  BY Zenon, <1>1, <1>2, <1>3 DEF Dated, UniqueIds, ClocksCausal
<1>5. \A e \in events[n] : \A p \in Content(created) : p.id \in e.parents => p \in events[n]
  <2> SUFFICES ASSUME NEW e \in events[n], NEW p \in created, p.id \in e.parents
               PROVE  p \in events[n]
    BY Zenon DEF Content
  <2>1. PICK f \in events[n] : f.id = p.id
    BY Zenon, <1>1 DEF ParentsHeld, IdsOf
  <2> QED
    BY Zenon, <1>1, <2>1 DEF UniqueIds
<1> QED
  BY Zenon, <1>1, <1>4, <1>5, ExportFramed

\* The larger of two versions.
LEMMA MaxOfTwo ==
    ASSUME NEW a \in 1 .. TopLevel, NEW b \in 1 .. TopLevel
    PROVE  Max({a, b}) \in 1 .. TopLevel
<1>1. a \in Int /\ b \in Int
  OBVIOUS
<1>2. \E x \in {a, b} : \A y \in {a, b} : x >= y
  BY <1>1
<1>3. Max({a, b}) \in {a, b}
  BY Zenon, <1>2 DEF Max
<1> QED
  BY Zenon, <1>3

\* A step of one link that takes no frame and touches no log.
LEMMA OneLink ==
    ASSUME SyncInv, NEW l \in Links, UNCHANGED <<logVars, batch>>,
           NEW t \in Session, session' = [session EXCEPT ![l] = t],
           NEW v \in Seq(Message), wire' = [wire EXCEPT ![l] = v],
           NEW a \in Answer, reply' = [reply EXCEPT ![l] = a],
           Link(created, events[Requester(l)], events[Responder(l)],
                Applying(batch[Responder(l)], l), t, v, a),
           session[l].pc = "apply" => t.pc = "apply"
    PROVE  SyncInv'
<1>1. /\ session \in [Links -> Session] /\ wire \in [Links -> Seq(Message)]
      /\ reply \in [Links -> Answer] /\ batch \in [Nodes -> Work]
  BY Zenon DEF SyncInv, SyncTypeOK
<1>2. created' = created /\ events' = events /\ batch' = batch
  BY Zenon DEF logVars
<1>3. LogKept'
  BY Zenon, LogGrows DEF SyncInv
<1>4. SyncTypeOK'
  BY Zenon, <1>1, <1>2 DEF SyncTypeOK
<1>5. \A k \in Links : /\ session'[k] = IF k = l THEN t ELSE session[k]
                       /\ wire'[k] = IF k = l THEN v ELSE wire[k]
                       /\ reply'[k] = IF k = l THEN a ELSE reply[k]
  BY Zenon, <1>1
<1>6. LinksSound'
  <2> SUFFICES ASSUME NEW k \in Links
               PROVE  Link(created, events[Requester(k)], events[Responder(k)],
                           Applying(batch[Responder(k)], k), session'[k], wire'[k], reply'[k])
    BY Zenon, <1>2 DEF LinksSound
  <2>1. CASE k = l
    <3>1. session'[l] = t /\ wire'[l] = v /\ reply'[l] = a
      BY Zenon, <1>5
    <3> QED
      BY Zenon, <2>1, <3>1
  <2>2. CASE k # l
    <3>1. session'[k] = session[k] /\ wire'[k] = wire[k] /\ reply'[k] = reply[k]
      BY Zenon, <1>5, <2>2
    <3> QED
      BY Zenon, <3>1 DEF SyncInv, LinksSound
  <2> QED
    BY Zenon, <2>1, <2>2
<1>7. FramesSound'
  BY Zenon, <1>2 DEF SyncInv, FramesSound
<1>8. Locked'
  <2> SUFFICES ASSUME NEW n \in Nodes, batch[n].type = "response"
               PROVE  session'[batch[n].link].pc = "apply"
    BY Zenon, <1>2 DEF Locked
  <2>1. batch[n] \in Work /\ session[batch[n].link].pc = "apply"
    BY Zenon, <1>1 DEF SyncInv, Locked
  <2>2. batch[n].link \in Links
    BY <2>1 DEF Work, None
  <2> QED
    BY Zenon, <1>5, <2>1, <2>2
<1> QED
  BY Zenon, <1>3, <1>4, <1>6, <1>7, <1>8 DEF SyncInv

\* What is known of a link.
LEMMA LinkParts ==
    ASSUME SyncInv, NEW l \in Links
    PROVE  /\ Requester(l) \in Nodes /\ Responder(l) \in Nodes
           /\ session \in [Links -> Session] /\ session[l] \in Session
           /\ wire \in [Links -> Seq(Message)] /\ wire[l] \in Seq(Message)
           /\ reply \in [Links -> Answer] /\ reply[l] \in Answer
           /\ Link(created, events[Requester(l)], events[Responder(l)],
                   Applying(batch[Responder(l)], l), session[l], wire[l], reply[l])
           /\ created \in SUBSET Event
           /\ \A n \in Nodes : events[n] \in SUBSET created /\ events[n] \in SUBSET Event
<1>1. l \in Nodes \X Nodes
  BY Zenon, SyncAssumption
<1>2. Requester(l) \in Nodes /\ Responder(l) \in Nodes
  BY Zenon, <1>1 DEF Requester, Responder
<1>3. created \subseteq Event /\ events \in [Nodes -> SUBSET created]
  BY Zenon DEF SyncInv, LogKept, LogInv, LogTypeOK
<1> QED
  BY Zenon, <1>2, <1>3 DEF SyncInv, SyncTypeOK, LinksSound

\* A probe asks behind the pushes; without one the session goes to its round.
LEMMA ProbeInv ==
    ASSUME SyncInv, NEW l \in Links, Probe(l)
    PROVE  SyncInv'
<1> DEFINE a == Requester(l)
           X == events[a]
           Y == events[Responder(l)]
           ap == Applying(batch[Responder(l)], l)
           s == IF session[l].pc \in Resting THEN Fresh ELSE session[l]
           v == Max({s.level, Required(X)})
           t == [s EXCEPT !.pc = "probe", !.level = v, !.have = X]
           u == [s EXCEPT !.pc = "round", !.level = v]
           m == [type |-> "fp", level |-> v, have |-> X]
<1>1. /\ session[l].pc \in Resting \cup {"start"} /\ UNCHANGED <<logVars, batch>> /\ reply' = reply
      /\ \/ session' = [session EXCEPT ![l] = t] /\ wire' = [wire EXCEPT ![l] = Append(wire[l], m)]
         \/ session' = [session EXCEPT ![l] = u] /\ wire' = wire
  BY Zenon DEF Probe
<1>2. /\ session[l] \in Session /\ wire \in [Links -> Seq(Message)] /\ wire[l] \in Seq(Message)
      /\ reply \in [Links -> Answer] /\ reply[l] \in Answer /\ X \in SUBSET Event
      /\ Link(created, X, Y, ap, session[l], wire[l], reply[l])
  BY Zenon, LinkParts
<1>3. /\ session[l].pc \notin {"probe", "wait"} /\ session[l].pc # "apply"
      /\ session[l].pc \notin Resting => session[l].pc = "start"
  BY Zenon, <1>1 DEF Resting
<1>4. s \in Session /\ (s.prev = {} \/ (session[l].pc \notin Resting /\ s.prev = session[l].prev))
  <2>1. Fresh \in Session /\ Fresh.prev = {}
    BY SyncAssumption DEF Fresh, Session, Resting
  <2> QED
    BY Zenon, <1>2, <2>1
<1>5. v \in 1 .. TopLevel
  <2>1. s.level \in 1 .. TopLevel
    BY Zenon, <1>4 DEF Session
  <2>2. Required(X) \in 1 .. TopLevel
    BY Zenon, <1>2, RequiredIs
  <2> QED
    BY Zenon, <2>1, <2>2, MaxOfTwo
<1> HIDE DEF s, v
<1>6. t \in Session /\ t.pc = "probe" /\ t.level = v /\ t.prev = s.prev
  BY Zenon, <1>2, <1>4, <1>5 DEF Session
<1>7. u \in Session /\ u.pc = "round" /\ u.prev = s.prev
  BY Zenon, <1>2, <1>4, <1>5 DEF Session
<1>8. m \in Message /\ m.type # "followup" /\ m.level = v /\ m.have = X
  BY Zenon, <1>2, <1>5 DEF Message
<1> HIDE DEF t, u, m, X, Y, ap
<1>9. reply[l] = None /\ reply' = [reply EXCEPT ![l] = None] /\ None \in Answer
      /\ \A i \in 1 .. Len(wire[l]) : wire[l][i].type = "followup"
  <2>1. reply[l] = None /\ \A i \in 1 .. Len(wire[l]) : wire[l][i].type = "followup"
    BY Zenon, <1>2, <1>3 DEF Link, AskedLast, AnswerSound
  <2> QED
    BY Zenon, <1>1, <1>2, <2>1
<1>10. CASE session' = [session EXCEPT ![l] = t] /\ wire' = [wire EXCEPT ![l] = Append(wire[l], m)]
  <2>1. Append(wire[l], m) \in Seq(Message)
    BY <1>2, <1>8
  <2>2. Link(created, X, Y, ap, t, Append(wire[l], m), reply[l])
    BY Zenon, <1>2, <1>3, <1>4, <1>6, <1>8, LinkAsks
  <2> QED
    BY Zenon, <1>1, <1>3, <1>6, <1>9, <1>10, <2>1, <2>2, OneLink DEF X, Y, ap
<1>11. CASE session' = [session EXCEPT ![l] = u] /\ wire' = wire
  <2>1. wire' = [wire EXCEPT ![l] = wire[l]]
    BY Zenon, <1>2, <1>11
  <2>2. u.pc \in Resting \cup {"start", "round"}
    BY Zenon, <1>7
  <2>3. Link(created, X, Y, ap, u, wire[l], None)
    BY Zenon, <1>2, <1>4, <1>7, <1>9, <2>2, LinkMoves
  <2> QED
    BY Zenon, <1>1, <1>2, <1>3, <1>7, <1>9, <1>11, <2>1, <2>3, OneLink DEF X, Y, ap
<1> QED
  BY Zenon, <1>1, <1>10, <1>11

\* A request asks behind the pushes.
LEMMA RequestInv ==
    ASSUME SyncInv, NEW l \in Links, Request(l)
    PROVE  SyncInv'
<1> DEFINE a == Requester(l)
           X == events[a]
           Y == events[Responder(l)]
           ap == Applying(batch[Responder(l)], l)
           s == session[l]
           t == [s EXCEPT !.pc = "wait", !.rounds = s.rounds + 1, !.have = X]
           m == [type |-> "request", level |-> s.level, have |-> X]
<1>1. /\ s.pc = "round" /\ UNCHANGED <<logVars, batch>> /\ reply' = reply
      /\ session' = [session EXCEPT ![l].pc = "wait", ![l].rounds = @ + 1, ![l].have = X]
      /\ wire' = [wire EXCEPT ![l] = Append(wire[l], m)]
  BY Zenon DEF Request
<1>2. /\ session \in [Links -> Session] /\ s \in Session /\ wire[l] \in Seq(Message)
      /\ reply \in [Links -> Answer] /\ reply[l] \in Answer /\ X \in SUBSET Event
      /\ Link(created, X, Y, ap, s, wire[l], reply[l])
  BY Zenon, LinkParts
<1>3. session' = [session EXCEPT ![l] = t]
  BY Zenon, <1>1, <1>2
<1>4. t \in Session /\ t.pc = "wait" /\ t.level = s.level /\ t.prev = s.prev
  <2>1. s.rounds + 1 \in Nat
    BY <1>2 DEF Session
  <2> HIDE DEF s
  <2> QED
    BY Zenon, <1>2, <2>1 DEF Session
<1>5. s.pc \notin Resting /\ s.pc # "apply" /\ s.pc \notin {"probe", "wait"}
  BY Zenon, <1>1 DEF Resting
<1>6. m \in Message /\ m.type # "followup" /\ m.level = t.level /\ m.have = X
  BY Zenon, <1>2, <1>4 DEF Message, Session
<1>7. reply' = [reply EXCEPT ![l] = reply[l]] /\ reply[l] \in Answer
  BY Zenon, <1>1, <1>2
<1>8. Append(wire[l], m) \in Seq(Message)
  BY <1>2, <1>6
<1> HIDE DEF t, m, X, Y, ap
<1>9. Link(created, X, Y, ap, t, Append(wire[l], m), reply[l])
  BY Zenon, <1>2, <1>4, <1>5, <1>6, LinkAsks
<1> QED
  BY Zenon, <1>1, <1>3, <1>4, <1>5, <1>7, <1>8, <1>9, OneLink DEF X, Y, ap

\* The requester's answer to an upgrade and to a comparison: it moves on.
LEMMA AnswerTaken ==
    ASSUME SyncInv, NEW l \in Links, UNCHANGED <<logVars, wire, batch>>,
           reply[l] # None, reply' = [reply EXCEPT ![l] = None],
           NEW t \in Session, session' = [session EXCEPT ![l] = t],
           t.pc \in Resting \cup {"start", "round"}, t.prev = session[l].prev
    PROVE  SyncInv'
<1> DEFINE X == events[Requester(l)]
           Y == events[Responder(l)]
           ap == Applying(batch[Responder(l)], l)
<1>1. /\ session[l] \in Session /\ wire \in [Links -> Seq(Message)] /\ wire[l] \in Seq(Message)
      /\ reply[l] \in Answer /\ Link(created, X, Y, ap, session[l], wire[l], reply[l])
  BY Zenon, LinkParts
<1>2. session[l].pc \in {"probe", "wait"} /\ wire[l] = <<>>
  BY Zenon, <1>1 DEF Link, AnswerSound
<1>3. session[l].pc \notin Resting /\ session[l].pc # "apply" /\ 1 .. Len(wire[l]) = {}
  BY <1>2 DEF Resting
<1>4. \A i \in 1 .. Len(wire[l]) : wire[l][i].type = "followup"
  BY Zenon, <1>3
<1>5. wire' = [wire EXCEPT ![l] = wire[l]] /\ None \in Answer
  BY Zenon, <1>1 DEF Answer
<1> HIDE DEF X, Y, ap
<1>6. Link(created, X, Y, ap, t, wire[l], None)
  BY Zenon, <1>1, <1>3, <1>4, LinkMoves
<1> QED
  BY Zenon, <1>1, <1>3, <1>5, <1>6, OneLink DEF X, Y, ap

\* An upgrade starts the session again one version up.
LEMMA UpgradeInv ==
    ASSUME SyncInv, NEW l \in Links, Upgrade(l)
    PROVE  SyncInv'
<1> DEFINE s == session[l]
           t == IF s.level < TopLevel THEN [s EXCEPT !.pc = "start", !.level = s.level + 1]
                                      ELSE [s EXCEPT !.pc = "failed"]
<1>1. /\ reply[l].type = "upgrade" /\ session' = [session EXCEPT ![l] = t]
      /\ UNCHANGED <<logVars, wire, batch>> /\ reply' = [reply EXCEPT ![l] = None]
  BY Zenon DEF Upgrade
<1>2. s \in Session
  BY Zenon, LinkParts
<1>3. reply[l] # None
  BY <1>1 DEF None
<1>4. s.level < TopLevel => s.level + 1 \in 1 .. TopLevel
  BY <1>2, SyncAssumption DEF Session
<1> HIDE DEF s
<1>5. t \in Session /\ t.pc \in Resting \cup {"start", "round"} /\ t.prev = s.prev
  BY Zenon, <1>2, <1>4 DEF Session, Resting
<1> HIDE DEF t
<1> QED
  BY Zenon, <1>1, <1>3, <1>5, AnswerTaken DEF s

\* Equal logs end the session, others go to a round.
LEMMA ComparedInv ==
    ASSUME SyncInv, NEW l \in Links, Compared(l)
    PROVE  SyncInv'
<1> DEFINE s == session[l]
           t == [s EXCEPT !.pc = IF reply[l].matched THEN "done" ELSE "round"]
<1>1. /\ reply[l].type = "fp" /\ session' = [session EXCEPT ![l] = t]
      /\ UNCHANGED <<logVars, wire, batch>> /\ reply' = [reply EXCEPT ![l] = None]
  BY Zenon DEF Compared
<1>2. s \in Session
  BY Zenon, LinkParts
<1>3. reply[l] # None
  BY <1>1 DEF None
<1>4. t \in Session /\ t.pc \in Resting \cup {"start", "round"} /\ t.prev = s.prev
  BY Zenon, <1>2 DEF Session, Resting
<1> HIDE DEF t
<1> QED
  BY Zenon, <1>1, <1>3, <1>4, AnswerTaken

\* The responder's answer to a request that fits its version: a frame the
\* requester can apply.
LEMMA ServeInv ==
    ASSUME SyncInv, NEW l \in Links, Serve(l)
    PROVE  SyncInv'
<1> DEFINE b == Responder(l)
           X == events[Requester(l)]
           Y == events[b]
           m == wire[l][1]
           F == select_export_frames(Y, m.have, 1)
           q == IF F = <<>> THEN <<>> ELSE F[1]
           ap == Applying(batch[b], l)
           C == Content(created)
<1>1. /\ wire[l] # <<>> /\ m.type \in {"fp", "request"} /\ Free(b) /\ UNCHANGED <<logVars, session, batch>>
      /\ wire' = [wire EXCEPT ![l] = Tail(wire[l])]
      /\ \/ reply' = [reply EXCEPT ![l] = [type |-> "upgrade"]]
         \/ \E matched \in {m.have = Y, FALSE} :
               reply' = [reply EXCEPT ![l] = [type |-> "fp", matched |-> matched]]
         \/ /\ ~unsupported_metadata(b, m.level)
            /\ reply' = [reply EXCEPT ![l] = [type |-> "response", have |-> Y, events |-> q]]
  BY Zenon DEF Serve
<1>2. /\ b \in Nodes /\ session \in [Links -> Session] /\ session[l] \in Session /\ wire[l] \in Seq(Message)
      /\ reply[l] \in Answer /\ created \in SUBSET Event /\ Y \in SUBSET created /\ Y \in SUBSET Event
      /\ Link(created, X, Y, ap, session[l], wire[l], reply[l])
  BY Zenon, LinkParts
<1>3. session' = [session EXCEPT ![l] = session[l]]
  BY Zenon, <1>1, <1>2
<1>4. ap = {}
  BY <1>1 DEF Free, None, Applying
<1>5. m.type # "followup" /\ 1 \in 1 .. Len(wire[l])
  <2>1. 1 \in 1 .. Len(wire[l])
    BY <1>1, <1>2, EmptySeq
  <2> QED
    BY Zenon, <1>1, <2>1
<1>6. m.level \in 1 .. TopLevel
  BY Zenon, <1>2, <1>5, MessageParts
<1>7. Content(m.have) \subseteq X
  BY Zenon, <1>2, <1>5 DEF Link, AskedLast
<1>8. Framed(Y, m.have, C, F)
  <2>1. LogKept /\ 1 \in Nat \ {0}
    <3>1. LogKept
      BY Zenon DEF SyncInv
    <3>2. 1 \in Nat \ {0}
      BY ONLY <3>1
    <3> QED
      BY Zenon, <3>1, <3>2
  <2> QED
    BY Zenon, <1>2, <2>1, LogFramed
<1>9. Tail(wire[l]) \in Seq(Message)
  BY <1>1, <1>2
<1> HIDE DEF X, Y, ap, F, m, C
<1>10. ASSUME NEW x \in Answer, reply' = [reply EXCEPT ![l] = x],
              x.type = "response" => /\ Required(Range(x.events)) <= m.level
                                     /\ Sound(x.events, X, created) /\ x.have = Y
       PROVE  SyncInv'
  <2>1. Link(created, X, Y, {}, session[l], Tail(wire[l]), x)
    BY Zenon, <1>1, <1>2, <1>4, <1>5, <1>10, LinkServed DEF m
  <2>2. Link(created, X, Y, ap, session[l], Tail(wire[l]), x) /\ session[l] \in Session
    BY Zenon, <1>2, <1>4, <2>1
  <2> QED
    BY Zenon, <1>1, <1>3, <1>9, <1>10, <2>2, OneLink DEF X, Y, ap
<1>11. CASE reply' = [reply EXCEPT ![l] = [type |-> "upgrade"]]
  <2>1. [type |-> "upgrade"] \in Answer /\ [type |-> "upgrade"].type # "response"
    BY Zenon DEF Answer
  <2> QED
    BY Zenon, <1>10, <1>11, <2>1
<1>12. ASSUME NEW matched \in {m.have = Y, FALSE},
              reply' = [reply EXCEPT ![l] = [type |-> "fp", matched |-> matched]]
       PROVE  SyncInv'
  <2>1. [type |-> "fp", matched |-> matched] \in Answer /\ [type |-> "fp", matched |-> matched].type # "response"
    BY Zenon DEF Answer
  <2> QED
    BY Zenon, <1>10, <1>12, <2>1
<1>13. q \in Seq(Event) /\ Range(q) \in SUBSET Y /\ Sound(q, X, created)
  <2>1. CASE F = <<>>
    <3>1. q = <<>>
      BY Zenon, <2>1
    <3>2. <<>> \in Seq(Event) /\ 1 .. Len(<<>>) = {} /\ Range(<<>>) = {}
      BY DEF Range
    <3> QED
      BY Zenon, <3>1, <3>2 DEF Sound, Grounded
  <2>2. CASE F # <<>>
    <3>1. F \in Seq(Seq(Y))
      BY Zenon, <1>8 DEF Framed
    <3>2. 1 \in 1 .. Len(F) /\ q = F[1] /\ q \in Seq(Y) /\ 1 .. (1 - 1) = {}
      BY <2>2, <3>1, EmptySeq, ElementOfSeq
    <3> HIDE DEF q
    <3>3. q \in Seq(Event) /\ DOMAIN q = 1 .. Len(q) /\ \A i \in 1 .. Len(q) : q[i] \in Y
      BY Zenon, <1>2, <3>2, SeqMonotonic, LenProperties, ElementOfSeq
    <3>4. Range(q) \subseteq Y
      BY Zenon, <3>3 DEF Range
    <3>5. ASSUME NEW i \in 1 .. Len(q), NEW p \in C, p.id \in q[i].parents
          PROVE  p \in X \/ \E j \in 1 .. (i - 1) : q[j] = p
      <4>1. p \in m.have \/ \E j \in 1 .. (i - 1) : q[j] = p
        BY Zenon, <1>8, <3>2, <3>5 DEF Framed
      <4> QED
        BY Zenon, <1>7, <4>1 DEF C, Content
    <3> QED
      BY Zenon, <1>2, <3>3, <3>4, <3>5 DEF Sound, Grounded, C
  <2> QED
    BY Zenon, <2>1, <2>2
<1> HIDE DEF q
<1>14. CASE /\ ~unsupported_metadata(b, m.level)
            /\ reply' = [reply EXCEPT ![l] = [type |-> "response", have |-> Y, events |-> q]]
  <2> DEFINE x == [type |-> "response", have |-> Y, events |-> q]
  <2>1. x \in Answer /\ x.have = Y /\ x.events = q
    BY Zenon, <1>2, <1>13 DEF Answer
  <2>2. ~(Required(Y) > m.level)
    BY Zenon, <1>14 DEF unsupported_metadata, Y
  <2>3. Required(Range(q)) <= Required(Y) /\ Required(Y) \in 1 .. TopLevel /\ Required(Range(q)) \in 1 .. TopLevel
    <3>1. Range(q) \in SUBSET Event
      BY Zenon, <1>2, <1>13
    <3> QED
      BY Zenon, <1>2, <1>13, <3>1, RequiredIs, RequiredGrows
  <2>4. Required(Range(q)) <= m.level
    BY <1>6, <2>2, <2>3
  <2> HIDE DEF x
  <2> QED
    BY Zenon, <1>10, <1>13, <1>14, <2>1, <2>4 DEF x
<1> QED
  BY Zenon, <1>1, <1>11, <1>12, <1>14

\* The end of a round: a push of frames cut from the log as it is now, or an
\* empty one, or none when the session is given up.
LEMMA PushInv ==
    ASSUME SyncInv, NEW l \in Links, Push(l)
    PROVE  SyncInv'
<1> DEFINE X == events[Requester(l)]
           Y == events[Responder(l)]
           ap == Applying(batch[Responder(l)], l)
           C == Content(created)
           s == session[l]
           F == select_export_frames(X, s.rhave, MaxFollowups)
           t == [s EXCEPT !.pc = "start", !.level = Required(Sent(F)), !.prev = {}, !.rhave = {}]
           u == [s EXCEPT !.prev = Sent(F), !.rhave = {}, !.pc = after_round(s, Sent(F))]
           x == [s EXCEPT !.pc = "stuck"]
<1>1. /\ s.pc = "push" /\ UNCHANGED <<logVars, batch>> /\ reply' = reply
      /\ \/ /\ wire' = [wire EXCEPT ![l] = wire[l] \o Messages(<<>>, s.level)]
            /\ session' = [session EXCEPT ![l] = t]
         \/ /\ wire' = [wire EXCEPT ![l] = <<>>]
            /\ session' = [session EXCEPT ![l].pc = "stuck"]
         \/ /\ Required(Sent(F)) <= s.level
            /\ wire' = [wire EXCEPT ![l] = wire[l] \o Messages(F, s.level)]
            /\ session' = [session EXCEPT ![l] = u]
  BY Zenon DEF Push
<1>2. /\ Requester(l) \in Nodes /\ session \in [Links -> Session] /\ s \in Session /\ wire[l] \in Seq(Message)
      /\ reply \in [Links -> Answer] /\ reply[l] \in Answer
      /\ created \in SUBSET Event /\ X \in SUBSET created /\ X \in SUBSET Event
      /\ Link(created, X, Y, ap, s, wire[l], reply[l])
  BY Zenon, LinkParts
<1>3. reply[l] = None
  BY Zenon, <1>1, <1>2 DEF Link, RoundSound
<1>4. reply' = [reply EXCEPT ![l] = reply[l]] /\ s.pc # "apply"
  BY Zenon, <1>1, <1>2
<1>5. Framed(X, s.rhave, C, F)
  <2>1. LogKept /\ MaxFollowups \in Nat \ {0}
    BY Zenon, SyncAssumption DEF SyncInv
  <2> QED
    BY Zenon, <1>2, <2>1, LogFramed
<1> HIDE DEF X, Y, ap, C, F
<1>6. Sent(F) \in SUBSET X /\ Sent(F) \in SUBSET Event
  <2>1. F \in Seq(Seq(X))
    BY Zenon, <1>5 DEF Framed
  <2>2. \A i \in 1 .. Len(F) : Range(F[i]) \subseteq X
    <3> TAKE i \in 1 .. Len(F)
    <3>1. F[i] \in Seq(X)
      BY Zenon, <2>1, ElementOfSeq
    <3>2. DOMAIN F[i] = 1 .. Len(F[i]) /\ \A j \in 1 .. Len(F[i]) : F[i][j] \in X
      BY Zenon, <3>1, LenProperties, ElementOfSeq
    <3> QED
      BY Zenon, <3>2 DEF Range
  <2>3. Sent(F) \subseteq X
    BY Zenon, <2>2 DEF Sent
  <2> QED
    BY Zenon, <1>2, <2>3
<1>7. Required(Sent(F)) \in 1 .. TopLevel /\ s.level \in 1 .. TopLevel
  <2>1. s.level \in 1 .. TopLevel
    BY Zenon, <1>2 DEF Session
  <2> QED
    BY Zenon, <1>6, <2>1, RequiredIs
<1>8. Framed(X, s.rhave, C, <<>>) /\ Required(Sent(<<>>)) <= s.level
  <2>1. <<>> \in Seq(Seq(X)) /\ 1 .. Len(<<>>) = {}
    OBVIOUS
  <2>2. Framed(X, s.rhave, C, <<>>) /\ Sent(<<>>) = {}
    BY Zenon, <2>1 DEF Framed, Sent
  <2>3. Required(Sent(<<>>)) = 1
    BY Zenon, <2>2, RequiredNone
  <2> QED
    BY <1>7, <2>2, <2>3
<1>9. t \in Session /\ t.pc = "start" /\ t.prev = {}
  BY Zenon, <1>2, <1>7 DEF Session
<1>10. u \in Session /\ u.pc \in Resting \cup {"start", "round"} /\ u.prev = Sent(F)
  <2>1. after_round(s, Sent(F)) \in {"done", "failed", "round"}
    BY Zenon DEF after_round
  <2> DEFINE pc == after_round(s, Sent(F))
  <2> HIDE DEF pc, s
  <2>2. pc \in Resting \cup {"start", "round"}
    BY Zenon, <2>1 DEF pc, Resting
  <2>3. [s EXCEPT !.prev = Sent(F), !.rhave = {}, !.pc = pc] \in Session
    BY Zenon, <1>2, <1>6, <2>2 DEF Session
  <2> QED
    BY Zenon, <1>2, <2>2, <2>3 DEF pc, Session
<1>11. x \in Session /\ x.pc = "stuck" /\ x.pc \in Resting
  BY Zenon, <1>2 DEF Session, Resting
<1> HIDE DEF t, u, x
<1>12. CASE /\ wire' = [wire EXCEPT ![l] = wire[l] \o Messages(<<>>, s.level)]
            /\ session' = [session EXCEPT ![l] = t]
  <2>1. t.pc \in Resting \cup {"start", "round"} /\ t.prev \in SUBSET Sent(<<>>)
    BY Zenon, <1>9
  <2>2. /\ Link(created, X, Y, ap, t, wire[l] \o Messages(<<>>, s.level), reply[l])
        /\ wire[l] \o Messages(<<>>, s.level) \in Seq(Message)
    BY Zenon, <1>1, <1>2, <1>8, <1>9, <2>1, LinkPushed DEF C
  <2> QED
    BY Zenon, <1>1, <1>2, <1>4, <1>9, <1>12, <2>2, OneLink DEF X, Y, ap
<1>13. CASE wire' = [wire EXCEPT ![l] = <<>>] /\ session' = [session EXCEPT ![l].pc = "stuck"]
  <2>1. session' = [session EXCEPT ![l] = x]
    BY Zenon, <1>13 DEF x
  <2>2. <<>> \in Seq(Message)
    OBVIOUS
  <2>3. Link(created, X, Y, ap, x, <<>>, None)
    BY Zenon, <1>11, LinkIdle
  <2> QED
    BY Zenon, <1>1, <1>2, <1>3, <1>4, <1>11, <1>13, <2>1, <2>2, <2>3, OneLink DEF X, Y, ap
<1>14. CASE /\ Required(Sent(F)) <= s.level
            /\ wire' = [wire EXCEPT ![l] = wire[l] \o Messages(F, s.level)]
            /\ session' = [session EXCEPT ![l] = u]
  <2>1. u.prev \in SUBSET Sent(F)
    BY Zenon, <1>10
  <2>2. /\ Link(created, X, Y, ap, u, wire[l] \o Messages(F, s.level), reply[l])
        /\ wire[l] \o Messages(F, s.level) \in Seq(Message)
    BY Zenon, <1>1, <1>2, <1>5, <1>10, <1>14, <2>1, LinkPushed DEF C
  <2> QED
    BY Zenon, <1>1, <1>2, <1>4, <1>10, <1>14, <2>2, OneLink DEF X, Y, ap
<1> QED
  BY Zenon, <1>1, <1>12, <1>13, <1>14

\* A node takes a frame of link l to apply it under its lock.
LEMMA FrameTaken ==
    ASSUME SyncInv, NEW l \in Links, UNCHANGED logVars,
           NEW n \in Nodes, batch[n] = None,
           NEW w \in Work, w # None, w.link = l, Frame(created, events[n], n, w),
           batch' = [batch EXCEPT ![n] = w],
           NEW t \in Session, session' = [session EXCEPT ![l] = t],
           NEW v \in Seq(Message), wire' = [wire EXCEPT ![l] = v],
           NEW a \in Answer, reply' = [reply EXCEPT ![l] = a],
           Link(created, events[Requester(l)], events[Responder(l)],
                Applying(batch'[Responder(l)], l), t, v, a),
           session[l].pc = "apply" \/ w.type = "response" => t.pc = "apply"
    PROVE  SyncInv'
<1>1. /\ session \in [Links -> Session] /\ wire \in [Links -> Seq(Message)]
      /\ reply \in [Links -> Answer] /\ batch \in [Nodes -> Work]
  BY Zenon DEF SyncInv, SyncTypeOK
<1>2. created' = created /\ events' = events
  BY Zenon DEF logVars
<1>3. LogKept'
  BY Zenon, LogGrows DEF SyncInv
<1>4. SyncTypeOK'
  BY Zenon, <1>1, <1>2 DEF SyncTypeOK
<1>5. \A k \in Links \ {l} : session'[k] = session[k] /\ wire'[k] = wire[k] /\ reply'[k] = reply[k]
  BY Zenon, <1>1
<1>6. session'[l] = t /\ wire'[l] = v /\ reply'[l] = a
  BY Zenon, <1>1
<1>7. batch'[n] = w /\ \A k \in Nodes \ {n} : batch'[k] = batch[k]
  BY Zenon, <1>1
<1>8. ASSUME NEW k \in Links \ {l}
      PROVE  Link(created, events[Requester(k)], events[Responder(k)],
                  Applying(batch'[Responder(k)], k), session'[k], wire'[k], reply'[k])
  <2>1. Applying(batch'[Responder(k)], k) = Applying(batch[Responder(k)], k)
    <3>1. Responder(k) \in Nodes
      BY Zenon, LinkParts
    <3>2. CASE Responder(k) = n
      <4>1. Applying(w, k) = {}
        BY Zenon DEF Applying
      <4>2. Applying(None, k) = {}
        BY Zenon DEF Applying, None
      <4> QED
        BY Zenon, <1>7, <3>2, <4>1, <4>2
    <3> QED
      BY Zenon, <1>7, <3>1, <3>2
  <2> QED
    BY Zenon, <1>5, <2>1 DEF SyncInv, LinksSound
<1>9. LinksSound'
  <2> SUFFICES ASSUME NEW k \in Links
               PROVE  Link(created, events[Requester(k)], events[Responder(k)],
                           Applying(batch'[Responder(k)], k), session'[k], wire'[k], reply'[k])
    BY Zenon, <1>2 DEF LinksSound
  <2> QED
    BY Zenon, <1>6, <1>8
<1>10. FramesSound'
  BY Zenon, <1>2, <1>7 DEF SyncInv, FramesSound
<1>11. Locked'
  <2> SUFFICES ASSUME NEW k \in Nodes, batch'[k].type = "response"
               PROVE  session'[batch'[k].link].pc = "apply"
    BY Zenon DEF Locked
  <2>1. CASE k = n
    BY Zenon, <1>6, <1>7, <2>1
  <2>2. CASE k # n
    <3>1. batch[k] \in Work /\ batch'[k] = batch[k] /\ session[batch[k].link].pc = "apply"
      BY Zenon, <1>1, <1>7, <2>2 DEF SyncInv, Locked
    <3>2. batch[k].link \in Links
      BY <3>1 DEF Work, None
    <3>3. CASE batch[k].link = l
      BY Zenon, <1>6, <3>1, <3>3
    <3>4. CASE batch[k].link # l
      <4>1. session'[batch[k].link] = session[batch[k].link]
        BY Zenon, <1>5, <3>2, <3>4
      <4> QED
        BY Zenon, <3>1, <4>1
    <3> QED
      BY Zenon, <3>3, <3>4
  <2> QED
    BY Zenon, <2>1, <2>2
<1> QED
  BY Zenon, <1>3, <1>4, <1>9, <1>10, <1>11 DEF SyncInv

\* A response that is not empty is applied under the lock.
LEMMA RespondInv ==
    ASSUME SyncInv, NEW l \in Links, Respond(l)
    PROVE  SyncInv'
<1> DEFINE a == Requester(l)
           X == events[a]
           Y == events[Responder(l)]
           ap == Applying(batch[Responder(l)], l)
           s == session[l]
           m == reply[l]
           pc == IF m.events = <<>> THEN "push" ELSE "apply"
           t == [s EXCEPT !.pc = pc, !.rhave = m.have, !.progress = FALSE]
           w == [type |-> "response", link |-> l, events |-> m.events]
<1>1. /\ m.type = "response" /\ batch[a] = None /\ UNCHANGED logVars /\ wire' = wire
      /\ reply' = [reply EXCEPT ![l] = None]
      /\ \/ Required(Range(m.events)) > s.level
         \/ /\ session' = [session EXCEPT ![l].pc = pc, ![l].rhave = m.have, ![l].progress = FALSE]
            /\ batch' = [batch EXCEPT ![a] = IF m.events = <<>> THEN None ELSE w]
  BY Zenon DEF Respond, Free
<1>2. /\ a \in Nodes /\ Responder(l) \in Nodes /\ session \in [Links -> Session] /\ s \in Session
      /\ wire \in [Links -> Seq(Message)] /\ wire[l] \in Seq(Message) /\ m \in Answer
      /\ Link(created, X, Y, ap, s, wire[l], m)
  BY Zenon, LinkParts
<1>3. m # None /\ m.events \in Seq(Event) /\ m.have \in SUBSET Event /\ None \in Answer
  BY <1>1, <1>2 DEF Answer, None
<1>4. /\ Required(Range(m.events)) <= s.level /\ Sound(m.events, X, created)
      /\ s.pc \in {"probe", "wait"}
  BY Zenon, <1>1, <1>2, <1>3 DEF Link, AnswerSound
<1>5. s.pc # "apply"
  BY Zenon, <1>4
<1>6. ~(Required(Range(m.events)) > s.level)
  <2>1. Range(m.events) \in SUBSET Event
    BY Zenon, <1>4, LinkParts DEF Sound
  <2>2. Required(Range(m.events)) \in Int /\ s.level \in Int
    <3>1. Required(Range(m.events)) \in 1 .. TopLevel
      BY Zenon, <2>1, RequiredIs
    <3>2. s.level \in 1 .. TopLevel
      BY Zenon, <1>2 DEF Session
    <3> QED
      BY <3>1, <3>2
  <2> QED
    BY <1>4, <2>2
<1>7. pc \in {"apply", "push"} /\ (m.events # <<>> => pc = "apply")
  BY Zenon
<1> HIDE DEF pc
<1>8. t \in Session /\ t.pc = pc /\ t.rhave = m.have /\ t.prev = s.prev
  BY Zenon, <1>2, <1>3, <1>7 DEF Session
<1>9. session' = [session EXCEPT ![l] = t] /\ batch' = [batch EXCEPT ![a] = IF m.events = <<>> THEN None ELSE w]
  BY Zenon, <1>1, <1>2, <1>6
<1>10. wire' = [wire EXCEPT ![l] = wire[l]] /\ batch \in [Nodes -> Work]
  BY Zenon, <1>1, <1>2 DEF SyncInv, SyncTypeOK
<1>11. t.pc \in {"apply", "push"}
  BY Zenon, <1>7, <1>8
<1> HIDE DEF t, X, Y, ap
<1>12. Link(created, X, Y, ap, t, wire[l], None)
  BY Zenon, <1>1, <1>2, <1>8, <1>11, LinkResponded
<1>13. CASE m.events = <<>>
  <2>1. batch' = batch
    BY Zenon, <1>1, <1>9, <1>10, <1>13
  <2> QED
    BY Zenon, <1>1, <1>2, <1>3, <1>5, <1>8, <1>9, <1>10, <1>12, <2>1, OneLink DEF X, Y, ap
<1>14. CASE m.events # <<>>
  <2>1. w \in Work /\ w # None /\ w.link = l /\ w.type = "response" /\ w.events = m.events
    BY Zenon, <1>3 DEF Work, None
  <2> HIDE DEF w
  <2>2. batch' = [batch EXCEPT ![a] = w] /\ t.pc = "apply"
    BY Zenon, <1>7, <1>8, <1>9, <1>14
  <2>3. Frame(created, events[a], a, w)
    BY Zenon, <1>4, <1>14, <2>1 DEF Frame, X
  <2>4. Applying(batch'[Responder(l)], l) = ap
    <3>1. CASE Responder(l) = a
      <4>1. "response" # "followup" /\ None.type # "followup"
        BY Zenon DEF None
      <4>2. batch'[Responder(l)] = w /\ batch[Responder(l)] = None
        BY Zenon, <1>1, <1>2, <1>10, <2>2, <3>1
      <4> QED
        BY Zenon, <2>1, <4>1, <4>2 DEF Applying, ap
    <3>2. CASE Responder(l) # a
      BY Zenon, <1>2, <1>10, <2>2, <3>2 DEF ap
    <3> QED
      BY Zenon, <3>1, <3>2
  <2>5. Link(created, X, Y, Applying(batch'[Responder(l)], l), t, wire[l], None)
    BY Zenon, <1>12, <2>4
  <2> DEFINE x == None
             v == wire[l]
  <2>6. /\ UNCHANGED logVars /\ a \in Nodes /\ batch[a] = None /\ v \in Seq(Message) /\ x \in Answer
        /\ session' = [session EXCEPT ![l] = t] /\ wire' = [wire EXCEPT ![l] = v]
        /\ reply' = [reply EXCEPT ![l] = x] /\ t \in Session
    BY Zenon, <1>1, <1>2, <1>3, <1>8, <1>9, <1>10
  <2>7. /\ Link(created, events[Requester(l)], events[Responder(l)], Applying(batch'[Responder(l)], l), t, v, x)
        /\ session[l].pc = "apply" \/ w.type = "response" => t.pc = "apply"
    BY Zenon, <2>2, <2>5 DEF X, Y
  <2> HIDE DEF a, v, x
  <2> QED
    BY Zenon, <2>1, <2>2, <2>3, <2>6, <2>7, FrameTaken
<1> QED
  BY Zenon, <1>13, <1>14

\* A push fits the version it was sent with, and is applied under the lock.
LEMMA FollowupInv ==
    ASSUME SyncInv, NEW l \in Links, Followup(l)
    PROVE  SyncInv'
<1> DEFINE b == Responder(l)
           X == events[Requester(l)]
           Y == events[b]
           ap == Applying(batch[b], l)
           m == wire[l][1]
           w == [type |-> "followup", link |-> l, events |-> m.events]
<1>1. /\ wire[l] # <<>> /\ m.type = "followup" /\ batch[b] = None /\ UNCHANGED logVars
      /\ \/ Required(Range(m.events)) > m.level
         \/ /\ wire' = [wire EXCEPT ![l] = Tail(wire[l])] /\ session' = session /\ reply' = reply
            /\ batch' = [batch EXCEPT ![b] = IF m.events = <<>> THEN None ELSE w]
  BY Zenon DEF Followup, Free
<1>2. /\ b \in Nodes /\ session \in [Links -> Session] /\ session[l] \in Session /\ wire[l] \in Seq(Message)
      /\ reply \in [Links -> Answer] /\ reply[l] \in Answer
      /\ created \in SUBSET Event /\ Link(created, X, Y, ap, session[l], wire[l], reply[l])
  BY Zenon, LinkParts
<1>3. ap = {}
  BY <1>1 DEF None, Applying
<1>4. 1 \in 1 .. Len(wire[l]) /\ 1 .. (1 - 1) = {} /\ Tail(wire[l]) \in Seq(Message)
  BY <1>1, <1>2, EmptySeq
<1>5. m.events \in Seq(Event) /\ m.level \in 1 .. TopLevel
  BY Zenon, <1>1, <1>2, <1>4, MessageParts
<1>6. Pushed(wire[l], 1) = {}
  BY Zenon, <1>4 DEF Pushed
<1>7. Required(Range(m.events)) <= m.level /\ Sound(m.events, (Y \cup ap) \cup Pushed(wire[l], 1), created)
  BY Zenon, <1>1, <1>2, <1>4 DEF Link, PushesSound
<1>8. (Y \cup ap) \cup Pushed(wire[l], 1) = Y
  BY Zenon, <1>3, <1>6
<1>9. Sound(m.events, Y, created)
  BY Zenon, <1>7, <1>8
<1>10. ~(Required(Range(m.events)) > m.level)
  <2>1. Range(m.events) \in SUBSET Event
    BY Zenon, <1>2, <1>9 DEF Sound
  <2>2. Required(Range(m.events)) \in 1 .. TopLevel
    BY Zenon, <2>1, RequiredIs
  <2>3. Required(Range(m.events)) \in Int /\ m.level \in Int
    BY <1>5, <2>2
  <2> QED
    BY <1>7, <2>3
<1>11. /\ session' = [session EXCEPT ![l] = session[l]] /\ reply' = [reply EXCEPT ![l] = reply[l]]
       /\ batch \in [Nodes -> Work]
  BY Zenon, <1>1, <1>2, <1>10 DEF SyncInv, SyncTypeOK
<1>12. Link(created, X, Y, Range(m.events), session[l], Tail(wire[l]), reply[l])
  <2> HIDE DEF X, Y, ap
  <2> QED
    BY Zenon, <1>1, <1>2, <1>3, LinkFollowed
<1> HIDE DEF X, Y, ap
<1>13. CASE m.events = <<>>
  <2>1. batch' = batch
    BY Zenon, <1>1, <1>10, <1>11, <1>13
  <2>2. Range(m.events) = ap
    <3>1. Range(<<>>) = {}
      BY DEF Range
    <3> QED
      BY Zenon, <1>3, <1>13, <3>1
  <2>3. Link(created, X, Y, ap, session[l], Tail(wire[l]), reply[l])
    BY Zenon, <1>12, <2>2
  <2> QED
    BY Zenon, <1>1, <1>2, <1>4, <1>10, <1>11, <2>1, <2>3, OneLink DEF X, Y, ap
<1>14. CASE m.events # <<>>
  <2>1. w \in Work /\ w # None /\ w.link = l /\ w.type = "followup" /\ w.type # "response" /\ w.events = m.events
    BY Zenon, <1>5 DEF Work, None
  <2> HIDE DEF w
  <2>2. batch' = [batch EXCEPT ![b] = w]
    BY Zenon, <1>1, <1>10, <1>14
  <2>3. Frame(created, events[b], b, w)
    BY Zenon, <1>9, <1>14, <2>1 DEF Frame, Y
  <2>4. Applying(batch'[b], l) = Range(m.events)
    <3>1. batch'[b] = w
      BY Zenon, <1>2, <1>11, <2>2
    <3> QED
      BY Zenon, <2>1, <3>1 DEF Applying
  <2>5. Link(created, X, Y, Applying(batch'[b], l), session[l], Tail(wire[l]), reply[l])
    BY Zenon, <1>12, <2>4
  <2> QED
    BY Zenon, <1>1, <1>2, <1>4, <1>10, <1>11, <2>1, <2>2, <2>3, <2>5, FrameTaken DEF X, Y
<1> QED
  BY Zenon, <1>13, <1>14

\* A broken connection takes its messages and its frames with it.
LEMMA AbortInv ==
    ASSUME SyncInv, NEW l \in Links, Abort(l)
    PROVE  SyncInv'
<1> DEFINE t == [Fresh EXCEPT !.pc = "failed"]
<1>1. /\ session' = [session EXCEPT ![l] = t] /\ wire' = [wire EXCEPT ![l] = <<>>]
      /\ reply' = [reply EXCEPT ![l] = None] /\ UNCHANGED logVars
      /\ batch' = [n \in Nodes |-> IF batch[n] # None /\ batch[n].link = l THEN None ELSE batch[n]]
  BY Zenon DEF Abort, Free
<1>2. /\ session \in [Links -> Session] /\ wire \in [Links -> Seq(Message)]
      /\ reply \in [Links -> Answer] /\ batch \in [Nodes -> Work]
  BY Zenon DEF SyncInv, SyncTypeOK
<1>3. t \in Session /\ t.pc \in Resting
  <2>1. Fresh \in Session
    BY SyncAssumption DEF Fresh, Session, Resting
  <2>2. "failed" \in Resting
    BY Zenon DEF Resting
  <2> QED
    BY Zenon, <2>1, <2>2 DEF Session
<1>4. <<>> \in Seq(Message)
  OBVIOUS
<1> HIDE DEF t
<1>5. created' = created /\ events' = events
  BY Zenon, <1>1 DEF logVars
<1>6. LogKept'
  BY Zenon, <1>1, LogGrows DEF SyncInv
<1>7. SyncTypeOK'
  BY Zenon, <1>1, <1>2, <1>3, <1>4 DEF SyncTypeOK, Answer, Work
<1>8. \A k \in Links \ {l} : session'[k] = session[k] /\ wire'[k] = wire[k] /\ reply'[k] = reply[k]
  BY Zenon, <1>1, <1>2
<1>9. session'[l] = t /\ wire'[l] = <<>> /\ reply'[l] = None
  BY Zenon, <1>1, <1>2
<1>10. \A n \in Nodes : batch'[n] = None \/ (batch'[n] = batch[n] /\ (batch[n] = None \/ batch[n].link # l))
  BY Zenon, <1>1
<1>11. \A n \in Nodes : batch'[n] = batch[n] \/ (batch'[n] = None /\ batch[n].link = l)
  BY Zenon, <1>1
<1>12. None.type = "none" /\ None.type # "followup" /\ None.type # "response"
  BY Zenon DEF None
<1>13. ASSUME NEW k \in Links \ {l}
       PROVE  Link(created, events[Requester(k)], events[Responder(k)],
                   Applying(batch'[Responder(k)], k), session'[k], wire'[k], reply'[k])
  <2>1. Responder(k) \in Nodes
    BY Zenon, LinkParts
  <2>2. Applying(batch'[Responder(k)], k) = Applying(batch[Responder(k)], k)
    BY Zenon, <1>11, <1>12, <2>1 DEF Applying
  <2> QED
    BY Zenon, <1>8, <2>2 DEF SyncInv, LinksSound
<1>14. LinksSound'
  <2> SUFFICES ASSUME NEW k \in Links
               PROVE  Link(created, events[Requester(k)], events[Responder(k)],
                           Applying(batch'[Responder(k)], k), session'[k], wire'[k], reply'[k])
    BY Zenon, <1>5 DEF LinksSound
  <2>1. CASE k = l
    <3> DEFINE X == events[Requester(l)]
               Y == events[Responder(l)]
               ap == Applying(batch'[Responder(l)], l)
    <3> HIDE DEF X, Y, ap
    <3>1. Link(created, X, Y, ap, t, <<>>, None)
      BY Zenon, <1>3, LinkIdle
    <3> QED
      BY Zenon, <1>9, <2>1, <3>1 DEF X, Y, ap
  <2> QED
    BY Zenon, <1>13, <2>1
<1>15. FramesSound'
  BY Zenon, <1>5, <1>10 DEF SyncInv, FramesSound, Frame
<1>16. Locked'
  <2> SUFFICES ASSUME NEW n \in Nodes, batch'[n].type = "response"
               PROVE  session'[batch'[n].link].pc = "apply"
    BY Zenon DEF Locked
  <2>1. batch'[n] = batch[n] /\ batch[n].link # l /\ batch[n] # None
    BY Zenon, <1>10, <1>12
  <2>2. batch[n] \in Work /\ session[batch[n].link].pc = "apply"
    BY Zenon, <1>2, <2>1 DEF SyncInv, Locked
  <2>3. batch[n].link \in Links
    BY Zenon, <2>1, <2>2 DEF Work
  <2>4. session'[batch[n].link] = session[batch[n].link]
    BY Zenon, <1>8, <2>1, <2>3
  <2> QED
    BY Zenon, <2>1, <2>2, <2>4
<1> QED
  BY Zenon, <1>6, <1>7, <1>14, <1>15, <1>16 DEF SyncInv

\* What a node does to its log leaves the sessions sound.
LEMMA LocalInv ==
    ASSUME SyncInv, [LogNext]_logVars, UNCHANGED syncVars
    PROVE  SyncInv'
<1>1. /\ session' = session /\ wire' = wire /\ reply' = reply /\ batch' = batch
  BY Zenon DEF syncVars
<1>2. /\ LogKept' /\ Extends(created, created')
      /\ \A n \in Nodes : Content(events[n]) \subseteq events'[n]
  BY Zenon, LogGrows DEF SyncInv
<1>3. SyncTypeOK'
  BY Zenon, <1>1 DEF SyncInv, SyncTypeOK
<1>4. LinksSound'
  <2> SUFFICES ASSUME NEW k \in Links
               PROVE  Link(created', events'[Requester(k)], events'[Responder(k)],
                           Applying(batch[Responder(k)], k), session[k], wire[k], reply[k])
    BY Zenon, <1>1 DEF LinksSound
  <2> DEFINE X == events[Requester(k)]
             Y == events[Responder(k)]
             X2 == events'[Requester(k)]
             Y2 == events'[Responder(k)]
             ap == Applying(batch[Responder(k)], k)
  <2>1. /\ session[k] \in Session /\ wire[k] \in Seq(Message) /\ reply[k] \in Answer
        /\ Link(created, X, Y, ap, session[k], wire[k], reply[k])
        /\ Requester(k) \in Nodes /\ Responder(k) \in Nodes
    BY Zenon, LinkParts
  <2>2. Content(X) \subseteq X2 /\ Content(Y) \subseteq Y2
    BY Zenon, <1>2, <2>1
  <2> HIDE DEF X, Y, X2, Y2, ap
  <2>3. Content(ap) \subseteq Y2 \cup ap
    BY Zenon DEF Content
  <2>4. Link(created', X2, Y2, ap, session[k], wire[k], reply[k])
    BY Zenon, <1>2, <2>1, <2>2, <2>3, LinkStays
  <2> QED
    BY Zenon, <2>4 DEF X2, Y2, ap
<1>5. FramesSound'
  <2> SUFFICES ASSUME NEW n \in Nodes, batch[n] # None
               PROVE  Sound(batch[n].events, events'[n], created')
    BY Zenon, <1>1 DEF SyncInv, FramesSound, Frame
  <2>1. batch[n] \in Work /\ Sound(batch[n].events, events[n], created)
    BY Zenon DEF SyncInv, SyncTypeOK, FramesSound, Frame
  <2>2. batch[n].events \in Seq(Event)
    BY Zenon, <2>1 DEF Work
  <2> DEFINE X == events[n]
             X2 == events'[n]
             q == batch[n].events
  <2>3. Sound(q, X, created) /\ q \in Seq(Event) /\ Content(X) \subseteq X2
    BY Zenon, <1>2, <2>1, <2>2
  <2> HIDE DEF X, X2, q
  <2>4. Sound(q, X2, created')
    BY Zenon, <1>2, <2>3, SoundStays
  <2> QED
    BY Zenon, <2>4 DEF X2, q
<1>6. Locked'
  BY Zenon, <1>1 DEF SyncInv, Locked
<1> QED
  BY Zenon, <1>2, <1>3, <1>4, <1>5, <1>6 DEF SyncInv

\* A content event the log refuses is one it has: its parents are there, and
\* nobody else has its author and sequence.
LEMMA OnlyDuplicatesRefused ==
    ASSUME LogKept, NEW n \in Nodes, NEW q \in Seq(Event), q # <<>>, Sound(q, events[n], created),
           q[1].kind # Profile, ~(verify_signature(q[1]) /\ validate(n, q[1]))
    PROVE  q[1] \in events[n]
<1> DEFINE e == q[1]
<1>1. 1 \in 1 .. Len(q) /\ DOMAIN q = 1 .. Len(q) /\ 1 .. (1 - 1) = {}
  BY EmptySeq, LenProperties
<1>2. e \in created
  BY Zenon, <1>1 DEF Sound, Range
<1>3. /\ ParentsSigned /\ NoEquivocation /\ ContentParents /\ events[n] \subseteq created
  BY Zenon DEF LogKept, LogInv, LogTypeOK
<1>4. e.parents \subseteq IdsOf(events[n])
  <2> SUFFICES ASSUME NEW i \in e.parents PROVE i \in IdsOf(events[n])
    BY Zenon
  <2>1. PICK p \in created : p.id = i
    BY Zenon, <1>2, <1>3 DEF ParentsSigned, IdsOf
  <2>2. p \in Content(created)
    BY Zenon, <1>2, <1>3, <2>1 DEF ContentParents, Content
  <2>3. p \in events[n]
    BY Zenon, <1>1, <2>1, <2>2 DEF Sound, Grounded
  <2> QED
    BY Zenon, <2>1, <2>3 DEF IdsOf
<1>5. \A f \in events[n] : f.author = e.author /\ f.seq = e.seq => f = e
  BY Zenon, <1>2, <1>3 DEF NoEquivocation
<1> QED
  BY Zenon, <1>2, <1>4, <1>5 DEF verify_signature, validate

\* The frame of a node moves on by one event, and the requester with it.
LEMMA AppliedInv ==
    ASSUME SyncInv, NEW n \in Nodes, apply_received(n)
    PROVE  SyncInv'
<1> DEFINE w == batch[n]
           l == w.link
           q == w.events
           e == q[1]
           w2 == batch'[n]
<1>1. /\ session \in [Links -> Session] /\ wire \in [Links -> Seq(Message)]
      /\ reply \in [Links -> Answer] /\ batch \in [Nodes -> Work]
  BY Zenon DEF SyncInv, SyncTypeOK
<1>2. w \in Work /\ w # None /\ wire' = wire /\ reply' = reply
  BY Zenon, <1>1 DEF apply_received, Free
<1>3. l \in Links /\ q \in Seq(Event) /\ w.type \in {"response", "followup"}
  BY Zenon, <1>2 DEF Work
<1>4. q # <<>> /\ Sound(q, events[n], created)
      /\ n = IF w.type = "response" THEN Requester(l) ELSE Responder(l)
  BY Zenon, <1>2 DEF SyncInv, FramesSound, Frame
<1>5. Len(q) \in Nat \ {0} /\ Tail(q) \in Seq(Event)
  BY <1>3, <1>4, EmptySeq
<1>6. PICK applied \in BOOLEAN :
         /\ Applied(n, applied)
         /\ \/ Ingest(n, e)
            \/ ~(verify_signature(e) /\ validate(n, e)) /\ UNCHANGED logVars
  BY Zenon DEF apply_received
<1>7. [LogNext]_logVars
  BY Zenon, ApplyIngests
<1>8. /\ LogKept' /\ Extends(created, created')
      /\ \A k \in Nodes : Content(events[k]) \subseteq events'[k]
  BY Zenon, <1>7, LogGrows DEF SyncInv
<1>9. created' = created /\ events \in [Nodes -> SUBSET created]
  BY Zenon, <1>6 DEF Ingest, logVars, SyncInv, LogKept, LogInv, LogTypeOK
<1>10. e.kind # Profile => e \in events'[n]
  <2>1. CASE Ingest(n, e)
    <3>1. events' = [events EXCEPT ![n] = events[n] \cup {e}]
      BY Zenon, <2>1 DEF Ingest, index_trusted
    <3> QED
      BY Zenon, <1>9, <3>1
  <2>2. CASE ~(verify_signature(e) /\ validate(n, e)) /\ UNCHANGED logVars
    <3>1. e.kind # Profile => e \in events[n]
      BY Zenon, <1>3, <1>4, <2>2, OnlyDuplicatesRefused DEF SyncInv
    <3>2. events' = events
      BY Zenon, <2>2 DEF logVars
    <3> QED
      BY Zenon, <3>1, <3>2
  <2> QED
    BY Zenon, <1>6, <2>1, <2>2
<1>11. batch' = [batch EXCEPT ![n] = IF Tail(q) = <<>> THEN None ELSE [w EXCEPT !.events = Tail(q)]]
  BY Zenon, <1>6 DEF Applied
<1>12. w2 = (IF Tail(q) = <<>> THEN None ELSE [w EXCEPT !.events = Tail(q)]) /\ \A k \in Nodes \ {n} : batch'[k] = batch[k]
  BY Zenon, <1>1, <1>11
<1>13. /\ w2 \in Work /\ (w2 = None => Tail(q) = <<>>)
       /\ w2 # None => Tail(q) # <<>> /\ w2.events = Tail(q) /\ w2.link = l /\ w2.type = w.type
  <2>1. CASE Tail(q) = <<>>
    BY Zenon, <1>12, <2>1 DEF Work
  <2>2. CASE Tail(q) # <<>>
    <3> DEFINE r == Tail(q)
    <3>1. w2 = [w EXCEPT !.events = r] /\ r \in Seq(Event)
      BY Zenon, <1>5, <1>12, <2>2
    <3>2. w \in [type : {"response", "followup"}, link : Links, events : Seq(Event)]
      BY Zenon, <1>2 DEF Work
    <3> HIDE DEF r, w2, w
    <3>3. /\ w2 \in [type : {"response", "followup"}, link : Links, events : Seq(Event)]
          /\ w2.events = r /\ w2.link = w.link /\ w2.type = w.type
      BY Zenon, <3>1, <3>2
    <3>4. w2 # None
      BY <3>3 DEF None
    <3> QED
      BY Zenon, <2>2, <3>3, <3>4 DEF r, w2, w, Work
  <2> QED
    BY Zenon, <2>1, <2>2
<1>14. batch' \in [Nodes -> Work]
  BY Zenon, <1>1, <1>11, <1>12, <1>13
<1>15. ASSUME w.type = "followup"
       PROVE  session' = session
  BY Zenon, <1>6, <1>15 DEF Applied
<1>16. ASSUME w.type = "response"
       PROVE  /\ session[l].pc = "apply" /\ session' \in [Links -> Session]
              /\ session'[l].pc = (IF Tail(q) = <<>> THEN "push" ELSE "apply")
              /\ session'[l].rhave = session[l].rhave /\ session'[l].prev = session[l].prev
              /\ \A k \in Links \ {l} : session'[k] = session[k]
  <2> DEFINE s == session[l]
             pc == IF Tail(q) = <<>> THEN "push" ELSE s.pc
             pr == s.progress \/ applied
             t == [s EXCEPT !.pc = pc, !.progress = pr]
  <2>1. s.pc = "apply"
    BY Zenon, <1>16 DEF SyncInv, Locked
  <2>2. session' = [session EXCEPT ![l].pc = IF Tail(q) = <<>> THEN "push" ELSE @,
                                   ![l].progress = @ \/ applied]
    <3>1. w.type # "followup"
      BY Zenon, <1>16
    <3> QED
      BY Zenon, <1>6, <3>1 DEF Applied
  <2>3. s \in Session
    BY Zenon, <1>1, <1>3
  <2>4. session' = [session EXCEPT ![l] = t]
    <3> HIDE DEF l, q
    <3> QED
      BY Zenon, <1>1, <1>3, <2>2
  <2>5. pc = (IF Tail(q) = <<>> THEN "push" ELSE "apply") /\ pr \in BOOLEAN
    BY Zenon, <2>1
  <2>6. pc \in {"push", "apply"}
    BY Zenon, <2>5
  <2> HIDE DEF s, pc, pr
  <2>7. t \in Session /\ t.pc = pc /\ t.rhave = s.rhave /\ t.prev = s.prev
    BY Zenon, <2>3, <2>5, <2>6 DEF Session
  <2> HIDE DEF t
  <2>8. session'[l] = t /\ session' \in [Links -> Session] /\ \A k \in Links \ {l} : session'[k] = session[k]
    BY Zenon, <1>1, <1>3, <2>4, <2>7
  <2> QED
    BY Zenon, <2>1, <2>5, <2>7, <2>8 DEF s
<1>17. session' \in [Links -> Session]
  BY Zenon, <1>1, <1>3, <1>15, <1>16
<1>18. SyncTypeOK'
  BY Zenon, <1>1, <1>2, <1>14, <1>17 DEF SyncTypeOK
<1>19. Range(q) \subseteq {e} \cup Range(Tail(q))
  <2> HIDE DEF q, e
  <2>1. /\ DOMAIN q = 1 .. Len(q) /\ DOMAIN Tail(q) = 1 .. (Len(q) - 1)
        /\ \A i \in 1 .. (Len(q) - 1) : Tail(q)[i] = q[i + 1]
    BY <1>3, <1>5, LenProperties
  <2>2. ASSUME NEW i \in 1 .. Len(q), i # 1
        PROVE  q[i] \in Range(Tail(q))
    <3>1. i - 1 \in 1 .. (Len(q) - 1) /\ (i - 1) + 1 = i
      BY <1>5, <2>2
    <3>2. Tail(q)[i - 1] = q[i]
      BY Zenon, <2>1, <3>1
    <3> QED
      BY Zenon, <2>1, <3>1, <3>2 DEF Range
  <2> QED
    BY Zenon, <2>1, <2>2 DEF Range, e
<1>20. ASSUME NEW k \in Links
       PROVE  Content(Applying(batch[Responder(k)], k)) \subseteq
                  events'[Responder(k)] \cup Applying(batch'[Responder(k)], k)
  <2>1. CASE Responder(k) = n /\ w.type = "followup" /\ l = k
    <3>1. Applying(w, k) = Range(q)
      BY Zenon, <2>1 DEF Applying
    <3>2. Range(Tail(q)) \subseteq Applying(w2, k)
      <4>1. CASE Tail(q) = <<>>
        <5>1. Range(<<>>) = {}
          BY DEF Range
        <5> QED
          BY Zenon, <4>1, <5>1
      <4>2. CASE Tail(q) # <<>>
        <5>1. w2.events = Tail(q) /\ w2.link = l /\ w2.type = w.type
          BY Zenon, <1>13, <4>2
        <5> QED
          BY Zenon, <2>1, <5>1 DEF Applying
      <4> QED
        BY Zenon, <4>1, <4>2
    <3> HIDE DEF w, w2, q, e
    <3>3. Content(Range(q)) \subseteq events'[n] \cup Applying(w2, k)
      BY Zenon, <1>10, <1>19, <3>2 DEF Content
    <3> QED
      BY Zenon, <2>1, <3>1, <3>3 DEF w, w2
  <2>2. CASE Responder(k) = n /\ ~(w.type = "followup" /\ l = k)
    <3>1. Applying(w, k) = {}
      BY Zenon, <2>2 DEF Applying
    <3> QED
      BY Zenon, <2>2, <3>1 DEF Content
  <2>3. CASE Responder(k) # n
    <3>1. batch'[Responder(k)] = batch[Responder(k)]
      BY Zenon, <1>12, <2>3, LinkParts
    <3> QED
      BY Zenon, <3>1 DEF Content
  <2> QED
    BY Zenon, <2>1, <2>2, <2>3
<1>21. LinksSound'
  <2> SUFFICES ASSUME NEW k \in Links
               PROVE  Link(created', events'[Requester(k)], events'[Responder(k)],
                           Applying(batch'[Responder(k)], k), session'[k], wire[k], reply[k])
    BY Zenon, <1>2 DEF LinksSound
  <2> DEFINE X == events[Requester(k)]
             Y == events[Responder(k)]
             X2 == events'[Requester(k)]
             Y2 == events'[Responder(k)]
             ap == Applying(batch[Responder(k)], k)
             ap2 == Applying(batch'[Responder(k)], k)
  <2>1. /\ session[k] \in Session /\ wire[k] \in Seq(Message) /\ reply[k] \in Answer
        /\ Link(created, X, Y, ap, session[k], wire[k], reply[k])
        /\ Requester(k) \in Nodes /\ Responder(k) \in Nodes
    BY Zenon, LinkParts
  <2>2. Content(X) \subseteq X2 /\ Content(Y) \subseteq Y2 /\ Content(ap) \subseteq Y2 \cup ap2
    BY Zenon, <1>8, <1>20, <2>1
  <2> HIDE DEF X, Y, X2, Y2, ap, ap2
  <2>3. Link(created', X2, Y2, ap2, session[k], wire[k], reply[k])
    BY Zenon, <1>8, <2>1, <2>2, LinkStays
  <2>4. Link(created', X2, Y2, ap2, session'[k], wire[k], reply[k])
    <3>1. CASE session'[k] = session[k]
      BY Zenon, <2>3, <3>1
    <3>2. CASE w.type = "response" /\ k = l
      <4>1. /\ session[k].pc = "apply" /\ session'[k] \in Session /\ session'[k].pc \in {"apply", "push"}
            /\ session'[k].rhave = session[k].rhave /\ session'[k].prev = session[k].prev
        BY Zenon, <1>16, <1>17, <3>2
      <4> DEFINE t == session'[k]
      <4>2. /\ t \in Session /\ t.pc \in {"apply", "push"}
            /\ t.rhave = session[k].rhave /\ t.prev = session[k].prev
        BY Zenon, <4>1
      <4> HIDE DEF t
      <4>3. Link(created', X2, Y2, ap2, t, wire[k], reply[k])
        BY Zenon, <2>1, <2>3, <4>1, <4>2, LinkApplied
      <4> QED
        BY Zenon, <4>3 DEF t
    <3> QED
      BY Zenon, <1>3, <1>15, <1>16, <3>1, <3>2
  <2> QED
    BY Zenon, <2>4 DEF X2, Y2, ap2
<1>22. FramesSound'
  <2> SUFFICES ASSUME NEW k \in Nodes, batch'[k] # None
               PROVE  Frame(created, events'[k], k, batch'[k])
    BY Zenon, <1>9 DEF FramesSound, Frame
  <2>1. Content(events[k]) \subseteq events'[k] /\ Extends(created, created)
    BY Zenon, <1>8, <1>9
  <2> DEFINE X == events[k]
             X2 == events'[k]
             f == batch[k].events
  <2>2. CASE k = n
    <3>1. /\ w2 # None /\ Tail(q) # <<>> /\ w2.events = Tail(q) /\ w2.link = l /\ w2.type = w.type
      BY Zenon, <1>13, <2>2
    <3>2. q \in Seq(Event) /\ q # <<>> /\ Content(events[n]) \subseteq X2 /\ Sound(q, events[n], created)
          /\ (q[1] \in Content(created) => q[1] \in X2)
      BY Zenon, <1>3, <1>4, <1>10, <2>1, <2>2 DEF Content
    <3>3. Sound(Tail(q), X2, created)
      <4> HIDE DEF q, X2
      <4> QED
        BY Zenon, <3>2, SoundTail
    <3> QED
      BY Zenon, <1>4, <2>2, <3>1, <3>3 DEF Frame
  <2>3. CASE k # n
    <3>1. batch'[k] = batch[k] /\ batch[k] \in Work /\ batch[k] # None
      BY Zenon, <1>1, <1>12, <2>3
    <3>2. f \in Seq(Event)
      BY Zenon, <3>1 DEF Work
    <3>3. Frame(created, X, k, batch[k])
      BY Zenon DEF SyncInv, FramesSound
    <3>4. Sound(f, X, created)
      BY Zenon, <3>1, <3>3 DEF Frame
    <3>5. Sound(f, X2, created)
      <4> HIDE DEF X, X2, f
      <4>1. Content(X) \subseteq X2
        BY Zenon, <2>1 DEF X, X2
      <4> QED
        BY Zenon, <2>1, <3>2, <3>4, <4>1, SoundStays
    <3> QED
      BY Zenon, <3>1, <3>3, <3>5 DEF Frame
  <2> QED
    BY Zenon, <2>2, <2>3
<1>23. Locked'
  <2> SUFFICES ASSUME NEW k \in Nodes, batch'[k].type = "response"
               PROVE  session'[batch'[k].link].pc = "apply"
    BY Zenon DEF Locked
  <2>1. batch'[k] # None
    <3>1. None.type # "response"
      BY Zenon DEF None
    <3> QED
      BY Zenon, <3>1
  <2>2. CASE k = n
    <3>1. w2 # None /\ w2.link = l /\ w2.type = w.type /\ Tail(q) # <<>> /\ w2.type = "response"
      BY Zenon, <1>13, <2>1, <2>2
    <3> QED
      BY Zenon, <1>16, <2>2, <3>1
  <2>3. CASE k # n
    <3>1. batch'[k] = batch[k] /\ batch[k] \in Work /\ session[batch[k].link].pc = "apply"
      BY Zenon, <1>1, <1>12, <2>3 DEF SyncInv, Locked
    <3>2. batch[k].link \in Links /\ k = Requester(batch[k].link)
      <4>1. batch[k].link \in Links
        BY Zenon, <2>1, <3>1 DEF Work
      <4>2. Frame(created, events[k], k, batch[k])
        BY Zenon DEF SyncInv, FramesSound
      <4> QED
        BY Zenon, <2>1, <3>1, <4>1, <4>2 DEF Frame
    <3>3. session'[batch[k].link] = session[batch[k].link]
      <4>1. CASE w.type = "followup"
        BY Zenon, <1>15, <4>1
      <4>2. CASE w.type = "response"
        <5>1. batch[k].link # l
          BY Zenon, <1>4, <2>3, <3>2, <4>2
        <5> QED
          BY Zenon, <1>16, <3>2, <4>2, <5>1
      <4> QED
        BY Zenon, <1>3, <4>1, <4>2
    <3> QED
      BY Zenon, <3>1, <3>3
  <2> QED
    BY Zenon, <2>2, <2>3
<1> QED
  BY Zenon, <1>8, <1>18, <1>21, <1>22, <1>23 DEF SyncInv

\* At first nothing is signed and nothing on its way.
LEMMA SyncInitInv == SyncInit => SyncInv
<1> SUFFICES ASSUME SyncInit PROVE SyncInv
  BY Zenon
<1>1. /\ LogInit /\ session = [l \in Links |-> Fresh] /\ wire = [l \in Links |-> <<>>]
      /\ reply = [l \in Links |-> None] /\ batch = [n \in Nodes |-> None]
  BY Zenon DEF SyncInit
<1>2. Fresh \in Session /\ Fresh.pc \in Resting /\ <<>> \in Seq(Message) /\ None.type # "response"
  BY SyncAssumption DEF Fresh, Session, Resting, None
<1>3. SyncTypeOK
  BY Zenon, <1>1, <1>2 DEF SyncTypeOK, Answer, Work
<1>4. LogKept
  <2>1. created = {}
    BY Zenon, <1>1 DEF LogInit
  <2>2. IsFiniteSet(created)
    BY Zenon, <2>1, FS_EmptySet
  <2> QED
    BY Zenon, <1>1, <2>1, <2>2, InitInv DEF LogKept, ContentParents, Content
<1>5. LinksSound
  <2> SUFFICES ASSUME NEW l \in Links
               PROVE  Link(created, events[Requester(l)], events[Responder(l)],
                           Applying(batch[Responder(l)], l), Fresh, <<>>, None)
    BY Zenon, <1>1 DEF LinksSound
  <2> DEFINE X == events[Requester(l)]
             Y == events[Responder(l)]
             ap == Applying(batch[Responder(l)], l)
  <2> HIDE DEF X, Y, ap
  <2>1. Link(created, X, Y, ap, Fresh, <<>>, None)
    BY Zenon, <1>2, LinkIdle
  <2> QED
    BY Zenon, <2>1 DEF X, Y, ap
<1>6. FramesSound /\ Locked
  BY Zenon, <1>1, <1>2 DEF FramesSound, Frame, Locked
<1> QED
  BY Zenon, <1>3, <1>4, <1>5, <1>6 DEF SyncInv

\* The invariant is inductive.
LEMMA SyncStepInv == SyncInv /\ [SyncNext]_<<logVars, syncVars>> => SyncInv'
<1> SUFFICES ASSUME SyncInv, [SyncNext]_<<logVars, syncVars>>
             PROVE  SyncInv'
  BY Zenon
<1>1. ASSUME NEW l \in Links, SessionStep(l) PROVE SyncInv'
  BY Zenon, <1>1, ProbeInv, RequestInv, ServeInv, UpgradeInv, ComparedInv, RespondInv, FollowupInv,
     PushInv DEF SessionStep
<1>2. ASSUME NEW l \in Links, Abort(l) PROVE SyncInv'
  BY Zenon, <1>2, AbortInv
<1>3. ASSUME NEW n \in Nodes, apply_received(n) PROVE SyncInv'
  BY Zenon, <1>3, AppliedInv
<1>4. ASSUME NEW n \in Nodes, Local(n) PROVE SyncInv'
  <2>1. LogNext /\ UNCHANGED syncVars
    BY Zenon, <1>4 DEF Local, LogNext
  <2> QED
    BY Zenon, <2>1, LocalInv
<1>5. ASSUME UNCHANGED <<logVars, syncVars>> PROVE SyncInv'
  BY Zenon, <1>5, LocalInv
<1> QED
  BY Zenon, <1>1, <1>2, <1>3, <1>4, <1>5 DEF SyncNext

\* The session invariant holds in every behaviour.
THEOREM SyncInvariance == SyncSpec => []SyncInv
<1> QED
  BY SyncInitInv, SyncStepInv, PTL DEF SyncSpec

\* apply_received_events finds the parents of every event in the log or earlier in
\* the frame, however the logs grew, were compacted and were reconciled elsewhere
\* between cutting the frame and applying it: no content event is rejected.
THEOREM FramesApply == SyncSpec => []ParentsFirst
<1>1. SyncInv => ParentsFirst
  <2> SUFFICES ASSUME SyncInv, NEW n \in Nodes, batch[n] # None,
                      NEW i \in 1 .. Len(batch[n].events), NEW p \in created,
                      p.id \in batch[n].events[i].parents, p.kind # Profile
               PROVE  p \in events[n] \/ \E j \in 1 .. (i - 1) : batch[n].events[j] = p
    BY Zenon DEF ParentsFirst, Free
  <2>1. Sound(batch[n].events, events[n], created)
    BY Zenon DEF SyncInv, FramesSound, Frame
  <2> QED
    BY Zenon, <2>1 DEF Sound, Grounded, Content
<1> QED
  BY <1>1, SyncInvariance, PTL

\* unsupported_metadata and the version of a push keep every message within the
\* version its receiver accepts: neither side refuses a frame for its kinds.
THEOREM NothingUnsupported == SyncSpec => []VersionsAgree
<1>1. SyncInv => VersionsAgree
  <2> SUFFICES ASSUME SyncInv, NEW l \in Links
               PROVE  /\ reply[l].type = "response" => Required(Range(reply[l].events)) <= session[l].level
                      /\ \A i \in 1 .. Len(wire[l]) : wire[l][i].type = "followup" =>
                             Required(Range(wire[l][i].events)) <= wire[l][i].level
    BY Zenon DEF VersionsAgree
  <2>1. Link(created, events[Requester(l)], events[Responder(l)],
             Applying(batch[Responder(l)], l), session[l], wire[l], reply[l])
    BY Zenon, LinkParts
  <2>2. None.type # "response"
    BY Zenon DEF None
  <2> QED
    BY Zenon, <2>1, <2>2 DEF Link, AnswerSound, PushesSound
<1> QED
  BY <1>1, SyncInvariance, PTL

\* A session that was about to push and is stuck saw no progress.
LEMMA StuckUnmoved ==
    ASSUME SyncInv, SyncNext, NEW l \in Links, session[l].pc = "push", session'[l].pc = "stuck"
    PROVE  no_progress(session[l])
<1>1. session \in [Links -> Session] /\ "push" # "stuck"
  BY Zenon DEF SyncInv, SyncTypeOK
<1>2. session' # session
  BY Zenon, <1>1
<1>3. ASSUME NEW k \in Links, NEW x, session' = [session EXCEPT ![k] = x]
      PROVE  k = l /\ x.pc = "stuck"
  BY Zenon, <1>1, <1>3
<1>4. ASSUME NEW k \in Links, Probe(k) PROVE FALSE
  <2>1. PICK x : session' = [session EXCEPT ![k] = x]
    BY Zenon, <1>4 DEF Probe
  <2>2. session[k].pc # "push"
    BY Zenon, <1>4 DEF Probe, Resting
  <2> QED
    BY Zenon, <1>3, <2>1, <2>2
<1>5. ASSUME NEW k \in Links, Request(k) PROVE FALSE
  BY Zenon, <1>1, <1>5 DEF Request
<1>6. ASSUME NEW k \in Links, Serve(k) PROVE FALSE
  BY Zenon, <1>2, <1>6 DEF Serve
<1>7. ASSUME NEW k \in Links, Upgrade(k) PROVE FALSE
  <2>1. PICK x : session' = [session EXCEPT ![k] = x]
    BY Zenon, <1>7 DEF Upgrade
  <2> QED
    BY Zenon, <1>3, <1>7, <2>1 DEF Upgrade
<1>8. ASSUME NEW k \in Links, Compared(k) PROVE FALSE
  BY Zenon, <1>1, <1>8 DEF Compared
<1>9. ASSUME NEW k \in Links, Respond(k) PROVE FALSE
  BY Zenon, <1>1, <1>9 DEF Respond
<1>10. ASSUME NEW k \in Links, Followup(k) PROVE FALSE
  <2>1. session' = session \/ session' = [session EXCEPT ![k].pc = "failed"]
    BY Zenon, <1>10 DEF Followup
  <2> QED
    BY Zenon, <1>1, <1>2, <2>1 DEF Session
<1>11. ASSUME NEW k \in Links, Abort(k) PROVE FALSE
  <2>1. [Fresh EXCEPT !.pc = "failed"].pc # "stuck"
    BY Zenon DEF Fresh
  <2>2. session' = [session EXCEPT ![k] = [Fresh EXCEPT !.pc = "failed"]]
    BY Zenon, <1>11 DEF Abort
  <2> QED
    BY Zenon, <1>3, <2>1, <2>2
<1>12. ASSUME NEW n \in Nodes, apply_received(n) PROVE FALSE
  <2> DEFINE k == batch[n].link
             none == Tail(batch[n].events) = <<>>
  <2>1. PICK applied : Applied(n, applied)
    BY Zenon, <1>12 DEF apply_received
  <2>2. session' = [session EXCEPT ![k].pc = IF none THEN "push" ELSE @, ![k].progress = @ \/ applied]
    BY Zenon, <1>2, <2>1 DEF Applied
  <2> HIDE DEF k, none
  <2>3. session'[l].pc = "push"
    BY <1>1, <2>2 DEF Session
  <2> QED
    BY Zenon, <2>3
<1>13. ASSUME NEW n \in Nodes, Local(n) PROVE FALSE
  BY Zenon, <1>2, <1>13 DEF Local, syncVars
<1>14. ASSUME NEW k \in Links, Push(k) PROVE no_progress(session[l])
  <2> DEFINE s == session[k]
             sent == Sent(select_export_frames(events[Requester(k)], s.rhave, MaxFollowups))
             t == [s EXCEPT !.pc = "start", !.level = Required(sent), !.prev = {}, !.rhave = {}]
             u == [s EXCEPT !.prev = sent, !.rhave = {}, !.pc = after_round(s, sent)]
  <2>1. \/ session' = [session EXCEPT ![k] = t]
        \/ no_progress(s) /\ session' = [session EXCEPT ![k].pc = "stuck"]
        \/ session' = [session EXCEPT ![k] = u]
    BY Zenon, <1>14 DEF Push
  <2>2. s \in Session
    BY Zenon, <1>1
  <2>3. after_round(s, sent) \in {"done", "failed", "round"}
    BY Zenon DEF after_round
  <2> DEFINE pc == after_round(s, sent)
  <2> HIDE DEF s, sent, pc
  <2>4. t.pc # "stuck" /\ [s EXCEPT !.prev = sent, !.rhave = {}, !.pc = pc].pc # "stuck"
    BY Zenon, <2>2, <2>3 DEF Session, pc
  <2>5. no_progress(s) /\ session' = [session EXCEPT ![k].pc = "stuck"]
    BY Zenon, <1>3, <2>1, <2>4 DEF pc
  <2>6. k = l
    BY Zenon, <1>1, <2>5
  <2> QED
    BY Zenon, <2>5, <2>6 DEF s
<1> QED
  BY Zenon, <1>4, <1>5, <1>6, <1>7, <1>8, <1>9, <1>10, <1>11, <1>12, <1>13, <1>14 DEF SyncNext, SessionStep

\* request_round gives up for lack of progress only over profiles that the
\* responder has compacted: a content event it pushed shows in the next answer.
THEOREM GivesUpOnProfilesOnly == SyncSpec => StuckOnlyOnProfiles
<1>1. ASSUME SyncInv, SyncNext, NEW l \in Links, session[l].pc = "push", session'[l].pc = "stuck"
      PROVE  Content(session[l].prev) = {}
  <2>1. no_progress(session[l])
    BY Zenon, <1>1, StuckUnmoved
  <2>2. Link(created, events[Requester(l)], events[Responder(l)],
             Applying(batch[Responder(l)], l), session[l], wire[l], reply[l])
    BY Zenon, <1>1, LinkParts
  <2>3. Content(session[l].prev) \subseteq session[l].rhave
    BY Zenon, <1>1, <2>2 DEF Link, RoundSound
  <2> QED
    BY Zenon, <2>1, <2>3 DEF no_progress, Content
<1>2. SyncInv /\ [SyncNext]_<<logVars, syncVars>> =>
          [\A l \in Links : session[l].pc = "push" /\ session'[l].pc = "stuck" =>
               Content(session[l].prev) = {}]_<<logVars, syncVars>>
  BY Zenon, <1>1
<1> QED
  BY <1>2, SyncInvariance, PTL DEF SyncSpec, StuckOnlyOnProfiles

=============================================================================
