------------------------- MODULE SessionPool_proofs --------------------------
(***************************************************************************)
(* What the pool admits dials and connections with, and that the pool uses *)
(* it well.  The authentication gates, for any set of dials, routes and    *)
(* gates: one authentication per route at a time, and no hand-off is lost. *)
(* The semaphores, for any capacities: what their operations do to the     *)
(* permits and to the lines.  The pool uses the gates only through their   *)
(* operations, so what is proved of the gates alone holds in the node; and *)
(* no path of dials, accept loop and inbound connections loses a permit.   *)
(***************************************************************************)
EXTENDS SessionPool, SequenceTheorems, FiniteSetTheorems, WellFoundedInduction, TLAPS

\* A dial holds a gate from the moment it queues to the moment it leaves, and
\* the registry leads every dial of the route to that same gate.
RegistryLeads ==
    \A d \in Dials :
        /\ step[d] = "off" <=> ref[d] = NoGate
        /\ ref[d] # NoGate => target[d] \in Routes /\ registry[target[d]] = ref[d]

\* The flag of a gate tells whether somebody has its lease, and only one has.
LeaseExclusive ==
    /\ \A d \in Dials : step[d] = "leased" => gate[ref[d]].active
    /\ \A d, e \in Dials :
            step[d] = "leased" /\ step[e] = "leased" /\ ref[d] = ref[e] => d = e

GateInv ==
    /\ GateTypeOK
    /\ RegistryLeads
    /\ LeaseExclusive
    /\ NoLostHandoff

-----------------------------------------------------------------------------
\* A state with one of its queues replaced is a state, and only that queue changed.
LEMMA QueueReplaced ==
    ASSUME NEW s \in AuthenticationState, NEW p \in {"Ordinary", "Control"}, NEW q \in Seq(Dials)
    PROVE  /\ WithQueue(s, p, q) \in AuthenticationState
           /\ WithQueue(s, p, q).active = s.active
           /\ WithQueue(s, p, q).ordinary_due = s.ordinary_due
           /\ queue(s, p) \in Seq(Dials)
BY ZenonT(30) DEF AuthenticationState, WithQueue, queue

\* Removing a ticket leaves a queue of dials.
LEMMA WithoutIsQueue ==
    ASSUME NEW q \in Seq(Dials), NEW d \in Dials
    PROVE  Without(q, d) \in Seq(Dials)
<1>1. CASE \E i \in DOMAIN q : q[i] = d
  <2> DEFINE i == CHOOSE i \in DOMAIN q : q[i] = d
  <2>1. i \in DOMAIN q
    BY Zenon, <1>1
  <2>2. i \in 1 .. Len(q)
    BY <2>1
  <2>3. SubSeq(q, 1, i - 1) \in Seq(Dials) /\ SubSeq(q, i + 1, Len(q)) \in Seq(Dials)
    <3> HIDE DEF i
    <3> QED
      BY <2>2, SubSeqProperties
  <2>4. SubSeq(q, 1, i - 1) \o SubSeq(q, i + 1, Len(q)) \in Seq(Dials)
    BY <2>3
  <2> QED
    BY Zenon, <2>4, <1>1 DEF Without
<1>2. CASE ~ \E i \in DOMAIN q : q[i] = d
  BY Zenon, <1>2 DEF Without
<1> QED
  BY Zenon, <1>1, <1>2

\* A ticket that joins a class changes whose turn it is only to its own.
LEMMA NextAfterAppend ==
    ASSUME NEW s \in AuthenticationState, NEW p \in {"Ordinary", "Control"}, NEW e \in Dials
    PROVE  next(WithQueue(s, p, Append(queue(s, p), e))) \subseteq next(s) \cup {<<p, e>>}
<1>1. \A q \in Seq(Dials) : Append(q, e) # <<>> /\ (q # <<>> => Head(Append(q, e)) = Head(q))
                              /\ (q = <<>> => Head(Append(q, e)) = e)
  OBVIOUS
<1>2. s.ordinary \in Seq(Dials) /\ s.control \in Seq(Dials)
  BY Zenon DEF AuthenticationState
<1>3. CASE p = "Control"
  BY Zenon, <1>1, <1>2, <1>3 DEF next, WithQueue, queue, AuthenticationState
<1>4. CASE p = "Ordinary"
  BY Zenon, <1>1, <1>2, <1>4 DEF next, WithQueue, queue, AuthenticationState
<1> QED
  BY Zenon, <1>3, <1>4

-----------------------------------------------------------------------------
\* Nobody holds anything at the start.
LEMMA GateInitInv == GateInit => GateInv
<1> SUFFICES ASSUME GateInit PROVE GateInv
  BY Zenon
<1>1. DefaultState \in AuthenticationState
  BY DEF DefaultState, AuthenticationState
<1>2. GateTypeOK
  BY Zenon, <1>1 DEF GateInit, GateTypeOK, Steps
<1>3. RegistryLeads /\ LeaseExclusive /\ NoLostHandoff
  BY Zenon DEF GateInit, RegistryLeads, LeaseExclusive, NoLostHandoff
<1> QED
  BY Zenon, <1>2, <1>3 DEF GateInv

\* A new dial shares the gate of its route, or opens one nobody holds.
LEMMA AdmissionPreserves ==
    ASSUME GateInv, NEW d \in Dials, NEW r \in Routes, authentication_admission(d, r)
    PROVE  GateInv'
<1> DEFINE g == IF registry[r] # NoGate THEN registry[r] ELSE CHOOSE x \in Gates : ~ Live(x)
           p == Priority[d]
           s == gate[g]
           t == WithQueue(s, p, Append(queue(s, p), d))
<1> USE DEF GateInv
<1>1. g \in Gates /\ g # NoGate
  BY Zenon, GateAssumption DEF authentication_admission, GateTypeOK
<1>2. IF registry[r] = NoGate THEN \A o \in Dials : ref[o] # g ELSE g = registry[r]
  BY Zenon DEF authentication_admission, Live
<1>3. /\ step[d] = "off"
      /\ registry' = [registry EXCEPT ![r] = g]
      /\ ref' = [ref EXCEPT ![d] = g]
      /\ target' = [target EXCEPT ![d] = r]
      /\ gate' = [gate EXCEPT ![g] = t]
      /\ step' = [step EXCEPT ![d] = "queued"]
      /\ woken' = woken
  BY Zenon DEF authentication_admission
<1> HIDE DEF g
<1>4. s \in AuthenticationState /\ p \in {"Ordinary", "Control"}
  BY Zenon, <1>1, GateAssumption DEF GateTypeOK
<1>5. Append(queue(s, p), d) \in Seq(Dials)
  <2>1. queue(s, p) \in Seq(Dials)
    BY Zenon, <1>4 DEF queue, AuthenticationState
  <2> HIDE DEF s, p
  <2> QED
    BY <2>1
<1>6. t \in AuthenticationState /\ t.active = s.active
  BY ZenonT(30), <1>4, <1>5, QueueReplaced
<1>7. next(t) \subseteq next(s) \cup {<<p, d>>}
  BY Zenon, <1>4, NextAfterAppend
<1> HIDE DEF t
<1>8. GateTypeOK'
  BY Zenon, <1>1, <1>3, <1>6 DEF GateTypeOK, Steps
<1>9. RegistryLeads'
  BY Zenon, <1>1, <1>2, <1>3, GateAssumption DEF RegistryLeads, GateTypeOK
<1>10. LeaseExclusive'
  BY Zenon, <1>1, <1>3, <1>6 DEF LeaseExclusive, RegistryLeads, GateTypeOK
<1>11. NoLostHandoff'
  BY Zenon, <1>1, <1>3, <1>6, <1>7 DEF NoLostHandoff, RegistryLeads, GateTypeOK
<1> QED
  BY Zenon, <1>8, <1>9, <1>10, <1>11

\* Enabling a future only makes its dial attentive again.
LEMMA EnablePreserves ==
    ASSUME GateInv, NEW d \in Dials, enable(d)
    PROVE  GateInv'
<1> USE DEF GateInv, enable
<1>1. GateTypeOK'
  BY Zenon DEF GateTypeOK, Steps
<1>2. RegistryLeads'
  BY Zenon DEF RegistryLeads, GateTypeOK
<1>3. LeaseExclusive'
  BY Zenon DEF LeaseExclusive, GateTypeOK
<1>4. NoLostHandoff'
  BY Zenon DEF NoLostHandoff, GateTypeOK
<1> QED
  BY Zenon, <1>1, <1>2, <1>3, <1>4

\* Only a free gate is taken, and a dial whose turn it is does not fall asleep.
LEMMA WaitPreserves ==
    ASSUME GateInv, NEW d \in Dials, wait(d)
    PROVE  GateInv'
<1> DEFINE s == gate[ref[d]]
           p == Priority[d]
           admitted == ~ s.active /\ <<p, d>> \in next(s)
<1> USE DEF GateInv
<1>1. ref[d] \in Gates
  BY Zenon DEF wait, RegistryLeads, GateTypeOK
<1>2. s \in AuthenticationState /\ p \in {"Ordinary", "Control"}
  BY Zenon, <1>1, GateAssumption DEF GateTypeOK
<1>3. /\ step[d] = "enrolled"
      /\ step' = [step EXCEPT ![d] = IF admitted THEN "leased" ELSE "parked"]
      /\ gate' = [gate EXCEPT ![ref[d]] = IF admitted THEN Admit(s, p) ELSE s]
      /\ woken' = IF admitted THEN woken \ {d} ELSE woken
      /\ registry' = registry /\ ref' = ref /\ target' = target
  BY Zenon DEF wait
<1>4. admitted => Admit(s, p) \in AuthenticationState /\ Admit(s, p).active
  <2> SUFFICES ASSUME admitted PROVE Admit(s, p) \in AuthenticationState /\ Admit(s, p).active
    BY Zenon
  <2> DEFINE t == WithQueue(s, p, Tail(queue(s, p)))
  <2>1. queue(s, p) \in Seq(Dials) /\ queue(s, p) # <<>>
    BY Zenon, <1>2 DEF queue, AuthenticationState, next
  <2>2. Tail(queue(s, p)) \in Seq(Dials)
    <3> HIDE DEF s, p
    <3> QED
      BY <2>1
  <2>3. t \in AuthenticationState
    BY ZenonT(30), <1>2, <2>2, QueueReplaced
  <2>4. Admit(s, p) = [t EXCEPT !.active = TRUE, !.ordinary_due = (p = "Control")]
    BY Zenon DEF Admit
  <2> HIDE DEF t
  <2> QED
    BY ZenonT(30), <2>3, <2>4 DEF AuthenticationState
<1>5. GateTypeOK'
  BY Zenon, <1>1, <1>2, <1>3, <1>4 DEF GateTypeOK, Steps
<1>6. RegistryLeads'
  BY Zenon, <1>3 DEF RegistryLeads, GateTypeOK
<1>7. LeaseExclusive'
  BY <1>1, <1>2, <1>3, <1>4 DEF LeaseExclusive, RegistryLeads, GateTypeOK
<1>8. NoLostHandoff'
  BY Zenon, <1>1, <1>2, <1>3, <1>4 DEF NoLostHandoff, RegistryLeads, GateTypeOK
<1> QED
  BY Zenon, <1>5, <1>6, <1>7, <1>8

\* A dial that leaves wakes whoever sleeps on its gate, and takes the gate out
\* of the registry only when nobody else holds it.
LEMMA LetGoPreserves ==
    ASSUME GateInv, NEW d \in Dials, NEW s \in AuthenticationState, step[d] # "off",
           \A o \in Dials \ {d} : step[o] = "leased" /\ ref[o] = ref[d] => s.active,
           LetGo(d, s), notify_waiters(d)
    PROVE  GateInv'
<1> DEFINE last == \A o \in Dials \ {d} : ref[o] # ref[d]
<1> USE DEF GateInv
<1>1. ref[d] \in Gates /\ ref[d] # NoGate
  BY Zenon DEF RegistryLeads, GateTypeOK
<1>2. DefaultState \in AuthenticationState
  BY DEF DefaultState, AuthenticationState
<1>3. /\ ref' = [ref EXCEPT ![d] = NoGate]
      /\ target' = [target EXCEPT ![d] = NoGate]
      /\ step' = [step EXCEPT ![d] = "off"]
      /\ gate' = [gate EXCEPT ![ref[d]] = IF last THEN DefaultState ELSE s]
      /\ registry' = [r \in Routes |->
                          IF last /\ registry[r] = ref[d] THEN NoGate ELSE registry[r]]
      /\ woken' = (woken \ {d}) \cup
             {o \in Dials \ {d} : ref[o] = ref[d] /\ step[o] \in {"enrolled", "parked"}}
  BY Zenon DEF LetGo, notify_waiters
<1>4. GateTypeOK'
  BY Zenon, <1>1, <1>2, <1>3 DEF GateTypeOK, Steps
<1>5. RegistryLeads'
  BY ZenonT(40), <1>1, <1>3 DEF RegistryLeads, GateTypeOK
<1>6. LeaseExclusive'
  BY Zenon, <1>1, <1>3 DEF LeaseExclusive, RegistryLeads, GateTypeOK
<1>7. NoLostHandoff'
  <2> SUFFICES ASSUME NEW o \in Dials, step'[o] = "parked", ~ gate'[ref'[o]].active,
                      <<Priority[o], o>> \in next(gate'[ref'[o]])
               PROVE  o \in woken'
    BY ZenonT(30) DEF NoLostHandoff, next
  <2>1. o # d /\ step[o] = "parked" /\ ref'[o] = ref[o] /\ ref[o] \in Gates
    BY Zenon, <1>3 DEF GateTypeOK, RegistryLeads
  <2>2. CASE ref[o] = ref[d]
    BY Zenon, <1>3, <2>1, <2>2
  <2>3. CASE ref[o] # ref[d]
    <3>1. gate'[ref'[o]] = gate[ref[o]]
      BY Zenon, <1>3, <2>1, <2>3 DEF GateTypeOK
    <3> QED
      BY Zenon, <1>3, <2>1, <3>1 DEF NoLostHandoff
  <2> QED
    BY Zenon, <2>2, <2>3
<1> QED
  BY Zenon, <1>4, <1>5, <1>6, <1>7

\* A cancelled waiter and a finished handshake both leave in that way.
LEMMA DropPreserves ==
    ASSUME GateInv, NEW d \in Dials, AuthenticationWaiter_drop(d) \/ AuthenticationLease_drop(d)
    PROVE  GateInv'
<1> USE DEF GateInv
<1>1. step[d] # "off"
  BY Zenon DEF AuthenticationWaiter_drop, AuthenticationLease_drop
<1>2. ref[d] \in Gates /\ gate[ref[d]] \in AuthenticationState
  BY Zenon, <1>1 DEF RegistryLeads, GateTypeOK
<1>3. CASE AuthenticationWaiter_drop(d)
  <2> DEFINE q == queue(gate[ref[d]], Priority[d])
             s == WithQueue(gate[ref[d]], Priority[d], Without(q, d))
  <2>1. Priority[d] \in {"Ordinary", "Control"}
    BY Zenon, GateAssumption
  <2>2. q \in Seq(Dials)
    BY Zenon, <1>2, <2>1 DEF queue, AuthenticationState
  <2>3. Without(q, d) \in Seq(Dials)
    BY Zenon, <2>2, WithoutIsQueue
  <2>4. s \in AuthenticationState /\ s.active = gate[ref[d]].active
    BY ZenonT(30), <1>2, <2>1, <2>3, QueueReplaced
  <2>5. LetGo(d, s) /\ notify_waiters(d)
    BY Zenon, <1>3 DEF AuthenticationWaiter_drop
  <2>6. \A o \in Dials \ {d} : step[o] = "leased" /\ ref[o] = ref[d] => s.active
    BY Zenon, <2>4 DEF LeaseExclusive
  <2> HIDE DEF s
  <2> QED
    BY Zenon, <1>1, <2>4, <2>5, <2>6, LetGoPreserves
<1>4. CASE AuthenticationLease_drop(d)
  <2> DEFINE s == [gate[ref[d]] EXCEPT !.active = FALSE]
  <2>1. s \in AuthenticationState
    BY ZenonT(30), <1>2 DEF AuthenticationState
  <2>2. LetGo(d, s) /\ notify_waiters(d) /\ step[d] = "leased"
    BY Zenon, <1>4 DEF AuthenticationLease_drop
  <2>3. \A o \in Dials \ {d} : step[o] = "leased" /\ ref[o] = ref[d] => s.active
    BY Zenon, <2>2 DEF LeaseExclusive
  <2> HIDE DEF s
  <2> QED
    BY Zenon, <1>1, <2>1, <2>2, <2>3, LetGoPreserves
<1> QED
  BY Zenon, <1>3, <1>4

\* The gates keep their invariant however dials join, wait, give up and finish.
THEOREM GateInvariance == GateSpec => []GateInv
<1>1. GateInit => GateInv
  BY Zenon, GateInitInv
<1>2. ASSUME GateInv, [GateNext]_gateVars PROVE GateInv'
  <2>1. CASE GateNext
    BY Zenon, <1>2, <2>1, AdmissionPreserves, EnablePreserves, WaitPreserves, DropPreserves
       DEF GateNext
  <2>2. CASE UNCHANGED gateVars
    BY Zenon, <1>2, <2>2 DEF gateVars, GateInv, GateTypeOK, RegistryLeads, LeaseExclusive, NoLostHandoff
  <2> QED
    BY Zenon, <1>2, <2>1, <2>2
<1> QED
  BY <1>1, <1>2, PTL DEF GateSpec

\* authentication_admission: two dials of one route never authenticate at once,
\* for any number of dials and routes and any bound of the registry.
THEOREM RouteAuthenticatesOnce == GateSpec => []OneAuthentication
<1>1. GateInv => OneAuthentication
  BY DEF GateInv, GateTypeOK, RegistryLeads, LeaseExclusive, OneAuthentication, Steps
<1> QED
  BY <1>1, GateInvariance, PTL

\* AuthenticationWaiter::wait: a free gate never leaves the dial whose turn it
\* is asleep and unwoken.
THEOREM HandoffReachesWaiter == GateSpec => []NoLostHandoff
<1>1. GateInv => NoLostHandoff
  BY Zenon DEF GateInv
<1> QED
  BY <1>1, GateInvariance, PTL

-----------------------------------------------------------------------------
(* Semaphores.                                                             *)

Parties == Waiters \cup Conns

\* Who holds a permit of kind s, and who stands in its line.
Owners(q, s) == {o \in Parties : s \in q.holds[o]}
Lined(q, s) == {q.line[s][i] : i \in 1..Len(q.line[s])}

SemType(q) ==
    /\ q = [free |-> q.free, line |-> q.line, holds |-> q.holds]
    /\ q.free \in [Sems -> Nat]
    /\ q.line \in [Sems -> Seq(Waiters)]
    /\ q.holds \in [Parties -> SUBSET Sems]

\* Nobody waits for a free permit, waits twice, or waits for what it has.
LinesOK(q) ==
    \A s \in Sems :
        /\ q.free[s] > 0 => q.line[s] = <<>>
        /\ \A i, j \in 1..Len(q.line[s]) : q.line[s][i] = q.line[s][j] => i = j
        /\ \A o \in Lined(q, s) : s \notin q.holds[o]

\* The permits of every kind are free, owned, or kept elsewhere: x of them.
Tally(q, x) ==
    \A s \in Sems : q.free[s] + Cardinality(Owners(q, s)) + x[s] = Capacity(s)

Balanced(q, x) == SemType(q) /\ LinesOK(q) /\ Tally(q, x)

\* From q to r the parties P only gained permits they stood in line for, and
\* joined no line.
Grants(q, r, P) ==
    \A p \in P :
        /\ q.holds[p] \subseteq r.holds[p]
        /\ \A s \in r.holds[p] \ q.holds[p] : p \in Lined(q, s)
        /\ \A s \in Sems : p \in Lined(r, s) => p \in Lined(q, s)

\* The parties are finitely many, and so are the owners of a permit.
LEMMA OwnersFinite ==
    ASSUME NEW q, NEW s
    PROVE  IsFiniteSet(Owners(q, s)) /\ Cardinality(Owners(q, s)) \in Nat
<1>1. IsFiniteSet(Dials) /\ IsFiniteSet(Conns) /\ IsFiniteSet({Loop})
  BY ZenonT(30), PoolAssumption, FS_Singleton
<1>2. IsFiniteSet(Dials \cup {Loop})
  BY ZenonT(30), <1>1, FS_Union
<1>3. IsFiniteSet(Parties)
  BY ZenonT(30), <1>1, <1>2, FS_Union DEF Parties, Waiters
<1>4. Owners(q, s) \in SUBSET Parties
  BY Zenon DEF Owners
<1>5. IsFiniteSet(Owners(q, s))
  BY Zenon, <1>3, <1>4, FS_Subset
<1> QED
  BY Zenon, <1>5, FS_CardinalityType

\* A line as a sequence.
LEMMA LineFacts ==
    ASSUME NEW q, SemType(q), NEW s \in Sems
    PROVE  /\ q.free[s] \in Nat
           /\ q.line[s] \in Seq(Waiters)
           /\ Len(q.line[s]) \in Nat
           /\ \A i \in 1..Len(q.line[s]) : q.line[s][i] \in Waiters
           /\ Lined(q, s) \subseteq Waiters
           /\ q.line[s] = <<>> => Lined(q, s) = {}
           /\ \A o \in Parties : q.holds[o] \subseteq Sems
<1>1. q.line[s] \in Seq(Waiters) /\ q.free[s] \in Nat
  BY Zenon DEF SemType
<1>2. Len(q.line[s]) \in Nat /\ \A i \in 1..Len(q.line[s]) : q.line[s][i] \in Waiters
  BY Zenon, <1>1, LenProperties, ElementOfSeq
<1>3. q.line[s] = <<>> => Len(q.line[s]) = 0
  BY Zenon, EmptySeq
<1>4. \A o \in Parties : q.holds[o] \subseteq Sems
  BY Zenon DEF SemType
<1> QED
  BY <1>1, <1>2, <1>3, <1>4 DEF Lined

\* Permits that come back go to waiters or become free; none is lost, and
\* nobody is left in a line beside a free permit.
LEMMA ReleaseBalanced ==
    ASSUME NEW q, NEW x \in [Sems -> Nat], Balanced(q, x),
           NEW S \in SUBSET Sems, NEW n \in Nat, NEW y \in [Sems -> Nat],
           \A s \in Sems : x[s] = y[s] + (IF s \in S THEN n ELSE 0)
    PROVE  /\ Balanced(Release(q, S, n), y)
           /\ Grants(q, Release(q, S, n), Parties)
<1> DEFINE g == [s \in Sems |-> IF s \notin S THEN 0
                                ELSE IF n <= Len(q.line[s]) THEN n ELSE Len(q.line[s])]
           F == [s \in Sems |-> q.free[s] + (IF s \in S THEN n - g[s] ELSE 0)]
           N == [s \in Sems |-> SubSeq(q.line[s], g[s] + 1, Len(q.line[s]))]
           H == [o \in DOMAIN q.holds |->
                    q.holds[o] \cup {s \in S : \E i \in 1..g[s] : q.line[s][i] = o}]
           r == Release(q, S, n)
<1>0. SemType(q) /\ LinesOK(q) /\ Tally(q, x)
  BY Zenon DEF Balanced
<1>1. r = [free |-> F, line |-> N, holds |-> H]
  BY Zenon DEF Release
<1>2. DOMAIN q.holds = Parties
  BY Zenon, <1>0 DEF SemType
<1>3. ASSUME NEW s \in Sems
      PROVE  /\ g[s] \in 0..Len(q.line[s]) /\ g[s] \in Nat
             /\ s \in S => g[s] <= n
             /\ s \in S /\ g[s] < n => g[s] = Len(q.line[s])
             /\ s \notin S => g[s] = 0
  <2>1. Len(q.line[s]) \in Nat
    BY Zenon, <1>0, LineFacts
  <2> QED
    BY <2>1
<1>4. ASSUME NEW s \in Sems
      PROVE  F[s] \in Nat /\ F[s] = q.free[s] + (IF s \in S THEN n - g[s] ELSE 0)
  <2>1. q.free[s] \in Nat
    BY Zenon, <1>0, LineFacts
  <2>2. F[s] = q.free[s] + (IF s \in S THEN n - g[s] ELSE 0)
    BY Zenon
  <2>3. g[s] \in Nat /\ (s \in S => g[s] <= n)
    BY Zenon, <1>3
  <2> HIDE DEF g, F
  <2>4. (IF s \in S THEN n - g[s] ELSE 0) \in Nat
    BY <2>3
  <2> QED
    BY <2>1, <2>2, <2>4
<1>5. ASSUME NEW s \in Sems
      PROVE  /\ N[s] \in Seq(Waiters) /\ Len(N[s]) = Len(q.line[s]) - g[s]
             /\ \A i \in 1..Len(N[s]) : g[s] + i \in 1..Len(q.line[s]) /\ N[s][i] = q.line[s][g[s] + i]
  <2> DEFINE L == q.line[s]
             k == g[s]
  <2>1. Len(L) \in Nat /\ \A i \in 1..Len(L) : L[i] \in Waiters
    BY Zenon, <1>0, LineFacts
  <2>2. k \in Nat /\ k <= Len(L)
    BY <1>3, <2>1
  <2>3. N[s] = SubSeq(L, k + 1, Len(L))
    BY Zenon
  <2> HIDE DEF L, k, N
  <2>4. \A i \in (k + 1)..Len(L) : L[i] \in Waiters
    BY <2>1, <2>2
  <2>5. k + 1 \in Int /\ Len(L) \in Int
    BY <2>1, <2>2
  <2>6. /\ N[s] \in Seq(Waiters)
        /\ Len(N[s]) = IF k + 1 <= Len(L) THEN Len(L) - (k + 1) + 1 ELSE 0
        /\ \A i \in 1..(Len(L) - (k + 1) + 1) : N[s][i] = L[(k + 1) + i - 1]
    BY SMTT(30), <2>3, <2>4, <2>5, SubSeqProperties
  <2>7. Len(N[s]) = Len(L) - k
    BY <2>1, <2>2, <2>6
  <2>8. ASSUME NEW i \in 1..Len(N[s]) PROVE k + i \in 1..Len(L) /\ N[s][i] = L[k + i]
    <3>1. i \in 1..(Len(L) - (k + 1) + 1) /\ (k + 1) + i - 1 = k + i /\ k + i \in 1..Len(L)
      BY <2>1, <2>2, <2>7
    <3> QED
      BY Zenon, <3>1, <2>6
  <2> QED
    BY ZenonT(30), <2>6, <2>7, <2>8 DEF L, k
<1>6. \A o \in Parties : H[o] = q.holds[o] \cup {s \in S : \E i \in 1..g[s] : q.line[s][i] = o}
  BY Zenon, <1>2
<1> HIDE DEF g, F, N, H, r
<1>7. r.free = F /\ r.line = N /\ r.holds = H
  BY Zenon, <1>1
<1>8. SemType(r)
  <2>1. F \in [Sems -> Nat]
    BY Zenon, <1>4 DEF F
  <2>2. N \in [Sems -> Seq(Waiters)]
    BY Zenon, <1>5 DEF N
  <2>3. H \in [Parties -> SUBSET Sems]
    <3>1. \A o \in Parties : H[o] \in SUBSET Sems
      BY Zenon, <1>0, <1>6 DEF SemType
    <3>2. H = [o \in Parties |-> H[o]]
      BY Zenon, <1>2 DEF H
    <3> QED
      BY Zenon, <3>1, <3>2
  <2> QED
    BY Zenon, <2>1, <2>2, <2>3, <1>1, <1>7 DEF SemType
<1>9. ASSUME NEW s \in Sems
      PROVE  /\ Lined(r, s) \subseteq Lined(q, s)
             /\ \A i \in 1..g[s] : q.line[s][i] \notin Lined(r, s)
  <2>1. \A i, j \in 1..Len(q.line[s]) : q.line[s][i] = q.line[s][j] => i = j
    BY ZenonT(30), <1>0 DEF LinesOK
  <2>2. ASSUME NEW i \in 1..Len(N[s])
        PROVE  /\ N[s][i] \in Lined(q, s)
               /\ \A j \in 1..g[s] : q.line[s][j] # N[s][i]
    <3>1. g[s] + i \in 1..Len(q.line[s]) /\ N[s][i] = q.line[s][g[s] + i]
      BY Zenon, <1>5
    <3>2. ASSUME NEW j \in 1..g[s] PROVE j \in 1..Len(q.line[s]) /\ j # g[s] + i
      <4>1. g[s] \in Nat /\ g[s] \in 0..Len(q.line[s])
        BY Zenon, <1>3
      <4>2. Len(q.line[s]) \in Nat
        BY Zenon, <1>0, LineFacts
      <4> QED
        BY <4>1, <4>2
    <3> QED
      BY ZenonT(30), <3>1, <3>2, <2>1 DEF Lined
  <2> QED
    BY ZenonT(30), <2>2, <1>7 DEF Lined
<1>10. LinesOK(r)
  <2> SUFFICES ASSUME NEW s \in Sems
               PROVE  /\ r.free[s] > 0 => r.line[s] = <<>>
                      /\ \A i, j \in 1..Len(r.line[s]) : r.line[s][i] = r.line[s][j] => i = j
                      /\ \A o \in Lined(r, s) : s \notin r.holds[o]
    BY Zenon DEF LinesOK
  <2>1. /\ q.free[s] > 0 => q.line[s] = <<>>
        /\ \A i, j \in 1..Len(q.line[s]) : q.line[s][i] = q.line[s][j] => i = j
        /\ \A o \in Lined(q, s) : s \notin q.holds[o]
    BY Zenon, <1>0 DEF LinesOK
  <2>2. /\ q.free[s] \in Nat /\ Len(q.line[s]) \in Nat
    BY Zenon, <1>0, LineFacts
  <2>3. r.free[s] > 0 => r.line[s] = <<>>
    <3> SUFFICES ASSUME F[s] > 0 PROVE N[s] = <<>>
      BY Zenon, <1>7
    <3>1. Len(N[s]) = Len(q.line[s]) - g[s] /\ N[s] \in Seq(Waiters)
      BY Zenon, <1>5
    <3>2. CASE q.free[s] > 0
      <4>1. Len(q.line[s]) = 0
        BY Zenon, <3>2, <2>1, EmptySeq
      <4>2. Len(N[s]) = 0
        BY <4>1, <3>1, <1>3
      <4> QED
        BY Zenon, <4>2, <3>1, EmptySeq
    <3>3. CASE q.free[s] = 0
      <4>0. F[s] = q.free[s] + (IF s \in S THEN n - g[s] ELSE 0) /\ g[s] \in Nat
        BY Zenon, <1>3, <1>4
      <4>1. s \in S /\ n - g[s] > 0
        <5>1. CASE s \in S
          BY <5>1, <4>0, <3>3
        <5>2. CASE s \notin S
          BY <5>2, <4>0, <3>3
        <5> QED
          BY Zenon, <5>1, <5>2
      <4>2. g[s] = Len(q.line[s])
        BY <4>1, <1>3
      <4>3. Len(N[s]) = 0
        BY <4>2, <3>1, <2>2
      <4> QED
        BY Zenon, <4>3, <3>1, EmptySeq
    <3> QED
      BY <3>2, <3>3, <2>2
  <2>4. ASSUME NEW i \in 1..Len(N[s]), NEW j \in 1..Len(N[s]), N[s][i] = N[s][j]
        PROVE  i = j
    <3>1. /\ g[s] + i \in 1..Len(q.line[s]) /\ N[s][i] = q.line[s][g[s] + i]
          /\ g[s] + j \in 1..Len(q.line[s]) /\ N[s][j] = q.line[s][g[s] + j]
      BY Zenon, <1>5
    <3>2. g[s] + i = g[s] + j
      BY ZenonT(30), <3>1, <2>4, <2>1
    <3>3. g[s] \in Nat
      BY Zenon, <1>3
    <3> QED
      BY <3>2, <3>3
  <2>5. ASSUME NEW o \in Lined(r, s) PROVE s \notin r.holds[o]
    <3>1. o \in Lined(q, s) /\ \A i \in 1..g[s] : q.line[s][i] # o
      BY Zenon, <1>9
    <3>2. o \in Parties
      BY Zenon, <3>1, <1>0, LineFacts DEF Parties
    <3> QED
      BY SMTT(30), <3>1, <3>2, <2>1, <1>6, <1>7
  <2> QED
    BY Zenon, <2>3, <2>4, <2>5, <1>7
<1>11. Tally(r, y)
  <2> SUFFICES ASSUME NEW s \in Sems
               PROVE  F[s] + Cardinality(Owners(r, s)) + y[s] = Capacity(s)
    BY Zenon, <1>7 DEF Tally
  <2> DEFINE G == {q.line[s][i] : i \in 1..g[s]}
  <2>1. q.free[s] + Cardinality(Owners(q, s)) + x[s] = Capacity(s)
    BY Zenon, <1>0 DEF Tally
  <2>2. IsFiniteSet(Owners(q, s)) /\ Cardinality(Owners(q, s)) \in Nat
    BY Zenon, OwnersFinite
  <2>3. IsFiniteSet(G) /\ Cardinality(G) = g[s]
    <3>1. \A i, j \in 1..Len(q.line[s]) : q.line[s][i] = q.line[s][j] => i = j
      BY ZenonT(30), <1>0 DEF LinesOK
    <3>2. g[s] \in 0..Len(q.line[s]) /\ Len(q.line[s]) \in Nat
      BY Zenon, <1>0, <1>3, LineFacts
    <3> DEFINE L == q.line[s]
               m == Len(L)
               k == g[s]
    <3>3. G = {L[i] : i \in 1..k} /\ k \in 0..m /\ m \in Nat
          /\ \A i, j \in 1..m : L[i] = L[j] => i = j
      BY Zenon, <3>1, <3>2
    <3> HIDE DEF G, L, m, k
    <3> DEFINE h == [i \in 1..k |-> L[i]]
    <3>4. h \in Surjection(1..k, G)
      BY Zenon, <3>3 DEF Surjection
    <3>5. \A i, j \in 1..k : L[i] = L[j] => i = j
      <4>1. \A i \in 1..k : i \in 1..m
        BY <3>3
      <4> QED
        BY Zenon, <4>1, <3>3
    <3>6. h \in Injection(1..k, G)
      BY Zenon, <3>3, <3>5 DEF Injection, IsInjective
    <3> HIDE DEF h
    <3>7. IsFiniteSet(1..k) /\ Cardinality(1..k) = k
      <4>1. k \in Nat /\ k \in Int /\ 1 \in Int
        BY <3>3
      <4>2. /\ IsFiniteSet(1..k)
            /\ Cardinality(1..k) = IF 1 > k THEN 0 ELSE k - 1 + 1
        BY ZenonT(30), <4>1, FS_Interval
      <4> QED
        BY <4>1, <4>2
    <3>8. IsFiniteSet(G) /\ Cardinality(G) = Cardinality(1..k)
      BY Zenon, <3>4, <3>6, <3>7, FS_Surjection
    <3> QED
      BY Zenon, <3>7, <3>8 DEF k
  <2>4. G \subseteq Lined(q, s)
    <3>1. \A i \in 1..g[s] : i \in 1..Len(q.line[s])
      <4>1. g[s] \in 0..Len(q.line[s]) /\ Len(q.line[s]) \in Nat
        BY Zenon, <1>0, <1>3, LineFacts
      <4> QED
        BY <4>1
    <3> QED
      BY Zenon, <3>1 DEF Lined
  <2>5. Owners(r, s) = Owners(q, s) \cup G
    <3>1. G \subseteq Parties
      BY Zenon, <2>4, <1>0, LineFacts DEF Parties
    <3>2. G # {} => s \in S
      BY <1>3
    <3>3. \A o \in Parties : s \in H[o] <=> s \in q.holds[o] \/ o \in G
      BY <1>6, <3>2
    <3> HIDE DEF G
    <3> QED
      BY Zenon, <3>1, <3>3, <1>7 DEF Owners
  <2>6. Owners(q, s) \cap G = {}
    BY Zenon, <2>4, <1>0 DEF Owners, LinesOK
  <2> HIDE DEF G
  <2>7. Cardinality(Owners(q, s) \cap G) = 0
    BY Zenon, <2>6, FS_EmptySet
  <2>8. Cardinality(Owners(r, s)) = Cardinality(Owners(q, s)) + Cardinality(G) - 0
    BY ZenonT(30), <2>2, <2>3, <2>5, <2>7, FS_Union
  <2>9. /\ x[s] = y[s] + (IF s \in S THEN n ELSE 0) /\ x[s] \in Nat /\ y[s] \in Nat
        /\ q.free[s] \in Nat /\ g[s] \in Nat
    BY Zenon, <1>0, <1>3, LineFacts
  <2>10. F[s] = q.free[s] + (IF s \in S THEN n - g[s] ELSE 0) /\ (s \notin S => g[s] = 0)
    BY Zenon, <1>3, <1>4
  <2>11. Cardinality(Owners(r, s)) = Cardinality(Owners(q, s)) + g[s]
    BY <2>2, <2>3, <2>8, <2>9
  <2> QED
    BY <2>1, <2>2, <2>9, <2>10, <2>11
<1>12. Grants(q, r, Parties)
  <2> SUFFICES ASSUME NEW p \in Parties
               PROVE  /\ q.holds[p] \subseteq r.holds[p]
                      /\ \A s \in r.holds[p] \ q.holds[p] : p \in Lined(q, s)
                      /\ \A s \in Sems : p \in Lined(r, s) => p \in Lined(q, s)
    BY Zenon DEF Grants
  <2>1. r.holds[p] = q.holds[p] \cup {s \in S : \E i \in 1..g[s] : q.line[s][i] = p}
    BY Zenon, <1>6, <1>7
  <2>2. ASSUME NEW s \in S, NEW i \in 1..g[s], q.line[s][i] = p PROVE p \in Lined(q, s)
    <3>1. g[s] \in 0..Len(q.line[s]) /\ Len(q.line[s]) \in Nat
      BY Zenon, <1>0, <1>3, LineFacts
    <3>2. i \in 1..Len(q.line[s])
      BY <3>1
    <3> QED
      BY Zenon, <3>2, <2>2 DEF Lined
  <2> QED
    BY Zenon, <2>1, <2>2, <1>9
<1> QED
  BY Zenon, <1>8, <1>10, <1>11, <1>12 DEF Balanced, r

\* An owner's holdings are set to V; what it had or lacked is found elsewhere.
Reheld(q, o, V) == [q EXCEPT !.holds[o] = V]

LEMMA HoldsBalanced ==
    ASSUME NEW q, NEW x \in [Sems -> Int], Balanced(q, x),
           NEW o \in Parties, NEW V \in SUBSET Sems,
           \A s \in V : o \notin Lined(q, s),
           NEW y \in [Sems -> Int],
           \A s \in Sems : y[s] + (IF s \in V THEN 1 ELSE 0)
                             = x[s] + (IF s \in q.holds[o] THEN 1 ELSE 0)
    PROVE  /\ Balanced(Reheld(q, o, V), y)
           /\ Reheld(q, o, V).holds[o] = V
           /\ \A p \in Parties \ {o} : Reheld(q, o, V).holds[p] = q.holds[p]
           /\ \A s \in Sems : Lined(Reheld(q, o, V), s) = Lined(q, s)
<1> DEFINE H == [q.holds EXCEPT ![o] = V]
           r == Reheld(q, o, V)
<1>0. SemType(q) /\ LinesOK(q) /\ Tally(q, x)
  BY Zenon DEF Balanced
<1>1. r = [free |-> q.free, line |-> q.line, holds |-> H]
  <2>1. q = [free |-> q.free, line |-> q.line, holds |-> q.holds]
    BY Zenon, <1>0 DEF SemType
  <2>2. r = [q EXCEPT !.holds = H]
    BY Zenon, <2>1 DEF Reheld
  <2> QED
    BY Zenon, <2>1, <2>2
<1> HIDE DEF r
<1>2. r.free = q.free /\ r.line = q.line /\ r.holds = H
  BY Zenon, <1>1
<1>3. /\ H \in [Parties -> SUBSET Sems]
      /\ H[o] = V
      /\ \A p \in Parties \ {o} : H[p] = q.holds[p]
  BY Zenon, <1>0 DEF SemType
<1> HIDE DEF H
<1>4. SemType(r)
  BY Zenon, <1>0, <1>1, <1>2, <1>3 DEF SemType
<1>5. \A s \in Sems : Lined(r, s) = Lined(q, s) /\ Lined(q, s) \subseteq Parties
  BY <1>0, <1>2, LineFacts DEF Lined, Parties
<1>6. LinesOK(r)
  <2>1. ASSUME NEW s \in Sems, NEW p \in Lined(q, s) PROVE s \notin r.holds[p]
    <3>1. s \notin q.holds[p] /\ p \in Parties
      BY Zenon, <1>0, <1>5 DEF LinesOK
    <3> QED
      BY Zenon, <3>1, <1>2, <1>3
  <2>2. ASSUME NEW s \in Sems
        PROVE  /\ r.free[s] > 0 => r.line[s] = <<>>
               /\ \A i, j \in 1..Len(r.line[s]) : r.line[s][i] = r.line[s][j] => i = j
    BY Zenon, <1>0, <1>2 DEF LinesOK
  <2> QED
    BY Zenon, <2>1, <2>2, <1>5 DEF LinesOK
<1>7. Tally(r, y)
  <2> SUFFICES ASSUME NEW s \in Sems
               PROVE  q.free[s] + Cardinality(Owners(r, s)) + y[s] = Capacity(s)
    BY Zenon, <1>2 DEF Tally
  <2>1. q.free[s] + Cardinality(Owners(q, s)) + x[s] = Capacity(s)
    BY Zenon, <1>0 DEF Tally
  <2>2. IsFiniteSet(Owners(q, s)) /\ Cardinality(Owners(q, s)) \in Nat
    BY Zenon, OwnersFinite
  <2>3. /\ y[s] + (IF s \in V THEN 1 ELSE 0) = x[s] + (IF s \in q.holds[o] THEN 1 ELSE 0)
        /\ x[s] \in Int /\ y[s] \in Int /\ q.free[s] \in Nat
    BY Zenon, <1>0, LineFacts
  <2>4. CASE s \in q.holds[o] /\ s \notin V
    <3>1. Owners(r, s) = Owners(q, s) \ {o} /\ o \in Owners(q, s)
      BY Zenon, <2>4, <1>2, <1>3 DEF Owners
    <3> DEFINE A == Owners(q, s)
    <3> HIDE DEF A
    <3>0. IsFiniteSet(A) /\ o \in A
      BY Zenon, <3>1, <2>2 DEF A
    <3>2. Cardinality(Owners(r, s)) = Cardinality(Owners(q, s)) - 1
      <4>1. Cardinality(A \ {o}) = Cardinality(A) - 1
        BY ZenonT(30), <3>0, FS_RemoveElement
      <4> QED
        BY Zenon, <4>1, <3>1 DEF A
    <3> QED
      BY SMTT(30), <2>1, <2>2, <2>3, <2>4, <3>2
  <2>5. CASE s \notin q.holds[o] /\ s \in V
    <3>1. Owners(r, s) = Owners(q, s) \cup {o} /\ o \notin Owners(q, s)
      BY Zenon, <2>5, <1>2, <1>3 DEF Owners
    <3>2. Cardinality(Owners(r, s)) = Cardinality(Owners(q, s)) + 1
      BY ZenonT(30), <3>1, <2>2, FS_AddElement
    <3> QED
      BY <2>1, <2>2, <2>3, <2>5, <3>2
  <2>6. CASE (s \in q.holds[o]) <=> (s \in V)
    <3>1. Owners(r, s) = Owners(q, s)
      BY Zenon, <2>6, <1>2, <1>3 DEF Owners
    <3>2. y[s] = x[s]
      BY <2>3, <2>6
    <3> QED
      BY Zenon, <2>1, <3>1, <3>2
  <2> QED
    BY Zenon, <2>4, <2>5, <2>6
<1> QED
  BY Zenon, <1>2, <1>3, <1>4, <1>5, <1>6, <1>7 DEF Balanced, r

\* Dropping permits: the owner loses exactly these, somebody in line may gain.
LEMMA DropBalanced ==
    ASSUME NEW q, NEW x \in [Sems -> Nat], Balanced(q, x),
           NEW o \in Parties, NEW S \in SUBSET q.holds[o]
    PROVE  /\ Balanced(Drop(q, o, S), x)
           /\ Grants(q, Drop(q, o, S), Parties \ {o})
           /\ (\A s \in Sems : o \notin Lined(q, s)) =>
                /\ Drop(q, o, S).holds[o] = q.holds[o] \ S
                /\ \A s \in Sems : o \notin Lined(Drop(q, o, S), s)
<1> DEFINE V == q.holds[o] \ S
           u == Reheld(q, o, V)
           r == Drop(q, o, S)
           y == [s \in Sems |-> x[s] + (IF s \in S THEN 1 ELSE 0)]
<1>1. y \in [Sems -> Nat] /\ \A s \in Sems : y[s] = x[s] + (IF s \in S THEN 1 ELSE 0)
  OBVIOUS
<1>2. SemType(q) /\ LinesOK(q) /\ q.holds[o] \subseteq Sems /\ S \in SUBSET Sems
  BY Zenon DEF Balanced, SemType
<1>3. r = Release(u, S, 1)
  BY Zenon DEF Drop, Reheld
<1>4. V \in SUBSET Sems /\ \A s \in V : o \notin Lined(q, s)
  BY Zenon, <1>2 DEF LinesOK
<1> HIDE DEF y
<1>5. \A s \in Sems : y[s] + (IF s \in V THEN 1 ELSE 0)
                        = x[s] + (IF s \in q.holds[o] THEN 1 ELSE 0)
  <2> SUFFICES ASSUME NEW s \in Sems
               PROVE  y[s] + (IF s \in V THEN 1 ELSE 0)
                        = x[s] + (IF s \in q.holds[o] THEN 1 ELSE 0)
    BY Zenon
  <2>1. x[s] \in Nat /\ y[s] = x[s] + (IF s \in S THEN 1 ELSE 0)
    BY Zenon, <1>1
  <2>2. s \in V <=> (s \in q.holds[o] /\ s \notin S)
    BY Zenon
  <2>3. s \in S => s \in q.holds[o]
    BY Zenon
  <2> HIDE DEF V
  <2> QED
    BY <2>1, <2>2, <2>3
<1>6. x \in [Sems -> Int] /\ y \in [Sems -> Int]
  BY <1>1
<1> HIDE DEF V, r
<1>7. /\ Balanced(u, y) /\ u.holds[o] = V
      /\ \A p \in Parties \ {o} : u.holds[p] = q.holds[p]
      /\ \A s \in Sems : Lined(u, s) = Lined(q, s)
  BY SMTT(30), <1>4, <1>5, <1>6, HoldsBalanced
<1> HIDE DEF u
<1>8. Balanced(r, x) /\ Grants(u, r, Parties)
  BY Zenon, <1>1, <1>2, <1>3, <1>7, ReleaseBalanced
<1>9. \A p \in Parties : r.holds[p] \subseteq Sems
  BY Zenon, <1>8 DEF Balanced, SemType
<1>10. Grants(q, r, Parties \ {o})
  BY Zenon, <1>7, <1>8, <1>9 DEF Grants
<1>11. ASSUME \A s \in Sems : o \notin Lined(q, s)
       PROVE  r.holds[o] = V /\ \A s \in Sems : o \notin Lined(r, s)
  <2>1. /\ V \subseteq r.holds[o] /\ \A s \in r.holds[o] \ V : o \in Lined(q, s)
        /\ \A s \in Sems : o \in Lined(r, s) => o \in Lined(q, s)
    BY Zenon, <1>7, <1>8, <1>9 DEF Grants
  <2>2. \A s \in r.holds[o] : s \in V
    BY Zenon, <2>1, <1>9, <1>11
  <2> QED
    BY ZenonT(30), <2>1, <2>2, <1>11
<1> QED
  BY Zenon, <1>8, <1>10, <1>11 DEF V, r

\* The indices of the two parts of a line of n that is cut at its k-th place.
LEMMA CutIndices ==
    ASSUME NEW n \in Nat, NEW k \in 1..n
    PROVE  /\ 1 \in Int /\ k \in Nat /\ k - 1 \in Int /\ k + 1 \in Int /\ n \in Int
           /\ (IF 1 <= k - 1 THEN (k - 1) - 1 + 1 ELSE 0) = k - 1
           /\ (IF k + 1 <= n THEN n - (k + 1) + 1 ELSE 0) = n - k
           /\ \A i \in 1..(k - 1) : i \in 1..((k - 1) - 1 + 1) /\ 1 + i - 1 = i /\ i \in 1..n
           /\ \A i \in 1..(n - k) : i \in 1..(n - (k + 1) + 1) /\ (k + 1) + i - 1 = k + i
           /\ \A i \in (k + 1)..n : i \in 1..n
           /\ (k - 1) + (n - k) = n - 1
  OBVIOUS

\* A waiter that leaves a line closes the gap.
LEMMA WithoutLine ==
    ASSUME NEW U, NEW L \in Seq(U), NEW w,
           \A i, j \in 1..Len(L) : L[i] = L[j] => i = j
    PROVE  LET M == Without(L, w)
           IN  /\ M \in Seq(U)
               /\ {M[i] : i \in 1..Len(M)} = {L[i] : i \in 1..Len(L)} \ {w}
               /\ \A i, j \in 1..Len(M) : M[i] = M[j] => i = j
               /\ L = <<>> => M = <<>>
<1> DEFINE M == Without(L, w)
<1>1. Len(L) \in Nat /\ DOMAIN L = 1..Len(L) /\ \A i \in 1..Len(L) : L[i] \in U
  BY Zenon, LenProperties, ElementOfSeq
<1>2. CASE ~ \E i \in DOMAIN L : L[i] = w
  <2>1. M = L
    BY Zenon, <1>2 DEF Without
  <2> QED
    BY Zenon, <2>1, <1>1, <1>2
<1>3. CASE \E i \in DOMAIN L : L[i] = w
  <2> DEFINE k == CHOOSE i \in DOMAIN L : L[i] = w
  <2>1. k \in 1..Len(L) /\ L[k] = w
    BY Zenon, <1>1, <1>3
  <2>2. M = SubSeq(L, 1, k - 1) \o SubSeq(L, k + 1, Len(L))
    BY ZenonT(30), <1>3 DEF Without
  <2> HIDE DEF k, M
  <2>0. /\ 1 \in Int /\ k \in Nat /\ k - 1 \in Int /\ k + 1 \in Int /\ Len(L) \in Int
        /\ (IF 1 <= k - 1 THEN (k - 1) - 1 + 1 ELSE 0) = k - 1
        /\ (IF k + 1 <= Len(L) THEN Len(L) - (k + 1) + 1 ELSE 0) = Len(L) - k
        /\ \A i \in 1..(k - 1) :
              i \in 1..((k - 1) - 1 + 1) /\ 1 + i - 1 = i /\ i \in 1..Len(L)
        /\ \A i \in 1..(Len(L) - k) :
              i \in 1..(Len(L) - (k + 1) + 1) /\ (k + 1) + i - 1 = k + i
        /\ \A i \in (k + 1)..Len(L) : i \in 1..Len(L)
        /\ (k - 1) + (Len(L) - k) = Len(L) - 1
    BY Zenon, <1>1, <2>1, CutIndices
  <2> DEFINE A == SubSeq(L, 1, k - 1)
             B == SubSeq(L, k + 1, Len(L))
  <2>3. /\ A \in Seq(U) /\ Len(A) = k - 1
        /\ \A i \in 1..(k - 1) : A[i] = L[i]
    <3>1. 1 \in Int /\ k - 1 \in Int /\ \A i \in 1..(k - 1) : L[i] \in U
      BY Zenon, <1>1, <2>0
    <3>2. /\ A \in Seq(U)
          /\ Len(A) = IF 1 <= k - 1 THEN (k - 1) - 1 + 1 ELSE 0
          /\ \A i \in 1..((k - 1) - 1 + 1) : A[i] = L[1 + i - 1]
      BY <3>1, SubSeqProperties
    <3> HIDE DEF A
    <3>3. Len(A) = k - 1
      BY Zenon, <3>2, <2>0
    <3>4. ASSUME NEW i \in 1..(k - 1) PROVE A[i] = L[i]
      <4>1. i \in 1..((k - 1) - 1 + 1) /\ 1 + i - 1 = i
        BY Zenon, <2>0
      <4> QED
        BY Zenon, <4>1, <3>2
    <3> QED
      BY Zenon, <3>2, <3>3, <3>4
  <2>4. /\ B \in Seq(U) /\ Len(B) = Len(L) - k
        /\ \A i \in 1..(Len(L) - k) : B[i] = L[k + i]
    <3>1. k + 1 \in Int /\ Len(L) \in Int /\ \A i \in (k + 1)..Len(L) : L[i] \in U
      BY Zenon, <1>1, <2>0
    <3>2. /\ B \in Seq(U)
          /\ Len(B) = IF k + 1 <= Len(L) THEN Len(L) - (k + 1) + 1 ELSE 0
          /\ \A i \in 1..(Len(L) - (k + 1) + 1) : B[i] = L[(k + 1) + i - 1]
      BY <3>1, SubSeqProperties
    <3> HIDE DEF B
    <3>3. Len(B) = Len(L) - k
      BY Zenon, <3>2, <2>0
    <3>4. ASSUME NEW i \in 1..(Len(L) - k) PROVE B[i] = L[k + i]
      <4>1. i \in 1..(Len(L) - (k + 1) + 1) /\ (k + 1) + i - 1 = k + i
        BY Zenon, <2>0
      <4> QED
        BY Zenon, <4>1, <3>2
    <3> QED
      BY Zenon, <3>2, <3>3, <3>4
  <2> HIDE DEF A, B
  <2>4a. A \in Seq(U) /\ B \in Seq(U)
    BY Zenon, <2>3, <2>4
  <2>5. /\ M \in Seq(U) /\ Len(M) = Len(L) - 1
        /\ \A i \in 1..(Len(L) - 1) : M[i] = IF i < k THEN L[i] ELSE L[i + 1]
    <3>1. /\ A \o B \in Seq(U) /\ Len(A \o B) = Len(A) + Len(B)
          /\ \A i \in 1..(Len(A) + Len(B)) :
                (A \o B)[i] = IF i <= Len(A) THEN A[i] ELSE B[i - Len(A)]
      BY ONLY ZenonT(30), <2>4a, ConcatProperties
    <3>2. M = A \o B
      BY Zenon, <2>2 DEF A, B
    <3>3. Len(A) + Len(B) = Len(L) - 1
      BY Zenon, <2>3, <2>4, <2>0
    <3>4. ASSUME NEW i \in 1..(Len(L) - 1)
          PROVE  M[i] = IF i < k THEN L[i] ELSE L[i + 1]
      <4>1. M[i] = IF i <= k - 1 THEN A[i] ELSE B[i - (k - 1)]
        BY Zenon, <3>1, <3>2, <3>3, <2>3
      <4>2. CASE i < k
        <5>1. i <= k - 1 /\ i \in 1..(k - 1)
          BY <4>2, <1>1, <2>1
        <5> QED
          BY Zenon, <5>1, <4>1, <4>2, <2>3
      <4>3. CASE ~(i < k)
        <5>1. ~(i <= k - 1) /\ i - (k - 1) \in 1..(Len(L) - k) /\ k + (i - (k - 1)) = i + 1
          BY <4>3, <1>1, <2>1
        <5>2. B[i - (k - 1)] = L[k + (i - (k - 1))]
          BY Zenon, <5>1, <2>4
        <5> QED
          BY Zenon, <5>1, <5>2, <4>1, <4>3
      <4> QED
        BY Zenon, <4>2, <4>3
    <3> QED
      BY Zenon, <3>1, <3>2, <3>3, <3>4
  <2>6. ASSUME NEW i \in 1..Len(M)
        PROVE  \E j \in 1..Len(L) : j # k /\ M[i] = L[j] /\ j = IF i < k THEN i ELSE i + 1
    <3>1. i \in 1..(Len(L) - 1)
      BY Zenon, <2>5
    <3>2. CASE i < k
      <4>1. i \in 1..Len(L) /\ i # k
        BY <3>1, <3>2, <1>1, <2>1
      <4> QED
        BY Zenon, <4>1, <3>1, <3>2, <2>5
    <3>3. CASE ~(i < k)
      <4>1. i + 1 \in 1..Len(L) /\ i + 1 # k
        BY <3>1, <3>3, <1>1, <2>1
      <4> QED
        BY Zenon, <4>1, <3>1, <3>3, <2>5
    <3> QED
      BY Zenon, <3>2, <3>3
  <2>7. ASSUME NEW j \in 1..Len(L), j # k
        PROVE  \E i \in 1..Len(M) : M[i] = L[j]
    <3>1. CASE j < k
      <4>1. j \in 1..(Len(L) - 1)
        BY <3>1, <1>1, <2>1
      <4> QED
        BY Zenon, <4>1, <3>1, <2>5
    <3>2. CASE j > k
      <4>1. j - 1 \in 1..(Len(L) - 1) /\ ~(j - 1 < k) /\ (j - 1) + 1 = j
        BY <3>2, <1>1, <2>1
      <4> QED
        BY Zenon, <4>1, <2>5
    <3>3. j < k \/ j > k
      BY <2>7, <1>1, <2>1
    <3> QED
      BY Zenon, <3>1, <3>2, <3>3
  <2>8. {M[i] : i \in 1..Len(M)} = {L[i] : i \in 1..Len(L)} \ {w}
    <3>1. ASSUME NEW i \in 1..Len(M) PROVE M[i] \in {L[j] : j \in 1..Len(L)} \ {w}
      <4>1. PICK j \in 1..Len(L) : j # k /\ M[i] = L[j]
        BY Zenon, <2>6
      <4>2. L[j] # w
        BY Zenon, <4>1, <2>1
      <4> QED
        BY Zenon, <4>1, <4>2
    <3>2. ASSUME NEW j \in 1..Len(L), L[j] # w PROVE L[j] \in {M[i] : i \in 1..Len(M)}
      <4>1. j # k
        BY Zenon, <3>2, <2>1
      <4> QED
        BY Zenon, <4>1, <2>7
    <3>3. {M[i] : i \in 1..Len(M)} \subseteq {L[i] : i \in 1..Len(L)} \ {w}
      BY Zenon, <3>1
    <3>4. ASSUME NEW x \in {L[i] : i \in 1..Len(L)} \ {w} PROVE x \in {M[i] : i \in 1..Len(M)}
      <4>1. PICK j \in 1..Len(L) : x = L[j]
        BY Zenon, <3>4
      <4> QED
        BY Zenon, <4>1, <3>2, <3>4
    <3> QED
      BY Zenon, <3>3, <3>4
  <2>9. ASSUME NEW i \in 1..Len(M), NEW j \in 1..Len(M), M[i] = M[j] PROVE i = j
    <3>1. PICK a \in 1..Len(L) : M[i] = L[a] /\ a = IF i < k THEN i ELSE i + 1
      BY Zenon, <2>6
    <3>2. PICK b \in 1..Len(L) : M[j] = L[b] /\ b = IF j < k THEN j ELSE j + 1
      BY Zenon, <2>6
    <3>3. a = b
      BY Zenon, <3>1, <3>2, <2>9
    <3>4. k \in Nat /\ i \in Nat /\ j \in Nat
      BY <2>1, <2>5, <1>1
    <3> QED
      BY <3>1, <3>2, <3>3, <3>4
  <2>10. L # <<>>
    BY <1>1, <2>1, EmptySeq
  <2> QED
    BY ZenonT(30), <2>5, <2>8, <2>9, <2>10 DEF M
<1> QED
  BY Zenon, <1>2, <1>3

\* Leaving every line.
Unlined(q, w) == [q EXCEPT !.line = [s \in Sems |-> Without(q.line[s], w)]]

LEMMA UnlinedBalanced ==
    ASSUME NEW q, NEW x, Balanced(q, x), NEW w \in Waiters
    PROVE  /\ Balanced(Unlined(q, w), x)
           /\ Unlined(q, w).holds = q.holds
           /\ \A s \in Sems : Lined(Unlined(q, w), s) = Lined(q, s) \ {w}
<1> DEFINE N == [s \in Sems |-> Without(q.line[s], w)]
           r == Unlined(q, w)
<1>0. SemType(q) /\ LinesOK(q) /\ Tally(q, x)
  BY Zenon DEF Balanced
<1>1. r = [free |-> q.free, line |-> N, holds |-> q.holds]
  <2>1. q = [free |-> q.free, line |-> q.line, holds |-> q.holds]
    BY Zenon, <1>0 DEF SemType
  <2> HIDE DEF N
  <2>2. r = [q EXCEPT !.line = N]
    BY Zenon DEF Unlined, N
  <2> QED
    BY Zenon, <2>1, <2>2
<1>2. \A s \in Sems : N[s] = Without(q.line[s], w)
  BY Zenon
<1> HIDE DEF r
<1>3. r.free = q.free /\ r.line = N /\ r.holds = q.holds
  BY Zenon, <1>1
<1>4. ASSUME NEW s \in Sems
      PROVE  /\ N[s] \in Seq(Waiters)
             /\ {N[s][i] : i \in 1..Len(N[s])} = Lined(q, s) \ {w}
             /\ \A i, j \in 1..Len(N[s]) : N[s][i] = N[s][j] => i = j
             /\ q.line[s] = <<>> => N[s] = <<>>
  <2>1. /\ q.line[s] \in Seq(Waiters)
        /\ \A i, j \in 1..Len(q.line[s]) : q.line[s][i] = q.line[s][j] => i = j
    BY Zenon, <1>0, LineFacts DEF LinesOK
  <2> DEFINE L == q.line[s]
  <2> HIDE DEF L
  <2>2. /\ L \in Seq(Waiters)
        /\ \A i, j \in 1..Len(L) : L[i] = L[j] => i = j
    BY Zenon, <2>1 DEF L
  <2>3. /\ Without(L, w) \in Seq(Waiters)
        /\ {Without(L, w)[i] : i \in 1..Len(Without(L, w))} = {L[i] : i \in 1..Len(L)} \ {w}
        /\ \A i, j \in 1..Len(Without(L, w)) : Without(L, w)[i] = Without(L, w)[j] => i = j
        /\ L = <<>> => Without(L, w) = <<>>
    BY ZenonT(30), <2>2, WithoutLine
  <2>4. N[s] = Without(L, w) /\ Lined(q, s) = {L[i] : i \in 1..Len(L)}
    BY Zenon, <1>2 DEF L, Lined
  <2> DEFINE M == Without(L, w)
             T == {M[i] : i \in 1..Len(M)}
             Ls == {L[i] : i \in 1..Len(L)}
  <2>5. /\ M \in Seq(Waiters) /\ T = Ls \ {w}
        /\ \A i, j \in 1..Len(M) : M[i] = M[j] => i = j
        /\ L = <<>> => M = <<>>
        /\ N[s] = M /\ Lined(q, s) = Ls
    BY Zenon, <2>3, <2>4
  <2> HIDE DEF M, Ls
  <2> QED
    BY SMTT(30), <2>5 DEF L
<1>5. N \in [Sems -> Seq(Waiters)]
  BY Zenon, <1>4
<1> HIDE DEF N
<1>6. ASSUME NEW s \in Sems PROVE Lined(r, s) = Lined(q, s) \ {w}
  <2>1. Lined(r, s) = {N[s][i] : i \in 1..Len(N[s])}
    BY Zenon, <1>3 DEF Lined
  <2> QED
    BY Zenon, <2>1, <1>4
<1>7. SemType(r)
  BY Zenon, <1>0, <1>1, <1>3, <1>5 DEF SemType
<1>8. LinesOK(r)
  <2>1. ASSUME NEW s \in Sems
        PROVE  /\ r.free[s] > 0 => r.line[s] = <<>>
               /\ \A i, j \in 1..Len(r.line[s]) : r.line[s][i] = r.line[s][j] => i = j
    BY Zenon, <1>0, <1>3, <1>4 DEF LinesOK
  <2>2. ASSUME NEW s \in Sems, NEW p \in Lined(r, s) PROVE s \notin r.holds[p]
    BY Zenon, <1>0, <1>3, <1>6 DEF LinesOK
  <2> QED
    BY Zenon, <2>1, <2>2 DEF LinesOK
<1>9. Tally(r, x)
  <2>1. \A s \in Sems : Owners(r, s) = Owners(q, s)
    BY Zenon, <1>3 DEF Owners
  <2> QED
    BY Zenon, <2>1, <1>0, <1>3 DEF Tally
<1> QED
  BY Zenon, <1>3, <1>6, <1>7, <1>8, <1>9 DEF Balanced, r

\* A dropped acquisition leaves nothing behind.
LEMMA AbandonBalanced ==
    ASSUME NEW q, NEW x \in [Sems -> Nat], Balanced(q, x), NEW w \in Waiters
    PROVE  /\ Balanced(Abandon(q, w), x)
           /\ Grants(q, Abandon(q, w), Parties \ {w})
           /\ Abandon(q, w).holds[w] = {}
           /\ \A s \in Sems : w \notin Lined(Abandon(q, w), s)
<1> DEFINE u == Unlined(q, w)
           S == q.holds[w]
           r == Drop(u, w, S)
<1>1. r = Abandon(q, w)
  BY Zenon DEF Abandon, Unlined
<1>2. Balanced(u, x) /\ u.holds = q.holds /\ \A s \in Sems : Lined(u, s) = Lined(q, s) \ {w}
  BY Zenon, UnlinedBalanced
<1> HIDE DEF u
<1>3. w \in Parties /\ S \in SUBSET u.holds[w] /\ u.holds[w] \ S = {}
  BY Zenon, <1>2 DEF Parties
<1> HIDE DEF S
<1>4. /\ Balanced(r, x) /\ Grants(u, r, Parties \ {w})
      /\ (\A s \in Sems : w \notin Lined(u, s)) =>
            /\ r.holds[w] = u.holds[w] \ S
            /\ \A s \in Sems : w \notin Lined(r, s)
  BY ZenonT(30), <1>2, <1>3, DropBalanced
<1> HIDE DEF r
<1>5. Grants(q, r, Parties \ {w})
  <2>1. \A p \in Parties : r.holds[p] \subseteq Sems
    BY Zenon, <1>4 DEF Balanced, SemType
  <2> QED
    BY Zenon, <2>1, <1>2, <1>4 DEF Grants
<1> QED
  BY Zenon, <1>1, <1>2, <1>3, <1>4, <1>5

\* The first poll of an acquisition takes a free permit or joins the line;
\* nobody else notices.
LEMMA AcquireBalanced ==
    ASSUME NEW q, NEW x, Balanced(q, x), NEW w \in Waiters, NEW s \in Sems,
           s \notin q.holds[w], w \notin Lined(q, s), x[s] \in Int
    PROVE  LET r == Acquire(q, w, s)
           IN  /\ Balanced(r, x)
               /\ \A p \in Parties \ {w} : r.holds[p] = q.holds[p]
               /\ \A t \in Sems : Lined(r, t) \ {w} = Lined(q, t) \ {w}
               /\ \A t \in Sems \ {s} : Lined(r, t) = Lined(q, t)
               /\ \/ r.holds[w] = q.holds[w] \cup {s} /\ w \notin Lined(r, s)
                  \/ r.holds[w] = q.holds[w] /\ w \in Lined(r, s)
               /\ q.free[s] > 0 => r.holds[w] = q.holds[w] \cup {s} /\ w \notin Lined(r, s)
<1> DEFINE r == Acquire(q, w, s)
<1>0. SemType(q) /\ LinesOK(q) /\ Tally(q, x) /\ w \in Parties
  BY ZenonT(30) DEF Balanced, Parties
<1>1. q = [free |-> q.free, line |-> q.line, holds |-> q.holds]
  BY Zenon, <1>0 DEF SemType
<1>2. CASE q.free[s] > 0
  <2> DEFINE F == [q.free EXCEPT ![s] = @ - 1]
             H == [q.holds EXCEPT ![w] = @ \cup {s}]
             u == [q EXCEPT !.free = F]
  <2>1. u = [free |-> F, line |-> q.line, holds |-> q.holds]
    BY <1>1
  <2>2. r = [u EXCEPT !.holds = H]
    BY Zenon, <1>1, <1>2 DEF Acquire
  <2> HIDE DEF u
  <2>3. r = [free |-> F, line |-> q.line, holds |-> H]
    BY ZenonT(30), <2>1, <2>2
  <2> HIDE DEF r
  <2>4. r.free = F /\ r.line = q.line /\ r.holds = H
    BY Zenon, <2>3
  <2>5. /\ F \in [Sems -> Nat] /\ F[s] = q.free[s] - 1
        /\ \A t \in Sems \ {s} : F[t] = q.free[t]
    BY <1>0, <1>2 DEF SemType
  <2>6. /\ H \in [Parties -> SUBSET Sems] /\ H[w] = q.holds[w] \cup {s}
        /\ \A p \in Parties \ {w} : H[p] = q.holds[p]
    BY Zenon, <1>0 DEF SemType
  <2> HIDE DEF F, H
  <2>7. SemType(r)
    BY Zenon, <1>0, <2>3, <2>4, <2>5, <2>6 DEF SemType
  <2>8. \A t \in Sems : Lined(r, t) = Lined(q, t) /\ Lined(q, t) \subseteq Parties
    BY Zenon, <1>0, <2>4, LineFacts DEF Lined, Parties
  <2>9. LinesOK(r)
    <3>1. ASSUME NEW t \in Sems PROVE r.free[t] > 0 => q.free[t] > 0
      <4>1. q.free[t] \in Nat /\ q.free[s] \in Nat
        BY Zenon, <1>0, LineFacts
      <4>2. CASE t = s
        BY Zenon, <4>1, <4>2, <2>4, <2>5, <1>2
      <4>3. CASE t # s
        BY Zenon, <4>3, <2>4, <2>5
      <4> QED
        BY Zenon, <4>2, <4>3
    <3>2. ASSUME NEW t \in Sems, NEW p \in Lined(r, t) PROVE t \notin r.holds[p]
      <4>1. p \in Parties /\ t \notin q.holds[p] /\ p \in Lined(q, t)
        BY Zenon, <1>0, <2>8 DEF LinesOK
      <4>2. ~(p = w /\ t = s)
        BY Zenon, <4>1
      <4> QED
        BY Zenon, <4>1, <4>2, <2>4, <2>6
    <3>3. ASSUME NEW t \in Sems
          PROVE  /\ r.free[t] > 0 => r.line[t] = <<>>
                 /\ \A i, j \in 1..Len(r.line[t]) : r.line[t][i] = r.line[t][j] => i = j
      BY Zenon, <1>0, <2>4, <3>1 DEF LinesOK
    <3> QED
      BY Zenon, <3>2, <3>3 DEF LinesOK
  <2>10. Tally(r, x)
    <3> SUFFICES ASSUME NEW t \in Sems
                 PROVE  r.free[t] + Cardinality(Owners(r, t)) + x[t] = Capacity(t)
      BY Zenon DEF Tally
    <3>1. q.free[t] + Cardinality(Owners(q, t)) + x[t] = Capacity(t)
      BY Zenon, <1>0 DEF Tally
    <3>2. CASE t # s
      <4>1. Owners(r, t) = Owners(q, t) /\ r.free[t] = q.free[t]
        BY Zenon, <3>2, <2>4, <2>5, <2>6 DEF Owners
      <4> QED
        BY Zenon, <4>1, <3>1
    <3>3. CASE t = s
      <4> DEFINE A == Owners(q, s)
      <4>1. Owners(r, s) = A \cup {w} /\ w \notin A
        BY Zenon, <1>0, <2>4, <2>6 DEF Owners
      <4>2. IsFiniteSet(A) /\ Cardinality(A) \in Nat
        BY Zenon, OwnersFinite
      <4> HIDE DEF A
      <4>3. Cardinality(A \cup {w}) = Cardinality(A) + 1
        BY ZenonT(30), <4>1, <4>2, FS_AddElement
      <4>4. q.free[s] \in Nat /\ r.free[s] = q.free[s] - 1
        BY Zenon, <1>0, <2>4, <2>5, LineFacts
      <4>5. q.free[s] + Cardinality(A) + x[s] = Capacity(s)
        BY Zenon, <3>1, <3>3 DEF A
      <4>6. (q.free[s] - 1) + (Cardinality(A) + 1) + x[s] = q.free[s] + Cardinality(A) + x[s]
        BY <4>2, <4>4
      <4> QED
        BY ZenonT(30), <4>1, <4>3, <4>4, <4>5, <4>6, <3>3
    <3> QED
      BY Zenon, <3>2, <3>3
  <2> QED
    BY ZenonT(30), <2>4, <2>6, <2>7, <2>8, <2>9, <2>10 DEF Balanced, r
<1>3. CASE ~(q.free[s] > 0)
  <2> DEFINE L == q.line[s]
             N == [q.line EXCEPT ![s] = Append(L, w)]
  <2>2. r = [q EXCEPT !.line = N]
    BY Zenon, <1>1, <1>3 DEF Acquire
  <2> HIDE DEF N
  <2>3. r = [free |-> q.free, line |-> N, holds |-> q.holds]
    BY Zenon, <1>1, <2>2
  <2> HIDE DEF r
  <2>4. r.free = q.free /\ r.line = N /\ r.holds = q.holds
    BY ZenonT(30), <2>3
  <2>5. /\ L \in Seq(Waiters) /\ Len(L) \in Nat
        /\ \A i, j \in 1..Len(L) : L[i] = L[j] => i = j
        /\ \A i \in 1..Len(L) : L[i] # w
        /\ Lined(q, s) = {L[i] : i \in 1..Len(L)}
    BY ZenonT(30), <1>0, LineFacts DEF LinesOK, Lined
  <2> HIDE DEF L
  <2> DEFINE M == Append(L, w)
  <2>6. /\ M \in Seq(Waiters) /\ Len(M) = Len(L) + 1 /\ M[Len(L) + 1] = w
        /\ \A i \in 1..Len(L) : M[i] = L[i]
    BY <2>5, AppendProperties
  <2> HIDE DEF M
  <2>7. N[s] = M /\ N \in [Sems -> Seq(Waiters)] /\ \A t \in Sems \ {s} : N[t] = q.line[t]
    BY Zenon, <1>0, <2>6 DEF SemType, N, M, L
  <2>8. SemType(r)
    BY Zenon, <1>0, <2>3, <2>4, <2>7 DEF SemType
  <2>9. Lined(r, s) = Lined(q, s) \cup {w}
    <3>1. Lined(r, s) = {M[i] : i \in 1..Len(M)}
      BY Zenon, <2>4, <2>7 DEF Lined
    <3>2. ASSUME NEW i \in 1..Len(M) PROVE M[i] \in Lined(q, s) \cup {w}
      <4>1. i \in 1..Len(L) \/ i = Len(L) + 1
        BY <2>5, <2>6
      <4> QED
        BY Zenon, <4>1, <2>5, <2>6
    <3>3. ASSUME NEW i \in 1..Len(L) PROVE L[i] \in {M[j] : j \in 1..Len(M)}
      <4>1. i \in 1..Len(M)
        BY <2>5, <2>6
      <4> QED
        BY Zenon, <4>1, <2>6
    <3>4. w \in {M[j] : j \in 1..Len(M)}
      <4>1. Len(L) + 1 \in 1..Len(M)
        BY <2>5, <2>6
      <4> QED
        BY Zenon, <4>1, <2>6
    <3>5. Lined(r, s) \subseteq Lined(q, s) \cup {w}
      BY Zenon, <3>1, <3>2
    <3>6. Lined(q, s) \cup {w} \subseteq Lined(r, s)
      <4>1. Lined(q, s) \subseteq Lined(r, s)
        BY Zenon, <3>1, <3>3, <2>5
      <4> QED
        BY Zenon, <4>1, <3>1, <3>4
    <3> QED
      BY Zenon, <3>5, <3>6
  <2>10. \A t \in Sems \ {s} : Lined(r, t) = Lined(q, t)
    BY ZenonT(40), <2>4, <2>7 DEF Lined
  <2>11. LinesOK(r)
    <3>1. ASSUME NEW t \in Sems, t # s
          PROVE  /\ r.free[t] > 0 => r.line[t] = <<>>
                 /\ \A i, j \in 1..Len(r.line[t]) : r.line[t][i] = r.line[t][j] => i = j
                 /\ \A o \in Lined(r, t) : t \notin r.holds[o]
      BY Zenon, <1>0, <2>4, <2>7, <2>10, <3>1 DEF LinesOK
    <3>2. ASSUME NEW i \in 1..Len(M), NEW j \in 1..Len(M), M[i] = M[j] PROVE i = j
      <4>1. (i \in 1..Len(L) \/ i = Len(L) + 1) /\ (j \in 1..Len(L) \/ j = Len(L) + 1)
        BY SMTT(30), <2>5, <2>6
      <4> QED
        BY Zenon, <4>1, <2>5, <2>6, <3>2
    <3>3. \A o \in Lined(r, s) : s \notin r.holds[o]
      BY Zenon, <1>0, <2>4, <2>9 DEF LinesOK
    <3>4. ~(r.free[s] > 0)
      BY Zenon, <1>3, <2>4
    <3>5. /\ r.free[s] > 0 => r.line[s] = <<>>
          /\ \A i, j \in 1..Len(r.line[s]) : r.line[s][i] = r.line[s][j] => i = j
      BY Zenon, <3>2, <3>4, <2>4, <2>7
    <3> QED
      BY SMTT(30), <3>1, <3>3, <3>5 DEF LinesOK
  <2>12. Tally(r, x)
    <3>1. \A t \in Sems : Owners(r, t) = Owners(q, t)
      BY Zenon, <2>4 DEF Owners
    <3> QED
      BY Zenon, <3>1, <1>0, <2>4 DEF Tally
  <2> QED
    BY ZenonT(30), <1>3, <2>4, <2>8, <2>9, <2>10, <2>11, <2>12 DEF Balanced, r
<1> QED
  BY ZenonT(30), <1>2, <1>3

\* What a wait for capacity is for, and what a task has before it waits.
Wants(w) == {Direction(w), "total"}
Base(w) == IF w = Loop THEN {"slots"} ELSE {}

\* Nobody but the polling task gains, and it gains or joins what it polls for.
Polled(q, r, w) ==
    /\ \A p \in Parties \ {w} : r.holds[p] = q.holds[p]
    /\ \A t \in Sems : Lined(r, t) \ {w} = Lined(q, t) \ {w}
    /\ q.holds[w] \subseteq r.holds[w]
    /\ r.holds[w] \subseteq q.holds[w] \cup Wants(w)
    /\ \A t \in Sems \ Wants(w) : w \in Lined(r, t) => w \in Lined(q, t)

\* Waiting is standing in some line.
LEMMA WaitingIsLined ==
    ASSUME NEW q, SemType(q), NEW w
    PROVE  Waiting(q, w) <=> \E s \in Sems : w \in Lined(q, s)
<1>1. ASSUME NEW s \in Sems PROVE Range(q.line[s]) = Lined(q, s)
  <2>1. DOMAIN q.line[s] = 1..Len(q.line[s])
    BY Zenon, LineFacts, LenProperties
  <2> QED
    BY Zenon, <2>1 DEF Range, Lined
<1> QED
  BY Zenon, <1>1 DEF Waiting

LEMMA PollBalanced ==
    ASSUME NEW q, NEW x \in [Sems -> Nat], Balanced(q, x), NEW w \in Waiters
    PROVE  /\ Balanced(Poll(q, w), x)
           /\ Polled(q, Poll(q, w), w)
<1> DEFINE d == Direction(w)
           u == IF d \in q.holds[w] \/ Waiting(q, w) THEN q ELSE Acquire(q, w, d)
           r == IF d \in u.holds[w] /\ "total" \notin u.holds[w] /\ ~ Waiting(u, w)
                THEN Acquire(u, w, "total") ELSE u
<1>1. r = Poll(q, w)
  BY ZenonT(30) DEF Poll
<1>2. d \in Sems /\ "total" \in Sems /\ x[d] \in Int /\ x["total"] \in Int
      /\ w \in Parties /\ d \in Wants(w) /\ "total" \in Wants(w) /\ Wants(w) \subseteq Sems
  BY DEF Direction, Sems, Parties, Wants
<1> HIDE DEF d
<1>3. Polled(q, q, w)
  BY Zenon DEF Polled
<1>4. SemType(q)
  BY Zenon DEF Balanced
<1>5. Balanced(u, x) /\ Polled(q, u, w)
  <2>1. CASE d \in q.holds[w] \/ Waiting(q, w)
    BY Zenon, <2>1, <1>3
  <2>2. CASE ~(d \in q.holds[w] \/ Waiting(q, w))
    <3>1. u = Acquire(q, w, d) /\ d \notin q.holds[w]
      BY Zenon, <2>2
    <3>2. w \notin Lined(q, d)
      BY Zenon, <2>2, <1>2, <1>4, WaitingIsLined
    <3> HIDE DEF u
    <3>3. /\ Balanced(u, x)
          /\ \A p \in Parties \ {w} : u.holds[p] = q.holds[p]
          /\ \A t \in Sems : Lined(u, t) \ {w} = Lined(q, t) \ {w}
          /\ \A t \in Sems \ {d} : Lined(u, t) = Lined(q, t)
          /\ u.holds[w] = q.holds[w] \cup {d} \/ u.holds[w] = q.holds[w]
      BY <3>1, <3>2, <1>2, AcquireBalanced
    <3> QED
      BY Zenon, <3>3, <1>2 DEF Polled
  <2> QED
    BY Zenon, <2>1, <2>2
<1> HIDE DEF u
<1>6. SemType(u)
  BY Zenon, <1>5 DEF Balanced
<1>7. CASE ~(d \in u.holds[w] /\ "total" \notin u.holds[w] /\ ~ Waiting(u, w))
  BY Zenon, <1>1, <1>5, <1>7
<1>8. CASE d \in u.holds[w] /\ "total" \notin u.holds[w] /\ ~ Waiting(u, w)
  <2>1. r = Acquire(u, w, "total")
    BY Zenon, <1>8
  <2>2. w \notin Lined(u, "total")
    BY Zenon, <1>8, <1>2, <1>6, WaitingIsLined
  <2> HIDE DEF r
  <2>3. /\ Balanced(r, x)
        /\ \A p \in Parties \ {w} : r.holds[p] = u.holds[p]
        /\ \A t \in Sems : Lined(r, t) \ {w} = Lined(u, t) \ {w}
        /\ \A t \in Sems \ {"total"} : Lined(r, t) = Lined(u, t)
        /\ r.holds[w] = u.holds[w] \cup {"total"} \/ r.holds[w] = u.holds[w]
    BY SMTT(30), <2>1, <2>2, <1>2, <1>5, <1>8, AcquireBalanced
  <2>4. Polled(q, r, w)
    BY ZenonT(30), <2>3, <1>2, <1>5 DEF Polled
  <2> QED
    BY Zenon, <2>3, <2>4, <1>1
<1> QED
  BY Zenon, <1>7, <1>8

\* A dial that finds both permits free takes both at once.
LEMMA PollTakes ==
    ASSUME NEW q, NEW x \in [Sems -> Nat], Balanced(q, x), NEW w \in Dials,
           q.free["out"] > 0, q.free["total"] > 0,
           q.holds[w] = {}, \A s \in Sems : w \notin Lined(q, s)
    PROVE  /\ Poll(q, w).holds[w] = {"out", "total"}
           /\ \A s \in Sems : w \notin Lined(Poll(q, w), s)
<1> DEFINE u == Acquire(q, w, "out")
           r == Acquire(u, w, "total")
<1>0. /\ w \in Waiters /\ w \in Parties /\ Direction(w) = "out"
      /\ "out" \in Sems /\ "total" \in Sems /\ "out" # "total"
      /\ x["out"] \in Int /\ x["total"] \in Int
  BY PoolAssumption DEF Waiters, Parties, Direction, Sems
<1>1. SemType(q)
  BY Zenon DEF Balanced
<1>2. ~ Waiting(q, w)
  BY Zenon, <1>1, WaitingIsLined
<1>3. "out" \notin q.holds[w] /\ w \notin Lined(q, "out")
  BY Zenon, <1>0
<1>4. /\ Balanced(u, x) /\ u.holds[w] = q.holds[w] \cup {"out"}
      /\ w \notin Lined(u, "out")
      /\ \A t \in Sems \ {"out"} : Lined(u, t) = Lined(q, t)
  BY <1>0, <1>3, AcquireBalanced
<1>5. u.free["total"] > 0
  <2>1. q = [free |-> q.free, line |-> q.line, holds |-> q.holds]
        /\ q.free \in [Sems -> Nat]
    BY Zenon, <1>1 DEF SemType
  <2> DEFINE F == [q.free EXCEPT !["out"] = @ - 1]
             H == [q.holds EXCEPT ![w] = @ \cup {"out"}]
             v == [q EXCEPT !.free = F]
  <2>2. v = [free |-> F, line |-> q.line, holds |-> q.holds]
    BY <2>1
  <2>3. u = [v EXCEPT !.holds = H]
    BY Zenon, <2>1 DEF Acquire
  <2> HIDE DEF v
  <2>4. u.free = F
    BY Zenon, <2>2, <2>3
  <2>5. F["total"] = q.free["total"]
    BY Zenon, <2>1, <1>0
  <2> QED
    BY ZenonT(30), <2>4, <2>5
<1> HIDE DEF u
<1>6. SemType(u) /\ \A s \in Sems : w \notin Lined(u, s)
  BY Zenon, <1>0, <1>4 DEF Balanced
<1>7. u.holds[w] = {"out"} /\ "total" \notin u.holds[w]
  BY Zenon, <1>4
<1>8. ~ Waiting(u, w)
  BY Zenon, <1>6, WaitingIsLined
<1>9. Poll(q, w) = r
  <2>1. "out" \notin q.holds[w]
    BY Zenon, <1>3
  <2> QED
    BY Zenon, <2>1, <1>0, <1>2, <1>7, <1>8 DEF Poll, u
<1>10. /\ r.holds[w] = u.holds[w] \cup {"total"} /\ w \notin Lined(r, "total")
       /\ \A t \in Sems \ {"total"} : Lined(r, t) = Lined(u, t)
  <2>1. w \notin Lined(u, "total")
    BY Zenon, <1>0, <1>6
  <2> QED
    BY SMTT(30), <2>1, <1>0, <1>4, <1>5, <1>7, AcquireBalanced
<1> HIDE DEF r
<1>11. \A s \in Sems : w \notin Lined(r, s)
  BY Zenon, <1>6, <1>10
<1> QED
  BY Zenon, <1>7, <1>9, <1>10, <1>11

\* The permits of n idle channels.
Pooled(n) == [s \in Sems |-> IF s \in {"out", "total"} THEN n ELSE 0]

\* Channels that leave the pool give back one permit of each kind.
LEMMA DropIdleBalanced ==
    ASSUME NEW q, NEW n \in Nat, NEW R, IsFiniteSet(R),
           Balanced(q, Pooled(n + Cardinality(R)))
    PROVE  /\ Balanced(DropIdle(q, R), Pooled(n))
           /\ Grants(q, DropIdle(q, R), Parties)
<1> DEFINE k == Cardinality(R)
           x == Pooled(n + k)
           y == Pooled(n)
           S == {"out", "total"}
<1>1. k \in Nat
  BY Zenon, FS_CardinalityType
<1>2. DropIdle(q, R) = Release(q, S, k)
  BY Zenon DEF DropIdle
<1> HIDE DEF k
<1>3. S \in SUBSET Sems
  BY Zenon DEF Sems
<1>4. x \in [Sems -> Nat] /\ y \in [Sems -> Nat]
  BY <1>1 DEF Pooled
<1>5. \A s \in Sems : x[s] = y[s] + (IF s \in S THEN k ELSE 0)
  BY <1>1 DEF Pooled
<1>6. Balanced(q, x)
  BY Zenon DEF k
<1> HIDE DEF x, y, S
<1>7. Balanced(Release(q, S, k), y) /\ Grants(q, Release(q, S, k), Parties)
  BY Zenon, <1>1, <1>3, <1>4, <1>5, <1>6, ReleaseBalanced
<1> QED
  BY Zenon, <1>2, <1>7 DEF y

-----------------------------------------------------------------------------
\* A dial touches the gates by one operation of a gate, or not at all.
LEMMA DialRefinesGate ==
    ASSUME NEW d \in Dials, DialNext(d)
    PROVE  GateNext \/ UNCHANGED gateVars
<1>1. CASE \E r \in Routes : GateStep(d, authentication_admission(d, r))
  BY Zenon, <1>1 DEF GateStep, GateNext
<1>2. CASE GateStep(d, enable(d)) \/ GateStep(d, wait(d))
  BY Zenon, <1>2 DEF GateStep, GateNext
<1>3. CASE LeaveGate(d)
  BY Zenon, <1>3 DEF LeaveGate, GateNext
<1>4. CASE outbound_timeout(d) \/ outbound_cancelled(d) \/ authenticated(d)
  BY Zenon, <1>4 DEF outbound_timeout, outbound_cancelled, LeaveLine, authenticated, GateNext
<1>5. CASE \/ \E r \in Routes : checkout(d, r)
           \/ outbound(d) \/ try_outbound(d) \/ acquire(d) \/ poll_acquisition(d)
           \/ recycle_channel(d) \/ drop_session(d)
  BY ZenonT(30), <1>5 DEF checkout, outbound, try_outbound, acquire, poll_acquisition,
              recycle_channel, drop_session
<1> QED
  BY Zenon, <1>1, <1>2, <1>3, <1>4, <1>5 DEF DialNext

\* privacy_dial_inner: the dial path implements the gate protocol, also where
\* capacity runs out, the pool is reset or connections come and go.
THEOREM PoolRefinesGate == Spec => GateSpec
<1>1. Init => GateInit
  BY Zenon DEF Init
<1>2. ASSUME [Next]_vars PROVE [GateNext]_gateVars
  <2>1. CASE \E d \in Dials : DialNext(d)
    BY Zenon, <2>1, DialRefinesGate
  <2>2. CASE LoopNext
    BY Zenon, <2>2 DEF LoopNext, accept_connection_slot, acquire, poll_acquisition,
                inbound_timeout, accept, accept_error, end_pause
  <2>3. CASE \E c \in Conns : ConnNext(c)
    BY Zenon, <2>3 DEF ConnNext, register_inbound_idle, end_connection, inbound_frame_ready,
                frame_received, idle_timeout, retire, drop_retirement, finish_connection
  <2>4. CASE (\E r \in Routes : expire(r)) \/ clear
    BY ZenonT(30), <2>4 DEF expire, clear
  <2>5. CASE UNCHANGED vars
    BY Zenon, <2>5 DEF vars
  <2> QED
    BY Zenon, <1>2, <2>1, <2>2, <2>3, <2>4, <2>5 DEF Next
<1> QED
  BY <1>1, <1>2, PTL DEF Spec, GateSpec

\* authentication_admission in the running node: one authentication per route,
\* and no free gate leaves the dial whose turn it is asleep and unwoken.
THEOREM PoolAuthenticatesOnce == Spec => [](OneAuthentication /\ NoLostHandoff)
BY PoolRefinesGate, RouteAuthenticatesOnce, HandoffReachesWaiter, PTL

-----------------------------------------------------------------------------
(* Where the permits are.                                                  *)

Positions(w) ==
    IF w = Loop THEN {"slot", "slotwait", "acquire", "poll", "asleep", "listen", "pause"}
    ELSE {"none", "try", "acquire", "poll", "asleep", "dial", "session"}

\* What a task that is not in the middle of a wait holds.
Holding(w, a) ==
    IF a \in {"dial", "session", "pause"} THEN Wants(w)
    ELSE IF a = "listen" THEN Base(w) \cup Wants(w)
    ELSE IF a = "acquire" THEN Base(w)
    ELSE {}

\* A task in a wait may have been granted part of what it wants; any other has
\* exactly what its place calls for, and is in no line.
Placed(q, w, a) ==
    /\ a \in Positions(w)
    /\ IF a \in {"poll", "asleep"}
       THEN /\ Base(w) \subseteq q.holds[w]
            /\ q.holds[w] \subseteq Base(w) \cup Wants(w)
            /\ \A s \in Sems \ Wants(w) : w \notin Lined(q, s)
       ELSE /\ q.holds[w] = Holding(w, a)
            /\ \A s \in Sems : w \notin Lined(q, s)

ConnStates == {"none", "serve", "wait", "waking", "closing", "ending"}

\* What an inbound connection's task holds.
ConnHolding(k) ==
    IF k \in {"serve", "wait", "waking"} THEN {"in", "total", "slots"}
    ELSE IF k \in {"closing", "ending"} THEN {"slots"}
    ELSE {}

\* The inductive invariant of the permits, over the four variables it is about.
PoolOK(q, I, a, k) ==
    /\ IsFiniteSet(I)
    /\ Balanced(q, Pooled(Cardinality(I)))
    /\ a = [w \in Waiters |-> a[w]]
    /\ \A w \in Waiters : Placed(q, w, a[w])
    /\ k \in [Conns -> ConnStates]
    /\ \A c \in Conns : q.holds[c] = ConnHolding(k[c])

PoolInv == PoolOK(sem, idle, at, conn)

\* A grant to somebody in a line keeps everybody in place, and is never one to
\* an inbound connection.
LEMMA GrantsKeep ==
    ASSUME NEW q, NEW r, SemType(q), SemType(r), NEW P \in SUBSET Parties, Grants(q, r, P)
    PROVE  /\ \A w \in P \cap Waiters : \A a : Placed(q, w, a) => Placed(r, w, a)
           /\ \A c \in P \cap Conns : r.holds[c] = q.holds[c]
<1>1. ASSUME NEW w \in P \cap Waiters, NEW a, Placed(q, w, a)
      PROVE  Placed(r, w, a)
  <2>1. /\ q.holds[w] \subseteq r.holds[w]
        /\ \A s \in r.holds[w] \ q.holds[w] : w \in Lined(q, s)
        /\ \A s \in Sems : w \in Lined(r, s) => w \in Lined(q, s)
    BY Zenon DEF Grants
  <2>2. r.holds[w] \subseteq Sems
    BY Zenon DEF SemType, Parties
  <2>3. CASE a \in {"poll", "asleep"}
    <3>1. /\ Base(w) \subseteq q.holds[w] /\ q.holds[w] \subseteq Base(w) \cup Wants(w)
          /\ \A s \in Sems \ Wants(w) : w \notin Lined(q, s)
      BY Zenon, <1>1, <2>3 DEF Placed
    <3>2. \A s \in r.holds[w] : s \in Base(w) \cup Wants(w)
      BY Zenon, <3>1, <2>1, <2>2
    <3> QED
      BY Zenon, <3>1, <3>2, <2>1, <2>3, <1>1 DEF Placed
  <2>4. CASE a \notin {"poll", "asleep"}
    <3>1. q.holds[w] = Holding(w, a) /\ \A s \in Sems : w \notin Lined(q, s)
      BY Zenon, <1>1, <2>4 DEF Placed
    <3>2. r.holds[w] = q.holds[w]
      BY ZenonT(30), <3>1, <2>1, <2>2
    <3> QED
      BY Zenon, <3>1, <3>2, <2>1, <2>4, <1>1 DEF Placed
  <2> QED
    BY Zenon, <2>3, <2>4
<1>2. ASSUME NEW c \in P \cap Conns PROVE r.holds[c] = q.holds[c]
  <2>1. \A s \in Sems : Lined(q, s) \subseteq Waiters
    BY Zenon, LineFacts
  <2>2. c \notin Waiters
    BY Zenon, PoolAssumption DEF Waiters
  <2>3. r.holds[c] \subseteq Sems
    BY Zenon DEF SemType, Parties
  <2> QED
    BY ZenonT(30), <2>1, <2>2, <2>3 DEF Grants
<1> QED
  BY Zenon, <1>1, <1>2

LEMMA PolledGrants ==
    ASSUME NEW q, NEW r, NEW w, Polled(q, r, w)
    PROVE  Grants(q, r, Parties \ {w})
BY Zenon DEF Polled, Grants

\* A step in which the party o moves and the others only gain what they wait for.
LEMMA PoolStep ==
    ASSUME PoolInv, NEW O \in SUBSET Parties,
           IsFiniteSet(idle'), Balanced(sem', Pooled(Cardinality(idle'))),
           Grants(sem, sem', Parties \ O),
           at' = [w \in Waiters |-> at'[w]], conn' \in [Conns -> ConnStates],
           \A w \in Waiters \ O : at'[w] = at[w],
           \A c \in Conns \ O : conn'[c] = conn[c],
           \A w \in Waiters \cap O : Placed(sem', w, at'[w]),
           \A c \in Conns \cap O : sem'.holds[c] = ConnHolding(conn'[c])
    PROVE  PoolInv'
<1> DEFINE P == Parties \ O
<1>1. SemType(sem) /\ SemType(sem') /\ P \in SUBSET Parties
  BY Zenon DEF PoolInv, PoolOK, Balanced
<1>2. /\ \A w \in P \cap Waiters : \A p : Placed(sem, w, p) => Placed(sem', w, p)
      /\ \A c \in P \cap Conns : sem'.holds[c] = sem.holds[c]
  BY <1>1, GrantsKeep
<1>3. ASSUME NEW w \in Waiters PROVE Placed(sem', w, at'[w])
  <2>1. CASE w \in O
    BY Zenon, <2>1
  <2>2. CASE w \notin O
    <3>1. Placed(sem, w, at[w]) /\ w \in P \cap Waiters /\ at'[w] = at[w]
      BY Zenon, <2>2 DEF PoolInv, PoolOK, Parties
    <3> QED
      BY Zenon, <3>1, <1>2
  <2> QED
    BY Zenon, <2>1, <2>2
<1>4. ASSUME NEW c \in Conns PROVE sem'.holds[c] = ConnHolding(conn'[c])
  <2>1. CASE c \in O
    BY Zenon, <2>1
  <2>2. CASE c \notin O
    <3>1. sem.holds[c] = ConnHolding(conn[c]) /\ c \in P \cap Conns /\ conn'[c] = conn[c]
      BY Zenon, <2>2 DEF PoolInv, PoolOK, Parties
    <3> QED
      BY Zenon, <3>1, <1>2
  <2> QED
    BY Zenon, <2>1, <2>2
<1> QED
  BY Zenon, <1>3, <1>4 DEF PoolInv, PoolOK

\* Facts of the invariant that every step starts from.
LEMMA PoolFacts ==
    ASSUME NEW q, NEW I, NEW a, NEW k, PoolOK(q, I, a, k)
    PROVE  /\ Pooled(Cardinality(I)) \in [Sems -> Nat] /\ Cardinality(I) \in Nat
           /\ SemType(q) /\ LinesOK(q)
           /\ \A w \in Waiters : w \in Parties /\ q.holds[w] \subseteq Sems
           /\ \A c \in Conns : c \in Parties /\ q.holds[c] \subseteq Sems
           /\ Grants(q, q, Parties)
<1>1. Cardinality(I) \in Nat
  BY Zenon, FS_CardinalityType DEF PoolOK
<1>2. SemType(q) /\ LinesOK(q)
  BY Zenon DEF PoolOK, Balanced
<1> QED
  BY Zenon, <1>1, <1>2 DEF Pooled, SemType, Parties, Grants

LEMMA PrepareKeeps ==
    ASSUME PoolInv, NEW w \in Waiters, prepare_capacity(w)
    PROVE  /\ IsFiniteSet(idle') /\ Balanced(sem', Pooled(Cardinality(idle')))
           /\ Grants(sem, sem', Parties)
<1>0. /\ IsFiniteSet(idle) /\ Cardinality(idle) \in Nat
      /\ Balanced(sem, Pooled(Cardinality(idle))) /\ Grants(sem, sem, Parties)
  <2>1. PoolOK(sem, idle, at, conn)
    BY Zenon DEF PoolInv
  <2> QED
    BY Zenon, <2>1, PoolFacts DEF PoolOK
<1>1. \/ sem' = sem /\ idle' = idle
      \/ sem' = DropIdle(sem, idle) /\ idle' = {}
  BY Zenon DEF prepare_capacity
<1>2. CASE sem' = sem /\ idle' = idle
  BY Zenon, <1>0, <1>2
<1>3. CASE sem' = DropIdle(sem, idle) /\ idle' = {}
  <2>1. Cardinality({}) = 0 /\ IsFiniteSet({}) /\ 0 + Cardinality(idle) = Cardinality(idle)
    BY <1>0, FS_EmptySet
  <2>2. Balanced(sem, Pooled(0 + Cardinality(idle)))
    BY Zenon, <1>0, <2>1
  <2>3. Balanced(DropIdle(sem, idle), Pooled(0)) /\ Grants(sem, DropIdle(sem, idle), Parties)
    BY Zenon, <1>0, <2>2, DropIdleBalanced
  <2> QED
    BY Zenon, <2>1, <2>3, <1>3
<1> QED
  BY Zenon, <1>1, <1>2, <1>3

\* outbound and acquire look at capacity and move on.
LEMMA LookKeeps ==
    ASSUME PoolInv, NEW w \in Waiters, prepare_capacity(w), UNCHANGED conn,
           NEW p, at' = [at EXCEPT ![w] = p],
           \/ w \in Dials /\ at[w] = "none" /\ p = "try"
           \/ at[w] \in {"acquire", "asleep"} /\ p = "poll"
    PROVE  PoolInv'
<1>0. PoolOK(sem, idle, at, conn)
  BY Zenon DEF PoolInv
<1>1. /\ IsFiniteSet(idle') /\ Balanced(sem', Pooled(Cardinality(idle')))
      /\ Grants(sem, sem', Parties)
  BY Zenon, PrepareKeeps
<1>2. SemType(sem) /\ SemType(sem') /\ Grants(sem, sem', Parties \ {w}) /\ {w} \in SUBSET Parties
  BY Zenon, <1>0, <1>1 DEF PoolOK, Balanced, Grants, Parties
<1>3. Placed(sem', w, at[w])
  <2>1. Parties \in SUBSET Parties /\ w \in Parties \cap Waiters /\ Placed(sem, w, at[w])
    BY Zenon, <1>0 DEF PoolOK, Parties
  <2> QED
    BY Zenon, <1>1, <1>2, <2>1, GrantsKeep
<1>4. Placed(sem', w, p)
  <2>1. CASE w \in Dials /\ at[w] = "none" /\ p = "try"
    <3>1. w # Loop
      BY Zenon, <2>1, PoolAssumption
    <3> QED
      BY Zenon, <1>3, <2>1, <3>1 DEF Placed, Positions, Holding
  <2>2. CASE at[w] = "acquire" /\ p = "poll"
    BY Zenon, <1>3, <2>2 DEF Placed, Positions, Holding
  <2>3. CASE at[w] = "asleep" /\ p = "poll"
    BY Zenon, <1>3, <2>3 DEF Placed, Positions
  <2> QED
    BY Zenon, <2>1, <2>2, <2>3
<1>5. /\ at' = [v \in Waiters |-> at'[v]] /\ at'[w] = p
      /\ \A v \in Waiters \ {w} : at'[v] = at[v]
  BY Zenon, <1>0 DEF PoolOK
<1>6. conn' = conn /\ conn \in [Conns -> ConnStates] /\ w \notin Conns
  BY Zenon, <1>0, PoolAssumption DEF PoolOK, Waiters
<1>7. PoolInv'
  <2>1. \A v \in Waiters \cap {w} : Placed(sem', v, at'[v])
    BY Zenon, <1>4, <1>5
  <2>2. \A c \in Conns \cap {w} : sem'.holds[c] = ConnHolding(conn'[c])
    BY Zenon, <1>6
  <2>3. \A c \in Conns \ {w} : conn'[c] = conn[c]
    BY Zenon, <1>6
  <2> QED
    BY ZenonT(30), <1>0, <1>1, <1>2, <1>5, <1>6, <2>1, <2>2, <2>3, PoolStep
<1> QED
  BY Zenon, <1>7

\* A task moves while the pool and the inbound connections stay as they are.
LEMMA MoveKeeps ==
    ASSUME PoolInv, UNCHANGED <<idle, conn>>, NEW w \in Waiters,
           Balanced(sem', Pooled(Cardinality(idle))), Grants(sem, sem', Parties \ {w}),
           NEW p, at' = [at EXCEPT ![w] = p], Placed(sem', w, p)
    PROVE  PoolInv'
<1>0. PoolOK(sem, idle, at, conn) /\ IsFiniteSet(idle)
  BY Zenon DEF PoolInv, PoolOK
<1>5. /\ at' = [v \in Waiters |-> at'[v]] /\ at'[w] = p
      /\ \A v \in Waiters \ {w} : at'[v] = at[v]
  BY Zenon, <1>0 DEF PoolOK
<1>6. conn' = conn /\ conn \in [Conns -> ConnStates] /\ w \notin Conns /\ {w} \in SUBSET Parties
      /\ idle' = idle
  BY Zenon, <1>0, PoolAssumption DEF PoolOK, Waiters, Parties
<1>7. PoolInv'
  <2>1. \A v \in Waiters \cap {w} : Placed(sem', v, at'[v])
    BY Zenon, <1>5
  <2>2. \A c \in Conns \cap {w} : sem'.holds[c] = ConnHolding(conn'[c])
    BY Zenon, <1>6
  <2>3. \A c \in Conns \ {w} : conn'[c] = conn[c]
    BY Zenon, <1>6
  <2> QED
    BY ZenonT(30), <1>0, <1>5, <1>6, <2>1, <2>2, <2>3, PoolStep
<1> QED
  BY Zenon, <1>7

\* A poll that does not complete leaves the task asleep; one that does leaves
\* it with both permits and in no line.
LEMMA PollKeeps ==
    ASSUME PoolInv, NEW w \in Waiters, poll_acquisition(w)
    PROVE  PoolInv'
<1> DEFINE q == Poll(sem, w)
           x == Pooled(Cardinality(idle))
<1>0. PoolOK(sem, idle, at, conn)
  BY Zenon DEF PoolInv
<1>1. x \in [Sems -> Nat] /\ Balanced(sem, x) /\ SemType(sem)
  BY Zenon, <1>0, PoolFacts DEF PoolOK
<1> HIDE DEF x
<1>2. Balanced(q, x) /\ Polled(sem, q, w)
  BY Zenon, <1>1, PollBalanced
<1>3. Grants(sem, q, Parties \ {w})
  BY Zenon, <1>2, PolledGrants
<1> HIDE DEF q
<1>4. /\ at[w] \in {"poll", "asleep"} /\ Placed(sem, w, at[w])
      /\ sem' = q /\ UNCHANGED <<idle, conn>>
  BY Zenon, <1>0 DEF PoolOK, poll_acquisition, q
<1>5. /\ Base(w) \subseteq q.holds[w] /\ q.holds[w] \subseteq Base(w) \cup Wants(w)
      /\ \A s \in Sems \ Wants(w) : w \notin Lined(q, s)
  <2>1. /\ Base(w) \subseteq sem.holds[w] /\ sem.holds[w] \subseteq Base(w) \cup Wants(w)
        /\ \A s \in Sems \ Wants(w) : w \notin Lined(sem, s)
    BY Zenon, <1>4 DEF Placed
  <2> QED
    BY Zenon, <2>1, <1>2 DEF Polled
<1>6. CASE ~(Wants(w) \subseteq q.holds[w])
  <2>1. at' = [at EXCEPT ![w] = "asleep"]
    BY Zenon, <1>6 DEF poll_acquisition, Wants, q
  <2>2. Placed(q, w, "asleep")
    BY Zenon, <1>5 DEF Placed, Positions
  <2> QED
    BY ZenonT(30), <2>1, <2>2, <1>2, <1>3, <1>4, MoveKeeps DEF x
<1>7. CASE Wants(w) \subseteq q.holds[w]
  <2> DEFINE p == IF w = Loop THEN "listen" ELSE "dial"
  <2>1. at' = [at EXCEPT ![w] = p]
    BY Zenon, <1>7 DEF poll_acquisition, Wants, q
  <2>2. LinesOK(q)
    BY Zenon, <1>2 DEF Balanced
  <2>3. \A s \in Sems : w \notin Lined(q, s)
    BY Zenon, <2>2, <1>5, <1>7 DEF LinesOK
  <2>4. q.holds[w] = Base(w) \cup Wants(w)
    BY Zenon, <1>5, <1>7
  <2>5. Placed(q, w, p)
    <3>1. CASE w = Loop
      BY Zenon, <3>1, <2>3, <2>4 DEF Placed, Positions, Holding
    <3>2. CASE w # Loop
      BY Zenon, <3>2, <2>3, <2>4 DEF Placed, Positions, Holding, Base
    <3> QED
      BY Zenon, <3>1, <3>2
  <2> HIDE DEF p
  <2> QED
    BY ZenonT(30), <2>1, <2>5, <1>2, <1>3, <1>4, MoveKeeps DEF x
<1> QED
  BY Zenon, <1>6, <1>7

LEMMA TryKeeps ==
    ASSUME PoolInv, NEW d \in Dials, try_outbound(d)
    PROVE  PoolInv'
<1> DEFINE x == Pooled(Cardinality(idle))
<1>0. PoolOK(sem, idle, at, conn) /\ d \in Waiters /\ d # Loop
  BY Zenon, PoolAssumption DEF PoolInv, Waiters
<1>1. x \in [Sems -> Nat] /\ Balanced(sem, x) /\ SemType(sem) /\ Grants(sem, sem, Parties \ {d})
  BY Zenon, <1>0, PoolFacts DEF PoolOK, Grants
<1> HIDE DEF x
<1>2. UNCHANGED <<idle, conn>> /\ at[d] = "try" /\ Placed(sem, d, "try")
  BY Zenon, <1>0 DEF try_outbound, PoolOK
<1>3. sem.holds[d] = {} /\ \A s \in Sems : d \notin Lined(sem, s)
  BY Zenon, <1>2 DEF Placed, Holding
<1>4. CASE sem.free["out"] > 0 /\ sem.free["total"] > 0
  <2> DEFINE q == Poll(sem, d)
  <2>1. Balanced(q, x) /\ Polled(sem, q, d)
    BY Zenon, <1>0, <1>1, PollBalanced
  <2>2. Grants(sem, q, Parties \ {d})
    BY Zenon, <2>1, PolledGrants
  <2>3. q.holds[d] = {"out", "total"} /\ \A s \in Sems : d \notin Lined(q, s)
    BY Zenon, <1>1, <1>3, <1>4, PollTakes
  <2>4. sem' = q /\ at' = [at EXCEPT ![d] = "dial"]
    BY ZenonT(30), <1>4 DEF try_outbound
  <2> HIDE DEF q
  <2>5. Placed(q, d, "dial")
    BY Zenon, <2>3, <1>0 DEF Placed, Positions, Holding, Wants, Direction
  <2> QED
    BY ZenonT(30), <2>1, <2>2, <2>4, <2>5, <1>0, <1>2, MoveKeeps DEF x
<1>5. CASE ~(sem.free["out"] > 0 /\ sem.free["total"] > 0)
  <2>1. sem' = sem /\ at' = [at EXCEPT ![d] = "acquire"]
    BY ZenonT(30), <1>5 DEF try_outbound
  <2>2. Placed(sem, d, "acquire")
    BY Zenon, <1>0, <1>3 DEF Placed, Positions, Holding, Base
  <2> QED
    BY ZenonT(30), <2>1, <2>2, <1>0, <1>1, <1>2, MoveKeeps DEF x
<1> QED
  BY Zenon, <1>4, <1>5

\* A task that drops what it has starts over.
LEMMA AbandonKeeps ==
    ASSUME PoolInv, NEW w \in Waiters, sem' = Abandon(sem, w), UNCHANGED <<idle, conn>>,
           at' = [at EXCEPT ![w] = IF w = Loop THEN "slot" ELSE "none"]
    PROVE  PoolInv'
<1> DEFINE x == Pooled(Cardinality(idle))
           q == Abandon(sem, w)
           p == IF w = Loop THEN "slot" ELSE "none"
<1>0. PoolOK(sem, idle, at, conn)
  BY Zenon DEF PoolInv
<1>1. x \in [Sems -> Nat] /\ Balanced(sem, x)
  BY Zenon, <1>0, PoolFacts DEF PoolOK
<1> HIDE DEF x
<1>2. /\ Balanced(q, x) /\ Grants(sem, q, Parties \ {w})
      /\ q.holds[w] = {} /\ \A s \in Sems : w \notin Lined(q, s)
  BY Zenon, <1>1, AbandonBalanced
<1> HIDE DEF q
<1>3. Placed(q, w, p)
  BY Zenon, <1>2 DEF Placed, Positions, Holding
<1>4. sem' = q /\ at' = [at EXCEPT ![w] = p]
  BY Zenon DEF q
<1> HIDE DEF p
<1> QED
  BY ZenonT(30), <1>2, <1>3, <1>4, MoveKeeps DEF x

\* The pool gives channels up; nobody moves.
LEMMA ExpireKeeps ==
    ASSUME PoolInv, NEW R \in SUBSET idle, sem' = DropIdle(sem, R), idle' = idle \ R,
           UNCHANGED <<at, conn>>
    PROVE  PoolInv'
<1> DEFINE J == idle \ R
<1>0. PoolOK(sem, idle, at, conn) /\ IsFiniteSet(idle)
  BY Zenon DEF PoolInv, PoolOK
<1>1. /\ IsFiniteSet(R) /\ IsFiniteSet(J)
      /\ Cardinality(J) + Cardinality(R) = Cardinality(idle) /\ Cardinality(J) \in Nat
  <2>1. IsFiniteSet(R) /\ IsFiniteSet(J)
    BY Zenon, <1>0, FS_Subset
  <2>2. J \cup R = idle /\ J \cap R = {}
    BY Zenon
  <2> HIDE DEF J
  <2>3. Cardinality(J) \in Nat /\ Cardinality(R) \in Nat /\ Cardinality({}) = 0
    BY Zenon, <2>1, FS_CardinalityType, FS_EmptySet
  <2>4. Cardinality(J \cup R) = Cardinality(J) + Cardinality(R) - Cardinality(J \cap R)
    BY Zenon, <2>1, FS_Union
  <2>5. Cardinality(J \cup R) = Cardinality(idle) /\ Cardinality(J \cap R) = 0
    BY Zenon, <2>2, <2>3
  <2>6. Cardinality(idle) = Cardinality(J) + Cardinality(R) - 0
    BY Zenon, <2>4, <2>5
  <2> QED
    BY <2>1, <2>3, <2>6
<1>2. idle' = J
  BY Zenon
<1> HIDE DEF J
<1>3. Balanced(sem, Pooled(Cardinality(J) + Cardinality(R)))
  BY Zenon, <1>0, <1>1 DEF PoolOK
<1>4. Balanced(sem', Pooled(Cardinality(J))) /\ Grants(sem, sem', Parties)
  BY Zenon, <1>1, <1>3, DropIdleBalanced
<1>5. /\ {} \in SUBSET Parties /\ Parties \ {} = Parties
      /\ IsFiniteSet(idle') /\ Balanced(sem', Pooled(Cardinality(idle')))
      /\ at' = [w \in Waiters |-> at'[w]] /\ conn' \in [Conns -> ConnStates]
      /\ at' = at /\ conn' = conn
  BY Zenon, <1>0, <1>1, <1>2, <1>4 DEF PoolOK
<1> QED
  BY ZenonT(30), <1>4, <1>5, PoolStep

\* A dial takes an idle channel with its permits.
LEMMA CheckoutKeeps ==
    ASSUME PoolInv, NEW d \in Dials, NEW r \in idle, at[d] = "none", idle' = idle \ {r},
           sem' = [sem EXCEPT !.holds[d] = {"out", "total"}],
           at' = [at EXCEPT ![d] = "session"], UNCHANGED conn
    PROVE  PoolInv'
<1> DEFINE V == {"out", "total"}
           n == Cardinality(idle)
           x == Pooled(n)
           y == Pooled(n - 1)
<1>0. /\ PoolOK(sem, idle, at, conn) /\ IsFiniteSet(idle) /\ d \in Waiters /\ d # Loop
      /\ d \in Parties /\ d \notin Conns
  BY ZenonT(30), PoolAssumption DEF PoolInv, PoolOK, Waiters, Parties
<1>1. IsFiniteSet(idle') /\ Cardinality(idle') = n - 1 /\ n \in Nat /\ n - 1 \in Nat
  <2>1. IsFiniteSet(idle \ {r}) /\ Cardinality(idle \ {r}) = n - 1 /\ n \in Nat
    BY Zenon, <1>0, FS_RemoveElement, FS_CardinalityType
  <2>2. Cardinality(idle \ {r}) \in Nat
    BY Zenon, <2>1, FS_CardinalityType
  <2> QED
    BY Zenon, <2>1, <2>2
<1> HIDE DEF n
<1>2. sem.holds[d] = {} /\ \A s \in Sems : d \notin Lined(sem, s)
  <2>1. Placed(sem, d, "none")
    BY Zenon, <1>0 DEF PoolOK
  <2> QED
    BY Zenon, <2>1 DEF Placed, Holding
<1>3. V \in SUBSET Sems /\ \A s \in V : d \notin Lined(sem, s)
  BY Zenon, <1>2 DEF Sems
<1>4. /\ x \in [Sems -> Int] /\ y \in [Sems -> Int]
      /\ \A s \in Sems : y[s] + (IF s \in V THEN 1 ELSE 0)
                           = x[s] + (IF s \in sem.holds[d] THEN 1 ELSE 0)
  BY <1>1, <1>2 DEF Pooled
<1>5. Balanced(sem, x) /\ sem' = Reheld(sem, d, V)
  BY Zenon, <1>0 DEF PoolOK, Reheld, n
<1> HIDE DEF x, y, V
<1> DEFINE u == Reheld(sem, d, V)
<1>u. /\ Balanced(u, y) /\ u.holds[d] = V
      /\ \A p \in Parties \ {d} : u.holds[p] = sem.holds[p]
      /\ \A s \in Sems : Lined(u, s) = Lined(sem, s)
  BY <1>0, <1>3, <1>4, <1>5, HoldsBalanced
<1>6. /\ Balanced(sem', y) /\ sem'.holds[d] = V
      /\ \A p \in Parties \ {d} : sem'.holds[p] = sem.holds[p]
      /\ \A s \in Sems : Lined(sem', s) = Lined(sem, s)
  BY ZenonT(30), <1>u, <1>5
<1>7. Grants(sem, sem', Parties \ {d}) /\ Balanced(sem', Pooled(Cardinality(idle')))
  BY ZenonT(30), <1>1, <1>6 DEF Grants, y
<1>8. Placed(sem', d, "session")
  BY ZenonT(30), <1>0, <1>2, <1>6 DEF Placed, Positions, Holding, Wants, Direction, V
<1>9. /\ at' = [v \in Waiters |-> at'[v]] /\ at'[d] = "session"
      /\ \A v \in Waiters \ {d} : at'[v] = at[v]
      /\ conn' = conn /\ conn' \in [Conns -> ConnStates] /\ {d} \in SUBSET Parties
  BY Zenon, <1>0 DEF PoolOK
<1>10. /\ \A v \in Waiters \cap {d} : Placed(sem', v, at'[v])
       /\ \A c \in Conns \cap {d} : sem'.holds[c] = ConnHolding(conn'[c])
       /\ \A c \in Conns \ {d} : conn'[c] = conn[c]
  BY Zenon, <1>0, <1>8, <1>9
<1> QED
  BY ZenonT(30), <1>1, <1>7, <1>9, <1>10, PoolStep

\* A channel goes to the pool with its permits, in place of an older one.
LEMMA RecycleKeeps ==
    ASSUME PoolInv, NEW d \in Dials, NEW r, at[d] = "session",
           sem' = DropIdle([sem EXCEPT !.holds[d] = {}], idle \cap {r}),
           idle' = idle \cup {r},
           at' = [at EXCEPT ![d] = "none"], UNCHANGED conn
    PROVE  PoolInv'
<1> DEFINE n == Cardinality(idle)
           m == Cardinality(idle \cup {r})
           x == Pooled(n)
           y == Pooled(n + 1)
           u == Reheld(sem, d, {})
<1>0. /\ PoolOK(sem, idle, at, conn) /\ IsFiniteSet(idle) /\ d \in Waiters /\ d # Loop
      /\ d \in Parties /\ d \notin Conns
  BY ZenonT(30), PoolAssumption DEF PoolInv, PoolOK, Waiters, Parties
<1>1. /\ IsFiniteSet(idle \cup {r}) /\ IsFiniteSet(idle \cap {r})
      /\ n \in Nat /\ m \in Nat /\ m + Cardinality(idle \cap {r}) = n + 1
  <2>1. IsFiniteSet({r}) /\ Cardinality({r}) = 1
    BY ZenonT(30), FS_Singleton
  <2>2. /\ IsFiniteSet(idle \cup {r})
        /\ m = n + Cardinality({r}) - Cardinality(idle \cap {r})
    BY Zenon, <1>0, <2>1, FS_Union
  <2>3. IsFiniteSet(idle \cap {r})
    BY Zenon, <1>0, FS_Subset
  <2>4. n \in Nat /\ m \in Nat /\ Cardinality(idle \cap {r}) \in Nat
    BY Zenon, <1>0, <2>2, <2>3, FS_CardinalityType
  <2> HIDE DEF n, m
  <2> QED
    BY <2>1, <2>2, <2>3, <2>4
<1> HIDE DEF n, m
<1>2. sem.holds[d] = {"out", "total"} /\ \A s \in Sems : d \notin Lined(sem, s)
  <2>1. Placed(sem, d, "session")
    BY Zenon, <1>0 DEF PoolOK
  <2> QED
    BY Zenon, <2>1, <1>0 DEF Placed, Holding, Wants, Direction
<1>4. /\ x \in [Sems -> Int] /\ y \in [Sems -> Int]
      /\ \A s \in Sems : y[s] + (IF s \in {} THEN 1 ELSE 0)
                           = x[s] + (IF s \in sem.holds[d] THEN 1 ELSE 0)
  BY <1>1, <1>2 DEF Pooled
<1>5. Balanced(sem, x)
  BY Zenon, <1>0 DEF PoolOK, n
<1> HIDE DEF x, y
<1>6. /\ Balanced(u, y) /\ u.holds[d] = {}
      /\ \A p \in Parties \ {d} : u.holds[p] = sem.holds[p]
      /\ \A s \in Sems : Lined(u, s) = Lined(sem, s)
  BY <1>0, <1>4, <1>5, HoldsBalanced
<1>7. sem' = DropIdle(u, idle \cap {r})
  BY Zenon DEF Reheld
<1> HIDE DEF u
<1>8. Balanced(sem', Pooled(m)) /\ Grants(u, sem', Parties)
  <2>1. Balanced(u, Pooled(m + Cardinality(idle \cap {r})))
    BY Zenon, <1>1, <1>6 DEF y
  <2> QED
    BY Zenon, <2>1, <1>1, <1>7, DropIdleBalanced
<1>9. SemType(sem') /\ \A p \in Parties : sem'.holds[p] \subseteq Sems
  BY ZenonT(30), <1>8 DEF Balanced, SemType
<1>10. Grants(sem, sem', Parties \ {d})
  BY ZenonT(30), <1>6, <1>8, <1>9 DEF Grants
<1>11. Placed(sem', d, "none")
  <2>1. sem'.holds[d] \subseteq u.holds[d] /\ \A s \in Sems : d \notin Lined(sem', s)
    <3>1. /\ \A s \in sem'.holds[d] \ u.holds[d] : d \in Lined(u, s)
          /\ \A s \in Sems : d \in Lined(sem', s) => d \in Lined(u, s)
      BY ZenonT(30), <1>0, <1>8 DEF Grants
    <3>2. \A s \in Sems : d \notin Lined(u, s)
      BY Zenon, <1>2, <1>6
    <3>3. sem'.holds[d] \subseteq Sems
      BY ZenonT(30), <1>0, <1>9
    <3> QED
      BY ZenonT(30), <3>1, <3>2, <3>3
  <2> QED
    BY ZenonT(30), <2>1, <1>0, <1>6 DEF Placed, Positions, Holding
<1>12. /\ at' = [v \in Waiters |-> at'[v]] /\ at'[d] = "none"
       /\ \A v \in Waiters \ {d} : at'[v] = at[v]
       /\ conn' = conn /\ conn' \in [Conns -> ConnStates] /\ {d} \in SUBSET Parties
       /\ IsFiniteSet(idle') /\ Balanced(sem', Pooled(Cardinality(idle')))
  BY Zenon, <1>0, <1>1, <1>8 DEF PoolOK, m
<1>13. /\ \A v \in Waiters \cap {d} : Placed(sem', v, at'[v])
       /\ \A c \in Conns \cap {d} : sem'.holds[c] = ConnHolding(conn'[c])
       /\ \A c \in Conns \ {d} : conn'[c] = conn[c]
  BY Zenon, <1>0, <1>11, <1>12
<1> QED
  BY ZenonT(30), <1>10, <1>12, <1>13, PoolStep

\* The accept loop reserves a slot, or waits for one.
LEMMA SlotKeeps ==
    ASSUME PoolInv, accept_connection_slot
    PROVE  PoolInv'
<1> DEFINE x == Pooled(Cardinality(idle))
           q == Acquire(sem, Loop, "slots")
<1>0. PoolOK(sem, idle, at, conn) /\ Loop \in Waiters /\ "slots" \in Sems
  BY Zenon DEF PoolInv, Waiters, Sems
<1>1. x \in [Sems -> Nat] /\ Balanced(sem, x) /\ Grants(sem, sem, Parties \ {Loop})
  BY Zenon, <1>0, PoolFacts DEF PoolOK, Grants
<1> HIDE DEF x
<1>2. /\ UNCHANGED <<idle, conn>> /\ at[Loop] \in {"slot", "slotwait"}
      /\ Placed(sem, Loop, at[Loop])
  BY Zenon, <1>0 DEF accept_connection_slot, PoolOK
<1>3. sem.holds[Loop] = {} /\ \A s \in Sems : Loop \notin Lined(sem, s)
  BY Zenon, <1>2 DEF Placed, Holding
<1>4. CASE sem.free["slots"] > 0
  <2>1. sem' = q /\ at' = [at EXCEPT ![Loop] = "acquire"]
    BY ZenonT(30), <1>4 DEF accept_connection_slot
  <2>2. "slots" \notin sem.holds[Loop] /\ Loop \notin Lined(sem, "slots") /\ x["slots"] \in Int
    BY SMTT(30), <1>0, <1>1, <1>3
  <2>3. /\ Balanced(q, x)
        /\ \A p \in Parties \ {Loop} : q.holds[p] = sem.holds[p]
        /\ \A t \in Sems : Lined(q, t) \ {Loop} = Lined(sem, t) \ {Loop}
        /\ \A t \in Sems \ {"slots"} : Lined(q, t) = Lined(sem, t)
        /\ q.holds[Loop] = sem.holds[Loop] \cup {"slots"} /\ Loop \notin Lined(q, "slots")
    BY SMTT(30), <2>2, <1>0, <1>1, <1>4, AcquireBalanced
  <2> HIDE DEF q
  <2>4. Grants(sem, q, Parties \ {Loop})
    BY Zenon, <2>3 DEF Grants
  <2>5. q.holds[Loop] = {"slots"} /\ \A s \in Sems : Loop \notin Lined(q, s)
    BY Zenon, <2>3, <1>3
  <2>6. Placed(q, Loop, "acquire")
    BY Zenon, <2>5 DEF Placed, Positions, Holding, Base
  <2> QED
    BY ZenonT(30), <2>1, <2>3, <2>4, <2>6, <1>0, <1>2, MoveKeeps DEF x
<1>5. CASE ~(sem.free["slots"] > 0)
  <2>1. sem' = sem /\ at' = [at EXCEPT ![Loop] = "slotwait"]
    BY ZenonT(30), <1>5 DEF accept_connection_slot
  <2>2. Placed(sem, Loop, "slotwait")
    BY Zenon, <1>3 DEF Placed, Positions, Holding
  <2> QED
    BY ZenonT(30), <2>1, <2>2, <1>0, <1>1, <1>2, MoveKeeps DEF x
<1> QED
  BY Zenon, <1>4, <1>5

\* Whoever holds a slot, there is a task for the connection it is for.
LEMMA TaskForSlot ==
    ASSUME PoolInv, "slots" \in sem.holds[Loop]
    PROVE  \E c \in Conns : conn[c] = "none"
<1> SUFFICES ASSUME \A c \in Conns : conn[c] # "none"
             PROVE  FALSE
  BY Zenon
<1> DEFINE A == Owners(sem, "slots")
           B == Conns \cup {Loop}
<1>1. PoolOK(sem, idle, at, conn) /\ "slots" \in Sems
  BY Zenon DEF PoolInv, Sems
<1>2. Loop \in Parties /\ Loop \notin Conns /\ IsFiniteSet(Conns)
  BY Zenon, PoolAssumption DEF Parties, Waiters
<1>3. B \in SUBSET A
  <2>1. ASSUME NEW c \in Conns PROVE "slots" \in sem.holds[c]
    <3>1. sem.holds[c] = ConnHolding(conn[c]) /\ conn[c] \in ConnStates /\ conn[c] # "none"
      BY Zenon, <1>1 DEF PoolOK
    <3> QED
      BY Zenon, <3>1 DEF ConnHolding, ConnStates
  <2> QED
    BY Zenon, <2>1, <1>2 DEF Owners, Parties
<1>4. IsFiniteSet(A) /\ Cardinality(A) \in Nat
  BY Zenon, OwnersFinite
<1>5. /\ sem.free["slots"] \in Nat
      /\ sem.free["slots"] + Cardinality(A) + 0 = TotalCap - 1
  <2>1. sem.free["slots"] + Cardinality(A) + Pooled(Cardinality(idle))["slots"] = Capacity("slots")
    BY Zenon, <1>1 DEF PoolOK, Balanced, Tally
  <2>2. Pooled(Cardinality(idle))["slots"] = 0 /\ Capacity("slots") = TotalCap - 1
    BY Zenon, <1>1 DEF Pooled, Capacity, MAX_DIRECTION_CONNECTIONS
  <2>3. sem.free["slots"] \in Nat
    BY Zenon, <1>1 DEF PoolOK, Balanced, SemType
  <2> QED
    BY Zenon, <2>1, <2>2, <2>3
<1>6. Cardinality(B) = Cardinality(Conns) + 1
  BY ZenonT(30), <1>2, FS_AddElement
<1> HIDE DEF A, B
<1>7. Cardinality(B) <= Cardinality(A)
  BY Zenon, <1>3, <1>4, FS_Subset
<1>8. Cardinality(Conns) \in Nat /\ Cardinality(Conns) >= TotalCap - 1 /\ TotalCap \in Nat
  BY Zenon, <1>2, PoolAssumption, FS_CardinalityType
<1> QED
  BY <1>4, <1>5, <1>6, <1>7, <1>8

\* An accepted connection takes over slot and permits.
LEMMA AcceptTakes ==
    ASSUME PoolInv, accept
    PROVE  PoolInv'
<1> DEFINE c == CHOOSE z \in Conns : conn[z] = "none"
           H == {"slots", "in", "total"}
           n == Cardinality(idle)
           x == Pooled(n)
           y == [s \in Sems |-> x[s] - (IF s \in H THEN 1 ELSE 0)]
           u == Reheld(sem, c, H)
           v == Reheld(u, Loop, {})
<1>0. PoolOK(sem, idle, at, conn) /\ Loop \in Waiters /\ Loop \in Parties /\ IsFiniteSet(idle)
      /\ n \in Nat
  BY ZenonT(30), FS_CardinalityType DEF PoolInv, PoolOK, Waiters, Parties
<1> HIDE DEF n
<1>1. at[Loop] = "listen" /\ Placed(sem, Loop, "listen")
  BY Zenon, <1>0 DEF PoolOK, accept
<1>2. sem.holds[Loop] = H /\ \A s \in Sems : Loop \notin Lined(sem, s)
  BY Zenon, <1>1 DEF Placed, Holding, Base, Wants, Direction
<1>3. c \in Conns /\ conn[c] = "none"
  <2>1. \E z \in Conns : conn[z] = "none"
    BY Zenon, <1>2, TaskForSlot
  <2> QED
    BY Zenon, <2>1
<1>4. /\ conn' = [conn EXCEPT ![c] = "serve"] /\ UNCHANGED idle
      /\ sem' = [sem EXCEPT !.holds[c] = sem.holds[Loop], !.holds[Loop] = {}]
      /\ at' = [at EXCEPT ![Loop] = "slot"]
  BY Zenon DEF accept
<1> HIDE DEF c
<1>5. c \in Parties /\ c # Loop /\ c \notin Waiters
  BY Zenon, <1>3, PoolAssumption DEF Parties, Waiters
<1>6. sem.holds[c] = {} /\ \A s \in Sems : c \notin Lined(sem, s)
  <2>1. sem.holds[c] = {}
    BY Zenon, <1>0, <1>3 DEF PoolOK, ConnHolding
  <2>2. SemType(sem)
    BY Zenon, <1>0 DEF PoolOK, Balanced
  <2> QED
    BY Zenon, <2>1, <2>2, <1>5, LineFacts
<1>7. /\ x \in [Sems -> Int] /\ y \in [Sems -> Int] /\ H \in SUBSET Sems
      /\ \A s \in Sems : x[s] \in Int /\ y[s] = x[s] - (IF s \in H THEN 1 ELSE 0)
  BY <1>0 DEF Pooled, Sems
<1>8. Balanced(sem, x)
  BY Zenon, <1>0 DEF PoolOK, n
<1>9. sem' = v
  <2>1. sem' = [[sem EXCEPT !.holds[c] = H] EXCEPT !.holds[Loop] = {}]
    <3>1. sem = [free |-> sem.free, line |-> sem.line, holds |-> sem.holds]
      BY Zenon, <1>8 DEF Balanced, SemType
    <3> QED
      BY Zenon, <3>1, <1>2, <1>4
  <2> QED
    BY Zenon, <2>1 DEF Reheld
<1> HIDE DEF x, y, H
<1>10. \A s \in Sems : y[s] + (IF s \in H THEN 1 ELSE 0)
                         = x[s] + (IF s \in sem.holds[c] THEN 1 ELSE 0)
  BY <1>6, <1>7
<1>11. /\ Balanced(u, y) /\ u.holds[c] = H
       /\ \A p \in Parties \ {c} : u.holds[p] = sem.holds[p]
       /\ \A s \in Sems : Lined(u, s) = Lined(sem, s)
  BY SMTT(30), <1>5, <1>6, <1>7, <1>8, <1>10, HoldsBalanced
<1> HIDE DEF u
<1>12. \A s \in Sems : x[s] + (IF s \in {} THEN 1 ELSE 0)
                         = y[s] + (IF s \in u.holds[Loop] THEN 1 ELSE 0)
  BY SMTT(30), <1>0, <1>2, <1>5, <1>7, <1>11
<1>13. /\ Balanced(v, x) /\ v.holds[Loop] = {}
       /\ \A p \in Parties \ {Loop} : v.holds[p] = u.holds[p]
       /\ \A s \in Sems : Lined(v, s) = Lined(u, s)
  BY SMTT(30), <1>0, <1>7, <1>11, <1>12, HoldsBalanced
<1> HIDE DEF v
<1>14. Grants(sem, v, Parties \ {c, Loop})
  BY Zenon, <1>11, <1>13 DEF Grants
<1>15. Placed(v, Loop, "slot")
  BY Zenon, <1>2, <1>11, <1>13 DEF Placed, Positions, Holding
<1>16. v.holds[c] = ConnHolding("serve")
  BY Zenon, <1>5, <1>11, <1>13 DEF ConnHolding, H
<1>17. /\ at' = [w \in Waiters |-> at'[w]] /\ at'[Loop] = "slot"
       /\ \A w \in Waiters \ {Loop} : at'[w] = at[w]
       /\ conn' \in [Conns -> ConnStates] /\ conn'[c] = "serve"
       /\ \A k \in Conns \ {c} : conn'[k] = conn[k]
       /\ {c, Loop} \in SUBSET Parties
       /\ IsFiniteSet(idle') /\ Balanced(sem', Pooled(Cardinality(idle')))
  BY Zenon, <1>0, <1>3, <1>4, <1>5, <1>9, <1>13 DEF PoolOK, ConnStates, x, n
<1>18. /\ \A w \in Waiters \ {c, Loop} : at'[w] = at[w]
       /\ \A k \in Conns \ {c, Loop} : conn'[k] = conn[k]
       /\ \A w \in Waiters \cap {c, Loop} : Placed(sem', w, at'[w])
       /\ \A k \in Conns \cap {c, Loop} : sem'.holds[k] = ConnHolding(conn'[k])
  <2>1. Loop \notin Conns
    BY Zenon, PoolAssumption
  <2> QED
    BY Zenon, <2>1, <1>5, <1>9, <1>15, <1>16, <1>17
<1>19. Grants(sem, sem', Parties \ {c, Loop})
  BY Zenon, <1>9, <1>14
<1> QED
  BY ZenonT(30), <1>17, <1>18, <1>19, PoolStep

\* A listener error gives the slot back before the permits.
LEMMA AcceptErrorKeeps ==
    ASSUME PoolInv, accept_error
    PROVE  PoolInv'
<1> DEFINE x == Pooled(Cardinality(idle))
           S == {"slots"}
           q == Drop(sem, Loop, S)
<1>0. PoolOK(sem, idle, at, conn) /\ Loop \in Waiters /\ Loop \in Parties
  BY Zenon DEF PoolInv, Waiters, Parties
<1>1. x \in [Sems -> Nat] /\ Balanced(sem, x)
  BY Zenon, <1>0, PoolFacts DEF PoolOK
<1> HIDE DEF x
<1>2. /\ UNCHANGED <<idle, conn>> /\ sem' = q /\ at' = [at EXCEPT ![Loop] = "pause"]
      /\ Placed(sem, Loop, "listen")
  BY Zenon, <1>0 DEF accept_error, PoolOK
<1>3. sem.holds[Loop] = {"slots", "in", "total"} /\ \A s \in Sems : Loop \notin Lined(sem, s)
  BY Zenon, <1>2 DEF Placed, Holding, Base, Wants, Direction
<1>4. S \in SUBSET sem.holds[Loop] /\ sem.holds[Loop] \ S = {"in", "total"}
  BY Zenon, <1>3
<1> HIDE DEF S
<1>5. /\ Balanced(q, x) /\ Grants(sem, q, Parties \ {Loop})
      /\ (\A s \in Sems : Loop \notin Lined(sem, s)) =>
            /\ q.holds[Loop] = sem.holds[Loop] \ S
            /\ \A s \in Sems : Loop \notin Lined(q, s)
  BY ZenonT(30), <1>0, <1>1, <1>4, DropBalanced
<1> HIDE DEF q
<1>6. Placed(q, Loop, "pause")
  BY Zenon, <1>3, <1>4, <1>5 DEF Placed, Positions, Holding, Wants, Direction
<1> QED
  BY ZenonT(30), <1>0, <1>2, <1>5, <1>6, MoveKeeps DEF x

\* A connection's task moves on; what it does not need any more it drops.
LEMMA ConnKeeps ==
    ASSUME PoolInv, NEW c \in Conns, NEW k \in ConnStates, NEW S,
           conn' = [conn EXCEPT ![c] = k], UNCHANGED <<idle, at>>,
           \/ sem' = sem /\ S = {}
           \/ sem' = Drop(sem, c, S),
           S \subseteq ConnHolding(conn[c]), ConnHolding(k) = ConnHolding(conn[c]) \ S
    PROVE  PoolInv'
<1> DEFINE x == Pooled(Cardinality(idle))
<1>0. PoolOK(sem, idle, at, conn) /\ c \in Parties /\ c \notin Waiters
  BY Zenon, PoolAssumption DEF PoolInv, Waiters, Parties
<1>1. /\ x \in [Sems -> Nat] /\ Balanced(sem, x) /\ SemType(sem)
      /\ Grants(sem, sem, Parties \ {c})
  BY SMTT(30), <1>0, PoolFacts DEF PoolOK, Grants
<1> HIDE DEF x
<1>2. /\ sem.holds[c] = ConnHolding(conn[c]) /\ S \in SUBSET sem.holds[c]
      /\ \A s \in Sems : c \notin Lined(sem, s)
  <2>1. sem.holds[c] = ConnHolding(conn[c])
    BY Zenon, <1>0 DEF PoolOK
  <2> QED
    BY Zenon, <2>1, <1>0, <1>1, LineFacts
<1>3. /\ Balanced(sem', x) /\ Grants(sem, sem', Parties \ {c})
      /\ sem'.holds[c] = ConnHolding(k)
  <2>1. CASE sem' = sem /\ S = {}
    BY Zenon, <2>1, <1>1, <1>2
  <2>2. CASE sem' = Drop(sem, c, S)
    <3> DEFINE q == Drop(sem, c, S)
    <3>1. /\ Balanced(q, x) /\ Grants(sem, q, Parties \ {c})
          /\ (\A s \in Sems : c \notin Lined(sem, s)) =>
                /\ q.holds[c] = sem.holds[c] \ S
                /\ \A s \in Sems : c \notin Lined(q, s)
      BY ZenonT(30), <1>0, <1>1, <1>2, DropBalanced
    <3> HIDE DEF q
    <3>2. sem' = q
      BY Zenon, <2>2 DEF q
    <3> QED
      BY Zenon, <3>1, <3>2, <1>2
  <2> QED
    BY Zenon, <2>1, <2>2
<1>4. /\ at' = at /\ at' = [w \in Waiters |-> at'[w]]
      /\ conn' \in [Conns -> ConnStates] /\ conn'[c] = k
      /\ \A l \in Conns \ {c} : conn'[l] = conn[l]
      /\ {c} \in SUBSET Parties
      /\ IsFiniteSet(idle') /\ Balanced(sem', Pooled(Cardinality(idle')))
  BY Zenon, <1>0, <1>3 DEF PoolOK, x
<1>5. /\ \A w \in Waiters \ {c} : at'[w] = at[w]
      /\ \A w \in Waiters \cap {c} : Placed(sem', w, at'[w])
      /\ \A l \in Conns \cap {c} : sem'.holds[l] = ConnHolding(conn'[l])
  BY ZenonT(30), <1>0, <1>3, <1>4
<1> QED
  BY ZenonT(30), <1>3, <1>4, <1>5, PoolStep

\* The steps of an inbound connection's task.
LEMMA ConnNextKeeps ==
    ASSUME PoolInv, NEW c \in Conns, ConnNext(c)
    PROVE  PoolInv'
<1>0. ConnStates = {"none", "serve", "wait", "waking", "closing", "ending"}
  BY Zenon DEF ConnStates
<1>1. CASE register_inbound_idle(c) \/ inbound_frame_ready(c) \/ frame_received(c)
  <2>1. PICK k \in {"wait", "waking", "serve"} :
            /\ conn' = [conn EXCEPT ![c] = k] /\ conn[c] \in {"serve", "wait", "waking"}
            /\ UNCHANGED <<sem, idle, at>>
    BY Zenon, <1>1 DEF register_inbound_idle, inbound_frame_ready, frame_received, ConnTo
  <2> DEFINE S == {}
  <2>2. k \in ConnStates /\ ConnHolding(k) = ConnHolding(conn[c]) \ S /\ sem' = sem
        /\ S \subseteq ConnHolding(conn[c]) /\ S = {}
    BY Zenon, <2>1 DEF ConnStates, ConnHolding
  <2> HIDE DEF S
  <2> QED
    BY ZenonT(30), <2>1, <2>2, ConnKeeps
<1>2. CASE drop_retirement(c)
  <2>1. /\ conn' = [conn EXCEPT ![c] = "ending"] /\ conn[c] = "closing"
        /\ UNCHANGED <<sem, idle, at>>
    BY Zenon, <1>2 DEF drop_retirement, ConnTo
  <2> DEFINE S == {}
  <2>2. /\ "ending" \in ConnStates /\ sem' = sem /\ S \subseteq ConnHolding(conn[c])
        /\ ConnHolding("ending") = ConnHolding(conn[c]) \ S /\ S = {}
    BY Zenon, <2>1 DEF ConnStates, ConnHolding
  <2> HIDE DEF S
  <2> QED
    BY ZenonT(30), <2>1, <2>2, ConnKeeps
<1>3. CASE end_connection(c) \/ idle_timeout(c) \/ retire(c)
  <2>1. PICK k \in {"ending", "closing"} :
            /\ conn' = [conn EXCEPT ![c] = k] /\ conn[c] \in {"serve", "wait"}
            /\ sem' = Drop(sem, c, {"in", "total"}) /\ UNCHANGED <<idle, at>>
    BY Zenon, <1>3 DEF end_connection, idle_timeout, retire, ConnTo, CloseChannel
  <2> DEFINE S == {"in", "total"}
  <2>2. /\ k \in ConnStates /\ S \subseteq ConnHolding(conn[c])
        /\ ConnHolding(k) = ConnHolding(conn[c]) \ S /\ sem' = Drop(sem, c, S)
    BY Zenon, <2>1 DEF ConnStates, ConnHolding
  <2> HIDE DEF S
  <2> QED
    BY ZenonT(30), <2>1, <2>2, ConnKeeps
<1>4. CASE finish_connection(c)
  <2> DEFINE S == {"slots"}
  <2>1. /\ conn' = [conn EXCEPT ![c] = "none"] /\ conn[c] = "ending"
        /\ sem' = Drop(sem, c, S) /\ UNCHANGED <<idle, at>>
    BY Zenon, <1>4 DEF finish_connection, ConnTo
  <2>2. /\ "none" \in ConnStates /\ S \subseteq ConnHolding(conn[c])
        /\ ConnHolding("none") = ConnHolding(conn[c]) \ S
    BY Zenon, <2>1 DEF ConnStates, ConnHolding
  <2> HIDE DEF S
  <2> QED
    BY ZenonT(30), <2>1, <2>2, ConnKeeps
<1> QED
  BY Zenon, <1>1, <1>2, <1>3, <1>4 DEF ConnNext

\* The steps of the accept loop.
LEMMA LoopNextKeeps ==
    ASSUME PoolInv, LoopNext
    PROVE  PoolInv'
<1>0. Loop \in Waiters
  BY Zenon DEF Waiters
<1>1. CASE accept_connection_slot
  BY Zenon, <1>1, SlotKeeps
<1>2. CASE acquire(Loop)
  <2>1. /\ prepare_capacity(Loop) /\ UNCHANGED conn /\ at' = [at EXCEPT ![Loop] = "poll"]
        /\ at[Loop] \in {"acquire", "asleep"}
    BY Zenon, <1>2 DEF acquire
  <2> QED
    BY ZenonT(30), <2>1, <1>0, LookKeeps
<1>3. CASE poll_acquisition(Loop)
  BY Zenon, <1>0, <1>3, PollKeeps
<1>4. CASE inbound_timeout \/ end_pause
  <2>1. /\ sem' = Abandon(sem, Loop) /\ UNCHANGED <<idle, conn>>
        /\ at' = [at EXCEPT ![Loop] = IF Loop = Loop THEN "slot" ELSE "none"]
    BY Zenon, <1>4 DEF inbound_timeout, end_pause
  <2> QED
    BY ZenonT(30), <2>1, <1>0, AbandonKeeps
<1>5. CASE accept
  BY Zenon, <1>5, AcceptTakes
<1>6. CASE accept_error
  BY Zenon, <1>6, AcceptErrorKeeps
<1> QED
  BY Zenon, <1>1, <1>2, <1>3, <1>4, <1>5, <1>6 DEF LoopNext

\* The steps of a dial.
LEMMA DialNextKeeps ==
    ASSUME PoolInv, NEW d \in Dials, DialNext(d)
    PROVE  PoolInv'
<1>0. d \in Waiters /\ d # Loop
  BY Zenon, PoolAssumption DEF Waiters
<1>1. CASE UNCHANGED <<sem, idle, at, conn>>
  BY Zenon, <1>1 DEF PoolInv
<1>2. CASE \E r \in Routes : checkout(d, r)
  <2>1. PICK r \in Routes : checkout(d, r)
    BY Zenon, <1>2
  <2>2. r \in idle /\ idle' = idle \ {r} /\ UNCHANGED conn /\ at[d] = "none" /\ {r} \in SUBSET idle
    BY Zenon, <2>1 DEF checkout
  <2>3. CASE /\ sem' = [sem EXCEPT !.holds[d] = {"out", "total"}]
             /\ at' = [at EXCEPT ![d] = "session"]
    BY ZenonT(30), <2>2, <2>3, CheckoutKeeps
  <2>4. CASE sem' = DropIdle(sem, {r}) /\ UNCHANGED at
    BY Zenon, <2>2, <2>4, ExpireKeeps
  <2> QED
    BY Zenon, <2>1, <2>3, <2>4 DEF checkout
<1>3. CASE outbound(d)
  <2>1. /\ prepare_capacity(d) /\ UNCHANGED conn /\ at' = [at EXCEPT ![d] = "try"]
        /\ at[d] = "none"
    BY Zenon, <1>3 DEF outbound
  <2> QED
    BY ZenonT(30), <2>1, <1>0, LookKeeps
<1>4. CASE try_outbound(d)
  BY Zenon, <1>4, TryKeeps
<1>5. CASE acquire(d)
  <2>1. /\ prepare_capacity(d) /\ UNCHANGED conn /\ at' = [at EXCEPT ![d] = "poll"]
        /\ at[d] \in {"acquire", "asleep"}
    BY Zenon, <1>5 DEF acquire
  <2> QED
    BY ZenonT(30), <2>1, <1>0, LookKeeps
<1>6. CASE poll_acquisition(d)
  BY Zenon, <1>0, <1>6, PollKeeps
<1>7. ASSUME sem' = Abandon(sem, d), UNCHANGED <<idle, conn>>, at' = [at EXCEPT ![d] = "none"]
      PROVE  PoolInv'
  <2>1. at' = [at EXCEPT ![d] = IF d = Loop THEN "slot" ELSE "none"]
    BY Zenon, <1>0, <1>7
  <2> QED
    BY ZenonT(30), <2>1, <1>0, <1>7, AbandonKeeps
<1>8. CASE outbound_timeout(d) \/ outbound_cancelled(d) \/ drop_session(d)
  BY Zenon, <1>7, <1>8 DEF outbound_timeout, outbound_cancelled, LeaveLine, drop_session
<1>9. CASE authenticated(d)
  <2>1. at[d] = "dial" /\ UNCHANGED <<idle, conn>>
    BY Zenon, <1>9 DEF authenticated
  <2>2. CASE at' = [at EXCEPT ![d] = "session"] /\ UNCHANGED sem
    <3>1. PoolOK(sem, idle, at, conn)
      BY Zenon DEF PoolInv
    <3>2. /\ Balanced(sem, Pooled(Cardinality(idle))) /\ Grants(sem, sem, Parties \ {d})
          /\ Placed(sem, d, "dial")
      BY Zenon, <3>1, <2>1, <1>0, PoolFacts DEF PoolOK, Grants
    <3>3. Placed(sem, d, "session")
      BY Zenon, <3>2, <1>0 DEF Placed, Positions, Holding
    <3> QED
      BY ZenonT(30), <3>2, <3>3, <2>1, <2>2, <1>0, MoveKeeps
  <2>3. CASE at' = [at EXCEPT ![d] = "none"] /\ sem' = Abandon(sem, d)
    BY Zenon, <2>1, <2>3, <1>7
  <2> QED
    BY Zenon, <1>9, <2>2, <2>3 DEF authenticated
<1>10. CASE recycle_channel(d)
  <2>1. /\ at[d] = "session" /\ UNCHANGED conn /\ at' = [at EXCEPT ![d] = "none"]
    BY Zenon, <1>10 DEF recycle_channel
  <2>2. CASE /\ sem' = DropIdle([sem EXCEPT !.holds[d] = {}], idle \cap {peer[d]})
             /\ idle' = idle \cup {peer[d]}
    BY ZenonT(30), <2>1, <2>2, RecycleKeeps
  <2>3. CASE sem' = Abandon(sem, d) /\ idle' = idle
    BY Zenon, <2>1, <2>3, <1>7
  <2> QED
    BY Zenon, <1>10, <2>2, <2>3 DEF recycle_channel
<1>11. ASSUME NEW A, GateStep(d, A) \/ LeaveGate(d)
       PROVE  UNCHANGED <<sem, idle, at, conn>>
  BY Zenon, <1>11 DEF GateStep, LeaveGate, poolVars
<1> QED
  BY ZenonT(40), <1>1, <1>2, <1>3, <1>4, <1>5, <1>6, <1>8, <1>9, <1>10
     DEF DialNext, GateStep, LeaveGate, poolVars

\* Every step keeps the permits where they belong.
LEMMA PoolNextKeeps == PoolInv /\ [Next]_vars => PoolInv'
<1> SUFFICES ASSUME PoolInv, [Next]_vars PROVE PoolInv'
  BY Zenon
<1>1. CASE \E d \in Dials : DialNext(d)
  BY Zenon, <1>1, DialNextKeeps
<1>2. CASE LoopNext
  BY Zenon, <1>2, LoopNextKeeps
<1>3. CASE \E c \in Conns : ConnNext(c)
  BY Zenon, <1>3, ConnNextKeeps
<1>4. CASE \E r \in Routes : expire(r)
  <2>1. PICK r \in Routes : expire(r)
    BY Zenon, <1>4
  <2>2. {r} \in SUBSET idle /\ sem' = DropIdle(sem, {r}) /\ idle' = idle \ {r}
        /\ UNCHANGED <<at, conn>>
    BY Zenon, <2>1 DEF expire
  <2> QED
    BY Zenon, <2>2, ExpireKeeps
<1>5. CASE clear
  <2>1. idle \in SUBSET idle /\ sem' = DropIdle(sem, idle) /\ idle' = idle \ idle
        /\ UNCHANGED <<at, conn>>
    BY Zenon, <1>5 DEF clear
  <2> QED
    BY Zenon, <2>1, ExpireKeeps
<1>6. CASE UNCHANGED vars
  BY Zenon, <1>6 DEF vars, poolVars, PoolInv
<1> QED
  BY Zenon, <1>1, <1>2, <1>3, <1>4, <1>5, <1>6 DEF Next

LEMMA PoolInitKeeps == Init => PoolInv
<1> SUFFICES ASSUME Init PROVE PoolInv
  BY Zenon
<1>1. /\ sem = [free  |-> [s \in Sems |-> Capacity(s)],
                line  |-> [s \in Sems |-> <<>>],
                holds |-> [o \in Waiters \cup Conns |-> {}]]
      /\ idle = {} /\ conn = [c \in Conns |-> "none"]
      /\ at = [w \in Waiters |-> IF w = Loop THEN "slot" ELSE "none"]
  BY Zenon DEF Init
<1>2. /\ \A s \in Sems : sem.free[s] = Capacity(s) /\ sem.line[s] = <<>>
      /\ \A o \in Parties : sem.holds[o] = {}
      /\ sem = [free |-> sem.free, line |-> sem.line, holds |-> sem.holds]
      /\ sem.free = [s \in Sems |-> Capacity(s)]
      /\ sem.line = [s \in Sems |-> <<>>]
      /\ sem.holds = [o \in Parties |-> {}]
  BY Zenon, <1>1 DEF Parties
<1>3. \A s \in Sems : Capacity(s) \in Nat
  BY PoolAssumption DEF Capacity, MAX_DIRECTION_CONNECTIONS
<1>4. \A s \in Sems : Lined(sem, s) = {}
  BY <1>2, EmptySeq DEF Lined
<1>5. SemType(sem)
  <2>1. <<>> \in Seq(Waiters)
    BY Zenon, EmptySeq
  <2> QED
    BY Zenon, <2>1, <1>2, <1>3 DEF SemType
<1>6. LinesOK(sem)
  BY <1>2, <1>4, EmptySeq DEF LinesOK
<1>7. IsFiniteSet(idle) /\ Cardinality(idle) = 0
  BY Zenon, <1>1, FS_EmptySet
<1>8. Tally(sem, Pooled(0))
  <2> SUFFICES ASSUME NEW s \in Sems
               PROVE  sem.free[s] + Cardinality(Owners(sem, s)) + Pooled(0)[s] = Capacity(s)
    BY Zenon DEF Tally
  <2>1. Owners(sem, s) = {} /\ Cardinality({}) = 0
    BY Zenon, <1>2, FS_EmptySet DEF Owners
  <2>2. Pooled(0)[s] = 0
    BY Zenon DEF Pooled
  <2> QED
    BY <2>1, <2>2, <1>2, <1>3
<1>9. \A w \in Waiters : Placed(sem, w, at[w])
  BY ZenonT(30), <1>1, <1>2, <1>4 DEF Placed, Positions, Holding, Parties
<1>10. /\ at = [w \in Waiters |-> at[w]] /\ conn \in [Conns -> ConnStates]
       /\ \A c \in Conns : sem.holds[c] = ConnHolding(conn[c])
  BY Zenon, <1>1, <1>2 DEF ConnStates, ConnHolding, Parties
<1> QED
  BY Zenon, <1>5, <1>6, <1>7, <1>8, <1>9, <1>10 DEF PoolInv, PoolOK, Balanced

-----------------------------------------------------------------------------
(* The retirement token.                                                   *)

\* The connections that are registered.
Registered(e) == {e[i] : i \in 1..Len(e)}

\* Registered connections wait, or are about to serve; the one told to retire is
\* not registered any more, and holds the token until its channel is gone.
RetireOK(e, r, k) ==
    /\ e \in Seq(Conns)
    /\ \A i, j \in 1..Len(e) : e[i] = e[j] => i = j
    /\ r \in Conns \cup {None}
    /\ r \notin Registered(e)
    /\ r # None => k[r] \in {"wait", "waking", "closing"}
    /\ k \in [Conns -> ConnStates]
    /\ \A c \in Conns : k[c] = "closing" => r = c
    /\ \A c \in Conns : k[c] = "wait" => c \in Registered(e) \cup {r}
    /\ \A c \in Registered(e) : k[c] \in {"wait", "waking"}

RetireInv == RetireOK(entries, retiring, conn)

\* A set of numbers has a least one: the intervals up to them are finite sets,
\* which strict inclusion orders well.
LEMMA LeastNumber ==
    ASSUME NEW T \in SUBSET Nat, T # {}
    PROVE  \E n \in T : \A k \in T : n <= k
<1> DEFINE Intervals == {0..n : n \in T}
<1>1. Intervals \subseteq FiniteSubsetsOf(Nat) /\ Intervals # {}
  <2>1. \A n \in T : IsFiniteSet(0..n) /\ (0..n) \in SUBSET Nat
    BY FS_Interval
  <2> QED
    BY ZenonT(30), <2>1 DEF FiniteSubsetsOf
<1>2. PICK X \in Intervals : \A Y \in Intervals : <<Y, X>> \notin StrictSubsetOrdering(Nat)
  BY ZenonT(30), <1>1, FS_StrictSubsetOrderingWellFounded, WFMin
<1>3. PICK n \in T : X = 0..n
  BY Zenon
<1>4. ASSUME NEW k \in T, k < n PROVE FALSE
  <2>1. /\ (0..k) \in SUBSET Nat /\ (0..n) \in SUBSET Nat
        /\ (0..k) # (0..n) /\ (0..k) \subseteq (0..n)
    BY <1>4
  <2>2. <<0..k, 0..n>> \in StrictSubsetOrdering(Nat)
    BY Zenon, <2>1 DEF StrictSubsetOrdering
  <2> QED
    BY ZenonT(30), <2>2, <1>2, <1>3
<1> QED
  BY <1>4

\* retire_oldest_inbound_idle passes over connections that are about to serve,
\* never over one that waits.
LEMMA OldestRetires ==
    ASSUME RetireInv, retire_oldest_inbound_idle, UNCHANGED conn
    PROVE  RetireInv'
<1> DEFINE open == {i \in DOMAIN entries : conn[entries[i]] = "wait"}
           m == IF open = {} THEN Len(entries) ELSE Min(open)
           n == Len(entries)
<1>0. RetireOK(entries, retiring, conn)
  BY Zenon DEF RetireInv
<1>1. /\ entries \in Seq(Conns) /\ n \in Nat /\ DOMAIN entries = 1..n
      /\ \A i \in 1..n : entries[i] \in Conns
      /\ \A i, j \in 1..n : entries[i] = entries[j] => i = j
      /\ \A i \in 1..n : conn[entries[i]] \in {"wait", "waking"}
  <2>1. entries \in Seq(Conns)
    BY Zenon, <1>0 DEF RetireOK
  <2>2. n \in Nat /\ DOMAIN entries = 1..n /\ \A i \in 1..n : entries[i] \in Conns
    BY Zenon, <2>1, LenProperties, ElementOfSeq
  <2> QED
    BY Zenon, <2>1, <2>2, <1>0 DEF RetireOK, Registered
<1>2. CASE UNCHANGED <<entries, retiring>>
  BY Zenon, <1>2 DEF RetireInv
<1>3. CASE ~ UNCHANGED <<entries, retiring>>
  <2>1. /\ retiring = None /\ entries # <<>>
        /\ entries' = SubSeq(entries, m + 1, Len(entries))
        /\ retiring' = IF open = {} THEN None ELSE entries[m]
    BY Zenon, <1>3 DEF retire_oldest_inbound_idle
  <2>2. /\ m \in 1..n
        /\ \A i \in 1..n : i < m => conn[entries[i]] # "wait"
        /\ open = {} => conn[entries[m]] # "wait"
        /\ open # {} => conn[entries[m]] = "wait"
    <3>1. CASE open = {}
      <4>1. n # 0
        BY Zenon, <1>1, <2>1, EmptySeq
      <4>2. m = n /\ n \in 1..n
        BY <3>1, <4>1, <1>1
      <4>3. \A i \in 1..n : conn[entries[i]] # "wait"
        BY Zenon, <3>1, <1>1
      <4> QED
        BY Zenon, <3>1, <4>2, <4>3
    <3>2. CASE open # {}
      <4>1. open \in SUBSET Nat
        BY <1>1
      <4>2. \E a \in open : \A b \in open : a <= b
        BY ZenonT(30), <3>2, <4>1, LeastNumber
      <4>3. m = Min(open)
        BY Zenon, <3>2
      <4>4. m \in open /\ \A b \in open : m <= b
        BY Zenon, <4>2, <4>3 DEF Min
      <4> HIDE DEF m
      <4>5. m \in 1..n /\ conn[entries[m]] = "wait"
        BY Zenon, <4>4, <1>1
      <4>6. ASSUME NEW i \in 1..n, i < m PROVE conn[entries[i]] # "wait"
        <5>1. i \notin open
          BY <4>4, <4>5, <4>6, <1>1
        <5> QED
          BY Zenon, <5>1, <1>1
      <4> QED
        BY Zenon, <3>2, <4>5, <4>6
    <3> QED
      BY Zenon, <3>1, <3>2
  <2> HIDE DEF m
  <2> DEFINE e == entries'
  <2>3. /\ e \in Seq(Conns) /\ Len(e) = n - m
        /\ \A i \in 1..(n - m) : e[i] = entries[m + i]
    <3>0. /\ 1 \in Int /\ m \in Nat /\ m - 1 \in Int /\ m + 1 \in Int /\ n \in Int
          /\ (IF 1 <= m - 1 THEN (m - 1) - 1 + 1 ELSE 0) = m - 1
          /\ (IF m + 1 <= n THEN n - (m + 1) + 1 ELSE 0) = n - m
          /\ \A i \in 1..(m - 1) : i \in 1..((m - 1) - 1 + 1) /\ 1 + i - 1 = i /\ i \in 1..n
          /\ \A i \in 1..(n - m) : i \in 1..(n - (m + 1) + 1) /\ (m + 1) + i - 1 = m + i
          /\ \A i \in (m + 1)..n : i \in 1..n
          /\ (m - 1) + (n - m) = n - 1
      BY Zenon, <1>1, <2>2, CutIndices
    <3>1. m + 1 \in Int /\ n \in Int /\ \A i \in (m + 1)..n : entries[i] \in Conns
      BY Zenon, <3>0, <1>1
    <3> DEFINE f == SubSeq(entries, m + 1, n)
    <3>2. /\ f \in Seq(Conns)
          /\ Len(f) = IF m + 1 <= n THEN n - (m + 1) + 1 ELSE 0
          /\ \A i \in 1..(n - (m + 1) + 1) : f[i] = entries[(m + 1) + i - 1]
      BY <3>1, <1>1, SubSeqProperties
    <3>3. e = f
      BY Zenon, <2>1
    <3> HIDE DEF f, e
    <3>4. Len(f) = n - m
      BY Zenon, <3>2, <3>0
    <3>5. ASSUME NEW i \in 1..(n - m) PROVE f[i] = entries[m + i]
      <4>1. i \in 1..(n - (m + 1) + 1) /\ (m + 1) + i - 1 = m + i
        BY Zenon, <3>0
      <4> QED
        BY Zenon, <4>1, <3>2
    <3> QED
      BY Zenon, <3>2, <3>3, <3>4, <3>5
  <2>4. ASSUME NEW i \in 1..Len(e) PROVE m + i \in 1..n /\ m + i # m /\ e[i] = entries[m + i]
    BY <2>3, <2>2, <1>1
  <2>5. ASSUME NEW j \in 1..n, j > m PROVE entries[j] \in Registered(e)
    <3>1. j - m \in 1..Len(e) /\ j - m \in 1..(n - m) /\ m + (j - m) = j
      BY <2>3, <2>2, <2>5, <1>1
    <3>2. e[j - m] = entries[j]
      BY Zenon, <3>1, <2>3
    <3> QED
      BY Zenon, <3>1, <3>2 DEF Registered
  <2>6. ASSUME NEW i \in 1..Len(e), NEW j \in 1..Len(e), e[i] = e[j] PROVE i = j
    <3>1. m + i = m + j
      BY <2>4, <2>6, <1>1
    <3>2. m \in Nat /\ i \in Nat /\ j \in Nat
      BY <2>2, <2>3, <1>1
    <3> QED
      BY <3>1, <3>2
  <2>7. Registered(e) \subseteq {entries[j] : j \in 1..n} \ {entries[m]}
    <3>1. ASSUME NEW i \in 1..Len(e) PROVE e[i] \in {entries[j] : j \in 1..n} \ {entries[m]}
      BY <2>2, <2>4, <1>1
    <3> QED
      BY Zenon, <3>1 DEF Registered
  <2> HIDE DEF e
  <2>8. retiring' \in Conns \cup {None} /\ retiring' \notin Registered(e)
        /\ (retiring' # None => conn[retiring'] = "wait")
    <3>1. entries[m] \in Conns /\ None \notin Conns /\ \A j \in 1..n : entries[j] \in Conns
      BY Zenon, <2>2, <1>1, PoolAssumption
    <3>2. None \notin Registered(e)
      BY Zenon, <3>1, <2>7
    <3>3. CASE open = {}
      BY Zenon, <3>2, <3>3, <2>1
    <3>4. CASE open # {}
      BY Zenon, <3>1, <3>4, <2>1, <2>2, <2>7
    <3> QED
      BY Zenon, <3>3, <3>4
  <2>9. ASSUME NEW c \in Conns, conn[c] = "wait" PROVE c \in Registered(e) \cup {retiring'}
    <3>1. c \in Registered(entries)
      <4>1. c \in Registered(entries) \cup {retiring} /\ c # None
        BY Zenon, <1>0, <2>9, PoolAssumption DEF RetireOK
      <4> QED
        BY Zenon, <4>1, <2>1
    <3>2. PICK j \in 1..n : c = entries[j]
      BY Zenon, <3>1 DEF Registered
    <3>3. j > m \/ j = m
      BY <3>2, <2>2, <2>9, <1>1
    <3>4. CASE j > m
      BY Zenon, <3>2, <3>4, <2>5
    <3>5. CASE j = m
      BY Zenon, <3>2, <3>5, <2>1, <2>2, <2>9
    <3> QED
      BY Zenon, <3>3, <3>4, <3>5
  <2>10. conn \in [Conns -> ConnStates] /\ \A c \in Conns : conn[c] # "closing"
    <3>1. conn \in [Conns -> ConnStates] /\ \A c \in Conns : conn[c] = "closing" => retiring = c
      BY Zenon, <1>0 DEF RetireOK
    <3> QED
      BY Zenon, <3>1, <2>1, PoolAssumption
  <2>11. \A c \in Registered(e) : conn[c] \in {"wait", "waking"}
    BY <2>7, <1>1
  <2>12. RetireOK(e, retiring', conn)
    BY Zenon, <2>3, <2>6, <2>8, <2>9, <2>10, <2>11 DEF RetireOK
  <2> QED
    BY Zenon, <2>12 DEF RetireInv, e
<1> QED
  BY Zenon, <1>2, <1>3

LEMMA RegisteredWithout ==
    ASSUME NEW L \in Seq(Conns), NEW c,
           \A i, j \in 1..Len(L) : L[i] = L[j] => i = j
    PROVE  /\ Without(L, c) \in Seq(Conns)
           /\ Registered(Without(L, c)) = Registered(L) \ {c}
           /\ \A i, j \in 1..Len(Without(L, c)) : Without(L, c)[i] = Without(L, c)[j] => i = j
<1>1. /\ Without(L, c) \in Seq(Conns)
      /\ {Without(L, c)[i] : i \in 1..Len(Without(L, c))} = {L[i] : i \in 1..Len(L)} \ {c}
      /\ \A i, j \in 1..Len(Without(L, c)) : Without(L, c)[i] = Without(L, c)[j] => i = j
      /\ L = <<>> => Without(L, c) = <<>>
  BY ZenonT(30), WithoutLine
<1> DEFINE M == Without(L, c)
           Ms == {M[i] : i \in 1..Len(M)}
           Ls == {L[i] : i \in 1..Len(L)}
<1>2. Registered(M) = Ms /\ Registered(L) = Ls /\ Ms = Ls \ {c}
  BY ZenonT(30), <1>1 DEF Registered
<1> HIDE DEF Ms, Ls
<1> QED
  BY Zenon, <1>1, <1>2

\* A registration that is dropped leaves the list, or hands the token back.
LEMMA RegistrationDrops ==
    ASSUME RetireInv, NEW c \in Conns, NEW to \in ConnStates \ {"wait", "closing"},
           DropRegistration(c), conn' = [conn EXCEPT ![c] = to]
    PROVE  RetireInv'
<1> DEFINE e == Without(entries, c)
           r == IF retiring = c THEN None ELSE retiring
<1>0. RetireOK(entries, retiring, conn) /\ entries' = e /\ retiring' = r
  BY Zenon DEF RetireInv, DropRegistration
<1>1. /\ e \in Seq(Conns) /\ Registered(e) = Registered(entries) \ {c}
      /\ \A i, j \in 1..Len(e) : e[i] = e[j] => i = j
  BY Zenon, <1>0, RegisteredWithout DEF RetireOK
<1> HIDE DEF e
<1>2. /\ conn' \in [Conns -> ConnStates] /\ conn'[c] = to
      /\ \A k \in Conns \ {c} : conn'[k] = conn[k]
  BY Zenon, <1>0 DEF RetireOK
<1>3. c # None /\ None \notin Conns
  BY Zenon, PoolAssumption
<1>4. r \in Conns \cup {None} /\ r \notin Registered(e) /\ r # c
  <2>1. retiring \in Conns \cup {None} /\ retiring \notin Registered(entries)
        /\ Registered(entries) \subseteq Conns
    <3>1. \A i \in 1..Len(entries) : entries[i] \in Conns
      BY Zenon, <1>0, ElementOfSeq DEF RetireOK
    <3> QED
      BY <3>1, <1>0 DEF RetireOK, Registered
  <2> QED
    BY Zenon, <2>1, <1>1, <1>3
<1>5. r # None => conn'[r] \in {"wait", "waking", "closing"}
  BY Zenon, <1>0, <1>2, <1>4 DEF RetireOK
<1>6. ASSUME NEW k \in Conns, conn'[k] = "closing" PROVE r = k
  BY Zenon, <1>0, <1>2, <1>6 DEF RetireOK
<1>7. ASSUME NEW k \in Conns, conn'[k] = "wait" PROVE k \in Registered(e) \cup {r}
  BY Zenon, <1>0, <1>1, <1>2, <1>7 DEF RetireOK
<1>8. ASSUME NEW k \in Registered(e) PROVE conn'[k] \in {"wait", "waking"}
  <2>1. k \in Registered(entries) /\ k # c /\ k \in Conns
    <3>1. \A i \in 1..Len(entries) : entries[i] \in Conns
      BY Zenon, <1>0, ElementOfSeq DEF RetireOK
    <3> QED
      BY Zenon, <3>1, <1>1 DEF Registered
  <2> QED
    BY Zenon, <2>1, <1>0, <1>2 DEF RetireOK
<1> HIDE DEF r
<1>9. RetireOK(e, r, conn')
  BY ZenonT(40), <1>1, <1>2, <1>4, <1>5, <1>6, <1>7, <1>8 DEF RetireOK
<1> QED
  BY Zenon, <1>0, <1>9 DEF RetireInv

\* A connection registers as idle behind the others.
LEMMA RegisterKeeps ==
    ASSUME RetireInv, NEW c \in Conns, register_inbound_idle(c)
    PROVE  RetireInv'
<1> DEFINE n == Len(entries)
           e == Append(entries, c)
<1>0. /\ RetireOK(entries, retiring, conn) /\ entries' = e /\ UNCHANGED retiring
      /\ conn[c] = "serve" /\ conn' = [conn EXCEPT ![c] = "wait"]
  BY Zenon DEF RetireInv, register_inbound_idle, ConnTo
<1>1. entries \in Seq(Conns) /\ n \in Nat /\ \A i \in 1..n : entries[i] \in Conns
  BY Zenon, <1>0, LenProperties, ElementOfSeq DEF RetireOK
<1>2. c \notin Registered(entries) /\ retiring # c
  BY Zenon, <1>0, PoolAssumption DEF RetireOK
<1>3. /\ e \in Seq(Conns) /\ Len(e) = n + 1 /\ e[n + 1] = c
      /\ \A i \in 1..n : e[i] = entries[i]
  BY <1>1, AppendProperties
<1> HIDE DEF e
<1>4. \A i \in 1..Len(e) : i \in 1..n \/ i = n + 1
  BY <1>1, <1>3
<1>5. Registered(e) = Registered(entries) \cup {c}
  <2>1. Registered(e) \subseteq Registered(entries) \cup {c}
    BY Zenon, <1>3, <1>4 DEF Registered
  <2>2. n + 1 \in 1..Len(e) /\ \A i \in 1..n : i \in 1..Len(e)
    BY <1>1, <1>3
  <2>3. Registered(entries) \subseteq Registered(e)
    BY Zenon, <2>2, <1>3 DEF Registered
  <2>4. c \in Registered(e)
    BY Zenon, <2>2, <1>3 DEF Registered
  <2> QED
    BY Zenon, <2>1, <2>3, <2>4
<1>6. ASSUME NEW i \in 1..Len(e), NEW j \in 1..Len(e), e[i] = e[j] PROVE i = j
  <2>1. \A k \in 1..n : entries[k] # c
    BY Zenon, <1>2 DEF Registered
  <2>2. \A k, l \in 1..n : entries[k] = entries[l] => k = l
    BY Zenon, <1>0 DEF RetireOK
  <2> QED
    BY Zenon, <2>1, <2>2, <1>3, <1>4, <1>6
<1>7. /\ conn' \in [Conns -> ConnStates] /\ conn'[c] = "wait"
      /\ \A k \in Conns \ {c} : conn'[k] = conn[k]
  BY Zenon, <1>0 DEF RetireOK, ConnStates
<1>8. Registered(entries) \subseteq Conns
  BY Zenon, <1>1 DEF Registered
<1>9. RetireOK(e, retiring, conn')
  <2>1. retiring \in Conns \cup {None} /\ retiring \notin Registered(e)
    BY Zenon, <1>0, <1>2, <1>5 DEF RetireOK
  <2>2. retiring # None => conn'[retiring] \in {"wait", "waking", "closing"}
    BY Zenon, <1>0, <1>2, <1>7, <2>1 DEF RetireOK
  <2>3. \A k \in Conns : conn'[k] = "closing" => retiring = k
    BY Zenon, <1>0, <1>7 DEF RetireOK
  <2>4. \A k \in Conns : conn'[k] = "wait" => k \in Registered(e) \cup {retiring}
    BY Zenon, <1>0, <1>5, <1>7 DEF RetireOK
  <2>5. \A k \in Registered(e) : conn'[k] \in {"wait", "waking"}
    BY Zenon, <1>0, <1>5, <1>7, <1>8 DEF RetireOK
  <2> QED
    BY Zenon, <1>3, <1>6, <1>7, <2>1, <2>2, <2>3, <2>4, <2>5 DEF RetireOK
<1> QED
  BY Zenon, <1>0, <1>9 DEF RetireInv

\* A connection that is not registered, or stays so, moves on; the retiring one
\* may close.
LEMMA ConnMoves ==
    ASSUME RetireInv, NEW c \in Conns, NEW to \in ConnStates \ {"wait"},
           UNCHANGED <<entries, retiring>>, conn' = [conn EXCEPT ![c] = to],
           \/ conn[c] \in {"none", "serve", "ending"} /\ to # "closing"
           \/ conn[c] = "wait" /\ to = "waking"
           \/ conn[c] = "wait" /\ to = "closing" /\ retiring = c
    PROVE  RetireInv'
<1>0. RetireOK(entries, retiring, conn) /\ entries' = entries /\ retiring' = retiring
  BY Zenon DEF RetireInv
<1>1. /\ conn' \in [Conns -> ConnStates] /\ conn'[c] = to
      /\ \A k \in Conns \ {c} : conn'[k] = conn[k]
  BY Zenon, <1>0 DEF RetireOK
<1>2. Registered(entries) \subseteq Conns
  BY <1>0, ElementOfSeq DEF RetireOK, Registered
<1>3. retiring # None => conn'[retiring] \in {"wait", "waking", "closing"}
  BY Zenon, <1>0, <1>1 DEF RetireOK
<1>4. \A k \in Conns : conn'[k] = "closing" => retiring = k
  BY Zenon, <1>0, <1>1 DEF RetireOK
<1>5. \A k \in Conns : conn'[k] = "wait" => k \in Registered(entries) \cup {retiring}
  BY Zenon, <1>0, <1>1 DEF RetireOK
<1>6. \A k \in Registered(entries) : conn'[k] \in {"wait", "waking"}
  BY Zenon, <1>0, <1>1, <1>2 DEF RetireOK
<1>7. RetireOK(entries, retiring, conn')
  BY Zenon, <1>0, <1>1, <1>3, <1>4, <1>5, <1>6 DEF RetireOK
<1> QED
  BY Zenon, <1>0, <1>7 DEF RetireInv

\* Every step keeps the token with its owner.
LEMMA RetireNextKeeps == PoolInv /\ RetireInv /\ [Next]_vars => RetireInv'
<1> SUFFICES ASSUME PoolInv, RetireInv, [Next]_vars PROVE RetireInv'
  BY Zenon
<1>1. CASE UNCHANGED <<entries, retiring, conn>>
  BY Zenon, <1>1 DEF RetireInv
<1>2. ASSUME NEW w, prepare_capacity(w), UNCHANGED conn PROVE RetireInv'
  <2>1. retire_oldest_inbound_idle \/ UNCHANGED <<entries, retiring>>
    BY Zenon, <1>2 DEF prepare_capacity
  <2> QED
    BY Zenon, <2>1, <1>1, <1>2, OldestRetires
<1>3. CASE \E d \in Dials : DialNext(d)
  <2>1. PICK d \in Dials : DialNext(d)
    BY Zenon, <1>3
  <2>2. CASE outbound(d) \/ acquire(d)
    BY Zenon, <2>2, <1>2 DEF outbound, acquire
  <2>3. CASE UNCHANGED <<entries, retiring, conn>>
    BY Zenon, <2>3, <1>1
  <2> QED
    BY ZenonT(30), <2>1, <2>2, <2>3
       DEF DialNext, GateStep, LeaveGate, poolVars, checkout, try_outbound, poll_acquisition,
           outbound_timeout, outbound_cancelled, LeaveLine, authenticated, recycle_channel,
           drop_session
<1>4. CASE LoopNext
  <2>1. CASE accept_connection_slot
    <3>1. UNCHANGED conn /\ (retire_oldest_inbound_idle \/ UNCHANGED <<entries, retiring>>)
      BY Zenon, <2>1 DEF accept_connection_slot
    <3> QED
      BY Zenon, <3>1, <1>1, OldestRetires
  <2>2. CASE acquire(Loop)
    BY Zenon, <2>2, <1>2 DEF acquire
  <2>3. CASE accept
    <3> DEFINE c == CHOOSE x \in Conns : conn[x] = "none"
    <3>1. c \in Conns /\ conn[c] = "none"
      <4>1. at[Loop] = "listen" /\ Placed(sem, Loop, at[Loop])
        BY Zenon, <2>3 DEF accept, PoolInv, PoolOK, Waiters
      <4>2. "slots" \in sem.holds[Loop]
        BY Zenon, <4>1 DEF Placed, Holding, Base
      <4>3. \E x \in Conns : conn[x] = "none"
        BY Zenon, <4>2, TaskForSlot
      <4> QED
        BY Zenon, <4>3
    <3>2. conn' = [conn EXCEPT ![c] = "serve"] /\ UNCHANGED <<entries, retiring>>
      BY Zenon, <2>3 DEF accept
    <3> HIDE DEF c
    <3>3. "serve" \in ConnStates \ {"wait"}
      BY Zenon DEF ConnStates
    <3> QED
      BY ZenonT(30), <3>1, <3>2, <3>3, ConnMoves
  <2>4. CASE UNCHANGED <<entries, retiring, conn>>
    BY Zenon, <2>4, <1>1
  <2> QED
    BY Zenon, <1>4, <2>1, <2>2, <2>3, <2>4
       DEF LoopNext, poll_acquisition, inbound_timeout, accept_error, end_pause
<1>5. CASE \E c \in Conns : ConnNext(c)
  <2>1. PICK c \in Conns : ConnNext(c)
    BY Zenon, <1>5
  <2>2. {"waking", "closing", "ending", "none"} \subseteq ConnStates \ {"wait"}
        /\ {"serve", "ending"} \subseteq ConnStates \ {"wait", "closing"}
    BY Zenon DEF ConnStates
  <2>3. CASE register_inbound_idle(c)
    BY Zenon, <2>3, RegisterKeeps
  <2>4. CASE frame_received(c)
    <3>1. conn' = [conn EXCEPT ![c] = "serve"] /\ DropRegistration(c)
      BY Zenon, <2>4 DEF frame_received, ConnTo
    <3> QED
      BY ZenonT(30), <3>1, <2>2, RegistrationDrops
  <2>5. CASE idle_timeout(c) \/ drop_retirement(c)
    <3>1. conn' = [conn EXCEPT ![c] = "ending"] /\ DropRegistration(c)
      BY Zenon, <2>5 DEF idle_timeout, drop_retirement, ConnTo
    <3> QED
      BY ZenonT(30), <3>1, <2>2, RegistrationDrops
  <2>6. CASE end_connection(c)
    <3>1. conn' = [conn EXCEPT ![c] = "ending"] /\ conn[c] = "serve"
          /\ UNCHANGED <<entries, retiring>>
      BY Zenon, <2>6 DEF end_connection, ConnTo
    <3> QED
      BY ZenonT(30), <3>1, <2>2, ConnMoves
  <2>7. CASE inbound_frame_ready(c)
    <3>1. conn' = [conn EXCEPT ![c] = "waking"] /\ conn[c] = "wait"
          /\ UNCHANGED <<entries, retiring>>
      BY Zenon, <2>7 DEF inbound_frame_ready, ConnTo
    <3> QED
      BY ZenonT(30), <3>1, <2>2, ConnMoves
  <2>8. CASE retire(c)
    <3>1. conn' = [conn EXCEPT ![c] = "closing"] /\ conn[c] = "wait" /\ retiring = c
          /\ UNCHANGED <<entries, retiring>>
      BY Zenon, <2>8 DEF retire, ConnTo
    <3> QED
      BY ZenonT(30), <3>1, <2>2, ConnMoves
  <2>9. CASE finish_connection(c)
    <3>1. conn' = [conn EXCEPT ![c] = "none"] /\ conn[c] = "ending"
          /\ UNCHANGED <<entries, retiring>>
      BY Zenon, <2>9 DEF finish_connection, ConnTo
    <3> QED
      BY ZenonT(30), <3>1, <2>2, ConnMoves
  <2> QED
    BY ZenonT(40), <2>1, <2>3, <2>4, <2>5, <2>6, <2>7, <2>8, <2>9 DEF ConnNext
<1>6. CASE \E r \in Routes : expire(r)
  BY Zenon, <1>1, <1>6 DEF expire
<1>7. CASE clear
  BY Zenon, <1>1, <1>7 DEF clear
<1>8. CASE UNCHANGED vars
  BY Zenon, <1>1, <1>8 DEF vars, poolVars
<1> QED
  BY ZenonT(40), <1>3, <1>4, <1>5, <1>6, <1>7, <1>8 DEF Next

LEMMA RetireInitKeeps == Init => RetireInv
<1> SUFFICES ASSUME Init PROVE RetireInv
  BY Zenon
<1>1. entries = <<>> /\ retiring = None /\ conn = [c \in Conns |-> "none"]
  BY Zenon DEF Init
<1>2. <<>> \in Seq(Conns) /\ Len(<<>>) = 0 /\ Registered(entries) = {}
  BY <1>1, EmptySeq DEF Registered
<1> QED
  BY <1>1, <1>2 DEF RetireInv, RetireOK, ConnStates

\* What the two invariants say of the code's state.
LEMMA PoolIsAccounted == PoolInv /\ RetireInv => PermitsAccounted
<1> SUFFICES ASSUME PoolInv, RetireInv PROVE PermitsOwned /\ RetirementOwned
  BY Zenon DEF PermitsAccounted
<1>1. PoolOK(sem, idle, at, conn) /\ RetireOK(entries, retiring, conn)
  BY Zenon DEF PoolInv, RetireInv
<1>2. LinesOK(sem) /\ Tally(sem, Pooled(Cardinality(idle)))
  BY Zenon, <1>1 DEF PoolOK, Balanced
<1>3. ASSUME NEW s \in Sems
      PROVE  /\ sem.free[s] + Cardinality({o \in Waiters \cup Conns : s \in sem.holds[o]})
                  + (IF s \in {"out", "total"} THEN Cardinality(idle) ELSE 0) = Capacity(s)
             /\ sem.free[s] > 0 => sem.line[s] = <<>>
  <2>1. Owners(sem, s) = {o \in Waiters \cup Conns : s \in sem.holds[o]}
    BY Zenon DEF Owners, Parties
  <2>2. Pooled(Cardinality(idle))[s] = IF s \in {"out", "total"} THEN Cardinality(idle) ELSE 0
    BY Zenon DEF Pooled
  <2>3. sem.free[s] + Cardinality(Owners(sem, s)) + Pooled(Cardinality(idle))[s] = Capacity(s)
    BY Zenon, <1>2 DEF Tally
  <2>4. sem.free[s] > 0 => sem.line[s] = <<>>
    BY Zenon, <1>2 DEF LinesOK
  <2> QED
    BY Zenon, <2>1, <2>2, <2>3, <2>4
<1>4. ASSUME NEW d \in Dials, at[d] \in {"dial", "session"}
      PROVE  {"out", "total"} \subseteq sem.holds[d]
  <2>1. d \in Waiters /\ d # Loop
    BY Zenon, PoolAssumption DEF Waiters
  <2>2. Placed(sem, d, at[d])
    BY Zenon, <2>1, <1>1 DEF PoolOK
  <2> QED
    BY Zenon, <2>1, <2>2, <1>4 DEF Placed, Holding, Wants, Direction
<1>5. ASSUME NEW c \in Conns, conn[c] \in {"serve", "wait", "waking"}
      PROVE  {"in", "total", "slots"} \subseteq sem.holds[c]
  BY Zenon, <1>1, <1>5 DEF PoolOK, ConnHolding
<1>6. PermitsOwned
  BY Zenon, <1>3, <1>4, <1>5 DEF PermitsOwned
<1>7. Range(entries) = Registered(entries)
  <2>1. DOMAIN entries = 1..Len(entries)
    BY Zenon, <1>1, LenProperties DEF RetireOK
  <2> QED
    BY Zenon, <2>1 DEF Range, Registered
<1>8. RetirementOwned
  BY Zenon, <1>1, <1>7 DEF RetireOK, RetirementOwned
<1> QED
  BY Zenon, <1>6, <1>8

\* session_pool.rs, serving.rs: on every path, timeouts, cancelled waits, replaced
\* idle channels, retired connections and listener errors included, each permit is
\* free or has one owner, nobody waits for a free one, every socket is covered by
\* its own permits, and the retirement token belongs to a connection that is
\* there to give it back.
THEOREM PermitsStayAccounted == Spec => []PermitsAccounted
<1>1. Init => PoolInv /\ RetireInv
  BY Zenon, PoolInitKeeps, RetireInitKeeps
<1>2. PoolInv /\ RetireInv /\ [Next]_vars => PoolInv' /\ RetireInv'
  BY Zenon, PoolNextKeeps, RetireNextKeeps
<1> QED
  BY <1>1, <1>2, PoolIsAccounted, PTL DEF Spec

=============================================================================
