------------------------- MODULE AuthenticationGate -------------------------
(* The per-route admission gate of node/session_pool.rs.  Every dial of one  *)
(* exact route passes the gate of that route before it takes TCP capacity,   *)
(* so at most one unauthenticated socket per route exists at a time.  Gates  *)
(* are reached through weak references: a gate lives exactly as long as some *)
(* dial holds a waiter or a lease on it.                                     *)
(*                                                                           *)
(* A ticket is represented by the dial that drew it: a dial has one ticket   *)
(* at a time, and the queues keep tickets in the order they were drawn.      *)
EXTENDS Naturals, Sequences, FiniteSets

CONSTANTS Dials,      \* tasks that dial
          Routes,     \* endpoint keys: identity, address, policy generation
          Priority,   \* "Ordinary" or "Control"
          Gates,      \* bound: gate objects (Arc<AuthenticationGate>), one per dial will do
          MaxGates,   \* MAX_AUTHENTICATION_GATES
          NoGate

ASSUME GateAssumption ==
    /\ Priority \in [Dials -> {"Ordinary", "Control"}]
    /\ NoGate \notin Gates \cup Routes
    /\ MaxGates \in Nat

VARIABLES
    registry,   \* authentication_gates: the weak reference of each route
    gate,       \* the state of each gate object
    ref,        \* the strong reference each dial holds
    target,     \* the route each dial at a gate is for
    step,       \* where each dial is
    woken       \* dials whose Notified future has fired

gateVars == <<registry, gate, ref, target, step, woken>>

Steps == {"off", "queued", "enrolled", "parked", "leased"}

AuthenticationState ==
    [active : BOOLEAN, ordinary_due : BOOLEAN, ordinary : Seq(Dials), control : Seq(Dials)]

DefaultState ==
    [active |-> FALSE, ordinary_due |-> FALSE, ordinary |-> <<>>, control |-> <<>>]

GateTypeOK ==
    /\ registry \in [Routes -> Gates \cup {NoGate}]
    /\ gate \in [Gates -> AuthenticationState]
    /\ ref \in [Dials -> Gates \cup {NoGate}]
    /\ target \in [Dials -> Routes \cup {NoGate}]
    /\ step \in [Dials -> Steps]
    /\ woken \in SUBSET Dials

GateInit ==
    /\ registry = [r \in Routes |-> NoGate]
    /\ gate = [g \in Gates |-> DefaultState]
    /\ ref = [d \in Dials |-> NoGate]
    /\ target = [d \in Dials |-> NoGate]
    /\ step = [d \in Dials |-> "off"]
    /\ woken = {}

-----------------------------------------------------------------------------
\* A gate object is alive while some dial holds it.
Live(g) == \E d \in Dials : ref[d] = g

\* The queue of a priority class, and a state with that queue replaced.
queue(s, p) == IF p = "Control" THEN s.control ELSE s.ordinary

WithQueue(s, p, q) ==
    IF p = "Control" THEN [s EXCEPT !.control = q] ELSE [s EXCEPT !.ordinary = q]

\* retain: a ticket is in its queue at most once.
Without(q, d) ==
    LET k == CHOOSE i \in DOMAIN q : q[i] = d
    IN  IF \E i \in DOMAIN q : q[i] = d
        THEN SubSeq(q, 1, k - 1) \o SubSeq(q, k + 1, Len(q)) ELSE q

\* Who may be admitted next, with its class: nobody, or the one whose turn it is.
next(s) ==
    IF s.ordinary_due /\ s.ordinary # <<>> THEN {<<"Ordinary", Head(s.ordinary)>>}
    ELSE IF s.control # <<>> THEN {<<"Control", Head(s.control)>>}
    ELSE IF s.ordinary # <<>> THEN {<<"Ordinary", Head(s.ordinary)>>}
    ELSE {}

\* Dial d drops its waiter or lease: notify_waiters wakes the futures of its
\* gate that are enabled at that moment.
notify_waiters(d) ==
    woken' = (woken \ {d}) \cup
             {o \in Dials \ {d} : ref[o] = ref[d] /\ step[o] \in {"enrolled", "parked"}}

\* As it would be if a control admission did not owe the next turn.
Admit_NoTurn(s, p) ==
    [WithQueue(s, p, Tail(queue(s, p))) EXCEPT !.active = TRUE]

\* The ticket at the head of class p takes the gate; after a control dial the
\* ordinary class is due.
Admit(s, p) ==
    [WithQueue(s, p, Tail(queue(s, p))) EXCEPT
        !.active = TRUE, !.ordinary_due = (p = "Control")]

\* A dial lets go of its gate.  With the last reference the object is gone,
\* and the weak reference to it no longer counts: every look at the registry
\* first removes the dead ones.
LetGo(d, s) ==
    LET last == \A o \in Dials \ {d} : ref[o] # ref[d]
    IN  /\ ref' = [ref EXCEPT ![d] = NoGate]
        /\ target' = [target EXCEPT ![d] = NoGate]
        /\ step' = [step EXCEPT ![d] = "off"]
        /\ gate' = [gate EXCEPT ![ref[d]] = IF last THEN DefaultState ELSE s]
        /\ registry' = [r \in Routes |->
                            IF last /\ registry[r] = ref[d] THEN NoGate ELSE registry[r]]

-----------------------------------------------------------------------------
\* Share the live gate of the route or open a new one, unless the registry is
\* full; draw a ticket and queue it behind its class.
authentication_admission(d, r) ==
    LET shared == registry[r] # NoGate
        full == Cardinality({k \in Routes : registry[k] # NoGate}) >= MaxGates
        g == IF shared THEN registry[r] ELSE CHOOSE x \in Gates : ~ Live(x)
        p == Priority[d]
    IN  /\ step[d] = "off"
        /\ shared \/ (~ full /\ \E x \in Gates : ~ Live(x))
        /\ registry' = [registry EXCEPT ![r] = g]
        /\ ref' = [ref EXCEPT ![d] = g]
        /\ target' = [target EXCEPT ![d] = r]
        /\ gate' = [gate EXCEPT ![g] = WithQueue(@, p, Append(queue(@, p), d))]
        /\ step' = [step EXCEPT ![d] = "queued"]
        /\ UNCHANGED woken

\* The head of the wait loop: the Notified future is enabled before the
\* state is looked at, on the first turn and after every wake-up.
enable(d) ==
    /\ \/ step[d] = "queued"
       \/ step[d] = "parked" /\ d \in woken
    /\ step' = [step EXCEPT ![d] = "enrolled"]
    /\ woken' = woken \ {d}
    /\ UNCHANGED <<registry, gate, ref, target>>

\* The body of the wait loop, under the state lock: take the turn or sleep.
wait(d) ==
    LET s == gate[ref[d]]
        admitted == ~ s.active /\ <<Priority[d], d>> \in next(s)
    IN  /\ step[d] = "enrolled"
        /\ step' = [step EXCEPT ![d] = IF admitted THEN "leased" ELSE "parked"]
        /\ gate' = [gate EXCEPT ![ref[d]] = IF admitted THEN Admit(s, Priority[d]) ELSE s]
        /\ woken' = IF admitted THEN woken \ {d} ELSE woken
        /\ UNCHANGED <<registry, ref, target>>

\* As it would be if a waiter that gives up did not tell the others.
AuthenticationWaiter_drop_Quiet(d) ==
    LET s == gate[ref[d]]
        p == Priority[d]
    IN  /\ step[d] \in {"queued", "enrolled", "parked"}
        /\ LetGo(d, WithQueue(s, p, Without(queue(s, p), d)))
        /\ woken' = woken \ {d}

\* The two-second limit, or a cancelled caller, drops the waiter: its ticket
\* leaves the queue and everyone looks again.
AuthenticationWaiter_drop(d) ==
    LET s == gate[ref[d]]
        p == Priority[d]
    IN  /\ step[d] \in {"queued", "enrolled", "parked"}
        /\ LetGo(d, WithQueue(s, p, Without(queue(s, p), d)))
        /\ notify_waiters(d)

\* The handshake is over, one way or the other.
AuthenticationLease_drop(d) ==
    /\ step[d] = "leased"
    /\ LetGo(d, [gate[ref[d]] EXCEPT !.active = FALSE])
    /\ notify_waiters(d)

GateNext ==
    \E d \in Dials :
        \/ \E r \in Routes : authentication_admission(d, r)
        \/ enable(d)
        \/ wait(d)
        \/ AuthenticationWaiter_drop(d)
        \/ AuthenticationLease_drop(d)

GateSpec == GateInit /\ [][GateNext]_gateVars

-----------------------------------------------------------------------------
(* Properties *)

\* authentication_admission: "serialize unauthenticated sockets for one exact
\* route".  Two dials of one route never hold a lease at once, whatever gates
\* come and go in the weak registry and whoever is cancelled.
OneAuthentication ==
    \A d, e \in Dials :
        step[d] = "leased" /\ step[e] = "leased" /\ target[d] = target[e] => d = e

\* AuthenticationWaiter::wait: "release/cancellation between the check and
\* await must not lose the sole owner's handoff".  When a gate is free, the
\* dial whose turn it is is not asleep, or it has already been woken.
NoLostHandoff ==
    \A d \in Dials :
        /\ step[d] = "parked"
        /\ ~ gate[ref[d]].active
        /\ <<Priority[d], d>> \in next(gate[ref[d]])
        => d \in woken
=============================================================================
