----------------------------- MODULE SessionPool -----------------------------
(* TCP capacity of a node: node/session_pool.rs with the dial path of        *)
(* node/privacy_runtime.rs and the accept loop of node/serving.rs.           *)
(*                                                                           *)
(* A dial passes the gate of its route, takes an outbound and a shared       *)
(* permit, authenticates, runs a session and may leave the channel in the    *)
(* idle pool, permits and all.  The accept loop reserves a connection slot,  *)
(* an inbound and a shared permit, and hands them to the connection it       *)
(* accepts.  An inbound connection between two requests is registered as     *)
(* idle and can be told to retire when somebody waits for capacity.          *)
(*                                                                           *)
(* Semaphores are tokio's: first come, first served, and a released permit   *)
(* goes to the first waiter.  Dropping a channel returns its permits in one  *)
(* step.  How long something lasts is left open: limits may strike at any    *)
(* time they are armed.                                                      *)
EXTENDS AuthenticationGate, FiniteSetsExt, Functions

CONSTANTS Conns,      \* inbound connection tasks
          Loop,       \* the accept loop
          TotalCap,   \* MAX_TCP_CONNECTIONS
          MaxEvents,  \* bound: cancelled dials, lost or reused idle connections,
                      \* listener errors
          None

ASSUME PoolAssumption ==
    /\ IsFiniteSet(Dials) /\ IsFiniteSet(Conns)
    /\ Loop \notin Dials /\ Conns \cap (Dials \cup {Loop}) = {}
    /\ None \notin Conns
    /\ TotalCap \in Nat /\ TotalCap > 1
    /\ Cardinality(Conns) >= TotalCap - 1   \* a task for every connection slot
    /\ MaxEvents \in Nat

VARIABLES
    sem,        \* the semaphores: free permits, waiters, and who holds what
    idle,       \* routes with an idle channel in the pool
    at,         \* where each dial, and the accept loop, is in taking capacity
    peer,       \* the route of each dial's session
    conn,       \* what each inbound connection is doing
    entries,    \* inbound_idle.entries, oldest first
    retiring,   \* inbound_idle.retiring
    changed,    \* waiters whose inbound_idle.changed future has fired
    budget      \* what is left of MaxEvents

poolVars == <<sem, idle, at, peer, conn, entries, retiring, changed, budget>>
vars == <<gateVars, poolVars>>

Waiters == Dials \cup {Loop}
Sems == {"total", "out", "in", "slots"}
MAX_DIRECTION_CONNECTIONS == TotalCap - 1
Capacity(s) == IF s = "total" THEN TotalCap ELSE MAX_DIRECTION_CONNECTIONS
Direction(w) == IF w = Loop THEN "in" ELSE "out"

Init ==
    /\ GateInit
    /\ sem = [free  |-> [s \in Sems |-> Capacity(s)],
              line  |-> [s \in Sems |-> <<>>],
              holds |-> [o \in Waiters \cup Conns |-> {}]]
    /\ idle = {}
    /\ at = [w \in Waiters |-> IF w = Loop THEN "slot" ELSE "none"]
    /\ peer = [d \in Dials |-> None]
    /\ conn = [c \in Conns |-> "none"]
    /\ entries = <<>>
    /\ retiring = None
    /\ changed = {}
    /\ budget = MaxEvents

-----------------------------------------------------------------------------
(* Semaphores *)

\* n permits of each kind in S come back: to the first waiters in their line,
\* and what is left over to the free ones.
Release(q, S, n) ==
    LET granted == [s \in Sems |-> IF s \notin S THEN 0
                                   ELSE IF n <= Len(q.line[s]) THEN n ELSE Len(q.line[s])]
    IN  [free  |-> [s \in Sems |-> q.free[s] + (IF s \in S THEN n - granted[s] ELSE 0)],
         line  |-> [s \in Sems |-> SubSeq(q.line[s], granted[s] + 1, Len(q.line[s]))],
         holds |-> [o \in DOMAIN q.holds |->
                       q.holds[o] \cup {s \in S : \E i \in 1..granted[s] : q.line[s][i] = o}]]

\* Owner o drops the permits S.
Drop(q, o, S) == Release([q EXCEPT !.holds[o] = @ \ S], S, 1)

\* An acquisition that is dropped leaves every line (it is in one at most once);
\* what it has comes back.
Abandon(q, w) ==
    Drop([q EXCEPT !.line = [s \in Sems |-> Without(q.line[s], w)]], w, q.holds[w])

\* The first poll of acquire_owned.
Acquire(q, w, s) ==
    IF q.free[s] > 0
    THEN [q EXCEPT !.free[s] = @ - 1, !.holds[w] = @ \cup {s}]
    ELSE [q EXCEPT !.line[s] = Append(@, w)]

Waiting(q, w) == \E s \in Sems : w \in Range(q.line[s])

\* One poll of the acquisition future: directional first, then shared.
Poll(q, w) ==
    LET d == Direction(w)
        q1 == IF d \in q.holds[w] \/ Waiting(q, w) THEN q ELSE Acquire(q, w, d)
    IN  IF d \in q1.holds[w] /\ "total" \notin q1.holds[w] /\ ~ Waiting(q1, w)
        THEN Acquire(q1, w, "total") ELSE q1

\* Channels of the routes R leave the pool.
DropIdle(q, R) == Release(q, {"out", "total"}, Cardinality(R))

-----------------------------------------------------------------------------
(* Idle inbound connections *)

\* inbound_idle.changed.notify_waiters
NotifyIdle == changed' = changed \cup {w \in Waiters : at[w] \in {"poll", "asleep", "slotwait"}}

\* Take the oldest entry that still listens and tell it to retire.  One
\* retirement at a time: the next has to wait until its owner is gone.
retire_oldest_inbound_idle ==
    LET open == {i \in DOMAIN entries : conn[entries[i]] = "wait"}
        i == IF open = {} THEN Len(entries) ELSE Min(open)
    IN  IF retiring # None \/ entries = <<>> THEN UNCHANGED <<entries, retiring>>
        ELSE /\ entries' = SubSeq(entries, i + 1, Len(entries))
             /\ retiring' = IF open = {} THEN None ELSE entries[i]

\* Before a wait for capacity: if there is none, the idle pool is emptied,
\* and if that does not help an idle inbound connection has to go.
prepare_capacity(w) ==
    LET low == sem.free[Direction(w)] = 0 \/ sem.free["total"] = 0
        q == IF low THEN DropIdle(sem, idle) ELSE sem
    IN  /\ sem' = q
        /\ idle' = IF low THEN {} ELSE idle
        /\ IF low /\ (q.free["total"] = 0 \/ (Direction(w) = "in" /\ q.free["in"] = 0))
           THEN retire_oldest_inbound_idle
           ELSE UNCHANGED <<entries, retiring>>

-----------------------------------------------------------------------------
(* Waiting for capacity: shared by dials and the accept loop *)

\* The head of the loop in acquire: enable the future, then look at capacity.
acquire(w) ==
    /\ \/ at[w] = "acquire"
       \/ at[w] = "asleep" /\ w \in changed
    /\ prepare_capacity(w)
    /\ at' = [at EXCEPT ![w] = "poll"]
    /\ changed' = changed \ {w}
    /\ UNCHANGED <<gateVars, conn, budget, peer>>

\* Both permits are there, or the task sleeps until one is granted or the set
\* of idle inbound connections changes.
poll_acquisition(w) ==
    LET q == Poll(sem, w)
        done == {Direction(w), "total"} \subseteq q.holds[w]
    IN  /\ \/ at[w] = "poll"
           \/ at[w] = "asleep" /\ ~ Waiting(sem, w)
        /\ sem' = q
        /\ at' = [at EXCEPT ![w] = IF ~ done THEN "asleep"
                                   ELSE IF w = Loop THEN "listen" ELSE "dial"]
        /\ changed' = IF done THEN changed \ {w} ELSE changed
        /\ UNCHANGED <<gateVars, idle, conn, entries, retiring, budget, peer>>

Spend == budget > 0 /\ budget' = budget - 1

-----------------------------------------------------------------------------
(* Dials *)

GateStep(d, A) == at[d] = "none" /\ A /\ UNCHANGED poolVars

\* A sequential-sync dial first looks for an idle channel of its route.  A
\* channel whose peer has gone is dropped.
checkout(d, r) ==
    /\ at[d] = "none" /\ step[d] = "off"
    /\ r \in idle
    /\ idle' = idle \ {r}
    /\ \/ /\ sem' = [sem EXCEPT !.holds[d] = {"out", "total"}]
          /\ at' = [at EXCEPT ![d] = "session"]
          /\ peer' = [peer EXCEPT ![d] = r]
       \/ /\ sem' = DropIdle(sem, {r})
          /\ UNCHANGED <<at, peer>>
    /\ UNCHANGED <<gateVars, conn, entries, retiring, changed, budget>>

\* The waiter at the gate reaches its limit or its caller is cancelled.
LeaveGate(d) ==
    /\ at[d] = "none"
    /\ AuthenticationWaiter_drop(d)
    /\ Spend
    /\ UNCHANGED <<sem, idle, at, conn, entries, retiring, changed, peer>>

\* outbound: one look at capacity, then one attempt without waiting.
outbound(d) ==
    /\ at[d] = "none" /\ step[d] = "leased"
    /\ prepare_capacity(d)
    /\ at' = [at EXCEPT ![d] = "try"]
    /\ UNCHANGED <<gateVars, conn, changed, budget, peer>>

try_outbound(d) ==
    LET free == sem.free["out"] > 0 /\ sem.free["total"] > 0
    IN  /\ at[d] = "try"
        /\ sem' = IF free THEN Poll(sem, d) ELSE sem
        /\ at' = [at EXCEPT ![d] = IF free THEN "dial" ELSE "acquire"]
        /\ UNCHANGED <<gateVars, idle, conn, entries, retiring, changed, budget, peer>>

\* CAPACITY_WAIT strikes a task that sleeps without a grant.
TimedOut(w) == at[w] = "asleep" /\ Waiting(sem, w)

\* The wait ends without capacity: the dial leaves the gate and every line, and
\* a permit it was granted meanwhile goes on to the next.
LeaveLine(d) ==
    /\ AuthenticationLease_drop(d)
    /\ sem' = Abandon(sem, d)
    /\ at' = [at EXCEPT ![d] = "none"]
    /\ changed' = changed \ {d}
    /\ UNCHANGED <<idle, peer, conn, entries, retiring>>

outbound_timeout(d) ==
    /\ TimedOut(d)
    /\ LeaveLine(d)
    /\ UNCHANGED budget

\* The caller is cancelled, or another candidate route of the dial has won.
outbound_cancelled(d) ==
    /\ at[d] = "asleep"
    /\ Spend
    /\ LeaveLine(d)

\* As it would be if the channel did not retain the permits of its dial.
authenticated_Unretained(d) ==
    /\ at[d] = "dial"
    /\ AuthenticationLease_drop(d)
    /\ \/ at' = [at EXCEPT ![d] = "session"] /\ peer' = [peer EXCEPT ![d] = target[d]]
       \/ at' = [at EXCEPT ![d] = "none"] /\ UNCHANGED peer
    /\ sem' = Abandon(sem, d)
    /\ UNCHANGED <<idle, conn, entries, retiring, changed, budget>>

\* Authentication ends: the lease goes, the permits pass to the channel or back.
authenticated(d) ==
    /\ at[d] = "dial"
    /\ AuthenticationLease_drop(d)
    /\ \/ /\ at' = [at EXCEPT ![d] = "session"]
          /\ peer' = [peer EXCEPT ![d] = target[d]]
          /\ UNCHANGED sem
       \/ /\ at' = [at EXCEPT ![d] = "none"]
          /\ sem' = Abandon(sem, d)
          /\ UNCHANGED peer
    /\ UNCHANGED <<idle, conn, entries, retiring, changed, budget>>

\* A completed exchange leaves its channel in the pool in place of an older one
\* of the route, unless that would keep the last permit.
recycle_channel(d) ==
    LET keep == sem.free["out"] > 0 /\ sem.free["total"] > 0
    IN  /\ at[d] = "session"
        /\ sem' = IF keep
                  THEN DropIdle([sem EXCEPT !.holds[d] = {}], idle \cap {peer[d]})
                  ELSE Abandon(sem, d)
        /\ idle' = IF keep THEN idle \cup {peer[d]} ELSE idle
        /\ at' = [at EXCEPT ![d] = "none"]
        /\ peer' = [peer EXCEPT ![d] = None]
        /\ UNCHANGED <<gateVars, conn, entries, retiring, changed, budget>>

\* Any other end of a session drops the channel.
drop_session(d) ==
    /\ at[d] = "session"
    /\ sem' = Abandon(sem, d)
    /\ at' = [at EXCEPT ![d] = "none"]
    /\ peer' = [peer EXCEPT ![d] = None]
    /\ UNCHANGED <<gateVars, idle, conn, entries, retiring, changed, budget>>

\* IDLE_TTL, and prune.
expire(r) ==
    /\ r \in idle
    /\ idle' = idle \ {r}
    /\ sem' = DropIdle(sem, {r})
    /\ UNCHANGED <<gateVars, at, conn, entries, retiring, changed, budget, peer>>

\* As it would be if a reset also forgot the gates in use.
clear_Gates ==
    /\ registry' = [r \in Routes |-> NoGate]
    /\ idle' = {}
    /\ sem' = DropIdle(sem, idle)
    /\ UNCHANGED <<gate, ref, target, step, woken, at, conn, entries, retiring, changed, budget, peer>>

\* A network change or a policy reset empties the pool; gates stay.
clear ==
    /\ idle # {}
    /\ idle' = {}
    /\ sem' = DropIdle(sem, idle)
    /\ UNCHANGED <<gateVars, at, conn, entries, retiring, changed, budget, peer>>

-----------------------------------------------------------------------------
(* The accept loop *)

\* accept_connection_slot: enable the future, try for a slot, and if inbound
\* capacity is used up ask an idle connection to go before sleeping.
accept_connection_slot ==
    LET free == sem.free["slots"] > 0
    IN  /\ \/ at[Loop] = "slot"
           \/ at[Loop] = "slotwait" /\ (free \/ Loop \in changed)
        /\ changed' = changed \ {Loop}
        /\ at' = [at EXCEPT ![Loop] = IF free THEN "acquire" ELSE "slotwait"]
        /\ sem' = IF free THEN Acquire(sem, Loop, "slots") ELSE sem
        /\ IF ~ free /\ sem.free["in"] = 0
           THEN retire_oldest_inbound_idle
           ELSE UNCHANGED <<entries, retiring>>
        /\ UNCHANGED <<gateVars, idle, conn, budget, peer>>

\* No capacity within the limit: give the slot back and start over.
inbound_timeout ==
    /\ TimedOut(Loop)
    /\ sem' = Abandon(sem, Loop)
    /\ at' = [at EXCEPT ![Loop] = "slot"]
    /\ changed' = changed \ {Loop}
    /\ UNCHANGED <<gateVars, idle, peer, conn, entries, retiring, budget>>

\* A peer connects: slot and permits pass to the connection's own task.
accept ==
    LET c == CHOOSE x \in Conns : conn[x] = "none"
    IN  /\ at[Loop] = "listen"
        /\ conn' = [conn EXCEPT ![c] = "serve"]
        /\ sem' = [sem EXCEPT !.holds[c] = sem.holds[Loop], !.holds[Loop] = {}]
        /\ at' = [at EXCEPT ![Loop] = "slot"]
        /\ UNCHANGED <<gateVars, idle, peer, entries, retiring, changed, budget>>

\* The listener fails: the slot goes at once, the permits when the pause is over.
accept_error ==
    /\ at[Loop] = "listen"
    /\ Spend
    /\ sem' = Drop(sem, Loop, {"slots"})
    /\ at' = [at EXCEPT ![Loop] = "pause"]
    /\ UNCHANGED <<gateVars, idle, conn, entries, retiring, changed, peer>>

end_pause ==
    /\ at[Loop] = "pause"
    /\ sem' = Abandon(sem, Loop)
    /\ at' = [at EXCEPT ![Loop] = "slot"]
    /\ UNCHANGED <<gateVars, idle, conn, entries, retiring, changed, budget, peer>>

-----------------------------------------------------------------------------
(* Inbound connections *)

ConnTo(c, to) == conn' = [conn EXCEPT ![c] = to]

\* The channel goes, and with it the TCP permits; the slot is still held.
CloseChannel(c) == sem' = Drop(sem, c, {"in", "total"})

\* Drop of InboundIdleRegistration.
DropRegistration(c) ==
    /\ entries' = Without(entries, c)
    /\ retiring' = IF retiring = c THEN None ELSE retiring
    /\ NotifyIdle

\* As it would be if a new idle connection were not announced.
register_inbound_idle_Silent(c) ==
    /\ conn[c] = "serve"
    /\ Len(entries) + (IF retiring = None THEN 0 ELSE 1) < MAX_DIRECTION_CONNECTIONS
    /\ ConnTo(c, "wait")
    /\ entries' = Append(entries, c)
    /\ UNCHANGED <<gateVars, sem, idle, at, retiring, changed, budget, peer>>

\* A served request completes: the connection registers as idle if there is
\* room; otherwise it just reads on.
register_inbound_idle(c) ==
    /\ conn[c] = "serve"
    /\ Len(entries) + (IF retiring = None THEN 0 ELSE 1) < MAX_DIRECTION_CONNECTIONS
    /\ ConnTo(c, "wait")
    /\ entries' = Append(entries, c)
    /\ NotifyIdle
    /\ UNCHANGED <<gateVars, sem, idle, at, retiring, budget, peer>>

\* The handshake fails, a request fails, or the peer is done.
end_connection(c) ==
    /\ conn[c] = "serve"
    /\ ConnTo(c, "ending")
    /\ CloseChannel(c)
    /\ UNCHANGED <<gateVars, idle, at, entries, retiring, changed, budget, peer>>

\* The next request's bytes win over a retirement.  The receiver of the
\* retirement signal is dropped before the registration.
inbound_frame_ready(c) ==
    /\ conn[c] = "wait"
    /\ Spend
    /\ ConnTo(c, "waking")
    /\ UNCHANGED <<gateVars, sem, idle, at, entries, retiring, changed, peer>>

frame_received(c) ==
    /\ conn[c] = "waking"
    /\ ConnTo(c, "serve")
    /\ DropRegistration(c)
    /\ UNCHANGED <<gateVars, sem, idle, at, budget, peer>>

\* SESSION_IDLE_TIMEOUT or a lost peer.
idle_timeout(c) ==
    /\ conn[c] = "wait"
    /\ Spend
    /\ ConnTo(c, "ending")
    /\ DropRegistration(c)
    /\ CloseChannel(c)
    /\ UNCHANGED <<gateVars, idle, at, peer>>

\* Told to retire: the channel goes first, the registration second, so that
\* nobody else is asked to retire before the permits are back.
retire(c) ==
    /\ conn[c] = "wait" /\ retiring = c
    /\ ConnTo(c, "closing")
    /\ CloseChannel(c)
    /\ UNCHANGED <<gateVars, idle, at, entries, retiring, changed, budget, peer>>

drop_retirement(c) ==
    /\ conn[c] = "closing"
    /\ ConnTo(c, "ending")
    /\ DropRegistration(c)
    /\ UNCHANGED <<gateVars, sem, idle, at, budget, peer>>

\* The task ends and its connection slot is free.
finish_connection(c) ==
    /\ conn[c] = "ending"
    /\ ConnTo(c, "none")
    /\ sem' = Drop(sem, c, {"slots"})
    /\ UNCHANGED <<gateVars, idle, at, entries, retiring, changed, budget, peer>>

-----------------------------------------------------------------------------
DialNext(d) ==
    \/ \E r \in Routes : GateStep(d, authentication_admission(d, r))
    \/ GateStep(d, enable(d))
    \/ GateStep(d, wait(d))
    \/ LeaveGate(d)
    \/ \E r \in Routes : checkout(d, r)
    \/ outbound(d)
    \/ try_outbound(d)
    \/ acquire(d)
    \/ poll_acquisition(d)
    \/ outbound_timeout(d)
    \/ outbound_cancelled(d)
    \/ authenticated(d)
    \/ recycle_channel(d)
    \/ drop_session(d)

LoopNext ==
    \/ accept_connection_slot
    \/ acquire(Loop)
    \/ poll_acquisition(Loop)
    \/ inbound_timeout
    \/ accept
    \/ accept_error
    \/ end_pause

ConnNext(c) ==
    \/ register_inbound_idle(c)
    \/ end_connection(c)
    \/ inbound_frame_ready(c)
    \/ frame_received(c)
    \/ idle_timeout(c)
    \/ retire(c)
    \/ drop_retirement(c)
    \/ finish_connection(c)

Next ==
    \/ \E d \in Dials : DialNext(d)
    \/ LoopNext
    \/ \E c \in Conns : ConnNext(c)
    \/ \E r \in Routes : expire(r)
    \/ clear

Spec == Init /\ [][Next]_vars

\* Tasks that can run do run, handshakes and sessions end, a served request
\* completes or ends its connection, and CAPACITY_WAIT strikes a task that is
\* left sleeping.  Nothing is assumed of the idle limits, of the limit at the
\* gate, of peers that connect, or of callers that cancel.
DialProgress(d) ==
    \/ GateStep(d, enable(d) \/ wait(d))
    \/ outbound(d) \/ try_outbound(d) \/ acquire(d) \/ poll_acquisition(d)
    \/ outbound_timeout(d)
    \/ authenticated(d) \/ recycle_channel(d) \/ drop_session(d)

LoopProgress ==
    \/ accept_connection_slot \/ acquire(Loop) \/ poll_acquisition(Loop)
    \/ inbound_timeout \/ end_pause

ConnProgress(c) ==
    \/ register_inbound_idle(c) \/ end_connection(c)
    \/ frame_received(c) \/ retire(c) \/ drop_retirement(c) \/ finish_connection(c)

Fairness ==
    /\ \A d \in Dials : WF_vars(DialProgress(d))
    /\ WF_vars(LoopProgress)
    /\ WF_vars(\E c \in Conns : ConnProgress(c))

FairSpec == Spec /\ Fairness

-----------------------------------------------------------------------------
(* Properties *)

\* Every permit is free or has exactly one owner (a dial, the accept loop, an
\* inbound connection or an idle channel), nobody waits for a free one, and
\* every socket is covered.
PermitsOwned ==
    /\ \A s \in Sems :
        LET owners == {o \in Waiters \cup Conns : s \in sem.holds[o]}
            pooled == IF s \in {"out", "total"} THEN Cardinality(idle) ELSE 0
        IN  /\ sem.free[s] + Cardinality(owners) + pooled = Capacity(s)
            /\ sem.free[s] > 0 => sem.line[s] = <<>>
    /\ \A d \in Dials :
        at[d] \in {"dial", "session"} => {"out", "total"} \subseteq sem.holds[d]
    /\ \A c \in Conns :
        conn[c] \in {"serve", "wait", "waking"} => {"in", "total", "slots"} \subseteq sem.holds[c]

\* InboundIdleState: a retirement in progress belongs to a connection that is
\* still there to finish it, and every idle inbound connection is either
\* registered or the one retiring.  A token left behind would end retirement.
RetirementOwned ==
    /\ retiring # None => conn[retiring] \in {"wait", "waking", "closing"}
    /\ \A c \in Conns : conn[c] = "wait" => c \in Range(entries) \cup {retiring}
    /\ \A c \in Range(entries) : conn[c] \in {"wait", "waking"}

\* No path, cancelled waits, replaced idle channels and retired connections
\* included, loses a permit or the retirement token, or lets a connection exist
\* without its own permit.
PermitsAccounted == PermitsOwned /\ RetirementOwned

\* An ordinary dial that queues at its gate is admitted or gives up, however control
\* dials keep coming: the owner of the lease lets go in the end, also when
\* it waits for capacity, and turns alternate between the classes.
DialsAdmitted ==
    \A d \in {x \in Dials : Priority[x] = "Ordinary"} :
        step[d] = "queued" ~> step[d] \in {"leased", "off"}

\* accept_connection_slot has no limit: the accept loop waiting for a slot
\* gets one, because an idle connection is told to retire whenever one holds
\* the capacity, also when it became idle after the loop went to sleep.
SlotComesFree == at[Loop] = "slotwait" ~> at[Loop] = "acquire"

\* prepare_capacity: "Idle connections must never prevent a new identity/route
\* or an incoming peer from making progress."  Nobody sleeps in the line for a
\* permit while an idle channel of the pool sits on one of that kind.
IdleNeverBlocks ==
    \A w \in Waiters :
        at[w] = "asleep" =>
            \A s \in {"out", "total"} : w \in Range(sem.line[s]) => idle = {}
=============================================================================
