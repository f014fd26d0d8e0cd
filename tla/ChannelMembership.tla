-------------------------- MODULE ChannelMembership --------------------------
(***************************************************************************)
(* The membership reducer of a channel (MembershipReducer, ChannelState,   *)
(* ProjectionFacts): what one event of the canonical order does to the     *)
(* channel, and the facts recorded with it.  Channels whose membership is  *)
(* that of devices; account authority is not modelled.                     *)
(***************************************************************************)
EXTENDS CausalOrder, SequencesExt

CONSTANTS
    Ev,         \* Ev[e]: kind and author of e and, by kind, its payload
    Encoding,   \* the rank of encode_members(s) among all sets of members
    Own         \* the member this device is

Controls == {"MembershipChange", "Rename", "Dissolve", "Accept", "OwnerTransfer", "Leave"}

ASSUME MembershipAssumption ==
    \A e \in Events :
        /\ Ev[e].kind \in Controls \cup {"Message"}
        /\ Ev[e].kind = "MembershipChange" =>
            /\ Ev[e].epoch \in Nat
            /\ {"author", "owner", "members", "invitation"} \subseteq DOMAIN Ev[e]

\* The events e descends from, e itself included.
Ancestry[e \in Events] == {e} \cup UNION {Ancestry[p] : p \in Parents[e]}
descends(e, f) == f \in Ancestry[e]

(***************************************************************************)
(* ChannelState.  A rename event stands for its name and its version.      *)
(***************************************************************************)
from_meta(meta) ==
    [name |-> None, members |-> meta.members, epoch |-> meta.epoch,
     owner |-> meta.owner, dissolved |-> FALSE,
     accepted |-> IF meta.invitation THEN {meta.author} ELSE meta.members,
     accept |-> None]

is_accepted_member(s, m) == m \in s.members /\ m \in s.accepted
can_admin(s, m) == ~s.dissolved /\ s.owner = m
pending_invite(s) == Own \in s.members /\ Own \notin s.accepted

apply_meta(s, meta, concurrent_leave) ==
    LET take == /\ meta.owner = s.owner
                /\ \/ meta.epoch > s.epoch
                   \/ /\ meta.epoch = s.epoch
                      /\ concurrent_leave \/ Encoding[meta.members] > Encoding[s.members]
        added == meta.members \ s.members
    IN  IF take
        THEN [s EXCEPT !.members = meta.members,
                       !.epoch = meta.epoch,
                       !.accepted = IF meta.invitation THEN @ \ added ELSE @ \cup added,
                       !.accept = IF Own \in added THEN None ELSE @]
        ELSE s

apply_rename(s, e) ==
    IF s.name = None \/ Priority[s.name] < Priority[e] THEN [s EXCEPT !.name = e] ELSE s

accept_invite(s, m, e) ==
    [s EXCEPT !.accepted = @ \cup {m},
              !.accept = IF m = Own /\ pending_invite(s) THEN e ELSE @]

leave_member(s, m) ==
    [s EXCEPT !.members = @ \ {m}, !.accepted = @ \ {m}, !.epoch = @ + 1]

(***************************************************************************)
(* MembershipReducer: prior is the state so far, allowed the events whose  *)
(* ancestors are all valid, departures the applied leaves.  after pairs an *)
(* event with the acceptance of this device it descends from, and admitted *)
(* holds the messages this device may open.                                *)
(***************************************************************************)
new_reducer ==
    [prior |-> None, known |-> FALSE, allowed |-> {}, departures |-> {},
     after |-> {}, admitted |-> {}]

departure_blocks_Never(r, m, e) == FALSE

departure_blocks(r, m, e) == \E d \in r.departures : d.member = m /\ ~descends(e, d.leave)

\* The snapshot e carries without the members who left without e knowing.
retained_meta(r, e) ==
    [Ev[e] EXCEPT !.members = {m \in @ : ~departure_blocks(r, m, e)}]

valid_genesis(r, e) ==
    /\ Ev[e].kind = "MembershipChange"
    /\ Parents[e] = {}
    /\ Ev[e].author = Ev[e].owner
    /\ Ev[e].author \in retained_meta(r, e).members

valid(r, e) ==
    LET s == r.prior
        author == Ev[e].author
    IN  IF s = None THEN valid_genesis(r, e)
        ELSE /\ ~s.dissolved
             /\ CASE Ev[e].kind \in {"MembershipChange", "Rename", "Dissolve"} ->
                        can_admin(s, author)
                  [] Ev[e].kind = "Accept" -> author \in s.members
                  [] Ev[e].kind = "OwnerTransfer" ->
                        can_admin(s, author) /\ is_accepted_member(s, Ev[e].next)
                  [] Ev[e].kind = "Leave" -> author # s.owner /\ author \in s.members
                  [] Ev[e].kind = "Message" -> is_accepted_member(s, author)

\* The state after a valid event.
applied(r, e) ==
    LET s == r.prior
        meta == retained_meta(r, e)
    IN  CASE Ev[e].kind = "MembershipChange" ->
                IF s = None THEN from_meta(meta)
                ELSE apply_meta(s, meta, meta.members # Ev[e].members)
          [] Ev[e].kind = "Rename" -> apply_rename(s, e)
          [] Ev[e].kind = "Dissolve" -> [s EXCEPT !.dissolved = TRUE]
          [] Ev[e].kind = "Accept" -> accept_invite(s, Ev[e].author, e)
          [] Ev[e].kind = "OwnerTransfer" -> [s EXCEPT !.owner = Ev[e].next]
          [] Ev[e].kind = "Leave" -> leave_member(s, Ev[e].author)
          [] Ev[e].kind = "Message" -> s

parents_authorized(r, e) == Parents[e] \subseteq r.allowed

after_accept_AllParents(r, s, e) ==
    /\ s # None /\ s.accept # None
    /\ e = s.accept \/ (Parents[e] # {} /\ \A p \in Parents[e] : <<p, s.accept>> \in r.after)

after_accept(r, s, e) ==
    /\ s # None /\ s.accept # None
    /\ e = s.accept \/ \E p \in Parents[e] : <<p, s.accept>> \in r.after

\* Whether this device may open e, given the state s at e's rank.
receive(s, known, after, e) ==
    /\ s # None
    /\ known
    /\ ~s.dissolved
    /\ ~pending_invite(s)
    /\ is_accepted_member(s, Ev[e].author)
    /\ Ev[e].author # Own
    /\ s.accept = None \/ after

\* The facts of event e, given the decision and the state s after it.
checkpoint(r, e, ok, s) ==
    LET known == r.known \/ (s # None /\ Own \in s.members)
        after == after_accept(r, s, e)
    IN  [prior |-> s,
         known |-> known,
         allowed |-> IF ok /\ parents_authorized(r, e) THEN r.allowed \cup {e} ELSE r.allowed,
         departures |-> IF ok /\ Ev[e].kind = "Leave"
                        THEN r.departures \cup {[member |-> Ev[e].author, leave |-> e]}
                        ELSE r.departures,
         after |-> IF after THEN r.after \cup {<<e, s.accept>>} ELSE r.after,
         admitted |-> IF Ev[e].kind = "Message" /\ receive(s, known, after, e)
                      THEN r.admitted \cup {e} ELSE r.admitted]

\* One event of the canonical order: the decision and its checkpoint.
step(r, e) ==
    checkpoint(r, e, valid(r, e), IF valid(r, e) THEN applied(r, e) ELSE r.prior)

\* FoldLeft, with every intermediate result bound to a value: TLC would
\* otherwise compute it anew at each use.
Iterate(op(_, _), base, s) ==
    FoldLeft(LAMBDA acc, x : CHOOSE y \in {op(a, x) : a \in {acc}} : TRUE, base, s)

reduce(events) == Iterate(step, new_reducer, events)

\* The departure cut of leave e: its author was an accepted member, and not
\* the owner, in the view of the events e descends from.
legacy_cut(e, ranked) ==
    /\ Ev[e].kind = "Leave"
    /\ \E r \in {reduce(SelectSeq(ranked, LAMBDA f : f # e /\ descends(e, f)))} :
        /\ parents_authorized(r, e)
        /\ r.prior # None
        /\ r.prior.owner # Ev[e].author
        /\ is_accepted_member(r.prior, Ev[e].author)
=============================================================================
