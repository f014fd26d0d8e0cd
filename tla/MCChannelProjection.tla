------------------------- MODULE MCChannelProjection -------------------------
(***************************************************************************)
(* Three channels of a device "o", of which a behaviour has one.           *)
(*                                                                         *)
(* Channel 1, of the time before invitations: "b" leaves (l1) and "a", who *)
(* does not know, adds "d" (s1).  The leave ranks first, and both count    *)
(* the epoch up to 1.  Once "a" knows it adds "b" again (r1).              *)
(*                                                                         *)
(* Channel 2: "o" accepts an invitation (x2) while "a" writes a message    *)
(* (n2), and then one after both (m2).  The acceptance ranks first.        *)
(*                                                                         *)
(* Channel 3: "a" hands the channel to "b" (v3), who adds "o" (u3), and    *)
(* dissolves it on a device that knows of neither (z3), at a rank between  *)
(* them.  "o" has seen the channel before it joins.  "b", knowing it all,  *)
(* renames the channel (w3).                                               *)
(***************************************************************************)
EXTENDS ChannelProjection, TLC

Meta(author, epoch, members, invitation) ==
    [kind |-> "MembershipChange", author |-> author, owner |-> author, epoch |-> epoch,
     members |-> members, invitation |-> invitation]
By(kind, author) == [kind |-> kind, author |-> author]

\* The events of a channel in canonical order: name, parents, content.
Histories ==
    << << <<"g1", {}, Meta("a", 0, {"a", "b", "o"}, FALSE)>>,
          <<"l1", {"g1"}, By("Leave", "b")>>,
          <<"s1", {"g1"}, Meta("a", 1, {"a", "b", "d", "o"}, TRUE)>>,
          <<"r1", {"l1", "s1"}, Meta("a", 2, {"a", "b", "o"}, FALSE)>> >>,
       << <<"g2", {}, Meta("a", 0, {"a", "o"}, TRUE)>>,
          <<"x2", {"g2"}, By("Accept", "o")>>,
          <<"n2", {"g2"}, By("Message", "a")>>,
          <<"m2", {"x2", "n2"}, By("Message", "a")>> >>,
       << <<"g3", {}, Meta("a", 0, {"a", "b"}, FALSE)>>,
          <<"v3", {"g3"}, [kind |-> "OwnerTransfer", author |-> "a", next |-> "b"]>>,
          <<"z3", {"g3"}, By("Dissolve", "a")>>,
          <<"u3", {"v3"}, Meta("b", 1, {"a", "b", "o"}, FALSE)>>,
          <<"w3", {"u3", "z3"}, By("Rename", "b")>> >> >>

Places == {p \in (1..3) \X (1..5) : p[2] \in DOMAIN Histories[p[1]]}
At(p) == Histories[p[1]][p[2]]
PlaceOf(e) == CHOOSE p \in Places : At(p)[1] = e

MCEvents == {At(p)[1] : p \in Places}
MCParents == [e \in MCEvents |-> At(PlaceOf(e))[2]]
MCPriority == [e \in MCEvents |-> 10 * PlaceOf(e)[1] + PlaceOf(e)[2]]
MCChannel == [e \in MCEvents |-> PlaceOf(e)[1]]
MCEv == [e \in MCEvents |-> At(PlaceOf(e))[3]]

\* Iteration by iteration in channel 1; a call is enough elsewhere.
MCOrderBudget == <<1, 64, 64>>

\* Any injective rank of the sets of members will do.
MCEncoding ==
    LET weight == "a" :> 1 @@ "b" :> 2 @@ "d" :> 4 @@ "o" :> 8
    IN  [S \in SUBSET DOMAIN weight |-> FoldSet(LAMBDA m, n : weight[m] + n, 0, S)]
=============================================================================
