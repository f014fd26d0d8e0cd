----------------------------- MODULE MCEventSync -----------------------------
(* Instances of EventSync: two devices. *)
EXTENDS EventSync

CONSTANTS A, B

OneWay == {<<A, B>>}
BothWays == {<<A, B>>, <<B, A>>}

\* One kind of the first wire version, and one that needs the next.
MCLevel == [k \in Kinds \cup {Profile} |-> IF k = "Metadata" THEN 2 ELSE 1]

\* Bound: hashes happen to grow in the order of signing.
HashesInOrder == \A e \in created : \A i \in Ids : i < e.id => i \in IdsOf(created)

\* Bound: B signs a message, and then an event that needs the next version.
OneAuthor ==
    /\ HashesInOrder
    /\ \A e \in created : e.author = B /\ e.kind = IF e.id = 1 THEN "Message" ELSE "Metadata"
=============================================================================
