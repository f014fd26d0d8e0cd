---------------------------- MODULE MCDmDelivery ----------------------------
(* Instances of DmDelivery for TLC. *)
EXTENDS DmDelivery, TLC

CONSTANTS dA, dB, dC, m1, m2, m3, m4

\* m1 and m3 go from dA to dB and m2 back: a session that sends and receives, and
\* that both ends may start.  m3 repeats the request of m1.
\* m4 is fanned out to two devices of the recipient's account, dB and dC.
MCFrom == [m \in Msgs |-> IF m = m2 THEN dB ELSE dA]
MCTo == [m \in Msgs |-> CASE m = m2 -> {dA} [] m = m4 -> {dB, dC} [] OTHER -> {dB}]
MCRequest == [m \in Msgs |-> CASE m = m2 -> 2 [] m = m4 -> 4 [] OTHER -> 1]
MCUserId == [d \in Devices |-> CASE d = dA -> 1 [] d = dB -> 2 [] OTHER -> 3]

\* Bound: the host asks for m1, m2, m3, for at most two of them when devices crash,
\* or for m4 alone, when storage may fail as well as a device crash once.  m1 and m3
\* are alike, so m1 comes first, and no other message expires: its request is never
\* repeated.
OneWorkload ==
    LET asked == {m \in Msgs : m \in Offered(From[m])}
    IN  /\ asked \subseteq {m1, m2, m3} \/ asked = {m4}
        /\ m3 \in asked => m1 \in asked
        /\ expired \subseteq {m1}
        /\ crashes > 0 => ~({m2, m3} \subseteq asked) /\ (m2 \in asked => expired = {})
        /\ faults > 0 => asked = {m4} /\ crashes <= 1
=============================================================================
