-------------------------- MODULE AbstractDelivery --------------------------
(***************************************************************************)
(* What direct-message delivery promises a host: a message is accepted     *)
(* once and for good, a destination stores its plaintext only after it was *)
(* accepted, and it is reported Delivered only after a device of the       *)
(* recipient stored it; none of the three is ever taken back.              *)
(***************************************************************************)
CONSTANTS Msgs, Devices, To, Eligible

VARIABLES
    accepted,   \* messages the sender promised to deliver
    stored,     \* <<m, d>>: device d has recorded the plaintext of m
    delivered   \* messages whose status is Delivered

AInit == accepted = {} /\ stored = {} /\ delivered = {}

AAccept(m) ==
    /\ m \notin accepted
    /\ accepted' = accepted \cup {m}
    /\ UNCHANGED <<stored, delivered>>

AStore(m, d) ==
    /\ m \in accepted /\ d \in To[m] /\ <<m, d>> \notin stored
    /\ stored' = stored \cup {<<m, d>>}
    /\ UNCHANGED <<accepted, delivered>>

ADeliver(m) ==
    /\ m \notin delivered
    /\ \E d \in Eligible[m] : <<m, d>> \in stored
    /\ delivered' = delivered \cup {m}
    /\ UNCHANGED <<accepted, stored>>

\* A step does one thing, and what it adds shows which.
ANext ==
    \/ \E m \in accepted' \ accepted : AAccept(m)
    \/ \E s \in stored' \ stored : AStore(s[1], s[2])
    \/ \E m \in delivered' \ delivered : ADeliver(m)

ASpec == AInit /\ [][ANext]_<<accepted, stored, delivered>>
=============================================================================
