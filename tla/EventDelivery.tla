--------------------------- MODULE EventDelivery ---------------------------
(* What the Work routes promise about events: a delivery (an automation    *)
(* and the caller's event id) starts at most one Mission, and its receiver *)
(* is told it was taken only once that Mission has been started.           *)
CONSTANTS Delivery, Mission

VARIABLES started,   \* the pairs <<delivery, Mission>> started so far
          promised   \* the deliveries acknowledged to their sender

vars == <<started, promised>>

Started == {pair[1] : pair \in started}

Init == started = {} /\ promised = {}

Start(d, m) ==
    /\ \A pair \in started : pair[1] # d /\ pair[2] # m
    /\ started' = started \cup {<<d, m>>}
    /\ UNCHANGED promised

Promise(ds) ==
    /\ ds \subseteq Started
    /\ promised' = promised \cup ds
    /\ UNCHANGED started

Next ==
    \/ \E d \in Delivery, m \in Mission : Start(d, m)
    \/ \E ds \in SUBSET Delivery : Promise(ds)

Spec == Init /\ [][Next]_vars
=============================================================================
