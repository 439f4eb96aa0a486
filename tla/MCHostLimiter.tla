---- MODULE MCHostLimiter ----
EXTENDS HostLimiter

CONSTANTS ha, hb, hc

Adaptive == [rate |-> 0, min |-> 1, lat |-> 1]   \* with the default maximum
Capped == [rate |-> 1, min |-> 0, lat |-> 1]     \* below the default floor
Fixed == [rate |-> 2, min |-> 1, lat |-> 0]
Off == [rate |-> 0, min |-> 0, lat |-> 0]
TaskSettings == {Adaptive, Fixed, Off}
UserSettings == {Capped, Off}

(* One host adapts; the others compete with it for a place in the map.       *)
HostSettings == {<<ha, Adaptive>>, <<ha, Capped>>, <<ha, Off>>, <<hb, Fixed>>, <<hc, Fixed>>}
====
