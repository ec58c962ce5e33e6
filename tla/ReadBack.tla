------------------------------ MODULE ReadBack ------------------------------
(***************************************************************************)
(* What the hub promises its listeners, without queue, link or retries:    *)
(* a published value is one the device sampled for that same parameter,    *)
(* samples are published in the order they were taken, one at a time, and  *)
(* each at most once.  A sample may also be dropped, and published values  *)
(* may be forgotten (a device that was identified anew).                   *)
(***************************************************************************)
CONSTANTS Params, Values, Unknown, NoSample

VARIABLES dev, shown, sample

vars == <<dev, shown, sample>>

Init ==
    /\ dev \in [Params -> Values]
    /\ shown = [p \in Params |-> Unknown]
    /\ sample = NoSample

\* The device changes by itself or because it was told to.
Change ==
    /\ dev' \in [Params -> Values]
    /\ UNCHANGED <<shown, sample>>

Sample(p) ==
    /\ sample = NoSample
    /\ sample' = <<p, dev[p]>>
    /\ UNCHANGED <<dev, shown>>

Publish ==
    /\ sample # NoSample
    /\ shown' = [shown EXCEPT ![sample[1]] = sample[2]]
    /\ sample' = NoSample
    /\ UNCHANGED dev

Drop ==
    /\ sample' = NoSample
    /\ UNCHANGED <<dev, shown>>

Forget ==
    /\ \E S \in SUBSET Params :
         shown' = [p \in Params |-> IF p \in S THEN Unknown ELSE shown[p]]
    /\ UNCHANGED <<dev, sample>>

Next == Change \/ Publish \/ Drop \/ Forget \/ \E p \in Params : Sample(p)

Spec == Init /\ [][Next]_vars

=============================================================================
