---------------------------- MODULE Provisioning ----------------------------
(***************************************************************************)
(* What the operator promises an AutoScaler, without its API calls,        *)
(* conflicts, retries and crashes: it takes charge of the object before it *)
(* grants its planner anything outside the namespace, grants before it     *)
(* deploys, and takes the grant back before it lets go.  It knows of       *)
(* grants through a cache, and is mistaken only where that is behind: it   *)
(* may then deploy without a grant, or let go and leave one.  A planner    *)
(* may disappear at any time.                                              *)
(***************************************************************************)
CONSTANT Keys  \* the AutoScalers

VARIABLES
  charge,    \* AutoScalers the operator has taken charge of
  granted,   \* those whose planner is bound to the cluster role
  known,     \* those whose grant its cache shows
  misjudged, \* those about whose grant it was mistaken when it last looked
  deployed   \* those whose planner is deployed

Init == charge = {} /\ granted = {} /\ known = {} /\ misjudged = {} /\ deployed = {}

TakeCharge(k) ==
  /\ charge' = charge \cup {k}
  /\ UNCHANGED <<granted, known, misjudged, deployed>>

\* Grants are the operator's own: without a cache it knows of them at once.
KnowsAtOnceOrLater == known' \in {known, granted'}

Grant(k) ==
  /\ k \in charge
  /\ granted' = granted \cup {k} /\ misjudged' = misjudged \ {k}
  /\ KnowsAtOnceOrLater
  /\ UNCHANGED <<charge, deployed>>

Revoke(k) ==
  /\ granted' = granted \ {k} /\ misjudged' = misjudged \ {k}
  /\ KnowsAtOnceOrLater
  /\ UNCHANGED <<charge, deployed>>

\* It takes a grant for given that is not, or for absent that is there.
Misjudge(k) ==
  /\ (k \in known) # (k \in granted)
  /\ misjudged' = misjudged \cup {k}
  /\ UNCHANGED <<charge, granted, known, deployed>>

Learn ==
  /\ known' = granted
  /\ UNCHANGED <<charge, granted, misjudged, deployed>>

Deploy(k) ==
  /\ k \in granted \cup misjudged
  /\ deployed' = deployed \cup {k}
  /\ UNCHANGED <<charge, granted, known, misjudged>>

Disappear(k) ==
  /\ deployed' = deployed \ {k}
  /\ UNCHANGED <<charge, granted, known, misjudged>>

LetGo(k) ==
  /\ k \in granted => k \in misjudged
  /\ charge' = charge \ {k}
  /\ UNCHANGED <<granted, known, misjudged, deployed>>

Next ==
  \/ Learn
  \/ \E k \in Keys :
       \/ TakeCharge(k) \/ LetGo(k)
       \/ Grant(k) \/ Revoke(k) \/ Misjudge(k)
       \/ Deploy(k) \/ Disappear(k)

Spec == Init /\ [][Next]_<<charge, granted, known, misjudged, deployed>>
=============================================================================
