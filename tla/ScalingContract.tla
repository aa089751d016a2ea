-------------------------- MODULE ScalingContract --------------------------
(***************************************************************************)
(* What the planner promises to whoever shares the RoleBasedGroup with it, *)
(* without its API calls, metrics, snapshots and restarts: it works in     *)
(* rounds.  A round is one decision for both roles, each count within the  *)
(* role's bounds; it is carried out prefill first, each role at most once, *)
(* and may be given up at any point.  Between the planner's moves anybody  *)
(* may change the counts, but nobody changes the round.                    *)
(***************************************************************************)
EXTENDS Integers, Sequences

CONSTANTS Roles, Prefill, Decode,
          PrefillBounds, DecodeBounds  \* the counts a decision may ask for

VARIABLES
  counts,  \* what each role is told to have
  round    \* the commands of the current decision still to be carried out

Target(role, n) == [role_name |-> role, desired_replicas |-> n]

Init ==
  /\ counts \in [Roles -> Nat]
  /\ round = <<>>

Decide ==
  /\ round = <<>>
  /\ \E p \in PrefillBounds, d \in DecodeBounds :
       round' = <<Target(Prefill, p), Target(Decode, d)>>
  /\ UNCHANGED counts

Command ==
  /\ round # <<>>
  /\ counts' = [counts EXCEPT ![Head(round).role_name] = Head(round).desired_replicas]
  /\ round' = Tail(round)

\* The role was seen at its target, or written past the adapter that overrules it.
Skip ==
  /\ round # <<>>
  /\ round' = Tail(round)
  /\ UNCHANGED counts

GiveUp ==
  /\ round' = <<>>
  /\ UNCHANGED counts

Others ==
  /\ counts' \in [Roles -> Nat]
  /\ UNCHANGED round

Next == Decide \/ Command \/ Skip \/ GiveUp \/ Others

Spec == Init /\ [][Next]_<<counts, round>>
=============================================================================
