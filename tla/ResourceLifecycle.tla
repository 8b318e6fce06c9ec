-------------------------- MODULE ResourceLifecycle --------------------------
(***************************************************************************)
(* What the runtime promises about one resource, whatever it is: a browser *)
(* context, an application process, a temporary directory.                 *)
(*                                                                         *)
(* It is acquired, used by holders only while usable, torn down once and   *)
(* only when nobody uses it, and acquired again only after a teardown that *)
(* succeeded.  Ownership, once gained, ends in a teardown.                 *)
(***************************************************************************)
CONSTANTS Resources, Users

VARIABLES
  stage,    \* where the resource is in its life
  users     \* users[r]: who is using r right now

vars == <<stage, users>>

Init ==
  /\ stage = [r \in Resources |-> "free"]
  /\ users = [r \in Resources |-> {}]

Move(r, from, to) ==
  /\ stage[r] \in from
  /\ users[r] = {}
  /\ stage' = [stage EXCEPT ![r] = to]
  /\ UNCHANGED users

StartUse(r, u) ==
  /\ stage[r] = "usable"
  /\ u \notin users[r]
  /\ users' = [users EXCEPT ![r] = @ \cup {u}]
  /\ UNCHANGED stage

StopUse(r, u) ==
  /\ u \in users[r]
  /\ users' = [users EXCEPT ![r] = @ \ {u}]
  /\ UNCHANGED stage

Next ==
  \E r \in Resources :
    \/ Move(r, {"free"}, "acquiring")
    \/ Move(r, {"acquiring"}, "owned")
    \/ Move(r, {"acquiring"}, "free")
    \/ Move(r, {"owned"}, "usable")
    \/ Move(r, {"owned", "usable"}, "teardown")
    \/ Move(r, {"teardown"}, "free")
    \/ Move(r, {"teardown"}, "lost")
    \/ \E u \in Users : StartUse(r, u) \/ StopUse(r, u)

Spec == Init /\ [][Next]_vars
=============================================================================
