----------------------------- MODULE WorkQueue -----------------------------
(***************************************************************************)
(* What the transactional outbox promises, with no worker process in sight:*)
(* a job is submitted once, is claimed at most MaxTries times, and ends    *)
(* either done or, only once its whole budget has been spent, dead.  Module*)
(* Outbox is shown to implement this specification.                        *)
(***************************************************************************)
EXTENDS Integers

CONSTANTS
  Jobs,      \* the units of work
  MaxTries   \* how often a job may be claimed

VARIABLES
  state,     \* state[j]: where job j is in its life
  tries      \* tries[j]: how often job j has been claimed

vars == <<state, tries>>

States == {"absent", "waiting", "claimed", "done", "dead"}

Init ==
  /\ state = [j \in Jobs |-> "absent"]
  /\ tries = [j \in Jobs |-> 0]

Submit(j) ==
  /\ state[j] = "absent"
  /\ state' = [state EXCEPT ![j] = "waiting"]
  /\ UNCHANGED tries

\* A claim may take the job from a claimant that has not reported back.
Claim(j) ==
  /\ state[j] \in {"waiting", "claimed"}
  /\ tries[j] < MaxTries
  /\ state' = [state EXCEPT ![j] = "claimed"]
  /\ tries' = [tries EXCEPT ![j] = @ + 1]

Finish(j) ==
  /\ state[j] = "claimed"
  /\ state' = [state EXCEPT ![j] = "done"]
  /\ UNCHANGED tries

GiveBack(j) ==
  /\ state[j] = "claimed"
  /\ tries[j] < MaxTries
  /\ state' = [state EXCEPT ![j] = "waiting"]
  /\ UNCHANGED tries

Abandon(j) ==
  /\ state[j] = "claimed"
  /\ tries[j] = MaxTries
  /\ state' = [state EXCEPT ![j] = "dead"]
  /\ UNCHANGED tries

Next ==
  \E j \in Jobs : Submit(j) \/ Claim(j) \/ Finish(j) \/ GiveBack(j) \/ Abandon(j)

Spec == Init /\ [][Next]_vars
=============================================================================
