----------------------------- MODULE Occurrence -----------------------------
(***************************************************************************)
(* What the scheduler promises of one occurrence of a scheduled task        *)
(* (mark_task_run_launched, claim_due_tasks, SchedulerService): it is held  *)
(* by at most Limit attempts, one at a time; once a managed run is fenced,  *)
(* no other attempt takes the occurrence over before its owner gives it     *)
(* back; and once it is over it stays over.                                 *)
(***************************************************************************)
EXTENDS Naturals

CONSTANTS Occurrences, Limit

VARIABLES phase,  \* the phase of each occurrence
          tries   \* attempts that held it

occVars == <<phase, tries>>

Phases == {"none", "waiting", "held", "fenced", "over", "gone"}

OccInit ==
  /\ phase = [o \in Occurrences |-> "none"]
  /\ tries = [o \in Occurrences |-> 0]

Same(o) == phase'[o] = phase[o] /\ tries'[o] = tries[o]
Become(o, ph) == phase'[o] = ph /\ tries'[o] = tries[o]

Appear(o) == phase[o] = "none" /\ \E ph \in {"waiting", "over"} : Become(o, ph)
\* A fresh occurrence may be taken as it appears; an expired holder is replaced.
Take(o) == /\ phase[o] \in {"none", "waiting", "held"}
           /\ tries[o] < Limit
           /\ phase'[o] = "held" /\ tries'[o] = tries[o] + 1
Fence(o) == phase[o] = "held" /\ Become(o, "fenced")
GiveBack(o) == /\ phase[o] \in {"held", "fenced"} /\ tries[o] < Limit
               /\ Become(o, "waiting")
End(o) == phase[o] \in {"waiting", "held", "fenced"} /\ Become(o, "over")
Forget(o) == phase[o] # "none" /\ phase'[o] = "gone" /\ tries'[o] = 0

OccStep(o) == \/ Same(o) \/ Appear(o) \/ Take(o) \/ Fence(o) \/ GiveBack(o)
              \/ End(o) \/ Forget(o)

\* One transaction may move several occurrences.
OccNext == /\ DOMAIN phase' = Occurrences /\ DOMAIN tries' = Occurrences
           /\ \A o \in Occurrences : OccStep(o)

OccSpec == OccInit /\ [][OccNext]_occVars
=============================================================================
