---------------------------- MODULE PhaseContract ----------------------------
(***************************************************************************)
(* What the planner promises about its phases (agent.md, "Agent phases";   *)
(* tools/orchestration.py, maybe_transition_phase): one edge of the phase  *)
(* machine at a time, a bounded number of repairs, an abort that is final, *)
(* a completion that only WRAP_UP can reach, and an end.                   *)
(***************************************************************************)
EXTENDS Integers

CONSTANT MaxReplan

VARIABLES phase, replans, aborted, status
vars == <<phase, replans, aborted, status>>

Init ==
  /\ phase = "DISCOVER"
  /\ replans = 0
  /\ aborted = FALSE
  /\ status = "running"

Forward == { <<"DISCOVER", "PLAN">>, <<"PLAN", "VALIDATE">>, <<"VALIDATE", "WRAP_UP">>,
             <<"REPLAN", "PLAN">> }

Stay == UNCHANGED <<phase, replans, aborted>>

Advance ==
  /\ <<phase, phase'>> \in Forward
  /\ UNCHANGED <<replans, aborted>>

\* A failed validation is answered with a repair while attempts are left.
Repair ==
  /\ phase = "VALIDATE" /\ phase' = "REPLAN"
  /\ replans < MaxReplan
  /\ replans' = replans + 1
  /\ UNCHANGED aborted

\* Every phase may be given up.
Abort ==
  /\ phase' = "WRAP_UP"
  /\ aborted' = TRUE
  /\ UNCHANGED replans

Next ==
  /\ status = "running"
  /\ Stay \/ Advance \/ Repair \/ Abort
  /\ \/ status' = "running"
     \/ status' = "clarified"
     \/ status' = "completed" /\ phase' = "WRAP_UP"

Spec == Init /\ [][Next]_vars /\ <>(status # "running")
=============================================================================
