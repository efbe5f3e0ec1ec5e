------------------------------ MODULE TaskLane ------------------------------
(***************************************************************************)
(* What the task FIFO promises (workflow.rs, assign_task and start_task):  *)
(* an accepted task waits in its assignee's lane, a lane runs one task at a*)
(* time and always the oldest one left, a running task is only closed by a *)
(* report, a waiting one can be withdrawn, and closed is final.            *)
(* Idempotency, reservations, events and faults do not appear here.        *)
(***************************************************************************)
EXTENDS Naturals

CONSTANTS Task, Principal, NoPrincipal

VARIABLES
    phase,    \* "absent", "waiting", "running" or "closed"
    lane,     \* the assignee of each accepted task
    order     \* its place in that assignee's FIFO

laneVars == <<phase, lane, order>>

Open(t) == phase[t] \in {"waiting", "running"}

Accept(t) ==
    /\ phase[t] = "absent"
    /\ phase' = [phase EXCEPT ![t] = "waiting"]
    /\ lane'[t] \in Principal /\ order'[t] \in Nat
    /\ lane'  = [lane EXCEPT ![t] = lane'[t]]
    /\ order' = [order EXCEPT ![t] = order'[t]]

Run(t) ==
    /\ phase[t] = "waiting"
    /\ \A u \in Task \ {t} : lane[u] = lane[t] /\ Open(u) =>
          phase[u] = "waiting" /\ order[t] < order[u]
    /\ phase' = [phase EXCEPT ![t] = "running"]
    /\ UNCHANGED <<lane, order>>

\* A report closes a running task, a cancellation a waiting one.
Close(t) ==
    /\ Open(t)
    /\ phase' = [phase EXCEPT ![t] = "closed"]
    /\ UNCHANGED <<lane, order>>

LaneInit ==
    /\ phase = [t \in Task |-> "absent"]
    /\ lane  = [t \in Task |-> NoPrincipal]
    /\ order = [t \in Task |-> 0]

LaneNext == \E t \in Task : Accept(t) \/ Run(t) \/ Close(t)

LaneSpec == LaneInit /\ [][LaneNext]_laneVars
=============================================================================
