---------------------------- MODULE MCBackground ----------------------------
(***************************************************************************)
(* Small instances for TLC of what a node does in the background: the Git  *)
(* worker of the vault, the requests that persist its sidecars, the        *)
(* periodic timers of the seats, and the reasoning it asks clients for.    *)
(* They share no state; each behaviour is of one of them.                  *)
(***************************************************************************)
EXTENDS VaultGit, VaultSidecars, Timers, Sampling, TLC

CONSTANTS q1, q2, l1, l2    \* callers and streams

VARIABLE part

\* Two callers of one seat; a stream of that seat and one of another.
SeatOf == (q1 :> 1) @@ (q2 :> 1) @@ (l1 :> 1) @@ (l2 :> 2)

allVars == <<part, vars, sideVars, tmVars, smVars>>
MCInit ==
    /\ part \in {"git", "sidecars", "timers", "sampling"} /\ Init /\ SideInit /\ TmInit /\ SmInit
    /\ part = "git" \/ ~delayed
    /\ part = "sidecars" \/ ~shared
    /\ part = "timers" \/ tmActive = {}

Commits == part = "git" /\ UNCHANGED <<part, sideVars, tmVars, smVars>>
Keeps == part = "sidecars" /\ UNCHANGED <<part, vars, tmVars, smVars>>
Ticks == part = "timers" /\ UNCHANGED <<part, vars, sideVars, smVars>>
Asks == part = "sampling" /\ UNCHANGED <<part, vars, sideVars, tmVars>>

MCNext ==
    \/ Commits /\ Next
    \/ Keeps /\ SideNext
    \/ Ticks /\ TmNext
    \/ Asks /\ SmNext

\* The fairness of VaultGit and of VaultSidecars; the start of the service and a task
\* of a timer run on once begun, and sleep() ends; the fairness of Sampling.
MCSpec ==
    /\ MCInit /\ [][MCNext]_allVars
    /\ \A w \in Writer : WF_vars(Commits /\ Request(w))
    /\ \A k \in Worker : WF_vars(Commits /\ Loop(k)) /\ WF_vars(Commits /\ Drain(k))
    /\ \A w \in SideWriter : WF_sideVars(Keeps /\ (Persist(w) \/ PersistFails(w)))
    /\ WF_tmVars(Ticks /\ Booting)
    /\ \A id \in TimerId : /\ WF_tmVars(Ticks /\ Elapses(id))
                            /\ \A n \in Task : WF_tmVars(Ticks /\ Runs(id, n))
    /\ WF_smVars(Asks /\ Forwards)
    /\ \A x \in SmCaller : /\ WF_smVars(Asks /\ Sends(x))
                            /\ WF_smVars(Asks /\ (Answered(x) \/ TimesOut(x)))
=============================================================================
