------------------------------- MODULE Timers -------------------------------
(***************************************************************************)
(* The periodic timers of the seats: TimerRegistry                         *)
(* (crates/slc-core/src/timer.rs) and its start at the start of the service*)
(* (start_background in lib.rs).                                           *)
(*                                                                         *)
(* A timer is a record in the store and a task that sleeps, runs a handler *)
(* and writes its copy of the record back.  The records survive a restart, *)
(* the tasks do not.  One-shot timers are in Reminders.                    *)
(*                                                                         *)
(* KnownNever and ErrorEnds are deliberate mistakes.                       *)
(***************************************************************************)
EXTENDS Naturals, FiniteSets

CONSTANTS
    TmSeat,
    TmType,        \* the periodic types whose interval is not 0
    MaxRecords,    \* records of a seat and type, more than there should be (bound)
    MaxSeatSteps,  \* seats that come and go (bound)
    MaxTmFaults    \* failed calls, failed handlers and restarts (bound)

ASSUME TimersAssumption == MaxRecords \in Nat /\ MaxSeatSteps \in Nat /\ MaxTmFaults \in Nat

TimerId == TmSeat \X TmType \X (1 .. MaxRecords)
Off == [at |-> "off"]
On == [at |-> "on"]
NoSuch == "none"
Task == {1, 2}    \* tasks of one timer, more than there should be

VARIABLES
    tmActive,     \* seats the store lists as active
    saved,      \* per timer: no record, or whether its next_fire_at has come
    boot,       \* how far start_background is
    handles,    \* the keys of the registry's map of tasks
    loop,       \* the tasks of each timer
    seatSteps, tmFaults

tmVars == <<tmActive, saved, boot, handles, loop, seatSteps, tmFaults>>
tmBounds == <<tmActive, seatSteps, tmFaults>>

Saved(s, t) == {id \in TimerId : id[1] = s /\ id[2] = t /\ saved[id] # NoSuch}
TypesOf(s) == {t \in TmType : Saved(s, t) # {}}
Fresh(s, t) == CHOOSE n \in 1 .. MaxRecords : saved[<<s, t, n>>] = NoSuch
HasRoom(s, t) == \E n \in 1 .. MaxRecords : saved[<<s, t, n>>] = NoSuch

----------------------------------------------------------------------------
(* start_background *)

BootStarts ==
    /\ boot = Off
    /\ boot' = [at |-> "seats", todo |-> tmActive]
    /\ UNCHANGED <<saved, handles, loop, tmBounds>>

\* create_defaults looks once at the timers a seat has.
Defaults(s) ==
    /\ boot.at = "seats" /\ s \in boot.todo
    /\ boot' = [at |-> "create", todo |-> boot.todo \ {s}, seat |-> s, missing |-> TmType \ TypesOf(s)]
    /\ UNCHANGED <<saved, handles, loop, tmBounds>>

KnownNever(id) == FALSE

\* spawn does nothing for a timer the registry has a task for.
Known(id) == id \in handles
Spawned(ids) ==
    LET new == {id \in ids : ~Known(id)} IN
    /\ handles' = handles \cup new
    /\ loop' = [id \in TimerId |-> [n \in Task |->
          IF id \in new /\ loop[id][n] = NoSuch /\ \A k \in Task : k < n => loop[id][k] # NoSuch
          THEN "sleep" ELSE loop[id][n]]]

\* register: the record is written, then the task is spawned.
Register(t) ==
    /\ boot.at = "create" /\ t \in boot.missing /\ HasRoom(boot.seat, t)
    /\ LET id == <<boot.seat, t, Fresh(boot.seat, t)>> IN
         /\ saved' = [saved EXCEPT ![id] = "later"]
         /\ boot' = [at |-> "spawn", todo |-> boot.todo, seat |-> boot.seat,
                     missing |-> boot.missing, id |-> id]
    /\ UNCHANGED <<handles, loop, tmBounds>>
SpawnNew ==
    /\ boot.at = "spawn" /\ Spawned({boot.id})
    /\ boot' = [at |-> "create", todo |-> boot.todo, seat |-> boot.seat, missing |-> boot.missing \ {boot.id[2]}]
    /\ UNCHANGED <<saved, tmBounds>>
SeatDone ==
    /\ boot.at = "create" /\ boot.missing = {}
    /\ boot' = [at |-> "seats", todo |-> boot.todo]
    /\ UNCHANGED <<saved, handles, loop, tmBounds>>

\* start: a task for every active timer, whoever's it is.
StartAll ==
    /\ boot = [at |-> "seats", todo |-> {}]
    /\ Spawned({id \in TimerId : saved[id] # NoSuch})
    /\ boot' = On
    /\ UNCHANGED <<saved, tmBounds>>

\* A failed call ends the start, which is not tried again: the service runs without
\* its scheduler, the tasks that were spawned run on.
StartFails ==
    /\ boot.at \in {"seats", "create"} /\ tmFaults < MaxTmFaults /\ tmFaults' = tmFaults + 1
    /\ boot' = [at |-> "failed"]
    /\ UNCHANGED <<saved, handles, loop, tmActive, seatSteps>>

----------------------------------------------------------------------------
(* A timer's task *)

Becomes(id, n, at) == loop' = [loop EXCEPT ![id][n] = at]

\* The interval is over.
Elapses(id) ==
    /\ saved[id] = "later"
    /\ saved' = [saved EXCEPT ![id] = "due"]
    /\ UNCHANGED <<boot, handles, loop, tmBounds>>

Wakes(id, n) ==
    /\ loop[id][n] = "sleep" /\ saved[id] = "due"
    /\ Becomes(id, n, "handle")
    /\ UNCHANGED <<saved, boot, handles, tmBounds>>

ErrorEnds(failed) == IF failed THEN NoSuch ELSE "write"

\* An error of the handler is logged.
After(failed) == "write"
Handled(id, n) ==
    /\ loop[id][n] = "handle"
    /\ \E failed \in BOOLEAN :
         /\ failed => tmFaults < MaxTmFaults
         /\ tmFaults' = IF failed THEN tmFaults + 1 ELSE tmFaults
         /\ Becomes(id, n, After(failed))
    /\ UNCHANGED <<saved, boot, handles, tmActive, seatSteps>>

\* The next time is set and the whole record written, active as it was.  Whether the
\* write fails makes no difference before a restart.
Rewrites(id, n) ==
    /\ loop[id][n] = "write"
    /\ saved' = [saved EXCEPT ![id] = "later"]
    /\ Becomes(id, n, "sleep")
    /\ UNCHANGED <<boot, handles, tmBounds>>

----------------------------------------------------------------------------

\* A seat is made active by its first call, and closed or expired.
SeatComes(s) ==
    /\ seatSteps < MaxSeatSteps /\ seatSteps' = seatSteps + 1
    /\ tmActive' = IF s \in tmActive THEN tmActive \ {s} ELSE tmActive \cup {s}
    /\ UNCHANGED <<saved, boot, handles, loop, tmFaults>>

Restart ==
    /\ tmFaults < MaxTmFaults /\ tmFaults' = tmFaults + 1
    /\ boot' = Off /\ handles' = {} /\ loop' = [id \in TimerId |-> [n \in Task |-> NoSuch]]
    /\ UNCHANGED <<tmActive, saved, seatSteps>>

TmInit ==
    /\ tmActive \in SUBSET TmSeat
    /\ saved = [id \in TimerId |-> NoSuch]
    /\ boot = Off /\ handles = {} /\ loop = [id \in TimerId |-> [n \in Task |-> NoSuch]]
    /\ seatSteps = 0 /\ tmFaults = 0

Booting == BootStarts \/ (\E s \in TmSeat : Defaults(s)) \/ (\E t \in TmType : Register(t)) \/ SpawnNew \/ SeatDone \/ StartAll
Runs(id, n) == Wakes(id, n) \/ Handled(id, n) \/ Rewrites(id, n)

TmNext ==
    \/ Booting \/ StartFails \/ Restart
    \/ \E id \in TimerId : Elapses(id) \/ \E n \in Task : Runs(id, n)
    \/ \E s \in TmSeat : SeatComes(s)

TmSpec == TmInit /\ [][TmNext]_tmVars

----------------------------------------------------------------------------
(* Properties *)

\* "idempotent per seat" (timer.rs:99): whatever failed or was restarted, and however
\* often, a seat has one timer of a type, and a timer one task.
OneTimerEach ==
    /\ \A s \in TmSeat, t \in TmType : Cardinality(Saved(s, t)) <= 1
    /\ \A id \in TimerId : Cardinality({n \in Task : loop[id][n] # NoSuch}) <= 1

\* A timer goes on to fire, after errors of its handler and after restarts, unless the
\* start of the service fails.
KeepsFiring ==
    \A id \in TimerId :
        saved[id] # NoSuch ~> (\E n \in Task : loop[id][n] = "handle") \/ boot.at = "failed"
=============================================================================
