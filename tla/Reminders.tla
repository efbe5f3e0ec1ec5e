----------------------------- MODULE Reminders -----------------------------
(***************************************************************************)
(* A reminder from its creation to the delivery of its notification:       *)
(* ReminderManager (reminders.rs), the one-shot timers of TimerRegistry    *)
(* (timer.rs), the REMINDER handler (lib.rs) and NotificationQueue         *)
(* (notifications.rs).                                                     *)
(*                                                                         *)
(* Nothing here takes a lock.  Each storage call is one step, and requests,*)
(* timer tasks and a crash interleave between any two of them.  Records and*)
(* timers survive a crash; tasks and requests in flight do not.            *)
(*                                                                         *)
(* MarkReadAlways, DueDropped, CancelUnmarked and CrashForgetful are       *)
(* deliberate mistakes that show what the properties notice.               *)
(***************************************************************************)
EXTENDS Naturals, FiniteSets

CONSTANTS
    Reminder,     \* the reminders of one seat, each created at most once
    Pop,          \* requests that pop notifications
    HeldAtStart,  \* reminders the operator's workflow_hold_seats holds
    MaxPending,   \* MAX_REMINDERS_PER_SEAT
    Limit,        \* notifications one pop may take
    MaxCrashes    \* restarts (bound)

ASSUME RemindersAssumption ==
    /\ HeldAtStart \subseteq Reminder
    /\ MaxPending \in Nat /\ Limit \in Nat /\ MaxCrashes \in Nat

VARIABLES
    reminder,  \* status of each reminder record
    timer,     \* is_active of its persisted one-shot timer
    note,      \* status of its notification record
    task,      \* where its tokio timer task is
    aborted,   \* running tasks whose abort takes effect at some later await
    create,    \* how far its reminder_create is
    cancel,    \* how far its reminder_cancel is
    pop,       \* what each pop has still to mark and has marked
    held,      \* reminders whose firing the operator holds
    crashes,
    emitted,   \* notifications pushed for each reminder
    handed,    \* times its notification was handed to a client
    promised   \* reminders whose cancellation was answered with true

records == <<reminder, timer, note>>
requests == <<create, cancel, pop, promised, handed>>
world == <<held, crashes>>
vars == <<records, task, aborted, requests, world, emitted>>

Pending == {r \in Reminder : reminder[r] = "pending"}
At(f, r, from, to) == f[r] = from /\ f' = [f EXCEPT ![r] = to]

----------------------------------------------------------------------------
(* reminder_create *)

\* The count of pending reminders is read before the new one is written.
BeginCreate(r) ==
    /\ At(create, r, "no", "put")
    /\ Cardinality(Pending) < MaxPending
    /\ UNCHANGED <<records, task, aborted, cancel, pop, promised, handed, world, emitted>>

PutReminder(r) ==
    /\ At(create, r, "put", "timer")
    /\ reminder' = [reminder EXCEPT ![r] = "pending"]
    /\ UNCHANGED <<timer, note, task, aborted, cancel, pop, promised, handed, world, emitted>>

RegisterTimer(r) ==
    /\ At(create, r, "timer", "spawn")
    /\ timer' = [timer EXCEPT ![r] = "active"]
    /\ UNCHANGED <<reminder, note, task, aborted, cancel, pop, promised, handed, world, emitted>>

Spawn(r) ==
    /\ At(create, r, "spawn", "handle")
    /\ task' = [task EXCEPT ![r] = "sleep"]
    /\ UNCHANGED <<records, aborted, cancel, pop, promised, handed, world, emitted>>

\* Only now can a cancellation find the task's handle.
KeepHandle(r) ==
    /\ At(create, r, "handle", "done")
    /\ UNCHANGED <<records, task, aborted, cancel, pop, promised, handed, world, emitted>>

----------------------------------------------------------------------------
(* The timer task and its handler *)

DueDropped(r) ==
    /\ At(task, r, "sleep", IF r \in held THEN "close" ELSE "read")
    /\ UNCHANGED <<records, aborted, requests, world, emitted>>

\* A held handler never returns.
Due(r) ==
    /\ At(task, r, "sleep", IF r \in held THEN "held" ELSE "read")
    /\ UNCHANGED <<records, aborted, requests, world, emitted>>

MarkReadAlways(r) ==
    /\ At(task, r, "read", "put")
    /\ UNCHANGED <<records, aborted, requests, world, emitted>>

\* mark_fired looks at the status in one call and writes it in another.
MarkRead(r) ==
    /\ At(task, r, "read", IF reminder[r] = "pending" THEN "put" ELSE "close")
    /\ UNCHANGED <<records, aborted, requests, world, emitted>>

MarkPut(r) ==
    /\ At(task, r, "put", "push")
    /\ reminder' = [reminder EXCEPT ![r] = "fired"]
    /\ UNCHANGED <<timer, note, aborted, requests, world, emitted>>

Push(r) ==
    /\ At(task, r, "push", "close")
    /\ note' = [note EXCEPT ![r] = "pending"]
    /\ emitted' = [emitted EXCEPT ![r] = @ + 1]
    /\ UNCHANGED <<reminder, timer, aborted, requests, world>>

\* The registry deactivates the one-shot, whatever the handler did.
Close(r) ==
    /\ At(task, r, "close", "none")
    /\ timer' = [timer EXCEPT ![r] = "inactive"]
    /\ aborted' = aborted \ {r}
    /\ UNCHANGED <<reminder, note, requests, world, emitted>>

Stop(r) ==
    /\ r \in aborted
    /\ task' = [task EXCEPT ![r] = "none"]
    /\ aborted' = aborted \ {r}
    /\ UNCHANGED <<records, requests, world, emitted>>

----------------------------------------------------------------------------
(* reminder_cancel *)

BeginCancel(r) ==
    /\ reminder[r] = "pending"
    /\ At(cancel, r, "idle", "put")
    /\ UNCHANGED <<records, task, aborted, create, pop, promised, handed, world, emitted>>

CancelUnmarked(r) ==
    /\ At(cancel, r, "put", "list")
    /\ UNCHANGED <<records, task, aborted, create, pop, promised, handed, world, emitted>>

CancelPut(r) ==
    /\ At(cancel, r, "put", "list")
    /\ reminder' = [reminder EXCEPT ![r] = "cancelled"]
    /\ UNCHANGED <<timer, note, task, aborted, create, pop, promised, handed, world, emitted>>

\* cancel_by_metadata sees active timers only; without one the call is over.
CancelList(r) ==
    /\ cancel[r] = "list"
    /\ IF timer[r] = "active"
         THEN cancel' = [cancel EXCEPT ![r] = "stop"] /\ UNCHANGED promised
         ELSE cancel' = [cancel EXCEPT ![r] = "idle"] /\ promised' = promised \cup {r}
    /\ UNCHANGED <<records, task, aborted, create, pop, handed, world, emitted>>

CancelStop(r) ==
    /\ At(cancel, r, "stop", "abort")
    /\ timer' = [timer EXCEPT ![r] = "inactive"]
    /\ UNCHANGED <<reminder, note, task, aborted, create, pop, promised, handed, world, emitted>>

\* abort() ends a waiting task at once and a running one at its next await, if any.
CancelAbort(r) ==
    /\ At(cancel, r, "abort", "idle")
    /\ promised' = promised \cup {r}
    /\ IF create[r] = "handle" \/ task[r] = "none" THEN UNCHANGED <<task, aborted>>
       ELSE IF task[r] \in {"sleep", "held"}
              THEN task' = [task EXCEPT ![r] = "none"] /\ UNCHANGED aborted
              ELSE aborted' = aborted \cup {r} /\ UNCHANGED task
    /\ UNCHANGED <<records, create, pop, handed, world, emitted>>

----------------------------------------------------------------------------
(* NotificationQueue *)

Waiting == {r \in Reminder : note[r] = "pending"}
Idle == [todo |-> {}, out |-> {}]

\* The oldest pending ones up to the limit; which are oldest does not matter here.
BeginPop(p) ==
    /\ pop[p] = Idle
    /\ \E S \in SUBSET Waiting :
         /\ S # {} /\ Cardinality(S) <= Limit
         /\ Cardinality(S) = Limit \/ S = Waiting
         /\ pop' = [pop EXCEPT ![p] = [todo |-> S, out |-> {}]]
    /\ UNCHANGED <<records, task, aborted, create, cancel, promised, handed, world, emitted>>

PopPut(p) ==
    \E r \in pop[p].todo :
      /\ pop' = [pop EXCEPT ![p] = [todo |-> @.todo \ {r}, out |-> @.out \cup {r}]]
      /\ note' = [note EXCEPT ![r] = "delivered"]
      /\ UNCHANGED <<reminder, timer, task, aborted, create, cancel, promised, handed, world, emitted>>

PopAnswer(p) ==
    /\ pop[p].todo = {} /\ pop[p].out # {}
    /\ handed' = [r \in Reminder |-> IF r \in pop[p].out THEN handed[r] + 1 ELSE handed[r]]
    /\ pop' = [pop EXCEPT ![p] = Idle]
    /\ UNCHANGED <<records, task, aborted, create, cancel, promised, world, emitted>>

\* The delivered notification is older than its time to live.
CleanUp(r) ==
    /\ At(note, r, "delivered", "none")
    /\ UNCHANGED <<reminder, timer, task, aborted, requests, world, emitted>>

----------------------------------------------------------------------------
(* Crash and restart *)

Lost(state) == IF state \in {"no", "done"} THEN state ELSE "lost"

Forget ==
    /\ crashes < MaxCrashes /\ crashes' = crashes + 1
    /\ held' \in {held, {}}
    /\ create' = [r \in Reminder |-> Lost(create[r])]
    /\ cancel' = [r \in Reminder |-> "idle"]
    /\ pop' = [p \in Pop |-> Idle]
    /\ aborted' = {}
    /\ UNCHANGED <<records, promised, handed, emitted>>

CrashForgetful ==
    /\ Forget
    /\ task' = [r \in Reminder |-> "none"]

\* TimerRegistry::start spawns a task for every active timer.
Crash ==
    /\ Forget
    /\ task' = [r \in Reminder |-> IF timer[r] = "active" THEN "sleep" ELSE "none"]

----------------------------------------------------------------------------

Init ==
    /\ reminder = [r \in Reminder |-> "none"] /\ timer = [r \in Reminder |-> "none"]
    /\ note = [r \in Reminder |-> "none"] /\ task = [r \in Reminder |-> "none"]
    /\ create = [r \in Reminder |-> "no"] /\ cancel = [r \in Reminder |-> "idle"]
    /\ pop = [p \in Pop |-> Idle]
    /\ emitted = [r \in Reminder |-> 0] /\ handed = [r \in Reminder |-> 0]
    /\ aborted = {} /\ promised = {} /\ held = HeldAtStart /\ crashes = 0

Creating(r) == PutReminder(r) \/ RegisterTimer(r) \/ Spawn(r) \/ KeepHandle(r)
Firing(r) == Due(r) \/ MarkRead(r) \/ MarkPut(r) \/ Push(r) \/ Close(r)
Cancelling(r) == CancelPut(r) \/ CancelList(r) \/ CancelStop(r) \/ CancelAbort(r)

Next ==
    \/ \E r \in Reminder : \/ BeginCreate(r) \/ Creating(r) \/ Firing(r) \/ Stop(r)
                           \/ BeginCancel(r) \/ Cancelling(r) \/ CleanUp(r)
    \/ \E p \in Pop : BeginPop(p) \/ PopPut(p) \/ PopAnswer(p)
    \/ Crash

Spec == Init /\ [][Next]_vars

\* A request and a timer task run on once begun; sleep() ends.
FairSpec == /\ Spec
            /\ \A r \in Reminder : WF_vars(Creating(r)) /\ WF_vars(Firing(r))

----------------------------------------------------------------------------
(* Properties *)

TypeOK ==
    /\ reminder \in [Reminder -> {"none", "pending", "cancelled", "fired"}]
    /\ timer \in [Reminder -> {"none", "active", "inactive"}]
    /\ note \in [Reminder -> {"none", "pending", "delivered"}]
    /\ task \in [Reminder -> {"none", "sleep", "held", "read", "put", "push", "close"}]
    /\ create \in [Reminder -> {"no", "put", "timer", "spawn", "handle", "done", "lost"}]
    /\ cancel \in [Reminder -> {"idle", "put", "list", "stop", "abort"}]
    /\ pop \in [Pop -> [todo : SUBSET Reminder, out : SUBSET Reminder]]
    /\ emitted \in [Reminder -> Nat] /\ handed \in [Reminder -> Nat]
    /\ aborted \subseteq Reminder /\ promised \subseteq Reminder
    /\ held \subseteq Reminder /\ crashes \in Nat

\* "cancelled_and_fired_reminders_never_emit_again" (lib.rs:1805): whatever crash
\* or cancellation comes between the steps, a reminder is announced at most once.
EmittedOnce == \A r \in Reminder : emitted[r] <= 1

\* A pending reminder that was answered has an active timer and a task for it, so
\* that it fires; a held one too ("Keep this one-shot active in storage", lib.rs:1660).
PendingIsScheduled ==
    \A r \in Pending : create[r] = "done" => timer[r] = "active" /\ task[r] # "none"

\* Once a cancellation was answered, a handler that has not yet read the record
\* stays silent, even one whose handle the cancellation missed (timer.rs:226).
Past(r) == task[r] \in {"put", "push"}
QuietAfterCancel ==
    [][\A r \in promised : ~Past(r) /\ emitted[r] = 0 => ~Past(r)' /\ emitted'[r] = 0]_vars

\* A reminder that is not held is announced or cancelled in the end.  Only a restart
\* may leave it fired and unannounced, none leaves it pending.
Served == \A r \in Reminder :
            (create[r] = "done" /\ r \notin held)
              ~> \/ emitted[r] = 1 \/ reminder[r] = "cancelled" \/ r \in promised
                 \/ crashes > 0 /\ reminder[r] = "fired"
=============================================================================
