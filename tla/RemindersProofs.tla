-------------------------- MODULE RemindersProofs --------------------------
(***************************************************************************)
(* Proofs about Reminders: type correctness, EmittedOnce,                  *)
(* PendingIsScheduled and QuietAfterCancel, for any number of reminders,   *)
(* requests and crashes.  The inductive invariant is ReminderOK: once a    *)
(* reminder is over (cancelled or fired) it never is pending again, and    *)
(* every step that could announce it twice, or leave it without a task,    *)
(* starts from a reminder that is over.                                    *)
(***************************************************************************)
EXTENDS Reminders, TLAPS

Over(r) == reminder[r] \in {"cancelled", "fired"}

ReminderOK(r) ==
    /\ emitted[r] \in {0, 1}
    /\ emitted[r] = 1 => Over(r) /\ ~Past(r)
    /\ \/ task[r] = "push" \/ cancel[r] \in {"list", "stop", "abort"}
       \/ r \in aborted \/ r \in promised
       => Over(r)
    /\ create[r] \in {"no", "put", "timer", "spawn"} => task[r] = "none"
    /\ create[r] \in {"no", "put"} =>
         reminder[r] = "none" /\ timer[r] = "none" /\ cancel[r] = "idle" /\ emitted[r] = 0
    /\ create[r] = "spawn" /\ reminder[r] = "pending" => timer[r] = "active"
    /\ create[r] \in {"handle", "done"} /\ reminder[r] = "pending" =>
         timer[r] = "active" /\ task[r] \notin {"none", "close"}

IndInv == TypeOK /\ \A r \in Reminder : ReminderOK(r)

\* What ReminderOK(q) looks at is what it was.
Same(q) ==
    /\ reminder'[q] = reminder[q] /\ timer'[q] = timer[q] /\ task'[q] = task[q]
    /\ create'[q] = create[q] /\ cancel'[q] = cancel[q] /\ emitted'[q] = emitted[q]
    /\ (q \in aborted' <=> q \in aborted) /\ (q \in promised' <=> q \in promised)

----------------------------------------------------------------------------

\* The initial states satisfy the inductive invariant.
LEMMA IndInvInit == Init => IndInv
<1> SUFFICES ASSUME Init PROVE IndInv
  OBVIOUS
<1>1. TypeOK
  BY RemindersAssumption DEF Init, TypeOK, Idle
<1>2. ASSUME NEW r \in Reminder PROVE ReminderOK(r)
  BY DEF Init, ReminderOK, Over, Past
<1> QED
  BY <1>1, <1>2 DEF IndInv

\* A reminder no step touched stays as it should be.
LEMMA Untouched == ASSUME NEW q \in Reminder, ReminderOK(q), Same(q) PROVE ReminderOK(q)'
BY DEF Same, ReminderOK, Over, Past

\* Creation keeps the invariant.
LEMMA CreateStep ==
    ASSUME IndInv, NEW r \in Reminder, BeginCreate(r) \/ Creating(r) PROVE IndInv'
<1> USE DEF IndInv, At
<1>1. TypeOK'
  BY DEF TypeOK, BeginCreate, Creating, PutReminder, RegisterTimer, Spawn, KeepHandle,
         records, requests, world
<1>2. ReminderOK(r)'
  BY DEF TypeOK, ReminderOK, Over, Past, BeginCreate, Creating, PutReminder, RegisterTimer,
         Spawn, KeepHandle, records, requests, world
<1>3. ASSUME NEW q \in Reminder \ {r} PROVE Same(q)
  BY DEF TypeOK, Same, BeginCreate, Creating, PutReminder, RegisterTimer, Spawn, KeepHandle,
         records, requests, world
<1> QED
  BY <1>1, <1>2, <1>3, Untouched

\* A timer task keeps the invariant.
LEMMA FireStep ==
    ASSUME IndInv, NEW r \in Reminder, Firing(r) \/ Stop(r) PROVE IndInv'
<1> USE DEF IndInv, At
<1>1. TypeOK'
  <2>1. CASE Due(r) \/ MarkRead(r)
    BY <2>1 DEF TypeOK, Due, MarkRead, records, requests, world
  <2>2. CASE MarkPut(r)
    BY <2>2 DEF TypeOK, MarkPut, requests, world
  <2>3. CASE Push(r)
    BY <2>3 DEF TypeOK, Push, requests, world
  <2>4. CASE Close(r)
    BY <2>4 DEF TypeOK, Close, requests, world
  <2>5. CASE Stop(r)
    BY <2>5 DEF TypeOK, Stop, records, requests, world
  <2> QED
    BY <2>1, <2>2, <2>3, <2>4, <2>5 DEF Firing
<1>2. ReminderOK(r)'
  <2>1. CASE Due(r)
    BY <2>1 DEF TypeOK, ReminderOK, Over, Past, Due, records, requests, world
  <2>2. CASE MarkRead(r)
    BY <2>2 DEF TypeOK, ReminderOK, Over, Past, MarkRead, records, requests, world
  <2>3. CASE MarkPut(r)
    BY <2>3 DEF TypeOK, ReminderOK, Over, Past, MarkPut, requests, world
  <2>4. CASE Push(r)
    <3>1. Over(r) /\ emitted[r] = 0 /\ create[r] \notin {"no", "put", "timer", "spawn"}
      BY <2>4 DEF ReminderOK, Past, Push
    <3>2. emitted'[r] = 1 /\ task'[r] = "close"
      BY <2>4, <3>1 DEF TypeOK, Push
    <3>3. /\ reminder' = reminder /\ timer' = timer /\ create' = create
          /\ cancel' = cancel /\ aborted' = aborted /\ promised' = promised
      BY <2>4 DEF Push, requests
    <3>4. Over(r)' /\ ~Past(r)' /\ reminder'[r] # "pending"
      BY <3>1, <3>2, <3>3 DEF Over, Past
    <3> QED
      BY <3>1, <3>2, <3>3, <3>4 DEF ReminderOK
  <2>5. CASE Close(r)
    BY <2>5 DEF TypeOK, ReminderOK, Over, Past, Close, requests, world
  <2>6. CASE Stop(r)
    BY <2>6 DEF TypeOK, ReminderOK, Over, Past, Stop, records, requests, world
  <2> QED
    BY <2>1, <2>2, <2>3, <2>4, <2>5, <2>6 DEF Firing
<1>3. ASSUME NEW q \in Reminder \ {r} PROVE Same(q)
  BY DEF TypeOK, Same, Firing, Stop, Due, MarkRead, MarkPut, Push, Close, records, requests, world
<1> QED
  BY <1>1, <1>2, <1>3, Untouched

\* A cancellation keeps the invariant.
LEMMA CancelStep ==
    ASSUME IndInv, NEW r \in Reminder, BeginCancel(r) \/ Cancelling(r) PROVE IndInv'
<1> USE DEF IndInv, At
<1>1. TypeOK'
  BY DEF TypeOK, BeginCancel, Cancelling, CancelPut, CancelList, CancelStop, CancelAbort,
         records, world
<1>2. ReminderOK(r)'
  <2>1. CASE BeginCancel(r) \/ CancelPut(r)
    BY <2>1 DEF TypeOK, ReminderOK, Over, Past, BeginCancel, CancelPut, records, world
  <2>2. CASE CancelList(r) \/ CancelStop(r)
    BY <2>2 DEF TypeOK, ReminderOK, Over, Past, CancelList, CancelStop, records, world
  <2>3. CASE CancelAbort(r)
    BY <2>3 DEF TypeOK, ReminderOK, Over, Past, CancelAbort, records, world
  <2> QED
    BY <2>1, <2>2, <2>3 DEF Cancelling
<1>3. ASSUME NEW q \in Reminder \ {r} PROVE Same(q)
  BY DEF TypeOK, Same, BeginCancel, Cancelling, CancelPut, CancelList, CancelStop, CancelAbort,
         records, world
<1> QED
  BY <1>1, <1>2, <1>3, Untouched

\* The notification queue keeps the invariant: it touches no reminder.
LEMMA QueueStep ==
    ASSUME IndInv,
           \/ \E r \in Reminder : CleanUp(r)
           \/ \E p \in Pop : BeginPop(p) \/ PopPut(p) \/ PopAnswer(p)
    PROVE  IndInv'
<1> USE DEF IndInv, At
<1>1. TypeOK'
  <2>1. CASE \E r \in Reminder : CleanUp(r)
    BY <2>1 DEF TypeOK, CleanUp, requests, world
  <2>2. ASSUME NEW p \in Pop, BeginPop(p) PROVE TypeOK'
    BY <2>2 DEF TypeOK, BeginPop, Waiting, records, world
  <2>3. ASSUME NEW p \in Pop, PopPut(p) PROVE TypeOK'
    BY <2>3 DEF TypeOK, PopPut, world
  <2>4. ASSUME NEW p \in Pop, PopAnswer(p) PROVE TypeOK'
    BY <2>4 DEF TypeOK, PopAnswer, Idle, records, world
  <2> QED
    BY <2>1, <2>2, <2>3, <2>4
<1>2. ASSUME NEW q \in Reminder PROVE Same(q)
  BY DEF Same, CleanUp, BeginPop, PopPut, PopAnswer, records, requests, world
<1> QED
  BY <1>1, <1>2, Untouched

\* A crash and restart keep the invariant.
LEMMA CrashStep == ASSUME IndInv, Crash PROVE IndInv'
<1> USE DEF IndInv
<1>1. TypeOK'
  BY DEF TypeOK, Crash, Forget, Lost, Idle, records
<1>2. ASSUME NEW r \in Reminder PROVE ReminderOK(r)'
  <2>1. /\ reminder' = reminder /\ timer' = timer /\ emitted' = emitted /\ promised' = promised
        /\ aborted' = {} /\ cancel'[r] = "idle"
        /\ task'[r] = IF timer[r] = "active" THEN "sleep" ELSE "none"
    BY DEF Crash, Forget, records
  <2>2. create'[r] = IF create[r] \in {"no", "done"} THEN create[r] ELSE "lost"
    BY DEF Crash, Forget, Lost
  <2>3. create[r] = "no" => timer[r] # "active"
    BY DEF ReminderOK
  <2> QED
    BY <2>1, <2>2, <2>3 DEF ReminderOK, Over, Past
<1> QED
  BY <1>1, <1>2

\* Every step keeps the invariant.
LEMMA IndInvStep == IndInv /\ [Next]_vars => IndInv'
<1> SUFFICES ASSUME IndInv, [Next]_vars PROVE IndInv'
  OBVIOUS
<1>1. CASE UNCHANGED vars
  <2>1. TypeOK'
    BY <1>1 DEF IndInv, TypeOK, vars, records, requests, world
  <2>2. \A r \in Reminder : Same(r)
    BY <1>1 DEF Same, vars, records, requests, world
  <2> QED
    BY <2>1, <2>2, Untouched DEF IndInv
<1>2. CASE Next
  BY <1>2, CreateStep, FireStep, CancelStep, QueueStep, CrashStep DEF Next
<1> QED
  BY <1>1, <1>2

----------------------------------------------------------------------------

THEOREM Invariance == Spec => []IndInv
BY IndInvInit, IndInvStep, PTL DEF Spec

\* The state of the reminder subsystem always has the types TypeOK gives it.
THEOREM TypeCorrect == Spec => []TypeOK
<1>1. IndInv => TypeOK
  BY DEF IndInv
<1> QED
  BY <1>1, Invariance, PTL

\* No interleaving of firing, cancelling, crashing and restarting announces a
\* reminder twice (mark_fired, reminders.rs:143-153).
THEOREM NeverTwice == Spec => []EmittedOnce
<1>1. IndInv => EmittedOnce
  BY DEF IndInv, ReminderOK, EmittedOnce
<1> QED
  BY <1>1, Invariance, PTL

\* An answered reminder that is pending has its timer and a task, across restarts
\* (TimerRegistry::register and start, timer.rs:74-127).
THEOREM NeverForgotten == Spec => []PendingIsScheduled
<1>1. IndInv => PendingIsScheduled
  BY DEF IndInv, ReminderOK, PendingIsScheduled, Pending
<1> QED
  BY <1>1, Invariance, PTL

\* After an answered cancellation a task that has not read the record stays silent
\* (ReminderManager::cancel, reminders.rs:89-102).
THEOREM StaysQuiet == Spec => QuietAfterCancel
<1>1. ASSUME IndInv, Next, NEW r \in promised, ~Past(r), emitted[r] = 0
      PROVE  ~Past(r)' /\ emitted'[r] = 0
  <2> r \in Reminder
    BY <1>1 DEF IndInv, TypeOK
  <2>1. reminder[r] # "pending" /\ create[r] \notin {"no", "put"}
    BY <1>1 DEF IndInv, ReminderOK, Over
  <2>2. ASSUME NEW q \in Reminder, BeginCreate(q) \/ Creating(q) PROVE ~Past(r)' /\ emitted'[r] = 0
    BY <1>1, <2>2 DEF IndInv, TypeOK, Past, At, BeginCreate, Creating, PutReminder, RegisterTimer,
       Spawn, KeepHandle
  <2>3. ASSUME NEW q \in Reminder, Firing(q) \/ Stop(q) PROVE ~Past(r)' /\ emitted'[r] = 0
    BY <1>1, <2>1, <2>3 DEF IndInv, TypeOK, Past, At, Firing, Stop, Due, MarkRead, MarkPut, Push, Close
  <2>4. ASSUME NEW q \in Reminder, BeginCancel(q) \/ Cancelling(q) PROVE ~Past(r)' /\ emitted'[r] = 0
    BY <1>1, <2>4 DEF IndInv, TypeOK, Past, At, BeginCancel, Cancelling, CancelPut, CancelList,
       CancelStop, CancelAbort
  <2>5. ASSUME NEW q \in Reminder, CleanUp(q) PROVE ~Past(r)' /\ emitted'[r] = 0
    BY <1>1, <2>5 DEF Past, CleanUp
  <2>6. ASSUME NEW p \in Pop, BeginPop(p) \/ PopPut(p) \/ PopAnswer(p)
        PROVE  ~Past(r)' /\ emitted'[r] = 0
    BY <1>1, <2>6 DEF Past, BeginPop, PopPut, PopAnswer
  <2>7. CASE Crash
    BY <1>1, <2>7 DEF Past, Crash, Forget
  <2> QED
    BY <1>1, <2>2, <2>3, <2>4, <2>5, <2>6, <2>7 DEF Next
<1>2. IndInv /\ [Next]_vars =>
        [\A r \in promised : ~Past(r) /\ emitted[r] = 0 => ~Past(r)' /\ emitted'[r] = 0]_vars
  BY <1>1
<1> QED
  BY <1>2, Invariance, PTL DEF Spec, QuietAfterCancel
=============================================================================
