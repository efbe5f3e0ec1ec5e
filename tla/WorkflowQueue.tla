--------------------------- MODULE WorkflowQueue ---------------------------
(***************************************************************************)
(* The durable task FIFO of slc-core (crates/slc-core/src/workflow.rs).    *)
(*                                                                         *)
(* Every operation takes the engine's `workflow_lock` and then performs    *)
(* several SEPARATE durable writes: an immutable event, its idempotency    *)
(* index, the task document (status, then queue state), the assignment     *)
(* index, the seat's active-task pointer.  No two of them share a          *)
(* transaction, so a storage error, a dropped request or a crash can stop  *)
(* an operation between any two.  Here one action is one durable write;    *)
(* what an operation reads under the lock is read in the action that uses  *)
(* it.  `op` is the operation that holds the lock, `rec` its reconciliation*)
(* frame; both are volatile.                                               *)
(*                                                                         *)
(* Some definitions have a wrong sibling just before them (MayStartQueued, *)
(* ...): a plausible bug in the same code, used only to show that          *)
(* the properties notice it.                                               *)
(***************************************************************************)
EXTENDS Naturals, FiniteSets

CONSTANTS
    Task,            \* document ids a task can get
    Principal,       \* workflow principals (one seat each)
    Key,             \* idempotency keys clients supply
    Uuid,            \* ids of events appended without a key (bound)
    Data,            \* assignment fields, report summaries, cancel reasons
    Generation,      \* operator generations, NoGeneration among them
    CanAssign,       \* <<p, q>>: p may assign to q (task_assign_acl)
    Coordinator,     \* principals whose ACL holds "*"
    Manages,         \* <<p, q>>: p is a manager of q's seat
    AnchorWriter,    \* seats whose pointer is also set outside the lock
    Requests,        \* kinds of requests clients make (bound)
    ReportStatus,    \* statuses clients report
    ClockSteps,      \* readings that may step backwards: "order", "event"
    MaxClock,        \* bound on the ranks of such readings
    MaxDepth,        \* MAX_ASSIGNEE_QUEUE_DEPTH
    MaxEdits,        \* bound on manager edits of one task
    Holds,           \* the hold lists an operator configures
    MaxFaults,       \* bound on storage errors, dropped requests, restarts
    NoTask, NoKey, NoGeneration, NoEvent, NoData, NoPrincipal

Terminal == {"COMPLETED", "BLOCKED", "FAILED", "CANCELLED"}
Status   == {"absent", "PENDING", "IN_WORK"} \cup Terminal
QueueState == {"queued", "ready", "running", "terminal"}

\* The engine's own keys: queue-ready-v1, queue-repair-v1, assignment-created-v1.
ReadyKey(t)     == <<"ready", t>>
RepairKey(t, p) == <<"repair", t, p>>
CreatedKey(k)   == <<"created", k>>
EngineKey == {ReadyKey(t) : t \in Task}
               \cup {RepairKey(t, p) : t \in Task, p \in Task \cup {NoTask}}
               \cup {CreatedKey(k) : k \in Key}

Queue == "slc-queue"      \* the actor of the engine's own events
EventId == [by : Principal \cup {Queue}, key : Key \cup Uuid \cup EngineKey]
EventKinds == {"created", "ready", "started", "progress", "report", "status_changed",
               "message", "update"}
About == [task : Task, kind : EventKinds, status : Status \cup {"none"},
          data : Data \cup {NoData}]
Event == [id : EventId, at : Nat, about : About]

Doc == [status : Status, queue : QueueState, readyEvent : EventId \cup {NoEvent},
        order : Nat, issuer : Principal \cup {NoPrincipal},
        assignee : Principal \cup {NoPrincipal}, key : Key \cup {NoKey},
        fields : Data \cup {NoData}, generation : Generation,
        lastEvent : EventId \cup {NoEvent}, lastAt : Nat,
        summary : Data \cup {NoData}, edits : Nat]

OpKind == {"none", "assign", "start", "report", "cancel", "message", "update",
           "reconcile"}
OpPc == {"none", "reconcile", "create", "event", "index", "edit", "touch",
         "assignIndex", "project", "anchor", "anchorCheck", "anchorClear"}
Op == [kind : OpKind, pc : OpPc, actor : Principal \cup {NoPrincipal},
       lane : Principal \cup {NoPrincipal}, task : Task \cup {NoTask},
       key : Key \cup {NoKey}, status : Status \cup {"none"},
       data : Data \cup {NoData}, event : EventId \cup {NoEvent}]
Rec == [job : {"none", "demote", "promote"},
        pc : {"none", "event", "index", "touch", "project"},
        task : Task \cup {NoTask}, event : EventId \cup {NoEvent}]

ASSUME ConstantsAssumption ==
    /\ CanAssign \subseteq Principal \X Principal
    /\ Coordinator \subseteq Principal
    /\ Manages \subseteq Principal \X Principal
    /\ AnchorWriter \subseteq Principal
    /\ Requests \subseteq OpKind
    /\ ReportStatus \subseteq {"IN_WORK", "COMPLETED", "BLOCKED", "FAILED"}
    /\ ClockSteps \subseteq {"order", "event"}
    /\ MaxClock \in Nat /\ MaxDepth \in Nat /\ MaxEdits \in Nat /\ MaxFaults \in Nat
    /\ Holds \subseteq SUBSET Principal /\ Holds # {}
    /\ NoGeneration \in Generation
    /\ NoTask \notin Task /\ NoKey \notin Key /\ NoPrincipal \notin Principal
    /\ NoEvent \notin EventId
ASSUME QueueAssumption == Queue \notin Principal

VARIABLES
    doc,          \* task documents: canonical projection of each task
    events,       \* TASK_EVENTS: the immutable event stream
    indexed,      \* TASK_EVENT_IDEMPOTENCY: ids of the events it points at
    assignIndex,  \* TASK_ASSIGN_IDEMPOTENCY: <<issuer, key, task>>
    active,       \* Seat::active_task_id of each principal's seat
    held,         \* SLC_WORKFLOW_HOLD_SEATS of this process
    generation,   \* SLC_WORKFLOW_GENERATION of this process
    op, rec,      \* the holder of workflow_lock and its reconciliation
    faults        \* faults so far (bound)

durable == <<doc, events, indexed, assignIndex, active>>
config  == <<held, generation>>
vars    == <<durable, config, op, rec, faults>>

----------------------------------------------------------------------------
(* The projection of a task, and the lane of a principal. *)

Exists(t) == doc[t].status # "absent"

Effective(d) ==
    IF d.status \in Terminal THEN "terminal"
    ELSE IF d.status = "IN_WORK" THEN "running"
    ELSE IF d.queue \in {"ready", "running"} THEN d.queue
    ELSE "queued"

Reserves(d) == Effective(d) \in {"ready", "running"}

Lane(a) == {t \in Task : /\ Exists(t) /\ doc[t].assignee = a
                         /\ Effective(doc[t]) # "terminal"}

Reserved(a) == {t \in Lane(a) : Reserves(doc[t])}
Running(a)  == {t \in Lane(a) : Effective(doc[t]) = "running"}

IsHead(a, t) == t \in Lane(a) /\ \A u \in Lane(a) \ {t} : doc[t].order < doc[u].order

Current(d) == generation = NoGeneration \/ d.generation = generation

\* The reservation reconciliation keeps: a running task, else the head if ready.
PreservedNotHead(a, t) == t \in Running(a) \/ (Running(a) = {} /\ t \in Reserved(a))
Preserved(a, t) == \/ t \in Running(a)
                   \/ Running(a) = {} /\ t \in Reserved(a) /\ IsHead(a, t)

CanAccess(p, t) == p \in {doc[t].issuer, doc[t].assignee} \cup Coordinator
                     \/ <<p, doc[t].assignee>> \in Manages

\* A missing task argument falls back to the caller's active task.
TaskOrActive(p, given) ==
    IF given # NoTask THEN given
    ELSE IF active[p] # NoTask /\ doc[active[p]].assignee = p THEN active[p]
    ELSE NoTask

----------------------------------------------------------------------------
(* Building blocks. *)

NoDoc == [status |-> "absent", queue |-> "queued", readyEvent |-> NoEvent,
          order |-> 0, issuer |-> NoPrincipal, assignee |-> NoPrincipal,
          key |-> NoKey, fields |-> NoData, generation |-> NoGeneration,
          lastEvent |-> NoEvent, lastAt |-> 0, summary |-> NoData, edits |-> 0]
NoOp  == [kind |-> "none", pc |-> "none", actor |-> NoPrincipal,
          lane |-> NoPrincipal, task |-> NoTask, key |-> NoKey,
          status |-> "none", data |-> NoData, event |-> NoEvent]
NoRec == [job |-> "none", pc |-> "none", task |-> NoTask, event |-> NoEvent]

Idle       == op.kind = "none"
Free(kind) == Idle /\ kind \in Requests
Release == op' = NoOp /\ rec' = NoRec
Goto(p) == op' = [op EXCEPT !.pc = p] /\ rec' = NoRec

\* Wall-clock readings.  Only timestamps of events of one task, or of two
\* queue orders, are ever compared, so each is its rank; a clock that steps
\* backwards (ClockSteps) may give any rank up to MaxClock.  A uuid breaks ties of orders.
EventTime(t) == IF "event" \in ClockSteps THEN 1..MaxClock
                ELSE {1 + Cardinality({e \in events : e.about.task = t})}
OrderTime == IF "order" \in ClockSteps THEN {n \in 1..MaxClock : \A u \in Task : doc[u].order # n}
             ELSE {1 + Cardinality({u \in Task : Exists(u)})}

Recorded(id, about)    == \E e \in events : e.id = id /\ e.about = about
NeverConflicting(id, about) == FALSE
Conflicting(id, about) == \E e \in events : e.id = id /\ e.about # about
Unrecorded(id)         == \A e \in events : e.id # id

PutEvent(id, about) ==
    \E n \in EventTime(about.task) :
        events' = events \cup {[id |-> id, at |-> n, about |-> about]}

\* touch_task_projection: merge event `id` and the status it carries.
Applies(d, status) ==
    /\ status # "none" /\ d.status # status /\ d.status \notin Terminal
    /\ status \in Terminal \/ (status = "IN_WORK" /\ d.status = "PENDING")

StaleSameOnly(d, e) == d.lastEvent = e.id
Stale(d, e) == d.lastEvent = e.id \/ (d.lastEvent # NoEvent /\ d.lastAt >= e.at)

Touched(d, e, status, summary) ==
    LET result == IF Applies(d, status) THEN status ELSE d.status
    IN  [d EXCEPT
           !.lastEvent = IF Stale(d, e) THEN d.lastEvent ELSE e.id,
           !.lastAt    = IF Stale(d, e) THEN d.lastAt ELSE e.at,
           !.status    = result,
           !.summary   = IF summary # NoData /\ result = status
                         THEN summary ELSE d.summary]

Touch(t, id, status, summary) ==
    \E e \in events :
        /\ e.id = id
        /\ doc' = [doc EXCEPT ![t] = Touched(doc[t], e, status, summary)]

\* set_task_queue_projection.
Project(t, state, readyEvent) ==
    doc' = [doc EXCEPT ![t].queue = state, ![t].readyEvent = readyEvent]

\* What the operation in progress records, and under which event id.
EventKind ==
    CASE op.kind = "assign"  -> "created"
      [] op.kind = "start"   -> "started"
      [] op.kind = "report"  -> IF op.status \in Terminal THEN "report" ELSE "progress"
      [] op.kind = "cancel"  -> "status_changed"
      [] op.kind = "message" -> "message"
      [] OTHER               -> "update"

OpAbout == [task |-> op.task, kind |-> EventKind, status |-> op.status,
            data |-> IF op.kind = "assign" THEN NoData ELSE op.data]

OpEventKey == IF op.kind = "assign" THEN CreatedKey(op.key) ELSE op.key

\* Only starts, reports and cancellations carry a status into the projection.
OpStatus  == IF op.kind \in {"start", "report", "cancel"} THEN op.status ELSE "none"
OpSummary == IF OpStatus \in Terminal THEN op.data ELSE NoData

\* Bounds: without a key the event needs an unused uuid, a new task an unused id.
Identified(k) == k # NoKey \/ \E u \in Uuid : \A e \in events : e.id.key # u
HasRoom == \E t \in Task : ~Exists(t)

\* An operation that already appended its event under this key.
Replayed(p, k, about) == k # NoKey /\ Recorded([by |-> p, key |-> k], about)

RepairIndex(p, k) == indexed' = indexed \cup {[by |-> p, key |-> k]}

Request(kind, pc, p, t, k, status, data) ==
    [kind |-> kind, pc |-> pc, actor |-> p,
     lane |-> IF t = NoTask THEN NoPrincipal ELSE doc[t].assignee,
     task |-> t, key |-> k, status |-> status, data |-> data, event |-> NoEvent]

----------------------------------------------------------------------------
(* Reconciliation of the lane op.lane (reconcile_task_queue_locked). *)

\* Two running writers: the queue refuses to go on.
Corrupt(a) == \E t, u \in Running(a) : t # u

Scanning == op.pc = "reconcile" /\ rec.job = "none"
Repairing == Scanning /\ ~Corrupt(op.lane)

Demotable(a)  == {t \in Reserved(a) : Effective(doc[t]) = "ready" /\ ~Preserved(a, t)}
PromotableHeld(a) == {t \in Lane(a) : /\ IsHead(a, t) /\ Current(doc[t])
                                      /\ \A u \in Lane(a) : ~Preserved(a, u)}
Promotable(a) == {t \in Lane(a) : /\ IsHead(a, t)
                                  /\ a \notin held
                                  /\ \A u \in Lane(a) : ~Preserved(a, u)
                                  /\ Current(doc[t])}

\* Stored queue states that disagree with the effective ones.
Unnormalised(a) ==
    {t \in Lane(a) : \/ doc[t].queue # Effective(doc[t])
                     \/ Effective(doc[t]) = "queued" /\ doc[t].readyEvent # NoEvent}

\* A ready reservation that is not the one to keep loses it.
Demote ==
    /\ Repairing
    /\ \E t \in Demotable(op.lane) : rec' = [NoRec EXCEPT !.job = "demote", !.pc = "event", !.task = t]
    /\ UNCHANGED <<durable, config, op, faults>>

\* The head of an unreserved, unheld lane gets the reservation.
Promote ==
    /\ Repairing /\ Demotable(op.lane) = {}
    /\ \E t \in Promotable(op.lane) : rec' = [NoRec EXCEPT !.job = "promote", !.pc = "event", !.task = t]
    /\ UNCHANGED <<durable, config, op, faults>>

Normalise ==
    /\ Repairing /\ Demotable(op.lane) = {} /\ Promotable(op.lane) = {}
    /\ \E t \in Unnormalised(op.lane) :
         Project(t, Effective(doc[t]),
                 IF Effective(doc[t]) = "queued" THEN NoEvent ELSE doc[t].readyEvent)
    /\ UNCHANGED <<events, indexed, assignIndex, active, config, op, rec, faults>>

RecEventId ==
    [by |-> Queue,
     key |-> IF rec.job = "promote" THEN ReadyKey(rec.task)
             ELSE RepairKey(rec.task,
                            IF \E p \in Task : Preserved(op.lane, p)
                            THEN CHOOSE p \in Task : Preserved(op.lane, p) ELSE NoTask)]
RecAbout == [task |-> rec.task, status |-> "PENDING", data |-> NoData,
             kind |-> IF rec.job = "promote" THEN "ready" ELSE "status_changed"]

RecEventOnce ==
    /\ rec.pc = "event"
    /\ IF Unrecorded(RecEventId)
       THEN /\ PutEvent(RecEventId, RecAbout)
            /\ rec' = [rec EXCEPT !.pc = "index", !.event = RecEventId]
            /\ UNCHANGED op
       ELSE Release /\ UNCHANGED events
    /\ UNCHANGED <<doc, indexed, assignIndex, active, config, faults>>

RecEvent ==
    /\ rec.pc = "event"
    /\ IF Unrecorded(RecEventId)
       THEN /\ PutEvent(RecEventId, RecAbout)
            /\ rec' = [rec EXCEPT !.pc = "index", !.event = RecEventId]
            /\ UNCHANGED indexed
       ELSE /\ indexed' = indexed \cup {RecEventId}
            /\ rec' = [rec EXCEPT !.pc = "touch", !.event = RecEventId]
            /\ UNCHANGED events
    /\ UNCHANGED <<doc, assignIndex, active, config, op, faults>>

RecIndex ==
    /\ rec.pc = "index"
    /\ indexed' = indexed \cup {rec.event}
    /\ rec' = [rec EXCEPT !.pc = "touch"]
    /\ UNCHANGED <<doc, events, assignIndex, active, config, op, faults>>

RecTouch ==
    /\ rec.pc = "touch"
    /\ Touch(rec.task, rec.event, "none", NoData)
    /\ rec' = [rec EXCEPT !.pc = "project"]
    /\ UNCHANGED <<events, indexed, assignIndex, active, config, op, faults>>

RecProject ==
    /\ rec.pc = "project"
    /\ IF rec.job = "promote" THEN Project(rec.task, "ready", rec.event)
                              ELSE Project(rec.task, "queued", NoEvent)
    /\ rec' = NoRec
    /\ UNCHANGED <<events, indexed, assignIndex, active, config, op, faults>>

Settled(a) == Demotable(a) = {} /\ Promotable(a) = {} /\ Unnormalised(a) = {}

\* A new assignment finds no room; only the ready head starts.
MayStartQueued(t) == Effective(doc[t]) # "terminal"
Full(a)     == Cardinality(Lane(a)) >= MaxDepth
MayStart(t) == Effective(doc[t]) = "ready"

\* Reconciliation is over: the operation goes on, or ends.
Reconciled ==
    /\ Scanning /\ (Corrupt(op.lane) \/ Settled(op.lane))
    /\ IF Corrupt(op.lane) THEN Release
       ELSE CASE op.kind = "assign" /\ op.task = NoTask ->
                   IF Full(op.lane) THEN Release ELSE Goto("create")
              [] op.kind = "start" /\ op.event = NoEvent ->
                   IF MayStart(op.task) THEN Goto("event") ELSE Release
              [] op.kind = "start" /\ op.event # NoEvent ->
                   IF op.task \in Reserved(op.lane) /\ Current(doc[op.task])
                   THEN Goto("touch") ELSE Release
              [] OTHER -> Release
    /\ UNCHANGED <<durable, config, faults>>

----------------------------------------------------------------------------
(* Requests: the lock is taken, the guards are evaluated. *)

BeginReconcile(p, a) ==
    /\ Free("reconcile")
    /\ p = a \/ <<p, a>> \in CanAssign \/ p \in Coordinator
    /\ a \notin held
    /\ op' = [Request("reconcile", "reconcile", p, NoTask, NoKey, "none", NoData) EXCEPT !.lane = a]
    /\ UNCHANGED <<durable, config, rec, faults>>

MayAssign(p, a) == a \notin held /\ (p = a \/ <<p, a>> \in CanAssign \/ p \in Coordinator)

AssignRequest(pc, p, a, t, k, f) ==
    [Request("assign", pc, p, t, k, "PENDING", f) EXCEPT !.lane = a]

\* The key's index entry exists: return the original task.
AssignReplay(p, a, k, f) ==
    /\ Free("assign") /\ MayAssign(p, a)
    /\ \E t \in Task :
         /\ <<p, k, t>> \in assignIndex
         /\ doc[t].fields = f /\ doc[t].assignee = a
         /\ Current(doc[t]) /\ doc[t].status \notin Terminal
         /\ op' = AssignRequest("reconcile", p, a, t, k, f)
    /\ UNCHANGED <<durable, config, rec, faults>>

\* The task document landed but the index did not.
AssignRecover(p, a, k, f) ==
    /\ Free("assign") /\ MayAssign(p, a)
    /\ \A t \in Task : <<p, k, t>> \notin assignIndex
    /\ \E t \in Task :
         /\ Exists(t) /\ doc[t].issuer = p /\ doc[t].key = k /\ doc[t].assignee = a
         /\ Current(doc[t]) /\ doc[t].fields = f
         /\ op' = AssignRequest("event", p, a, t, k, f)
    /\ UNCHANGED <<durable, config, rec, faults>>

AssignNewUnscanned(p, a, k, f) ==
    /\ Free("assign") /\ Identified(k) /\ HasRoom /\ MayAssign(p, a)
    /\ k = NoKey \/ \A t \in Task : <<p, k, t>> \notin assignIndex
    /\ op' = AssignRequest("reconcile", p, a, NoTask, k, f)
    /\ UNCHANGED <<durable, config, rec, faults>>

\* The recovery scan looks only at the seat the request names.
AssignNew(p, a, k, f) ==
    /\ Free("assign") /\ Identified(k) /\ HasRoom /\ MayAssign(p, a)
    /\ k = NoKey \/ /\ \A t \in Task : <<p, k, t>> \notin assignIndex
                    /\ \A t \in Task : ~(Exists(t) /\ doc[t].issuer = p /\ doc[t].key = k
                                          /\ doc[t].assignee = a)
    /\ op' = AssignRequest("reconcile", p, a, NoTask, k, f)
    /\ UNCHANGED <<durable, config, rec, faults>>

\* A start whose event is already recorded resumes; any other begins anew.
BeginStart(p, given, k, m) ==
    /\ Free("start") /\ Identified(k) /\ p \notin held
    /\ LET t == TaskOrActive(p, given)
           about == [task |-> t, kind |-> "started", status |-> "IN_WORK", data |-> m]
           id == [by |-> p, key |-> k]
           request == Request("start", "reconcile", p, t, k, "IN_WORK", m)
       IN  /\ t # NoTask /\ Exists(t) /\ CanAccess(p, t)
           /\ Current(doc[t]) /\ doc[t].assignee = p /\ doc[t].status \notin Terminal
           /\ ~Conflicting(id, about)
           /\ IF Replayed(p, k, about)
              THEN op' = [request EXCEPT !.event = id] /\ RepairIndex(p, k)
              ELSE op' = request /\ UNCHANGED indexed
    /\ UNCHANGED <<doc, events, assignIndex, active, config, rec, faults>>

\* A report that closed its task repairs what an interrupted call left behind.
ReportReplay(p, given, status, k, s) ==
    /\ Free("report")
    /\ LET t == TaskOrActive(p, given)
           about == [task |-> t, kind |-> "report", status |-> status, data |-> s]
       IN  /\ t # NoTask /\ Exists(t) /\ CanAccess(p, t)
           /\ status \in Terminal /\ doc[t].status = status /\ doc[t].summary = s
           /\ Replayed(p, k, about) /\ RepairIndex(p, k)
           /\ op' = Request("report", "project", p, t, k, status, s)
    /\ UNCHANGED <<doc, events, assignIndex, active, config, rec, faults>>

BeginReport(p, given, status, k, s) ==
    /\ Free("report") /\ Identified(k)
    /\ LET t == TaskOrActive(p, given)
       IN  /\ t # NoTask /\ Exists(t) /\ CanAccess(p, t)
           /\ doc[t].status \notin Terminal /\ doc[t].assignee = p
           /\ Effective(doc[t]) = "running"
           /\ op' = Request("report", "event", p, t, k, status, s)
    /\ UNCHANGED <<durable, config, rec, faults>>

MayCancel(p, t) == p \in {doc[t].issuer, doc[t].assignee} \cup Coordinator

CancelReplay(p, t, k, s) ==
    /\ Free("cancel") /\ Exists(t) /\ CanAccess(p, t) /\ MayCancel(p, t)
    /\ doc[t].status = "CANCELLED" /\ doc[t].summary = s
    /\ Replayed(p, k, [task |-> t, kind |-> "status_changed", status |-> "CANCELLED", data |-> s])
    /\ RepairIndex(p, k)
    /\ op' = Request("cancel", "project", p, t, k, "CANCELLED", s)
    /\ UNCHANGED <<doc, events, assignIndex, active, config, rec, faults>>

BeginCancelRunning(p, t, k, s) ==
    /\ Free("cancel") /\ Identified(k) /\ Exists(t) /\ CanAccess(p, t) /\ MayCancel(p, t)
    /\ doc[t].status \notin Terminal
    /\ op' = Request("cancel", "event", p, t, k, "CANCELLED", s)
    /\ UNCHANGED <<durable, config, rec, faults>>

\* SLC does not control a running task's executor: only queued and ready ones.
BeginCancel(p, t, k, s) ==
    /\ Free("cancel") /\ Identified(k) /\ Exists(t) /\ CanAccess(p, t) /\ MayCancel(p, t)
    /\ Effective(doc[t]) \in {"queued", "ready"}
    /\ op' = Request("cancel", "event", p, t, k, "CANCELLED", s)
    /\ UNCHANGED <<durable, config, rec, faults>>

BeginMessage(p, given, k, m) ==
    /\ Free("message") /\ Identified(k)
    /\ LET t == TaskOrActive(p, given)
       IN  /\ t # NoTask /\ Exists(t) /\ CanAccess(p, t)
           /\ op' = Request("message", "event", p, t, k, "none", m)
    /\ UNCHANGED <<durable, config, rec, faults>>

BeginUpdate(p, t, d) ==
    /\ Free("update") /\ Identified(NoKey) /\ Exists(t) /\ <<p, doc[t].assignee>> \in Manages /\ p # doc[t].assignee
    /\ doc[t].edits < MaxEdits
    /\ op' = Request("update", "event", p, t, NoKey, "none", d)
    /\ UNCHANGED <<durable, config, rec, faults>>

----------------------------------------------------------------------------
(* The writes of the operation in progress. *)

\* task_create: the document of a new assignment.
CreateTask ==
    /\ op.pc = "create"
    /\ \E t \in Task, n \in OrderTime :
         /\ ~Exists(t)
         /\ doc' = [doc EXCEPT ![t] =
                 [NoDoc EXCEPT !.status = "PENDING", !.order = n, !.issuer = op.actor,
                               !.assignee = op.lane, !.key = op.key, !.fields = op.data,
                               !.generation = generation]]
         /\ op' = [op EXCEPT !.pc = "event", !.task = t]
    /\ UNCHANGED <<events, indexed, assignIndex, active, config, rec, faults>>

\* append_task_event under a key: append, or find the event of an earlier try.
AppendKeyed ==
    /\ op.pc = "event" /\ op.key # NoKey
    /\ LET id == [by |-> op.actor, key |-> OpEventKey]
       IN  IF Unrecorded(id)
           THEN /\ PutEvent(id, OpAbout)
                /\ op' = [op EXCEPT !.pc = "index", !.event = id]
                /\ UNCHANGED <<indexed, rec>>
           ELSE /\ IF Conflicting(id, OpAbout)
                   THEN Release /\ UNCHANGED indexed
                   ELSE /\ indexed' = indexed \cup {id}
                        /\ op' = [op EXCEPT !.pc = "touch", !.event = id]
                        /\ UNCHANGED rec
                /\ UNCHANGED events
    /\ UNCHANGED <<doc, assignIndex, active, config, faults>>

\* append_task_event without a key: a fresh uuid each time.
AppendUnkeyed ==
    /\ op.pc = "event" /\ op.key = NoKey
    /\ \E u \in Uuid :
         LET id == [by |-> op.actor, key |-> u]
         IN  /\ \A e \in events : e.id.key # u
             /\ PutEvent(id, OpAbout)
             /\ op' = [op EXCEPT !.pc = IF op.kind = "update" THEN "edit" ELSE "touch",
                                 !.event = id]
    /\ UNCHANGED <<doc, indexed, assignIndex, active, config, rec, faults>>

PutIndex ==
    /\ op.pc = "index"
    /\ indexed' = indexed \cup {op.event}
    /\ Goto("touch")
    /\ UNCHANGED <<doc, events, assignIndex, active, config, faults>>

\* A manager's edit lands after its audit event.
EditTask ==
    /\ op.pc = "edit"
    /\ doc' = [doc EXCEPT ![op.task].edits = @ + 1]
    /\ Goto("touch")
    /\ UNCHANGED <<events, indexed, assignIndex, active, config, faults>>

NextAfterTouch ==
    CASE op.kind = "assign" -> IF op.key = NoKey THEN "reconcile" ELSE "assignIndex"
      [] op.kind \in {"start", "report", "cancel"} -> "project"
      [] OTHER -> "none"

TouchTask ==
    /\ op.pc = "touch"
    /\ Touch(op.task, op.event, OpStatus, OpSummary)
    /\ IF \/ NextAfterTouch = "none"
          \/ OpStatus # "none" /\ doc'[op.task].status # OpStatus
       THEN Release ELSE Goto(NextAfterTouch)
    /\ UNCHANGED <<events, indexed, assignIndex, active, config, faults>>

PutAssignIndex ==
    /\ op.pc = "assignIndex"
    /\ assignIndex' = assignIndex \cup {<<op.actor, op.key, op.task>>}
    /\ IF doc[op.task].status \in Terminal THEN Release ELSE Goto("reconcile")
    /\ UNCHANGED <<doc, events, indexed, active, config, faults>>

ProjectTask ==
    /\ op.pc = "project"
    /\ IF op.status \in Terminal
       THEN Project(op.task, "terminal", NoEvent) /\ Goto("anchorCheck")
       ELSE /\ Project(op.task, "running", doc[op.task].readyEvent)
            /\ IF op.kind = "start" THEN Goto("anchor") ELSE Release
    /\ UNCHANGED <<events, indexed, assignIndex, active, config, faults>>

\* start_task ends by anchoring the seat on the task.
Anchor ==
    /\ op.pc = "anchor"
    /\ active' = [active EXCEPT ![op.lane] = op.task]
    /\ Release
    /\ UNCHANGED <<doc, events, indexed, assignIndex, config, faults>>

\* Closing a task reads the seat, then rewrites it: two storage calls.
AnchorCheck ==
    /\ op.pc = "anchorCheck"
    /\ IF active[op.lane] = op.task THEN Goto("anchorClear") ELSE Goto("reconcile")
    /\ UNCHANGED <<durable, config, faults>>

AnchorClear ==
    /\ op.pc = "anchorClear"
    /\ active' = [active EXCEPT ![op.lane] = NoTask]
    /\ Goto("reconcile")
    /\ UNCHANGED <<doc, events, indexed, assignIndex, config, faults>>

----------------------------------------------------------------------------
(* Outside the lock: the seat pointer, faults, the operator. *)

\* task_activate / document_activate: any existing task, no workflow_lock.
ActivateTask(p, t) ==
    /\ p \in AnchorWriter /\ Exists(t)
    /\ active' = [active EXCEPT ![p] = t]
    /\ UNCHANGED <<doc, events, indexed, assignIndex, config, op, rec, faults>>

Deactivate(p) ==
    /\ p \in AnchorWriter
    /\ active' = [active EXCEPT ![p] = NoTask]
    /\ UNCHANGED <<doc, events, indexed, assignIndex, config, op, rec, faults>>

\* A storage error or a dropped request ends the operation where it is.
Interrupt ==
    /\ ~Idle /\ faults < MaxFaults
    /\ Release /\ faults' = faults + 1
    /\ UNCHANGED <<durable, config>>

\* A crash or an orderly restart; the operator's environment is read again.
Restart ==
    /\ faults < MaxFaults
    /\ Release /\ faults' = faults + 1
    /\ held' \in Holds /\ generation' \in Generation
    /\ UNCHANGED <<durable>>

----------------------------------------------------------------------------

Init ==
    /\ doc = [t \in Task |-> NoDoc]
    /\ events = {} /\ indexed = {} /\ assignIndex = {}
    /\ active = [p \in Principal |-> NoTask]
    /\ held \in Holds /\ generation \in Generation
    /\ op = NoOp /\ rec = NoRec /\ faults = 0

Reconciliation == Demote \/ Promote \/ Normalise \/ RecEvent \/ RecIndex
                    \/ RecTouch \/ RecProject \/ Reconciled

Write == CreateTask \/ AppendKeyed \/ AppendUnkeyed \/ PutIndex \/ EditTask
           \/ TouchTask \/ PutAssignIndex \/ ProjectTask \/ Anchor
           \/ AnchorCheck \/ AnchorClear

Begin ==
    \E p \in Principal :
      \/ \E a \in Principal : BeginReconcile(p, a)
      \/ \E a \in Principal, k \in Key, f \in Data :
            AssignReplay(p, a, k, f) \/ AssignRecover(p, a, k, f)
      \/ \E a \in Principal, k \in Key \cup {NoKey}, f \in Data : AssignNew(p, a, k, f)
      \/ \E t \in Task \cup {NoTask}, k \in Key \cup {NoKey}, d \in Data :
            \/ BeginStart(p, t, k, d)
            \/ BeginMessage(p, t, k, d)
            \/ \E s \in ReportStatus : BeginReport(p, t, s, k, d) \/ ReportReplay(p, t, s, k, d)
      \/ \E t \in Task, k \in Key \cup {NoKey}, d \in Data :
            BeginCancel(p, t, k, d) \/ CancelReplay(p, t, k, d)
      \/ \E t \in Task, d \in Data : BeginUpdate(p, t, d)

Seats == \E p \in Principal : Deactivate(p) \/ \E t \in Task : ActivateTask(p, t)

Next == Begin \/ Write \/ Reconciliation \/ Seats \/ Interrupt \/ Restart

Spec == Init /\ [][Next]_vars

----------------------------------------------------------------------------
(* Properties. *)

TypeOK ==
    /\ doc \in [Task -> Doc]
    /\ events \subseteq Event /\ indexed \subseteq EventId
    /\ assignIndex \subseteq Principal \X Key \X Task
    /\ active \in [Principal -> Task \cup {NoTask}]
    /\ held \subseteq Principal /\ generation \in Generation
    /\ faults \in Nat
    /\ op \in Op /\ rec \in Rec

\* A lane never has two tasks that hold it (ready or running), in any state a
\* fault can leave behind: "Exactly one non-terminal task may reserve the
\* lane as ready/running" (workflow.rs:821).
SingleReservation ==
    \A a \in Principal : \A t, u \in Reserved(a) : t = u

\* An issuer's key names at most one task of a seat, whatever the retries of an
\* interrupted assign_task; its index entry names that task.
AssignOnce ==
    /\ \A t, u \in Task :
         (/\ Exists(t) /\ Exists(u) /\ doc[t].key # NoKey /\ doc[t].key = doc[u].key
          /\ doc[t].issuer = doc[u].issuer /\ doc[t].assignee = doc[u].assignee) => t = u
    /\ \A i, j \in assignIndex : i[1] = j[1] /\ i[2] = j[2] => i = j

\* What a task document says happened, the event stream says too: a started
\* task, a closing report with its summary, a cancellation, every manager edit.
ProjectionExplained ==
    \A t \in Task :
      LET Told(kind, status, data) ==
            \E e \in events : /\ e.about.task = t /\ e.about.kind = kind
                              /\ e.about.status = status /\ data \in {NoData, e.about.data}
      IN  /\ doc[t].status = "IN_WORK" => Told("started", "IN_WORK", NoData)
          /\ doc[t].status \in {"COMPLETED", "BLOCKED", "FAILED"} =>
                Told("report", doc[t].status, doc[t].summary)
          /\ doc[t].status = "CANCELLED" => Told("status_changed", "CANCELLED", doc[t].summary)
          /\ Effective(doc[t]) = "ready" => Told("ready", "PENDING", NoData)
          /\ doc[t].edits <= Cardinality({e \in events : e.about.task = t /\ e.about.kind = "update"})

\* "Statuses only move forward" (workflow.rs:708): closed is final with its
\* summary, a running task is closed by a report and never cancelled.
Forward(t) ==
    /\ doc[t].status \in Terminal =>
         doc'[t].status = doc[t].status /\ doc'[t].summary = doc[t].summary
    /\ doc[t].status = "IN_WORK" => doc'[t].status \notin {"absent", "PENDING", "CANCELLED"}
    /\ doc[t].status = "PENDING" => doc'[t].status \in {"PENDING", "IN_WORK", "CANCELLED"}
StatusForward == [][\A t \in Task : Forward(t)]_vars

\* The last event of a task never moves back in time, although a retry merges
\* an event older than the newest message.
LastEventForward == [][\A t \in Task : doc'[t].lastAt >= doc[t].lastAt]_vars

Advances(t) == /\ Effective(doc'[t]) \in {"ready", "running"}
               /\ Effective(doc'[t]) # Effective(doc[t])

\* "While held the queue is observed, never advanced" (workflow.rs:827), by
\* whichever operation reconciles the lane.
HoldStops == [][\A t \in Task : Advances(t) => doc[t].assignee \notin held]_vars

\* A task of another operator generation never becomes ready or running.
GenerationFence == [][\A t \in Task : Advances(t) => Current(doc[t])]_vars

\* Both ways an operator stops a lane work: the hold, which freezes it as it is,
\* and the generation, which leaves behind what was queued under another one.
OperatorStops == HoldStops /\ GenerationFence

\* The FIFO implements one single-writer lane per principal, oldest task first.
Phase(d) == CASE d.status = "absent"  -> "absent"
              [] d.status = "PENDING" -> "waiting"
              [] d.status = "IN_WORK" -> "running"
              [] OTHER                -> "closed"
Abstract == INSTANCE TaskLane WITH
    phase <- [t \in Task |-> Phase(doc[t])],
    lane  <- [t \in Task |-> doc[t].assignee],
    order <- [t \in Task |-> doc[t].order]
ImplementsLane == Abstract!LaneSpec

\* The lane holder runs to its end; a lane's own seat keeps reconciling it
\* (tokio's mutex is first come, first served, so it gets its turn).
Fairness ==
    /\ WF_vars(Write \/ Reconciliation)
    /\ \A a \in Principal : SF_vars(BeginReconcile(a, a))
FairSpec == Spec /\ Fairness

\* Whatever fault interrupted the closing of its predecessor, the head of a lane
\* that may advance gets the reservation.
Awaiting(a) == /\ Reserved(a) = {} /\ a \notin held
               /\ \E t \in Lane(a) : IsHead(a, t) /\ Current(doc[t])
HeadServed == \A a \in Principal : Awaiting(a) ~> ~Awaiting(a)
============================================================================
