------------------------ MODULE WorkflowQueueProofs ------------------------
(***************************************************************************)
(* Theorems about WorkflowQueue, for every value of its constants: its     *)
(* inductive invariant, then what a step may do to a task (the action      *)
(* properties, the refinement of TaskLane) and what it keeps of events and *)
(* keys.                                                                   *)
(***************************************************************************)
EXTENDS WorkflowQueue, FiniteSetTheorems, TLAPS

OnTask == {"event", "index", "edit", "touch", "assignIndex", "project", "anchor",
           "anchorCheck", "anchorClear"}

Pending == {"event", "index", "edit", "touch"}

\* The operation that holds the lock fits the task and the lane it works on:
\* what its guards established is still true at the write that relies on it.
OpOK ==
    /\ op.kind = "none" => op = NoOp
    /\ op.kind # "none" => op.actor \in Principal /\ op.lane \in Principal
    /\ op.pc \in OnTask \/ op.kind = "start" =>
         op.task \in Task /\ Exists(op.task) /\ op.lane = doc[op.task].assignee
    /\ op.pc \in {"index", "edit", "touch"} => op.event \in EventId
    /\ op.pc = "create" => op.kind = "assign"
    /\ op.pc = "assignIndex" => op.kind = "assign" /\ op.key \in Key
    /\ op.kind = "start" =>
         /\ op.status = "IN_WORK" /\ op.lane \notin held /\ Current(doc[op.task])
         /\ op.pc \in Pending => Preserved(op.lane, op.task)
    /\ op.kind = "report" =>
         /\ op.status \in ReportStatus
         /\ op.pc \in Pending => doc[op.task].status = "IN_WORK"
    /\ op.kind = "cancel" =>
         /\ op.status = "CANCELLED"
         /\ op.pc \in Pending => doc[op.task].status = "PENDING"
    /\ op.pc = "project" => op.status \in Terminal \/ doc[op.task].status = "IN_WORK"

DocOK == \A t \in Task :
    /\ Exists(t) <=> doc[t].assignee \in Principal
    /\ doc[t].queue = "running" => doc[t].status \in Terminal \cup {"IN_WORK"}

\* A reconciliation frame lives inside a reconciling operation, on a waiting task
\* of its lane; a promotion goes on only while nothing holds that lane.
RecOK ==
    /\ rec.pc = "none" <=> rec.job = "none"
    /\ rec.pc # "none" => /\ op.pc = "reconcile" /\ op.lane \in Principal
                          /\ rec.task \in Lane(op.lane) /\ doc[rec.task].status = "PENDING"
    /\ rec.pc \in {"index", "touch", "project"} => rec.event \in EventId
    /\ rec.job = "promote" => /\ Reserved(op.lane) = {} /\ op.lane \notin held
                              /\ Current(doc[rec.task])

Created == {t \in Task : Exists(t)}

IndInv == /\ TypeOK /\ IsFiniteSet(events) /\ IsFiniteSet(Created)
          /\ OpOK /\ DocOK /\ RecOK /\ SingleReservation

\* What touch_task_projection never changes, status apart.
SameButMerged(d, c) ==
    /\ d.queue = c.queue /\ d.readyEvent = c.readyEvent /\ d.order = c.order
    /\ d.issuer = c.issuer /\ d.assignee = c.assignee /\ d.key = c.key
    /\ d.fields = c.fields /\ d.generation = c.generation /\ d.edits = c.edits

LEMMA NoDocType == NoDoc \in Doc
BY ConstantsAssumption DEF NoDoc, Doc, Status, QueueState, Terminal

LEMMA NoOpType == NoOp \in Op /\ NoRec \in Rec
BY ConstantsAssumption DEF NoOp, Op, OpKind, OpPc, NoRec, Rec

LEMMA RequestType ==
  ASSUME TypeOK,
         NEW kind \in OpKind, NEW pc \in OpPc, NEW p \in Principal,
         NEW t \in Task \cup {NoTask}, NEW k \in Key \cup {NoKey},
         NEW status \in Status \cup {"none"}, NEW data \in Data \cup {NoData}
  PROVE  Request(kind, pc, p, t, k, status, data) \in Op
BY DEF Request, TypeOK, Doc, Op

LEMMA MergeType ==
  ASSUME NEW d \in Doc, NEW ev \in EventId \cup {NoEvent}, NEW at \in Nat,
         NEW st \in Status, NEW su \in Data \cup {NoData}
  PROVE  [d EXCEPT !.lastEvent = ev, !.lastAt = at, !.status = st, !.summary = su] \in Doc
BY DEF Doc

\* touch_task_projection changes four fields of the document and no other.
LEMMA TouchedType ==
  ASSUME NEW d \in Doc, NEW e \in Event,
         NEW status \in Status \cup {"none"}, NEW s \in Data \cup {NoData}
  PROVE  /\ Touched(d, e, status, s) \in Doc
         /\ Touched(d, e, status, s).status = IF Applies(d, status) THEN status ELSE d.status
         /\ SameButMerged(Touched(d, e, status, s), d)
<1> DEFINE result == IF Applies(d, status) THEN status ELSE d.status
           ev == IF Stale(d, e) THEN d.lastEvent ELSE e.id
           at == IF Stale(d, e) THEN d.lastAt ELSE e.at
           su == IF s # NoData /\ result = status THEN s ELSE d.summary
<1>1. result \in Status
  BY DEF Doc, Applies, Status
<1>2. ev \in EventId \cup {NoEvent} /\ at \in Nat
  BY DEF Doc, Event
<1>3. su \in Data \cup {NoData}
  BY DEF Doc
<1>4. Touched(d, e, status, s) =
        [d EXCEPT !.lastEvent = ev, !.lastAt = at, !.status = result, !.summary = su]
  BY DEF Touched
<1> HIDE DEF result, ev, at, su
<1>5. [d EXCEPT !.lastEvent = ev, !.lastAt = at, !.status = result, !.summary = su] \in Doc
  BY <1>1, <1>2, <1>3, MergeType
<1>6. Touched(d, e, status, s).status = result /\ SameButMerged(Touched(d, e, status, s), d)
  BY <1>4 DEF Doc, SameButMerged
<1> QED
  BY <1>4, <1>5, <1>6 DEF result

LEMMA IdType ==
  ASSUME NEW p \in Principal, NEW k \in Key \cup Uuid \cup EngineKey
  PROVE  [by |-> p, key |-> k] \in EventId /\ [by |-> Queue, key |-> k] \in EventId
BY DEF EventId

LEMMA PutEventType ==
  ASSUME TypeOK, IsFiniteSet(events), NEW id \in EventId, NEW about \in About,
         PutEvent(id, about)
  PROVE  events' \subseteq Event /\ IsFiniteSet(events')
<1>1. PICK n \in EventTime(about.task) :
        events' = events \cup {[id |-> id, at |-> n, about |-> about]}
  BY DEF PutEvent
<1>2. n \in Nat
  <2>1. IsFiniteSet({e \in events : e.about.task = about.task})
    BY FS_Subset
  <2>2. Cardinality({e \in events : e.about.task = about.task}) \in Nat
    BY <2>1, FS_CardinalityType
  <2> QED
    BY <2>2, <1>1, ConstantsAssumption DEF EventTime
<1>3. [id |-> id, at |-> n, about |-> about] \in Event
  BY <1>2 DEF Event
<1> QED
  BY <1>1, <1>3, FS_AddElement DEF TypeOK

\* A step that keeps every task's standing keeps every lane as it is.
SameStanding(d, c) ==
    /\ d.status = c.status /\ d.assignee = c.assignee /\ d.order = c.order
    /\ d.generation = c.generation /\ Effective(d) = Effective(c)

LEMMA LanesKept ==
  ASSUME \A t \in Task : SameStanding(doc'[t], doc[t]), generation' = generation
  PROVE  \A a : /\ Lane(a)' = Lane(a) /\ Reserved(a)' = Reserved(a)
                /\ \A t \in Task : /\ Preserved(a, t)' <=> Preserved(a, t)
                                   /\ Current(doc[t])' <=> Current(doc[t])
                                   /\ Exists(t)' <=> Exists(t)
<1> SUFFICES ASSUME NEW a
             PROVE  /\ Lane(a)' = Lane(a) /\ Reserved(a)' = Reserved(a)
                    /\ \A t \in Task : /\ Preserved(a, t)' <=> Preserved(a, t)
                                       /\ Current(doc[t])' <=> Current(doc[t])
                                       /\ Exists(t)' <=> Exists(t)
  OBVIOUS
<1>1. Lane(a)' = Lane(a)
  BY DEF Lane, Exists, SameStanding
<1>2. Reserved(a)' = Reserved(a) /\ Running(a)' = Running(a)
  BY <1>1 DEF Lane, Reserved, Running, Reserves, SameStanding
<1>3. \A t \in Task : IsHead(a, t)' <=> IsHead(a, t)
  BY <1>1 DEF Lane, IsHead, SameStanding
<1>4. \A t \in Task : Preserved(a, t)' <=> Preserved(a, t)
  BY <1>2, <1>3 DEF Preserved
<1> QED
  BY <1>1, <1>2, <1>4 DEF Current, Exists, SameStanding

\* Taking the lock: only the operation and, for a replay, the index change.
LEMMA BeginKeeps ==
  ASSUME IndInv, Idle, op' \in Op, OpOK', indexed' \subseteq EventId,
         UNCHANGED <<doc, events, assignIndex, active, config, rec, faults>>
  PROVE  IndInv'
<1>1. TypeOK' /\ IsFiniteSet(events)' /\ IsFiniteSet(Created') /\ DocOK'
  BY DEF IndInv, TypeOK, DocOK, Exists, Created, config
<1>2. RecOK'
  <2>1. op.pc = "none"
    BY DEF IndInv, OpOK, Idle, NoOp
  <2>2. rec.pc = "none" /\ rec.job = "none"
    BY <2>1 DEF IndInv, RecOK
  <2> QED
    BY <2>2 DEF RecOK
<1>3. SingleReservation'
  <2>1. \A a \in Principal : Reserved(a)' = Reserved(a)
    BY LanesKept DEF SameStanding, config
  <2> QED
    BY <2>1 DEF IndInv, SingleReservation
<1> QED
  BY <1>1, <1>2, <1>3 DEF IndInv

LEMMA BeginReconcileStep ==
  ASSUME IndInv, NEW p \in Principal, NEW a \in Principal, BeginReconcile(p, a)
  PROVE  IndInv'
<1>1. op' \in Op
  BY RequestType DEF BeginReconcile, Request, Op, OpKind, OpPc, IndInv
<1> QED
  BY <1>1, BeginKeeps DEF BeginReconcile, Request, OpOK, IndInv, TypeOK, OnTask, Pending, durable, Free

LEMMA TaskOrActiveType ==
  ASSUME TypeOK, NEW p \in Principal, NEW t \in Task \cup {NoTask}
  PROVE  TaskOrActive(p, t) \in Task \cup {NoTask}
BY DEF TaskOrActive, TypeOK

LEMMA AssignRequestStep ==
  ASSUME IndInv, Idle, NEW p \in Principal, NEW a \in Principal, NEW t \in Task \cup {NoTask},
         NEW k \in Key \cup {NoKey}, NEW f \in Data, NEW pc \in {"reconcile", "event"},
         t = NoTask => pc = "reconcile",
         t # NoTask => Exists(t) /\ doc[t].assignee = a,
         op' = AssignRequest(pc, p, a, t, k, f),
         UNCHANGED <<durable, config, rec, faults>>
  PROVE  IndInv'
<1>1. op' \in Op
  BY ConstantsAssumption DEF AssignRequest, Request, Op, OpKind, OpPc, Status, IndInv
<1>2. OpOK'
  BY ConstantsAssumption DEF AssignRequest, Request, OpOK, OnTask, Pending, Exists, durable
<1> QED
  BY <1>1, <1>2, BeginKeeps DEF IndInv, TypeOK, durable

LEMMA AssignStep ==
  ASSUME IndInv, NEW p \in Principal, NEW a \in Principal, NEW k \in Key \cup {NoKey}, NEW f \in Data,
         AssignReplay(p, a, k, f) \/ AssignRecover(p, a, k, f) \/ AssignNew(p, a, k, f)
  PROVE  IndInv'
<1>1. CASE AssignReplay(p, a, k, f)
  <2>1. PICK t \in Task : /\ <<p, k, t>> \in assignIndex /\ doc[t].assignee = a
                          /\ op' = AssignRequest("reconcile", p, a, t, k, f)
    BY <1>1 DEF AssignReplay
  <2>2. Exists(t)
    BY <2>1 DEF IndInv, DocOK
  <2> QED
    BY <1>1, <2>1, <2>2, AssignRequestStep, ConstantsAssumption DEF AssignReplay, Free
<1>2. CASE AssignRecover(p, a, k, f)
  BY <1>2, AssignRequestStep, ConstantsAssumption DEF AssignRecover, Free
<1>3. CASE AssignNew(p, a, k, f)
  BY <1>3, AssignRequestStep, ConstantsAssumption DEF AssignNew, Free
<1> QED
  BY <1>1, <1>2, <1>3

LEMMA StartStep ==
  ASSUME IndInv, NEW p \in Principal, NEW given \in Task \cup {NoTask},
         NEW k \in Key \cup {NoKey}, NEW m \in Data, BeginStart(p, given, k, m)
  PROVE  IndInv'
<1> DEFINE t == TaskOrActive(p, given)
           about == [task |-> t, kind |-> "started", status |-> "IN_WORK", data |-> m]
           id == [by |-> p, key |-> k]
           request == Request("start", "reconcile", p, t, k, "IN_WORK", m)
<1>1. /\ Idle /\ p \notin held /\ t # NoTask /\ Exists(t) /\ Current(doc[t])
      /\ doc[t].assignee = p
      /\ \/ /\ Replayed(p, k, about)
            /\ op' = [request EXCEPT !.event = id] /\ RepairIndex(p, k)
         \/ op' = request /\ UNCHANGED indexed
      /\ UNCHANGED <<doc, events, assignIndex, active, config, rec, faults>>
  BY DEF BeginStart, Free
<1>2. t \in Task /\ request \in Op
  BY <1>1, TaskOrActiveType, RequestType DEF IndInv, OpKind, OpPc, Status
<1> HIDE DEF t, about
<1>3. CASE op' = request /\ UNCHANGED indexed
  <2>1. op' \in Op
    BY <1>2, <1>3
  <2>2. OpOK'
    BY <1>1, <1>2, <1>3 DEF Request, OpOK, OnTask, Pending, Exists, Current, config
  <2> QED
    BY <1>1, <1>3, <2>1, <2>2, BeginKeeps DEF IndInv, TypeOK
<1>4. CASE Replayed(p, k, about) /\ op' = [request EXCEPT !.event = id] /\ RepairIndex(p, k)
  <2>1. k \in Key
    BY <1>4 DEF Replayed
  <2>2. id \in EventId
    BY <2>1, IdType
  <2>3. op' \in Op
    BY <1>2, <1>4, <2>2 DEF Op
  <2>4. op' = [kind |-> "start", pc |-> "reconcile", actor |-> p, lane |-> p, task |-> t,
               key |-> k, status |-> "IN_WORK", data |-> m, event |-> id]
    BY <1>1, <1>4 DEF Request
  <2>5. OpOK'
    BY <1>1, <1>2, <2>4 DEF OpOK, OnTask, Pending, Exists, Current, config
  <2>6. indexed' \subseteq EventId
    BY <1>4, <2>2 DEF RepairIndex, IndInv, TypeOK
  <2> QED
    BY <1>1, <2>3, <2>5, <2>6, BeginKeeps
<1> QED
  BY <1>1, <1>3, <1>4

\* Reports, cancellations, messages and edits, new or replayed.
LEMMA TaskRequestStep ==
  ASSUME IndInv, Idle, NEW p \in Principal, NEW t \in Task, Exists(t),
         NEW k \in Key \cup {NoKey}, NEW data \in Data,
         NEW kind \in {"report", "cancel", "message", "update"},
         NEW pc \in {"event", "project"}, NEW status \in Status \cup {"none"},
         op' = Request(kind, pc, p, t, k, status, data),
         pc = "project" => status \in Terminal,
         kind = "report" => status \in ReportStatus /\ (pc = "event" => doc[t].status = "IN_WORK"),
         kind = "cancel" => status = "CANCELLED" /\ (pc = "event" => doc[t].status = "PENDING"),
         indexed' = indexed \/ (k \in Key /\ RepairIndex(p, k)),
         UNCHANGED <<doc, events, assignIndex, active, config, rec, faults>>
  PROVE  IndInv'
<1>1. op' \in Op
  BY RequestType DEF IndInv, OpKind, OpPc
<1>2. indexed' \subseteq EventId
  <2>1. CASE indexed' = indexed
    BY <2>1 DEF IndInv, TypeOK
  <2>2. CASE k \in Key /\ RepairIndex(p, k)
    <3>1. [by |-> p, key |-> k] \in EventId
      BY <2>2, IdType
    <3> QED
      BY <2>2, <3>1 DEF RepairIndex, IndInv, TypeOK
  <2> QED
    BY <2>1, <2>2
<1>3. op' = [kind |-> kind, pc |-> pc, actor |-> p, lane |-> doc[t].assignee, task |-> t,
             key |-> k, status |-> status, data |-> data, event |-> NoEvent]
  BY ConstantsAssumption DEF Request
<1>4. doc[t].assignee \in Principal
  BY DEF IndInv, DocOK
<1>5. OpOK'
  BY <1>3, <1>4 DEF OpOK, OnTask, Pending, Exists
<1> QED
  BY <1>1, <1>2, <1>5, BeginKeeps

\* A task whose effective state is "running" has the status IN_WORK.
LEMMA RunningStatus ==
  ASSUME TypeOK, DocOK, NEW t \in Task, Exists(t)
  PROVE  /\ Effective(doc[t]) = "running" <=> doc[t].status = "IN_WORK"
         /\ Effective(doc[t]) \in {"queued", "ready"} <=> doc[t].status = "PENDING"
         /\ Effective(doc[t]) = "terminal" <=> doc[t].status \in Terminal
BY DEF TypeOK, DocOK, Exists, Effective, Doc, Status, Terminal, QueueState

LEMMA ReportStep ==
  ASSUME IndInv, NEW p \in Principal, NEW given \in Task \cup {NoTask}, NEW status \in ReportStatus,
         NEW k \in Key \cup {NoKey}, NEW s \in Data,
         BeginReport(p, given, status, k, s) \/ ReportReplay(p, given, status, k, s)
  PROVE  IndInv'
<1> DEFINE t == TaskOrActive(p, given)
<1>0. t \in Task \cup {NoTask} /\ status \in Status
  BY TaskOrActiveType, ConstantsAssumption DEF IndInv, Status, Terminal
<1>1. CASE BeginReport(p, given, status, k, s)
  <2>1. /\ Idle /\ t # NoTask /\ Exists(t) /\ Effective(doc[t]) = "running"
        /\ op' = Request("report", "event", p, t, k, status, s)
        /\ UNCHANGED <<durable, config, rec, faults>>
    BY <1>1 DEF BeginReport, Free
  <2> HIDE DEF t
  <2>2. doc[t].status = "IN_WORK"
    BY <1>0, <2>1, RunningStatus DEF IndInv
  <2> QED
    BY <1>0, <2>1, <2>2, TaskRequestStep DEF durable
<1>2. CASE ReportReplay(p, given, status, k, s)
  <2>1. /\ Idle /\ t # NoTask /\ Exists(t) /\ status \in Terminal
        /\ k \in Key /\ RepairIndex(p, k)
        /\ op' = Request("report", "project", p, t, k, status, s)
        /\ UNCHANGED <<doc, events, assignIndex, active, config, rec, faults>>
    BY <1>2 DEF ReportReplay, Free, Replayed
  <2> HIDE DEF t
  <2> QED
    BY <1>0, <2>1, TaskRequestStep
<1> QED
  BY <1>1, <1>2

LEMMA CancelStep ==
  ASSUME IndInv, NEW p \in Principal, NEW t \in Task, NEW k \in Key \cup {NoKey}, NEW s \in Data,
         BeginCancel(p, t, k, s) \/ CancelReplay(p, t, k, s)
  PROVE  IndInv'
<1>0. "CANCELLED" \in Terminal /\ "CANCELLED" \in Status
  BY DEF Status, Terminal
<1>1. CASE BeginCancel(p, t, k, s)
  <2>1. Exists(t) /\ Effective(doc[t]) \in {"queued", "ready"}
    BY <1>1 DEF BeginCancel
  <2>2. doc[t].status = "PENDING"
    BY <2>1, RunningStatus DEF IndInv
  <2> QED
    BY <1>0, <1>1, <2>1, <2>2, TaskRequestStep DEF BeginCancel, Free, durable
<1>2. CASE CancelReplay(p, t, k, s)
  BY <1>0, <1>2, TaskRequestStep DEF CancelReplay, Free, Replayed
<1> QED
  BY <1>1, <1>2

LEMMA MessageStep ==
  ASSUME IndInv, NEW p \in Principal, NEW given \in Task \cup {NoTask},
         NEW k \in Key \cup {NoKey}, NEW m \in Data, BeginMessage(p, given, k, m)
  PROVE  IndInv'
<1> DEFINE t == TaskOrActive(p, given)
<1>1. /\ Idle /\ t # NoTask /\ Exists(t)
      /\ op' = Request("message", "event", p, t, k, "none", m)
      /\ UNCHANGED <<durable, config, rec, faults>>
  BY DEF BeginMessage, Free
<1>2. t \in Task
  BY <1>1, TaskOrActiveType DEF IndInv
<1> HIDE DEF t
<1> QED
  BY <1>1, <1>2, TaskRequestStep DEF durable

LEMMA UpdateStep ==
  ASSUME IndInv, NEW p \in Principal, NEW t \in Task, NEW d \in Data, BeginUpdate(p, t, d)
  PROVE  IndInv'
BY TaskRequestStep DEF BeginUpdate, Free, durable

LEMMA BeginStep == IndInv /\ Begin => IndInv'
<1> SUFFICES ASSUME IndInv, Begin PROVE IndInv'
  OBVIOUS
<1> QED
  BY BeginReconcileStep, AssignStep, StartStep, ReportStep, CancelStep, MessageStep, UpdateStep
     DEF Begin

\* A step that keeps every standing keeps the single reservation.
LEMMA StandingKeeps ==
  ASSUME IndInv, TypeOK', IsFiniteSet(events'), DocOK', OpOK', RecOK',
         \A t \in Task : SameStanding(doc'[t], doc[t]), generation' = generation
  PROVE  IndInv'
<1>1. SingleReservation'
  BY LanesKept DEF IndInv, SingleReservation
<1>2. Created' = Created
  BY DEF Created, Exists, SameStanding
<1> QED
  BY <1>1, <1>2 DEF IndInv

LEMMA OpKept ==
  ASSUME IndInv, UNCHANGED <<op, config>>, \A t \in Task : SameStanding(doc'[t], doc[t])
  PROVE  OpOK'
<1>1. generation' = generation /\ held' = held
  BY DEF config
<1>2. \A t \in Task : /\ Exists(t)' <=> Exists(t)
                      /\ Current(doc[t])' <=> Current(doc[t])
                      /\ \A a : Preserved(a, t)' <=> Preserved(a, t)
  BY <1>1, LanesKept
<1>3. \A t \in Task : doc'[t].status = doc[t].status /\ doc'[t].assignee = doc[t].assignee
  BY DEF SameStanding
<1> QED
  BY <1>1, <1>2, <1>3 DEF OpOK, IndInv, OnTask, Pending

LEMMA DocsSame == ASSUME UNCHANGED doc PROVE \A t \in Task : SameStanding(doc'[t], doc[t])
BY DEF SameStanding

LEMMA ReconcileLane == ASSUME IndInv, op.pc = "reconcile" PROVE op.lane \in Principal /\ op.kind # "none"
BY DEF IndInv, OpOK, NoOp

\* A decision of the reconciliation: nothing durable changes.
LEMMA DecideKeeps ==
  ASSUME IndInv, rec' \in Rec, RecOK', UNCHANGED <<durable, config, op, faults>>
  PROVE  IndInv'
<1>1. TypeOK' /\ IsFiniteSet(events') /\ DocOK'
  BY DEF IndInv, TypeOK, DocOK, Exists, durable, config
<1> QED
  BY <1>1, StandingKeeps, OpKept, DocsSame DEF durable, config

LEMMA DemoteStep == ASSUME IndInv, Demote PROVE IndInv'
<1>1. PICK t \in Demotable(op.lane) : rec' = [NoRec EXCEPT !.job = "demote", !.pc = "event", !.task = t]
  BY DEF Demote
<1>2. rec' = [job |-> "demote", pc |-> "event", task |-> t, event |-> NoEvent]
  BY <1>1 DEF NoRec
<1>3. op.pc = "reconcile" /\ op.lane \in Principal
  BY ReconcileLane DEF Demote, Repairing, Scanning
<1>4. t \in Task /\ t \in Lane(op.lane) /\ Effective(doc[t]) = "ready" /\ Exists(t)
  BY DEF Demotable, Reserved, Lane
<1>5. doc[t].status = "PENDING"
  BY <1>4, RunningStatus DEF IndInv
<1>6. rec' \in Rec
  BY <1>2, <1>4 DEF Rec
<1>7. RecOK'
  <2>1. Lane(op.lane)' = Lane(op.lane)
    BY LanesKept, DocsSame DEF Demote, durable, config
  <2> QED
    BY <1>2, <1>3, <1>4, <1>5, <2>1 DEF RecOK, Demote, durable
<1> QED
  BY <1>6, <1>7, DecideKeeps DEF Demote

LEMMA PromoteStep == ASSUME IndInv, Promote PROVE IndInv'
<1>1. PICK t \in Promotable(op.lane) : rec' = [NoRec EXCEPT !.job = "promote", !.pc = "event", !.task = t]
  BY DEF Promote
<1>2. rec' = [job |-> "promote", pc |-> "event", task |-> t, event |-> NoEvent]
  BY <1>1 DEF NoRec
<1>3. op.pc = "reconcile" /\ op.lane \in Principal
  BY ReconcileLane DEF Promote, Repairing, Scanning
<1>4. /\ t \in Task /\ t \in Lane(op.lane) /\ op.lane \notin held /\ Current(doc[t]) /\ Exists(t)
      /\ \A u \in Lane(op.lane) : ~Preserved(op.lane, u)
  BY DEF Promotable, Lane
<1>5. Reserved(op.lane) = {}
  BY <1>4 DEF Promote, Demotable, Reserved, Preserved, Running, Reserves
<1>6. doc[t].status = "PENDING"
  <2>1. ~Reserves(doc[t])
    BY <1>4, <1>5 DEF Reserved
  <2>2. Effective(doc[t]) # "terminal"
    BY <1>4 DEF Lane
  <2>3. Effective(doc[t]) \in {"queued", "ready"}
    BY <2>1, <2>2, <1>4 DEF Reserves, Effective
  <2> QED
    BY <1>4, <2>3, RunningStatus DEF IndInv
<1>7. rec' \in Rec
  BY <1>2, <1>4 DEF Rec
<1>8. RecOK'
  <2>1. /\ Lane(op.lane)' = Lane(op.lane) /\ Reserved(op.lane)' = Reserved(op.lane)
        /\ Current(doc[t])' <=> Current(doc[t])
    BY <1>4, LanesKept, DocsSame DEF Promote, durable, config
  <2> QED
    BY <1>2, <1>3, <1>4, <1>5, <1>6, <2>1 DEF RecOK, Promote, durable, config
<1> QED
  BY <1>7, <1>8, DecideKeeps DEF Promote

LEMMA ProjectDoc ==
  ASSUME TypeOK, NEW t \in Task, NEW state \in QueueState, NEW r \in EventId \cup {NoEvent},
         Project(t, state, r)
  PROVE  /\ doc' \in [Task -> Doc]
         /\ doc'[t] = [doc[t] EXCEPT !.queue = state, !.readyEvent = r]
         /\ \A u \in Task \ {t} : doc'[u] = doc[u]
<1>1. doc[t] \in Doc
  BY DEF TypeOK
<1>2. doc' = [doc EXCEPT ![t] = [doc[t] EXCEPT !.queue = state, !.readyEvent = r]]
  BY <1>1 DEF Project, TypeOK
<1>3. [doc[t] EXCEPT !.queue = state, !.readyEvent = r] \in Doc
  BY <1>1 DEF Doc
<1> QED
  BY <1>2, <1>3 DEF TypeOK

LEMMA TouchDoc ==
  ASSUME TypeOK, NEW t \in Task, NEW id, NEW status \in Status \cup {"none"},
         NEW s \in Data \cup {NoData}, Touch(t, id, status, s)
  PROVE  /\ doc' \in [Task -> Doc]
         /\ doc'[t].status = IF Applies(doc[t], status) THEN status ELSE doc[t].status
         /\ SameButMerged(doc'[t], doc[t])
         /\ \A u \in Task \ {t} : doc'[u] = doc[u]
<1>1. PICK e \in events : doc' = [doc EXCEPT ![t] = Touched(doc[t], e, status, s)]
  BY DEF Touch
<1>2. doc[t] \in Doc /\ e \in Event
  BY DEF TypeOK
<1>3. doc'[t] = Touched(doc[t], e, status, s) /\ \A u \in Task \ {t} : doc'[u] = doc[u]
  BY <1>1 DEF TypeOK
<1>4. Touched(doc[t], e, status, s) \in Doc
  BY <1>2, TouchedType
<1>5. doc' \in [Task -> Doc]
  BY <1>1, <1>4 DEF TypeOK
<1> QED
  BY <1>2, <1>3, <1>5, TouchedType

\* A merge that leaves the status alone leaves the standing alone.
LEMMA TouchKeeps ==
  ASSUME TypeOK, DocOK, NEW t \in Task, SameButMerged(doc'[t], doc[t]),
         doc'[t].status = doc[t].status, \A u \in Task \ {t} : doc'[u] = doc[u]
  PROVE  (\A u \in Task : SameStanding(doc'[u], doc[u])) /\ DocOK'
<1>1. SameStanding(doc'[t], doc[t])
  BY DEF SameButMerged, SameStanding, Effective
<1>2. \A u \in Task : SameStanding(doc'[u], doc[u])
  BY <1>1 DEF SameStanding
<1>3. DocOK'
  BY <1>2 DEF DocOK, SameButMerged, SameStanding, Exists
<1> QED
  BY <1>2, <1>3

LEMMA NormaliseStep == ASSUME IndInv, Normalise PROVE IndInv'
<1> DEFINE Kept(t) == IF Effective(doc[t]) = "queued" THEN NoEvent ELSE doc[t].readyEvent
<1>1. PICK t \in Unnormalised(op.lane) : Project(t, Effective(doc[t]), Kept(t))
  BY DEF Normalise
<1>2. t \in Task /\ Exists(t)
  BY DEF Unnormalised, Lane
<1>3. Effective(doc[t]) \in QueueState
  BY DEF Effective, QueueState
<1>4. Kept(t) \in EventId \cup {NoEvent}
  BY <1>2 DEF IndInv, TypeOK, Doc
<1> HIDE DEF Kept
<1>5. /\ doc' \in [Task -> Doc]
      /\ doc'[t] = [doc[t] EXCEPT !.queue = Effective(doc[t]), !.readyEvent = Kept(t)]
      /\ \A u \in Task \ {t} : doc'[u] = doc[u]
  BY <1>1, <1>2, <1>3, <1>4, ProjectDoc DEF IndInv
<1>6. /\ doc'[t].status = doc[t].status /\ doc'[t].queue = Effective(doc[t])
      /\ doc'[t].assignee = doc[t].assignee /\ doc'[t].order = doc[t].order
      /\ doc'[t].generation = doc[t].generation
  BY <1>2, <1>5 DEF IndInv, TypeOK, Doc
<1>7. Effective(doc'[t]) = Effective(doc[t])
  BY <1>6 DEF Effective
<1>8. \A u \in Task : SameStanding(doc'[u], doc[u])
  BY <1>5, <1>6, <1>7 DEF SameStanding
<1>9. DocOK'
  <2>1. Effective(doc[t]) = "running" => doc[t].status = "IN_WORK"
    BY <1>2, RunningStatus DEF IndInv
  <2> QED
    BY <1>5, <1>6, <2>1 DEF DocOK, IndInv, Exists
<1>10. TypeOK' /\ IsFiniteSet(events')
  BY <1>5 DEF Normalise, IndInv, TypeOK, config
<1>11. RecOK'
  BY DEF Normalise, Repairing, Scanning, RecOK, IndInv
<1> QED
  BY <1>8, <1>9, <1>10, <1>11, StandingKeeps, OpKept DEF Normalise, config

LEMMA RepairKeyType ==
  ASSUME NEW t \in Task, NEW p \in Task \cup {NoTask}
  PROVE  RepairKey(t, p) \in EngineKey
BY DEF EngineKey

\* The event a reconciliation appends is one of the engine's own.
LEMMA RecEventType ==
  ASSUME TypeOK, RecOK, rec.pc # "none"
  PROVE  RecEventId \in EventId /\ RecAbout \in About
<1>1. rec.task \in Task
  BY DEF RecOK, Lane
<1>2. ReadyKey(rec.task) \in EngineKey /\ RepairKey(rec.task, NoTask) \in EngineKey
  BY <1>1 DEF EngineKey
<1>3. (\E p \in Task : Preserved(op.lane, p)) =>
        RepairKey(rec.task, CHOOSE p \in Task : Preserved(op.lane, p)) \in EngineKey
  <2> DEFINE P(p) == Preserved(op.lane, p)
  <2> SUFFICES ASSUME \E p \in Task : P(p)
               PROVE  RepairKey(rec.task, CHOOSE p \in Task : P(p)) \in EngineKey
    OBVIOUS
  <2> HIDE DEF P
  <2>1. (CHOOSE p \in Task : P(p)) \in Task
    BY Zenon
  <2> DEFINE q == CHOOSE p \in Task : P(p)
  <2> HIDE DEF q
  <2>2. RepairKey(rec.task, q) \in EngineKey
    BY <1>1, <2>1, RepairKeyType DEF q
  <2> QED
    BY <2>2 DEF q
<1>4. RecEventId.key \in EngineKey /\ RecEventId = [by |-> Queue, key |-> RecEventId.key]
  BY <1>2, <1>3 DEF RecEventId
<1>5. RecEventId \in EventId
  BY <1>4 DEF EventId
<1>6. RecAbout \in About
  BY <1>1 DEF RecAbout, About, Status, EventKinds
<1> QED
  BY <1>5, <1>6

LEMMA RecOnly ==
  ASSUME IndInv, rec' \in Rec, rec.pc # "none", rec'.pc \in {"index", "touch"},
         rec'.job = rec.job, rec'.task = rec.task, rec'.event \in EventId, UNCHANGED <<doc, config, op>>
  PROVE  RecOK'
<1>1. \A a : Lane(a)' = Lane(a) /\ Reserved(a)' = Reserved(a)
  BY LanesKept, DocsSame DEF config
<1> QED
  BY <1>1 DEF IndInv, RecOK, config, Current

LEMMA RecEventStep == ASSUME IndInv, RecEvent PROVE IndInv'
<1>1. RecEventId \in EventId /\ RecAbout \in About
  BY RecEventType DEF IndInv, RecEvent
<1>2. /\ events' \subseteq Event /\ IsFiniteSet(events') /\ indexed' \subseteq EventId
      /\ \E pc \in {"index", "touch"} : rec' = [rec EXCEPT !.pc = pc, !.event = RecEventId]
  <2>1. CASE Unrecorded(RecEventId)
    BY <1>1, <2>1, PutEventType DEF RecEvent, IndInv, TypeOK
  <2>2. CASE ~Unrecorded(RecEventId)
    BY <1>1, <2>2 DEF RecEvent, IndInv, TypeOK
  <2> QED
    BY <2>1, <2>2
<1>3. rec' \in Rec
  BY <1>1, <1>2 DEF IndInv, TypeOK, Rec
<1>4. RecOK'
  BY <1>1, <1>2, <1>3, RecOnly DEF RecEvent, IndInv, TypeOK, Rec
<1>5. TypeOK' /\ DocOK'
  BY <1>2, <1>3 DEF RecEvent, IndInv, TypeOK, DocOK, Exists, config
<1> QED
  BY <1>2, <1>4, <1>5, StandingKeeps, OpKept, DocsSame DEF RecEvent, config

LEMMA RecIndexStep == ASSUME IndInv, RecIndex PROVE IndInv'
<1>1. rec.event \in EventId
  BY DEF IndInv, RecOK, RecIndex
<1>2. rec' \in Rec /\ indexed' \subseteq EventId
  BY <1>1 DEF RecIndex, IndInv, TypeOK, Rec
<1>3. RecOK'
  BY <1>1, <1>2, RecOnly DEF RecIndex, IndInv, TypeOK, Rec
<1>4. TypeOK' /\ DocOK' /\ IsFiniteSet(events')
  BY <1>2 DEF RecIndex, IndInv, TypeOK, DocOK, Exists, config
<1> QED
  BY <1>3, <1>4, StandingKeeps, OpKept, DocsSame DEF RecIndex, config

LEMMA RecTouchStep == ASSUME IndInv, RecTouch PROVE IndInv'
<1>1. rec.task \in Task /\ Touch(rec.task, rec.event, "none", NoData)
  BY DEF IndInv, RecOK, RecTouch, Lane
<1>2. /\ doc' \in [Task -> Doc] /\ doc'[rec.task].status = doc[rec.task].status
      /\ SameButMerged(doc'[rec.task], doc[rec.task])
      /\ \A u \in Task \ {rec.task} : doc'[u] = doc[u]
  BY <1>1, TouchDoc DEF Applies, IndInv
<1>3. (\A u \in Task : SameStanding(doc'[u], doc[u])) /\ DocOK'
  BY <1>1, <1>2, TouchKeeps DEF IndInv
<1>4. rec' \in Rec
  BY DEF RecTouch, IndInv, TypeOK, Rec
<1>5. RecOK'
  <2>1. \A a : Lane(a)' = Lane(a) /\ Reserved(a)' = Reserved(a)
    BY <1>3, LanesKept DEF RecTouch, config
  <2>2. Current(doc[rec.task])' <=> Current(doc[rec.task])
    BY <1>1, <1>3, LanesKept DEF RecTouch, config, Current, SameStanding
  <2>3. /\ rec'.pc = "project" /\ rec'.job = rec.job /\ rec'.task = rec.task /\ rec'.event = rec.event
        /\ op' = op /\ held' = held
    BY DEF RecTouch, IndInv, TypeOK, Rec, config
  <2> QED
    BY <1>2, <2>1, <2>2, <2>3 DEF IndInv, RecOK, RecTouch, Current
<1>6. TypeOK' /\ IsFiniteSet(events')
  BY <1>2, <1>4 DEF RecTouch, IndInv, TypeOK, config
<1> QED
  BY <1>3, <1>5, <1>6, StandingKeeps, OpKept DEF RecTouch, config

LEMMA RecProjectStep == ASSUME IndInv, RecProject PROVE IndInv'
<1>1. /\ rec.task \in Task /\ rec.task \in Lane(op.lane) /\ Exists(rec.task)
      /\ doc[rec.task].status = "PENDING" /\ op.pc = "reconcile" /\ op.lane \in Principal
  BY DEF IndInv, RecOK, RecProject, Lane
<1>2. rec' = NoRec /\ rec'.pc = "none" /\ rec'.job = "none"
  BY DEF RecProject, NoRec
<1> DEFINE state == IF rec.job = "promote" THEN "ready" ELSE "queued"
           ready == IF rec.job = "promote" THEN rec.event ELSE NoEvent
<1>3. Project(rec.task, state, ready) /\ state \in QueueState /\ ready \in EventId \cup {NoEvent}
  BY DEF RecProject, QueueState, IndInv, RecOK
<1>4. state \in {"ready", "queued"} /\ (state = "ready" => rec.job = "promote")
  OBVIOUS
<1> HIDE DEF state, ready
<1>5. /\ doc' \in [Task -> Doc]
      /\ doc'[rec.task] = [doc[rec.task] EXCEPT !.queue = state, !.readyEvent = ready]
      /\ \A u \in Task \ {rec.task} : doc'[u] = doc[u]
  BY <1>1, <1>3, ProjectDoc DEF IndInv
<1>6. /\ doc'[rec.task].status = "PENDING" /\ doc'[rec.task].queue = state
      /\ doc'[rec.task].assignee = doc[rec.task].assignee
      /\ doc'[rec.task].generation = doc[rec.task].generation
  BY <1>1, <1>5 DEF IndInv, TypeOK, Doc
<1>7. DocOK'
  BY <1>1, <1>4, <1>5, <1>6 DEF DocOK, IndInv, Exists
<1>8. TypeOK' /\ IsFiniteSet(events') /\ IsFiniteSet(Created')
  <2>1. Created' = Created
    BY <1>1, <1>5, <1>6 DEF Created, Exists
  <2> QED
    BY <1>2, <1>5, <2>1, NoOpType DEF RecProject, IndInv, TypeOK, config
<1>9. RecOK'
  BY <1>2 DEF RecOK
<1>10. OpOK'
  <2>1. \A u \in Task : /\ doc'[u].status = doc[u].status /\ doc'[u].assignee = doc[u].assignee
                        /\ doc'[u].generation = doc[u].generation
    BY <1>1, <1>5, <1>6
  <2>2. op' = op /\ held' = held /\ generation' = generation
    BY DEF RecProject, config
  <2> QED
    BY <1>1, <2>1, <2>2 DEF OpOK, IndInv, OnTask, Pending, Exists, Current
<1>11. SingleReservation'
  <2>1. ASSUME NEW a \in Principal PROVE Reserved(a)' \subseteq Reserved(a) \cup {rec.task}
    BY <1>5 DEF Reserved, Lane, Exists
  <2>2. ASSUME NEW a \in Principal, a # op.lane PROVE rec.task \notin Reserved(a)'
    BY <1>1, <1>6, <2>2 DEF Reserved, Lane
  <2>3. rec.job = "promote" => Reserved(op.lane) = {}
    BY DEF IndInv, RecOK
  <2>4. rec.job # "promote" => ~Reserves(doc'[rec.task])
    BY <1>4, <1>6 DEF Reserves, Effective, Terminal
  <2>5. rec.job # "promote" => \A a \in Principal : rec.task \notin Reserved(a)'
    BY <2>4 DEF Reserved
  <2> QED
    BY <2>1, <2>2, <2>3, <2>5 DEF IndInv, SingleReservation
<1> QED
  BY <1>7, <1>8, <1>9, <1>10, <1>11 DEF IndInv

LEMMA OpFields ==
  ASSUME TypeOK, NEW pc \in OpPc, op' = [op EXCEPT !.pc = pc]
  PROVE  /\ op' \in Op /\ op'.pc = pc /\ op'.kind = op.kind /\ op'.actor = op.actor
         /\ op'.lane = op.lane /\ op'.task = op.task /\ op'.key = op.key
         /\ op'.status = op.status /\ op'.data = op.data /\ op'.event = op.event
BY DEF TypeOK, Op

LEMMA ReleaseOK == ASSUME Release PROVE OpOK' /\ RecOK' /\ op' \in Op /\ rec' \in Rec
BY NoOpType DEF Release, OpOK, RecOK, OnTask, Pending, NoOp, NoRec

\* After a reconciliation the reserved task is the one reconciliation keeps.
LEMMA SettledKeeps ==
  ASSUME TypeOK, NEW a, NEW t \in Reserved(a), Settled(a)
  PROVE  Preserved(a, t)
BY DEF Settled, Demotable, Reserved, Preserved, Running, Reserves

LEMMA ReconciledStep == ASSUME IndInv, Reconciled PROVE IndInv'
<1>1. op.pc = "reconcile" /\ op.lane \in Principal /\ op.kind # "none"
  BY ReconcileLane DEF Reconciled, Scanning
<1>2. CASE Release
  BY <1>2, ReleaseOK, StandingKeeps, DocsSame
     DEF Reconciled, durable, config, IndInv, TypeOK, DocOK, Exists
<1>3. ASSUME NEW pc \in {"create", "event", "touch"}, Goto(pc),
             pc = "create" => op.kind = "assign",
             pc # "create" => op.kind = "start" /\ op.task \in Reserved(op.lane) /\ Settled(op.lane),
             pc = "touch" => op.event # NoEvent
      PROVE  IndInv'
  <2>1. /\ op' \in Op /\ op'.pc = pc /\ op'.kind = op.kind /\ op'.actor = op.actor
        /\ op'.lane = op.lane /\ op'.task = op.task /\ op'.key = op.key
        /\ op'.status = op.status /\ op'.data = op.data /\ op'.event = op.event
    BY <1>3, OpFields DEF IndInv, Goto, OpPc
  <2>2. rec' = NoRec /\ rec' \in Rec /\ RecOK'
    BY <1>3, NoOpType DEF Goto, NoRec, RecOK
  <2>3. pc # "create" => Preserved(op.lane, op.task)
    BY <1>3, SettledKeeps DEF IndInv
  <2>4. generation' = generation /\ held' = held /\ doc' = doc
    BY DEF Reconciled, config, durable
  <2>5. \A t \in Task : Preserved(op.lane, t)' <=> Preserved(op.lane, t)
    <3>1. \A a : \A t \in Task : Preserved(a, t)' <=> Preserved(a, t)
      BY <2>4, LanesKept, DocsSame
    <3> QED
      BY <2>1, <3>1 DEF Preserved, Running, Reserved, Lane, IsHead
  <2>6. op.event = NoEvent \/ op.event \in EventId
    BY DEF IndInv, TypeOK, Op
  <2>7. op.kind = "start" => op.task \in Task
    BY DEF IndInv, OpOK
  <2>8. pc # "create" => Preserved(op.lane, op.task)'
    BY <1>3, <2>1, <2>3, <2>5, <2>7
  <2>9. OpOK'
    BY <1>1, <1>3, <2>1, <2>4, <2>6, <2>8 DEF OpOK, IndInv, OnTask, Pending, Exists, Current
  <2> QED
    BY <2>1, <2>2, <2>4, <2>9, StandingKeeps, DocsSame
       DEF Reconciled, durable, config, IndInv, TypeOK, DocOK, Exists
<1>4. CASE ~Corrupt(op.lane) /\ op.kind = "assign" /\ op.task = NoTask
  BY <1>2, <1>3, <1>4 DEF Reconciled
<1>5. CASE ~Corrupt(op.lane) /\ op.kind = "start"
  <2>1. op.task \in Task /\ Exists(op.task) /\ doc[op.task].assignee = op.lane
    BY <1>5 DEF IndInv, OpOK
  <2>2. MayStart(op.task) => op.task \in Reserved(op.lane)
    BY <2>1 DEF MayStart, Reserved, Lane, Reserves
  <2> QED
    BY <1>2, <1>3, <1>5, <2>2 DEF Reconciled
<1>6. CASE Corrupt(op.lane) \/ ~((op.kind = "assign" /\ op.task = NoTask) \/ op.kind = "start")
  <2>1. Release
    BY <1>6 DEF Reconciled
  <2> QED
    BY <1>2, <2>1
<1> QED
  BY <1>4, <1>5, <1>6

LEMMA ReconciliationStep == IndInv /\ Reconciliation => IndInv'
BY DemoteStep, PromoteStep, NormaliseStep, RecEventStep, RecIndexStep, RecTouchStep,
   RecProjectStep, ReconciledStep DEF Reconciliation

----------------------------------------------------------------------------
(* The writes of the operation in progress. *)

\* Outside the reconciliation there is no frame.
LEMMA WriteRec ==
  ASSUME IndInv, op.pc # "reconcile", rec' = rec \/ rec' = NoRec
  PROVE  rec' \in Rec /\ RecOK'
<1>1. rec.pc = "none" /\ rec.job = "none"
  BY DEF IndInv, RecOK
<1> QED
  BY <1>1, NoOpType DEF RecOK, NoRec, IndInv, TypeOK

LEMMA OnTaskFacts ==
  ASSUME IndInv, op.pc \in OnTask
  PROVE  /\ op.task \in Task /\ Exists(op.task) /\ op.lane = doc[op.task].assignee
         /\ op.lane \in Principal /\ op.actor \in Principal /\ op.kind # "none"
         /\ op.pc # "reconcile"
BY DEF IndInv, OpOK, OnTask, NoOp

\* The next write of the same operation still finds what the guards established.
LEMMA AdvanceOK ==
  ASSUME IndInv, op.pc \in OnTask, op' \in Op, NEW pc \in OpPc,
         pc \notin {"none", "create", "event"},
         op'.pc = pc, op'.kind = op.kind, op'.actor = op.actor, op'.lane = op.lane,
         op'.task = op.task, op'.key = op.key, op'.status = op.status,
         pc \in {"index", "edit", "touch"} => op'.event \in EventId /\ op.pc \in Pending,
         pc = "assignIndex" => op.kind = "assign" /\ op.key \in Key,
         pc = "project" => op.status \in Terminal \/ doc'[op.task].status = "IN_WORK",
         UNCHANGED config, \A t \in Task : SameStanding(doc'[t], doc[t])
  PROVE  OpOK'
<1>1. /\ op.task \in Task /\ Exists(op.task) /\ op.lane = doc[op.task].assignee
      /\ op.lane \in Principal /\ op.actor \in Principal
  BY OnTaskFacts
<1>2. generation' = generation /\ held' = held
  BY DEF config
<1>3. SameStanding(doc'[op.task], doc[op.task])
  BY <1>1
<1>4. /\ doc'[op.task].status = doc[op.task].status
      /\ doc'[op.task].assignee = doc[op.task].assignee
      /\ doc'[op.task].generation = doc[op.task].generation
  BY <1>3 DEF SameStanding
<1>5. Preserved(op.lane, op.task)' <=> Preserved(op.lane, op.task)
  <2>1. \A a : \A t \in Task : Preserved(a, t)' <=> Preserved(a, t)
    BY <1>2, LanesKept
  <2> QED
    BY <1>1, <2>1
<1>6. OpOK /\ op.kind # "none"
  BY OnTaskFacts DEF IndInv
<1>7. op'.kind # "none" /\ op'.actor \in Principal /\ op'.lane \in Principal
  BY <1>1, <1>6
<1>8. op'.task \in Task /\ Exists(op.task)' /\ op'.lane = doc'[op'.task].assignee
  BY <1>1, <1>4 DEF Exists
<1>9. op.kind = "start" =>
        /\ op'.status = "IN_WORK" /\ op'.lane \notin held' /\ Current(doc[op.task])'
        /\ pc \in Pending => Preserved(op.lane, op.task)'
  BY <1>2, <1>4, <1>5, <1>6 DEF OpOK, Pending, Current
<1>10. op.kind \in {"report", "cancel"} =>
        /\ op.kind = "report" => op'.status \in ReportStatus
        /\ op.kind = "cancel" => op'.status = "CANCELLED"
        /\ pc \in Pending => doc'[op'.task].status = IF op.kind = "report" THEN "IN_WORK" ELSE "PENDING"
  BY <1>4, <1>6 DEF OpOK, Pending
<1> QED
  BY <1>7, <1>8, <1>9, <1>10 DEF OpOK

LEMMA GotoStep ==
  ASSUME IndInv, op.pc \in OnTask, NEW pc \in OpPc, Goto(pc),
         pc \notin {"none", "create", "event"},
         pc \in {"index", "edit", "touch"} => op.event \in EventId /\ op.pc \in Pending,
         pc = "assignIndex" => op.kind = "assign" /\ op.key \in Key,
         pc = "project" => op.status \in Terminal \/ doc'[op.task].status = "IN_WORK",
         UNCHANGED config, \A t \in Task : SameStanding(doc'[t], doc[t])
  PROVE  op' \in Op /\ rec' \in Rec /\ OpOK' /\ RecOK'
<1>1. /\ op' \in Op /\ op'.pc = pc /\ op'.kind = op.kind /\ op'.actor = op.actor
      /\ op'.lane = op.lane /\ op'.task = op.task /\ op'.key = op.key
      /\ op'.status = op.status /\ op'.data = op.data /\ op'.event = op.event
  BY OpFields DEF Goto, IndInv
<1>2. OpOK'
  BY <1>1, AdvanceOK
<1>3. op.pc # "reconcile"
  BY OnTaskFacts
<1> QED
  BY <1>1, <1>2, <1>3, WriteRec DEF Goto

LEMMA PutIndexStep == ASSUME IndInv, PutIndex PROVE IndInv'
<1>1. op.pc = "index" /\ op.pc \in OnTask /\ op.pc \in Pending /\ op.event \in EventId
  BY DEF PutIndex, IndInv, OpOK, OnTask, Pending
<1>2. op' \in Op /\ rec' \in Rec /\ OpOK' /\ RecOK'
  BY <1>1, GotoStep, DocsSame DEF PutIndex, OpPc
<1>3. TypeOK' /\ DocOK' /\ IsFiniteSet(events')
  BY <1>1, <1>2 DEF PutIndex, IndInv, TypeOK, DocOK, Exists, config
<1> QED
  BY <1>2, <1>3, StandingKeeps, DocsSame DEF PutIndex, config

LEMMA EditTaskStep == ASSUME IndInv, EditTask PROVE IndInv'
<1>1. /\ op.pc = "edit" /\ op.pc \in OnTask /\ op.pc \in Pending /\ op.event \in EventId
      /\ op.task \in Task
  BY OnTaskFacts DEF EditTask, IndInv, OpOK, OnTask, Pending
<1>2. /\ doc' = [doc EXCEPT ![op.task] = [doc[op.task] EXCEPT !.edits = doc[op.task].edits + 1]]
      /\ doc[op.task] \in Doc
  BY <1>1 DEF EditTask, IndInv, TypeOK, Doc
<1>3. [doc[op.task] EXCEPT !.edits = doc[op.task].edits + 1] \in Doc
  BY <1>2 DEF Doc
<1>4. doc' \in [Task -> Doc]
  BY <1>2, <1>3 DEF IndInv, TypeOK
<1>5. /\ \A u \in Task \ {op.task} : doc'[u] = doc[u]
      /\ doc'[op.task] = [doc[op.task] EXCEPT !.edits = doc[op.task].edits + 1]
  BY <1>1, <1>2 DEF IndInv, TypeOK
<1>6. /\ doc'[op.task].status = doc[op.task].status /\ doc'[op.task].queue = doc[op.task].queue
      /\ doc'[op.task].assignee = doc[op.task].assignee /\ doc'[op.task].order = doc[op.task].order
      /\ doc'[op.task].generation = doc[op.task].generation
  BY <1>2, <1>5 DEF Doc
<1>7. (\A t \in Task : SameStanding(doc'[t], doc[t])) /\ DocOK'
  BY <1>1, <1>5, <1>6, ZenonT(40) DEF SameStanding, Effective, DocOK, IndInv, Exists
<1>8. op' \in Op /\ rec' \in Rec /\ OpOK' /\ RecOK'
  BY <1>1, <1>7, GotoStep DEF EditTask, OpPc
<1>9. TypeOK' /\ IsFiniteSet(events')
  BY <1>4, <1>8 DEF EditTask, IndInv, TypeOK, config
<1> QED
  BY <1>7, <1>8, <1>9, StandingKeeps DEF EditTask, config

\* The anchoring of a seat, and its two-step clearing, touch no document.
LEMMA AnchorSteps ==
  ASSUME IndInv, Anchor \/ AnchorCheck \/ AnchorClear
  PROVE  IndInv'
<1>1. op.pc \in {"anchor", "anchorCheck", "anchorClear"} /\ op.pc \in OnTask
  BY DEF Anchor, AnchorCheck, AnchorClear, OnTask
<1>2. op.task \in Task
  BY <1>1, OnTaskFacts
<1>3. op' \in Op /\ rec' \in Rec /\ OpOK' /\ RecOK'
  <2>1. CASE Release
    BY <2>1, ReleaseOK
  <2>2. CASE Goto("reconcile")
    BY <1>1, <2>2, GotoStep, DocsSame DEF Anchor, AnchorCheck, AnchorClear, OpPc, durable
  <2>3. CASE Goto("anchorClear")
    BY <1>1, <2>3, GotoStep, DocsSame DEF Anchor, AnchorCheck, AnchorClear, OpPc, durable
  <2> QED
    BY <2>1, <2>2, <2>3 DEF Anchor, AnchorCheck, AnchorClear
<1>4. active' \in [Principal -> Task \cup {NoTask}]
  BY <1>2 DEF Anchor, AnchorCheck, AnchorClear, IndInv, TypeOK, durable
<1>5. TypeOK' /\ DocOK' /\ IsFiniteSet(events')
  BY <1>3, <1>4 DEF Anchor, AnchorCheck, AnchorClear, IndInv, TypeOK, DocOK, Exists, config, durable
<1> QED
  BY <1>3, <1>5, StandingKeeps, DocsSame DEF Anchor, AnchorCheck, AnchorClear, config, durable

LEMMA PutAssignIndexStep == ASSUME IndInv, PutAssignIndex PROVE IndInv'
<1>1. op.pc = "assignIndex" /\ op.pc \in OnTask
  BY DEF PutAssignIndex, OnTask
<1>2. op.task \in Task /\ op.actor \in Principal /\ op.key \in Key
  BY <1>1, OnTaskFacts DEF IndInv, OpOK
<1>3. assignIndex' \subseteq Principal \X Key \X Task
  BY <1>2 DEF PutAssignIndex, IndInv, TypeOK
<1>4. op' \in Op /\ rec' \in Rec /\ OpOK' /\ RecOK'
  <2>1. CASE Release
    BY <2>1, ReleaseOK
  <2>2. CASE Goto("reconcile")
    BY <1>1, <2>2, GotoStep, DocsSame DEF PutAssignIndex, OpPc
  <2> QED
    BY <2>1, <2>2 DEF PutAssignIndex
<1>5. TypeOK' /\ DocOK' /\ IsFiniteSet(events')
  BY <1>3, <1>4 DEF PutAssignIndex, IndInv, TypeOK, DocOK, Exists, config
<1> QED
  BY <1>4, <1>5, StandingKeeps, DocsSame DEF PutAssignIndex, config

LEMMA AboutType ==
  ASSUME IndInv, op.task \in Task, op.pc = "event"
  PROVE  OpAbout \in About
<1>1. EventKind \in EventKinds
  BY DEF EventKind, EventKinds
<1> QED
  BY <1>1 DEF OpAbout, About, IndInv, TypeOK, Op

LEMMA AppendKeyedStep == ASSUME IndInv, AppendKeyed PROVE IndInv'
<1> DEFINE id == [by |-> op.actor, key |-> OpEventKey]
<1>1. op.pc = "event" /\ op.pc \in OnTask /\ op.pc \in Pending /\ op.key # NoKey
  BY DEF AppendKeyed, OnTask, Pending
<1>2. op.task \in Task /\ op.actor \in Principal /\ op.pc # "reconcile"
  BY <1>1, OnTaskFacts
<1>3. OpEventKey \in Key \cup Uuid \cup EngineKey
  <2>1. op.key \in Key
    BY <1>1 DEF IndInv, TypeOK, Op
  <2>2. CreatedKey(op.key) \in EngineKey
    BY <2>1 DEF EngineKey
  <2> QED
    BY <2>1, <2>2 DEF OpEventKey
<1>4. id \in EventId /\ OpAbout \in About
  BY <1>1, <1>2, <1>3, IdType, AboutType
<1> HIDE DEF id
<1>5. ASSUME NEW pc \in {"index", "touch"}, op' = [op EXCEPT !.pc = pc, !.event = id], rec' = rec
      PROVE  op' \in Op /\ OpOK' /\ rec' \in Rec /\ RecOK'
  <2>1. /\ op' \in Op /\ op'.pc = pc /\ op'.event = id /\ op'.kind = op.kind
        /\ op'.actor = op.actor /\ op'.lane = op.lane /\ op'.task = op.task
        /\ op'.key = op.key /\ op'.status = op.status
    BY <1>4, <1>5 DEF IndInv, TypeOK, Op, OpPc
  <2>2. OpOK'
    BY <1>1, <1>4, <2>1, AdvanceOK, DocsSame DEF AppendKeyed, OpPc
  <2> QED
    BY <1>2, <1>5, <2>1, <2>2, WriteRec
<1>6. /\ op' \in Op /\ OpOK' /\ rec' \in Rec /\ RecOK'
      /\ events' \subseteq Event /\ IsFiniteSet(events') /\ indexed' \subseteq EventId
  <2>1. CASE Unrecorded(id)
    <3>1. /\ PutEvent(id, OpAbout) /\ op' = [op EXCEPT !.pc = "index", !.event = id]
          /\ indexed' = indexed /\ rec' = rec
      BY <2>1 DEF AppendKeyed, id
    <3> QED
      BY <1>4, <1>5, <3>1, PutEventType DEF IndInv, TypeOK
  <2>2. CASE ~Unrecorded(id) /\ Conflicting(id, OpAbout)
    BY <2>2, ReleaseOK DEF AppendKeyed, id, IndInv, TypeOK
  <2>3. CASE ~Unrecorded(id) /\ ~Conflicting(id, OpAbout)
    <3>1. /\ op' = [op EXCEPT !.pc = "touch", !.event = id] /\ rec' = rec
          /\ indexed' = indexed \cup {id} /\ events' = events
      BY <2>3 DEF AppendKeyed, id
    <3> QED
      BY <1>4, <1>5, <3>1 DEF IndInv, TypeOK
  <2> QED
    BY <2>1, <2>2, <2>3
<1>7. TypeOK' /\ DocOK'
  BY <1>6 DEF AppendKeyed, IndInv, TypeOK, DocOK, Exists, config
<1> QED
  BY <1>6, <1>7, StandingKeeps, DocsSame DEF AppendKeyed, config

LEMMA AppendUnkeyedStep == ASSUME IndInv, AppendUnkeyed PROVE IndInv'
<1> DEFINE next == IF op.kind = "update" THEN "edit" ELSE "touch"
<1>1. op.pc = "event" /\ op.pc \in OnTask /\ op.pc \in Pending
  BY DEF AppendUnkeyed, OnTask, Pending
<1>2. op.task \in Task /\ op.actor \in Principal /\ op.pc # "reconcile"
  BY <1>1, OnTaskFacts
<1>3. PICK u \in Uuid : LET id == [by |-> op.actor, key |-> u]
                        IN PutEvent(id, OpAbout) /\ op' = [op EXCEPT !.pc = next, !.event = id]
  BY DEF AppendUnkeyed
<1> DEFINE id == [by |-> op.actor, key |-> u]
<1>4. id \in EventId /\ OpAbout \in About /\ next \in {"edit", "touch"}
  BY <1>1, <1>2, IdType, AboutType
<1>5. PutEvent(id, OpAbout) /\ op' = [op EXCEPT !.pc = next, !.event = id]
  BY <1>3
<1> HIDE DEF id, next
<1>6. events' \subseteq Event /\ IsFiniteSet(events')
  BY <1>4, <1>5, PutEventType DEF IndInv
<1>7. /\ op' \in Op /\ op'.pc = next /\ op'.event = id /\ op'.kind = op.kind
      /\ op'.actor = op.actor /\ op'.lane = op.lane /\ op'.task = op.task
      /\ op'.key = op.key /\ op'.status = op.status
  BY <1>4, <1>5 DEF IndInv, TypeOK, Op, OpPc
<1>8. OpOK'
  BY <1>1, <1>4, <1>7, AdvanceOK, DocsSame DEF AppendUnkeyed, OpPc
<1>9. rec' \in Rec /\ RecOK'
  BY <1>2, WriteRec DEF AppendUnkeyed
<1>10. TypeOK' /\ DocOK'
  BY <1>6, <1>7, <1>9 DEF AppendUnkeyed, IndInv, TypeOK, DocOK, Exists, config
<1> QED
  BY <1>6, <1>8, <1>9, <1>10, StandingKeeps, DocsSame DEF AppendUnkeyed, config

\* One document changes and takes no reservation it did not hold.
LEMMA OneShrinks ==
  ASSUME SingleReservation, NEW t \in Task, \A u \in Task \ {t} : doc'[u] = doc[u],
         \A a \in Principal : t \in Reserved(a)' => t \in Reserved(a)
  PROVE  SingleReservation'
<1>1. ASSUME NEW a \in Principal PROVE Reserved(a)' \subseteq Reserved(a)
  BY DEF Reserved, Lane, Exists
<1> QED
  BY <1>1 DEF SingleReservation

LEMMA OrderTimeType == IsFiniteSet(Created) => OrderTime \subseteq Nat
<1> SUFFICES ASSUME IsFiniteSet(Created) PROVE OrderTime \subseteq Nat
  OBVIOUS
<1>1. Cardinality(Created) \in Nat
  BY FS_CardinalityType
<1>2. OrderTime \subseteq 1..MaxClock \/ OrderTime = {1 + Cardinality(Created)}
  BY DEF OrderTime, Created
<1> QED
  BY <1>1, <1>2, ConstantsAssumption

LEMMA CreateTaskStep == ASSUME IndInv, CreateTask PROVE IndInv'
<1>1. /\ op.pc = "create" /\ op.kind = "assign" /\ op.lane \in Principal
      /\ op.actor \in Principal /\ op.pc # "reconcile"
  BY DEF CreateTask, IndInv, OpOK
<1>2. PICK t \in Task, n \in OrderTime :
         /\ ~Exists(t)
         /\ doc' = [doc EXCEPT ![t] =
                 [NoDoc EXCEPT !.status = "PENDING", !.order = n, !.issuer = op.actor,
                               !.assignee = op.lane, !.key = op.key, !.fields = op.data,
                               !.generation = generation]]
         /\ op' = [op EXCEPT !.pc = "event", !.task = t]
  BY DEF CreateTask
<1> DEFINE new == [NoDoc EXCEPT !.status = "PENDING", !.order = n, !.issuer = op.actor,
                               !.assignee = op.lane, !.key = op.key, !.fields = op.data,
                               !.generation = generation]
<1>3. n \in Nat
  BY OrderTimeType DEF IndInv
<1>4. /\ new \in Doc /\ new.status = "PENDING" /\ new.assignee = op.lane
      /\ new.queue = "queued"
  <2>1. op.key \in Key \cup {NoKey} /\ op.data \in Data \cup {NoData} /\ generation \in Generation
    BY DEF IndInv, TypeOK, Op
  <2> QED
    BY <1>1, <1>3, <2>1, NoDocType DEF Doc, NoDoc, Status
<1> HIDE DEF new
<1>5. doc' \in [Task -> Doc] /\ doc'[t] = new /\ \A u \in Task \ {t} : doc'[u] = doc[u]
  BY <1>2, <1>4 DEF IndInv, TypeOK, new
<1>6. /\ op' \in Op /\ op'.pc = "event" /\ op'.task = t /\ op'.kind = "assign"
      /\ op'.actor = op.actor /\ op'.lane = op.lane
  BY <1>1, <1>2 DEF IndInv, TypeOK, Op, OpPc
<1>7. OpOK'
  BY <1>1, <1>4, <1>5, <1>6 DEF OpOK, OnTask, Pending, Exists
<1>8. DocOK'
  BY <1>1, <1>4, <1>5 DEF DocOK, IndInv, Exists
<1>9. rec' \in Rec /\ RecOK'
  BY <1>1, WriteRec DEF CreateTask
<1>10. IsFiniteSet(Created')
  <2>1. Created' = Created \cup {t}
    BY <1>4, <1>5 DEF Created, Exists
  <2> QED
    BY <2>1, FS_AddElement DEF IndInv
<1>11. SingleReservation'
  <2>1. ~Reserves(new)
    BY <1>4 DEF Reserves, Effective, Terminal
  <2>2. \A a \in Principal : t \notin Reserved(a)'
    BY <1>5, <2>1 DEF Reserved
  <2> QED
    BY <1>5, <2>2, OneShrinks DEF IndInv
<1>12. TypeOK' /\ IsFiniteSet(events')
  BY <1>5, <1>6, <1>9 DEF CreateTask, IndInv, TypeOK, config
<1> QED
  BY <1>7, <1>8, <1>9, <1>10, <1>11, <1>12 DEF IndInv

\* What merging the event of the operation in progress does to the status.
LEMMA TouchOutcome ==
  ASSUME IndInv, TouchTask
  PROVE  /\ op.task \in Task /\ doc' \in [Task -> Doc] /\ SameButMerged(doc'[op.task], doc[op.task])
         /\ \A u \in Task \ {op.task} : doc'[u] = doc[u]
         /\ \/ doc'[op.task].status = doc[op.task].status
            \/ /\ op.kind = "start" /\ op.task \in Reserved(op.lane) /\ Preserved(op.lane, op.task)
               /\ doc[op.task].status = "PENDING" /\ doc'[op.task].status = "IN_WORK"
            \/ /\ op.kind = "report" /\ doc[op.task].status = "IN_WORK"
               /\ doc'[op.task].status \in {"COMPLETED", "BLOCKED", "FAILED"}
            \/ /\ op.kind = "cancel" /\ doc[op.task].status = "PENDING"
               /\ doc'[op.task].status = "CANCELLED"
<1>1. op.pc = "touch" /\ op.pc \in OnTask /\ op.pc \in Pending
  BY DEF TouchTask, OnTask, Pending
<1>2. op.task \in Task /\ Exists(op.task)
  BY <1>1, OnTaskFacts
<1>3. OpStatus \in Status \cup {"none"} /\ OpSummary \in Data \cup {NoData}
  BY DEF OpStatus, OpSummary, IndInv, TypeOK, Op
<1>4. /\ doc' \in [Task -> Doc]
      /\ doc'[op.task].status = IF Applies(doc[op.task], OpStatus) THEN OpStatus ELSE doc[op.task].status
      /\ SameButMerged(doc'[op.task], doc[op.task])
      /\ \A u \in Task \ {op.task} : doc'[u] = doc[u]
  BY <1>2, <1>3, TouchDoc DEF TouchTask, IndInv
<1>5. CASE ~Applies(doc[op.task], OpStatus)
  BY <1>2, <1>4, <1>5
<1>6. CASE Applies(doc[op.task], OpStatus)
  <2>1. op.kind \in {"start", "report", "cancel"} /\ OpStatus = op.status
    BY <1>6 DEF OpStatus, Applies
  <2>2. CASE op.kind = "start"
    <3>1. op.status = "IN_WORK" /\ Preserved(op.lane, op.task)
      BY <1>1, <2>2 DEF IndInv, OpOK
    <3>2. doc[op.task].status = "PENDING"
      BY <1>6, <2>1, <3>1 DEF Applies, Terminal
    <3>3. op.task \in Reserved(op.lane)
      BY <3>1 DEF Preserved, Running, Reserved, Reserves
    <3> QED
      BY <1>2, <1>4, <1>6, <2>1, <2>2, <3>1, <3>2, <3>3
  <2>3. CASE op.kind = "report"
    <3>1. op.status \in ReportStatus /\ doc[op.task].status = "IN_WORK"
      BY <1>1, <2>3 DEF IndInv, OpOK
    <3>2. op.status # "IN_WORK"
      BY <1>6, <2>1, <3>1 DEF Applies
    <3>3. op.status \in {"COMPLETED", "BLOCKED", "FAILED"}
      BY <3>1, <3>2, ConstantsAssumption
    <3> QED
      BY <1>2, <1>4, <1>6, <2>1, <2>3, <3>1, <3>3
  <2>4. CASE op.kind = "cancel"
    <3>1. op.status = "CANCELLED" /\ doc[op.task].status = "PENDING"
      BY <1>1, <2>4 DEF IndInv, OpOK
    <3> QED
      BY <1>2, <1>4, <1>6, <2>1, <2>4, <3>1
  <2> QED
    BY <2>1, <2>2, <2>3, <2>4
<1> QED
  BY <1>5, <1>6

LEMMA TouchTaskStep == ASSUME IndInv, TouchTask PROVE IndInv'
<1> DEFINE t == op.task
<1>1. op.pc = "touch" /\ op.pc \in OnTask /\ op.pc \in Pending
  BY DEF TouchTask, OnTask, Pending
<1>2. /\ t \in Task /\ Exists(t) /\ op.lane = doc[t].assignee
      /\ op.lane \in Principal /\ op.actor \in Principal /\ op.pc # "reconcile" /\ op.kind # "none"
  BY <1>1, OnTaskFacts
<1>3. /\ doc' \in [Task -> Doc] /\ SameButMerged(doc'[t], doc[t])
      /\ \A u \in Task \ {t} : doc'[u] = doc[u]
  BY TouchOutcome
<1>4. doc'[t].status = doc[t].status \/ doc'[t].status \in Terminal \cup {"IN_WORK"}
  BY TouchOutcome DEF Terminal
<1>5. doc'[t].status # "absent" /\ DocOK'
  <2>1. doc'[t].status # "absent"
    BY <1>2, <1>4 DEF Exists, Terminal
  <2> QED
    BY <1>2, <1>3, <1>4, <2>1 DEF DocOK, IndInv, Exists, SameButMerged
<1>6. SingleReservation'
  <2>1. ASSUME NEW a \in Principal, t \in Reserved(a)' PROVE t \in Reserved(a)
    <3>1. Reserves(doc'[t]) /\ doc'[t].assignee = a
      BY <2>1, <1>2 DEF Reserved, Lane
    <3>2. doc[t].assignee = a
      BY <3>1, <1>3 DEF SameButMerged
    <3>3. CASE doc'[t].status = doc[t].status
      <4>1. Effective(doc'[t]) = Effective(doc[t])
        BY <1>3, <3>3 DEF SameButMerged, Effective
      <4> QED
        BY <1>2, <3>1, <3>2, <4>1 DEF Reserved, Lane, Reserves
    <3>4. CASE op.kind = "start" /\ t \in Reserved(op.lane)
      BY <1>2, <3>2, <3>4
    <3>5. CASE doc'[t].status \in Terminal
      BY <3>1, <3>5 DEF Reserves, Effective
    <3> QED
      BY <3>3, <3>4, <3>5, TouchOutcome DEF Terminal
  <2> QED
    BY <1>2, <1>3, <2>1, OneShrinks DEF IndInv
<1>7. Created' = Created
  BY <1>2, <1>3, <1>5 DEF Created, Exists
<1>8. ASSUME NEW pc \in {"reconcile", "assignIndex", "project"}, Goto(pc), pc = NextAfterTouch,
             pc = "project" => doc'[t].status = op.status
      PROVE  op' \in Op /\ rec' \in Rec /\ OpOK' /\ RecOK'
  <2>1. /\ op' \in Op /\ op'.pc = pc /\ op'.kind = op.kind /\ op'.actor = op.actor
        /\ op'.lane = op.lane /\ op'.task = op.task /\ op'.key = op.key
        /\ op'.status = op.status /\ op'.data = op.data /\ op'.event = op.event
    BY <1>8, OpFields DEF Goto, IndInv, OpPc
  <2>2. doc'[t].assignee = doc[t].assignee /\ doc'[t].generation = doc[t].generation
    BY <1>3 DEF SameButMerged
  <2>3. held' = held /\ generation' = generation
    BY DEF TouchTask, config
  <2>4. /\ pc = "assignIndex" => op.kind = "assign" /\ op.key \in Key
        /\ op.kind \in {"start", "report", "cancel"} => pc = "project"
    BY <1>8 DEF NextAfterTouch, IndInv, TypeOK, Op
  <2>5. OpOK /\ op.task \in Task
    BY <1>2 DEF IndInv
  <2>6. pc = "project" => op.status \in Terminal \/ doc'[op.task].status = "IN_WORK"
    <3>1. pc = "project" => op.kind \in {"start", "report", "cancel"}
      BY <1>8 DEF NextAfterTouch
    <3> QED
      BY <1>8, <2>5, <3>1, ConstantsAssumption DEF OpOK, Terminal
  <2>7. op.kind = "start" => op'.status = "IN_WORK" /\ op'.lane \notin held' /\ Current(doc[op.task])'
    BY <2>1, <2>2, <2>3, <2>5 DEF OpOK, Current
  <2>8. OpOK'
    BY <1>2, <1>5, <1>8, <2>1, <2>2, <2>4, <2>5, <2>6, <2>7 DEF OpOK, OnTask, Pending, Exists
  <2> QED
    BY <1>2, <1>8, <2>1, <2>8, WriteRec DEF Goto
<1>9. op' \in Op /\ rec' \in Rec /\ OpOK' /\ RecOK'
  <2>1. CASE Release
    BY <2>1, ReleaseOK
  <2>2. CASE ~Release
    <3>1. /\ Goto(NextAfterTouch) /\ NextAfterTouch # "none"
          /\ OpStatus # "none" => doc'[t].status = OpStatus
      BY <2>2 DEF TouchTask
    <3>2. NextAfterTouch \in {"reconcile", "assignIndex", "project"}
      BY <3>1 DEF NextAfterTouch
    <3>3. NextAfterTouch = "project" => OpStatus = op.status
      BY DEF NextAfterTouch, OpStatus
    <3>4. op.kind \in {"start", "report", "cancel"} => op.status # "none"
      BY ConstantsAssumption DEF IndInv, OpOK
    <3>5. NextAfterTouch = "project" => doc'[t].status = op.status
      BY <3>1, <3>3, <3>4 DEF NextAfterTouch
    <3> QED
      BY <1>8, <3>1, <3>2, <3>5
  <2> QED
    BY <2>1, <2>2
<1>10. TypeOK' /\ IsFiniteSet(events')
  BY <1>3, <1>9 DEF TouchTask, IndInv, TypeOK, config
<1> QED
  BY <1>5, <1>6, <1>7, <1>9, <1>10 DEF IndInv

\* The queue projection of an operation: a closed task, or one that runs already.
LEMMA ProjectOutcome ==
  ASSUME IndInv, ProjectTask
  PROVE  /\ op.pc \in OnTask /\ op.task \in Task /\ doc' \in [Task -> Doc]
         /\ \A u \in Task \ {op.task} : doc'[u] = doc[u]
         /\ \E state \in {"terminal", "running"}, r \in EventId \cup {NoEvent} :
              /\ doc'[op.task] = [doc[op.task] EXCEPT !.queue = state, !.readyEvent = r]
              /\ state = "running" => doc[op.task].status = "IN_WORK"
<1>1. op.pc = "project" /\ op.pc \in OnTask
  BY DEF ProjectTask, OnTask
<1>2. op.task \in Task /\ TypeOK
  BY <1>1, OnTaskFacts DEF IndInv
<1>3. ASSUME NEW state \in {"terminal", "running"}, NEW r \in EventId \cup {NoEvent},
             Project(op.task, state, r), state = "running" => doc[op.task].status = "IN_WORK"
      PROVE  /\ doc' \in [Task -> Doc]
             /\ \A u \in Task \ {op.task} : doc'[u] = doc[u]
             /\ \E st \in {"terminal", "running"}, ev \in EventId \cup {NoEvent} :
                  /\ doc'[op.task] = [doc[op.task] EXCEPT !.queue = st, !.readyEvent = ev]
                  /\ st = "running" => doc[op.task].status = "IN_WORK"
  <2>1. state \in QueueState
    BY DEF QueueState
  <2>2. /\ doc' \in [Task -> Doc]
        /\ doc'[op.task] = [doc[op.task] EXCEPT !.queue = state, !.readyEvent = r]
        /\ \A u \in Task \ {op.task} : doc'[u] = doc[u]
    BY <1>2, <1>3, <2>1, ProjectDoc
  <2> QED
    BY <1>3, <2>2
<1>4. CASE op.status \in Terminal
  <2>1. Project(op.task, "terminal", NoEvent)
    BY <1>4 DEF ProjectTask
  <2> QED
    BY <1>1, <1>2, <1>3, <2>1
<1>5. CASE op.status \notin Terminal
  <2> DEFINE r == doc[op.task].readyEvent
  <2>1. Project(op.task, "running", r)
    BY <1>5 DEF ProjectTask
  <2>2. doc[op.task].status = "IN_WORK"
    BY <1>1, <1>5 DEF IndInv, OpOK
  <2>3. r \in EventId \cup {NoEvent}
    BY <1>2 DEF TypeOK, Doc
  <2> HIDE DEF r
  <2> QED
    BY <1>1, <1>2, <1>3, <2>1, <2>2, <2>3
<1> QED
  BY <1>4, <1>5

LEMMA ProjectTaskStep == ASSUME IndInv, ProjectTask PROVE IndInv'
<1> DEFINE t == op.task
<1>1. /\ op.pc \in OnTask /\ t \in Task /\ doc' \in [Task -> Doc]
      /\ \A u \in Task \ {t} : doc'[u] = doc[u]
  BY ProjectOutcome
<1>2. /\ Exists(t) /\ op.lane = doc[t].assignee
      /\ op.lane \in Principal /\ op.actor \in Principal /\ op.pc # "reconcile" /\ op.kind # "none"
  BY <1>1, OnTaskFacts
<1>3. PICK state \in {"terminal", "running"}, r \in EventId \cup {NoEvent} :
         /\ doc'[t] = [doc[t] EXCEPT !.queue = state, !.readyEvent = r]
         /\ state = "running" => doc[t].status = "IN_WORK"
  BY ProjectOutcome
<1>4. /\ doc'[t].status = doc[t].status /\ doc'[t].queue = state
      /\ doc'[t].assignee = doc[t].assignee /\ doc'[t].generation = doc[t].generation
  BY <1>1, <1>3 DEF IndInv, TypeOK, Doc
<1>5. DocOK'
  BY <1>1, <1>3, <1>4 DEF DocOK, IndInv, Exists
<1>6. Created' = Created
  BY <1>1, <1>4 DEF Created, Exists
<1>7. SingleReservation'
  <2>1. ASSUME NEW a \in Principal, t \in Reserved(a)' PROVE t \in Reserved(a)
    <3>1. Reserves(doc'[t]) /\ doc'[t].assignee = a
      BY <2>1, <1>1 DEF Reserved, Lane
    <3>2. Effective(doc'[t]) = Effective(doc[t])
      BY <1>3, <1>4, <3>1 DEF Reserves, Effective, Terminal
    <3> QED
      BY <1>1, <1>2, <1>4, <3>1, <3>2 DEF Reserved, Lane, Reserves
  <2> QED
    BY <1>1, <2>1, OneShrinks DEF IndInv
<1>8. ASSUME NEW pc \in {"anchor", "anchorCheck"}, Goto(pc)
      PROVE  op' \in Op /\ rec' \in Rec /\ OpOK' /\ RecOK'
  <2>1. /\ op' \in Op /\ op'.pc = pc /\ op'.kind = op.kind /\ op'.actor = op.actor
        /\ op'.lane = op.lane /\ op'.task = op.task /\ op'.key = op.key
        /\ op'.status = op.status /\ op'.data = op.data /\ op'.event = op.event
    BY <1>8, OpFields DEF Goto, IndInv, OpPc
  <2>2. held' = held /\ generation' = generation
    BY DEF ProjectTask, config
  <2>3. OpOK /\ op.task \in Task
    BY <1>1 DEF IndInv
  <2>4. op.kind = "start" => op'.status = "IN_WORK" /\ op'.lane \notin held' /\ Current(doc[op.task])'
    BY <1>4, <2>1, <2>2, <2>3 DEF OpOK, Current
  <2>5. OpOK'
    BY <1>2, <1>4, <1>8, <2>1, <2>3, <2>4 DEF OpOK, OnTask, Pending, Exists
  <2> QED
    BY <1>2, <1>8, <2>1, <2>5, WriteRec DEF Goto
<1>9. op' \in Op /\ rec' \in Rec /\ OpOK' /\ RecOK'
  <2>1. CASE Release
    BY <2>1, ReleaseOK
  <2> QED
    BY <1>8, <2>1 DEF ProjectTask
<1>10. TypeOK' /\ IsFiniteSet(events')
  BY <1>1, <1>9 DEF ProjectTask, IndInv, TypeOK, config
<1> QED
  BY <1>5, <1>6, <1>7, <1>9, <1>10 DEF IndInv

LEMMA WriteStep == IndInv /\ Write => IndInv'
BY CreateTaskStep, AppendKeyedStep, AppendUnkeyedStep, PutIndexStep, EditTaskStep, TouchTaskStep,
   PutAssignIndexStep, ProjectTaskStep, AnchorSteps DEF Write

LEMMA SeatsStep == IndInv /\ Seats => IndInv'
<1> SUFFICES ASSUME IndInv, Seats PROVE IndInv'
  OBVIOUS
<1>1. /\ UNCHANGED <<doc, events, indexed, assignIndex, config, op, rec, faults>>
      /\ \E p \in Principal : \E t \in Task \cup {NoTask} : active' = [active EXCEPT ![p] = t]
  BY DEF Seats, Deactivate, ActivateTask
<1>2. TypeOK' /\ DocOK' /\ IsFiniteSet(events')
  BY <1>1 DEF IndInv, TypeOK, DocOK, Exists, config
<1>3. RecOK'
  <2>1. \A a : Lane(a)' = Lane(a) /\ Reserved(a)' = Reserved(a)
    BY <1>1, LanesKept, DocsSame DEF config
  <2> QED
    BY <1>1, <2>1 DEF IndInv, RecOK, config, Current
<1> QED
  BY <1>1, <1>2, <1>3, StandingKeeps, OpKept, DocsSame DEF config

LEMMA FaultStep == IndInv /\ (Interrupt \/ Restart) => IndInv'
<1> SUFFICES ASSUME IndInv, Interrupt \/ Restart PROVE IndInv'
  OBVIOUS
<1>1. OpOK' /\ RecOK' /\ op' \in Op /\ rec' \in Rec
  BY ReleaseOK DEF Interrupt, Restart
<1>2. /\ UNCHANGED durable /\ faults' \in Nat
      /\ held' \subseteq Principal /\ generation' \in Generation
  BY ConstantsAssumption DEF Interrupt, Restart, IndInv, TypeOK, config
<1>3. TypeOK' /\ DocOK' /\ IsFiniteSet(events') /\ IsFiniteSet(Created')
  BY <1>1, <1>2 DEF IndInv, TypeOK, DocOK, Exists, Created, durable
<1>4. \A a \in Principal : Reserved(a)' = Reserved(a)
  BY <1>2 DEF Reserved, Lane, Exists, durable
<1>5. SingleReservation'
  BY <1>4 DEF IndInv, SingleReservation
<1> QED
  BY <1>1, <1>3, <1>5 DEF IndInv

LEMMA StutterStep == IndInv /\ UNCHANGED vars => IndInv'
<1> SUFFICES ASSUME IndInv, UNCHANGED vars PROVE IndInv'
  OBVIOUS
<1>1. TypeOK' /\ DocOK' /\ IsFiniteSet(events')
  BY DEF IndInv, TypeOK, DocOK, Exists, vars, durable, config
<1>2. RecOK'
  <2>1. \A a : Lane(a)' = Lane(a) /\ Reserved(a)' = Reserved(a)
    BY LanesKept, DocsSame DEF vars, durable, config
  <2> QED
    BY <2>1 DEF IndInv, RecOK, vars, durable, config, Current
<1> QED
  BY <1>1, <1>2, StandingKeeps, OpKept, DocsSame DEF vars, durable, config

LEMMA IndInvInit == Init => IndInv
<1> SUFFICES ASSUME Init PROVE IndInv
  OBVIOUS
<1>1. TypeOK
  BY NoDocType, NoOpType, ConstantsAssumption DEF Init, TypeOK
<1>2. \A t \in Task : ~Exists(t) /\ doc[t].queue = "queued" /\ doc[t].assignee = NoPrincipal
  BY DEF Init, Exists, NoDoc
<1>3. Created = {} /\ \A a \in Principal : Reserved(a) = {}
  BY <1>2 DEF Created, Reserved, Lane
<1>4. DocOK /\ SingleReservation
  BY <1>2, <1>3, ConstantsAssumption DEF DocOK, SingleReservation
<1>5. OpOK /\ RecOK
  BY DEF Init, OpOK, RecOK, NoOp, NoRec, OnTask, Pending
<1> QED
  BY <1>1, <1>3, <1>4, <1>5, FS_EmptySet DEF IndInv, Init

LEMMA IndInvStep == IndInv /\ [Next]_vars => IndInv'
BY BeginStep, WriteStep, ReconciliationStep, SeatsStep, FaultStep, StutterStep DEF Next

\* The inductive invariant: every write finds what its operation's guards read.
THEOREM Invariance == Spec => []IndInv
BY IndInvInit, IndInvStep, PTL DEF Spec

\* Every state the queue reaches is well typed (workflow.rs, all operations).
THEOREM TypeCorrect == Spec => []TypeOK
<1>1. IndInv => TypeOK
  BY DEF IndInv
<1> QED
  BY <1>1, Invariance, PTL

\* "Exactly one non-terminal task may reserve the lane" (workflow.rs:821): at
\* every point a fault can stop an operation, for any tasks, lanes and retries.
THEOREM OneReservation == Spec => []SingleReservation
<1>1. IndInv => SingleReservation
  BY DEF IndInv
<1> QED
  BY <1>1, Invariance, PTL

----------------------------------------------------------------------------
(* What a step may do to a task *)

\* The kinds of step a task can take.
Unmoved(t) ==
    /\ SameStanding(doc'[t], doc[t])
    /\ doc[t].status \in Terminal => doc'[t].summary = doc[t].summary

Enters(t) ==
    /\ doc[t].status = "absent" /\ doc'[t].status = "PENDING" /\ doc'[t].queue = "queued"
    /\ doc'[t].assignee \in Principal /\ doc'[t].order \in Nat

InPlace(t) ==
    /\ doc'[t].assignee = doc[t].assignee /\ doc'[t].order = doc[t].order
    /\ doc'[t].generation = doc[t].generation

Allowed(t) == doc[t].assignee \notin held /\ Current(doc[t])

Starts(t) ==
    /\ InPlace(t) /\ doc[t].status = "PENDING" /\ doc'[t].status = "IN_WORK"
    /\ Allowed(t) /\ Preserved(doc[t].assignee, t)

Closes(t) ==
    /\ InPlace(t)
    /\ \/ doc[t].status = "IN_WORK" /\ doc'[t].status \in {"COMPLETED", "BLOCKED", "FAILED"}
       \/ doc[t].status = "PENDING" /\ doc'[t].status = "CANCELLED"

Requeues(t) ==
    /\ InPlace(t) /\ doc[t].status = "PENDING" /\ doc'[t].status = "PENDING"
    /\ Effective(doc'[t]) = "queued" \/ (Effective(doc'[t]) = "ready" /\ Allowed(t))

Moves(t) == Enters(t) \/ Starts(t) \/ Closes(t) \/ Requeues(t)

\* Every step leaves all tasks where they are, or moves exactly one.
Outcome == \/ \A t \in Task : Unmoved(t)
           \/ \E t \in Task : Moves(t) /\ \A u \in Task \ {t} : doc'[u] = doc[u]

LEMMA SameUnmoved == ASSUME doc' = doc PROVE Outcome
BY DEF Outcome, Unmoved, SameStanding

\* A merge changes the summary of a closed task only with a closing status.
LEMMA TouchSummary ==
  ASSUME TypeOK, NEW t \in Task, NEW id, NEW status, NEW s,
         Touch(t, id, status, s), doc[t].status \in Terminal,
         s = NoData \/ status # doc[t].status
  PROVE  doc'[t].summary = doc[t].summary
<1>1. PICK e \in events : doc' = [doc EXCEPT ![t] = Touched(doc[t], e, status, s)]
  BY DEF Touch
<1>2. doc[t] \in Doc
  BY DEF TypeOK
<1>3. doc'[t] = Touched(doc[t], e, status, s)
  BY <1>1 DEF TypeOK
<1>4. ~Applies(doc[t], status)
  BY DEF Applies
<1> QED
  BY <1>2, <1>3, <1>4 DEF Touched, Doc

LEMMA CreateOutcome == ASSUME IndInv, CreateTask PROVE Outcome
<1>1. op.kind = "assign" /\ op.lane \in Principal
  BY DEF CreateTask, IndInv, OpOK
<1>2. PICK t \in Task, n \in OrderTime :
         /\ ~Exists(t)
         /\ doc' = [doc EXCEPT ![t] =
                 [NoDoc EXCEPT !.status = "PENDING", !.order = n, !.issuer = op.actor,
                               !.assignee = op.lane, !.key = op.key, !.fields = op.data,
                               !.generation = generation]]
  BY DEF CreateTask
<1>3. n \in Nat
  BY OrderTimeType DEF IndInv
<1>4. /\ doc'[t].status = "PENDING" /\ doc'[t].queue = "queued"
      /\ doc'[t].assignee = op.lane /\ doc'[t].order = n
      /\ \A u \in Task \ {t} : doc'[u] = doc[u]
  BY <1>2 DEF IndInv, TypeOK, NoDoc
<1>5. Enters(t)
  BY <1>1, <1>2, <1>3, <1>4 DEF Enters, Exists
<1> QED
  BY <1>4, <1>5 DEF Outcome, Moves

LEMMA EditOutcome == ASSUME IndInv, EditTask PROVE Outcome
<1>1. op.pc \in OnTask /\ op.task \in Task
  BY OnTaskFacts DEF EditTask, OnTask
<1>2. /\ doc' = [doc EXCEPT ![op.task] = [doc[op.task] EXCEPT !.edits = doc[op.task].edits + 1]]
      /\ doc[op.task] \in Doc
  BY <1>1 DEF EditTask, IndInv, TypeOK, Doc
<1>3. /\ \A u \in Task \ {op.task} : doc'[u] = doc[u]
      /\ doc'[op.task] = [doc[op.task] EXCEPT !.edits = doc[op.task].edits + 1]
  BY <1>1, <1>2 DEF IndInv, TypeOK
<1>4. /\ doc'[op.task].status = doc[op.task].status /\ doc'[op.task].queue = doc[op.task].queue
      /\ doc'[op.task].assignee = doc[op.task].assignee /\ doc'[op.task].order = doc[op.task].order
      /\ doc'[op.task].generation = doc[op.task].generation
      /\ doc'[op.task].summary = doc[op.task].summary
  BY <1>2, <1>3 DEF Doc
<1>5. \A t \in Task : Unmoved(t)
  BY <1>1, <1>3, <1>4 DEF Unmoved, SameStanding, Effective
<1> QED
  BY <1>5 DEF Outcome

LEMMA MergeOutcome == ASSUME IndInv, TouchTask PROVE Outcome
<1>1. op.pc = "touch" /\ op.pc \in OnTask /\ op.pc \in Pending
  BY DEF TouchTask, OnTask, Pending
<1>2. op.task \in Task /\ op.lane = doc[op.task].assignee
  BY <1>1, OnTaskFacts
<1>3. /\ SameButMerged(doc'[op.task], doc[op.task])
      /\ \A u \in Task \ {op.task} : doc'[u] = doc[u]
  BY TouchOutcome
<1>4. InPlace(op.task)
  BY <1>3 DEF SameButMerged, InPlace
<1>5. CASE doc'[op.task].status = doc[op.task].status
  <2>1. \A t \in Task : SameStanding(doc'[t], doc[t])
    BY <1>2, <1>3, <1>5, TouchKeeps DEF IndInv
  <2>2. ASSUME doc[op.task].status \in Terminal PROVE doc'[op.task].summary = doc[op.task].summary
    <3>1. Touch(op.task, op.event, OpStatus, OpSummary) /\ TypeOK
      BY DEF TouchTask, IndInv
    <3>2. op.kind \notin {"report", "cancel"}
      BY <1>1, <2>2 DEF IndInv, OpOK, Terminal
    <3>3. OpStatus \notin Terminal
      BY <3>2 DEF OpStatus, IndInv, OpOK, Terminal
    <3>4. OpSummary = NoData
      BY <3>3 DEF OpSummary
    <3> QED
      BY <1>2, <2>2, <3>1, <3>4, TouchSummary
  <2> QED
    BY <1>3, <2>1, <2>2 DEF Outcome, Unmoved
<1>6. CASE doc'[op.task].status # doc[op.task].status
  <2>1. CASE op.kind = "start"
    <3>1. /\ Preserved(op.lane, op.task) /\ doc[op.task].status = "PENDING"
          /\ doc'[op.task].status = "IN_WORK"
      BY <1>6, <2>1, TouchOutcome
    <3>2. op.lane \notin held /\ Current(doc[op.task])
      BY <2>1 DEF IndInv, OpOK
    <3>3. Starts(op.task)
      BY <1>2, <1>4, <3>1, <3>2 DEF Starts, Allowed
    <3> QED
      BY <1>2, <1>3, <3>3 DEF Outcome, Moves
  <2>2. CASE op.kind # "start"
    <3>1. Closes(op.task)
      BY <1>4, <1>6, <2>2, TouchOutcome DEF Closes
    <3> QED
      BY <1>2, <1>3, <3>1 DEF Outcome, Moves
  <2> QED
    BY <2>1, <2>2
<1> QED
  BY <1>5, <1>6

LEMMA ProjectionOutcome == ASSUME IndInv, ProjectTask PROVE Outcome
<1>1. /\ op.task \in Task /\ op.pc \in OnTask
      /\ \A u \in Task \ {op.task} : doc'[u] = doc[u]
  BY ProjectOutcome
<1>2. Exists(op.task) /\ doc[op.task] \in Doc
  BY <1>1, OnTaskFacts DEF IndInv, TypeOK
<1>3. PICK state \in {"terminal", "running"}, r \in EventId \cup {NoEvent} :
         /\ doc'[op.task] = [doc[op.task] EXCEPT !.queue = state, !.readyEvent = r]
         /\ state = "running" => doc[op.task].status = "IN_WORK"
  BY ProjectOutcome
<1>4. /\ doc'[op.task].status = doc[op.task].status /\ doc'[op.task].queue = state
      /\ InPlace(op.task) /\ doc'[op.task].summary = doc[op.task].summary
  BY <1>2, <1>3 DEF Doc, InPlace
<1>5. CASE doc[op.task].status = "PENDING"
  <2>1. Effective(doc'[op.task]) = "queued"
    BY <1>3, <1>4, <1>5 DEF Effective, Terminal
  <2>2. Requeues(op.task)
    BY <1>4, <1>5, <2>1 DEF Requeues
  <2> QED
    BY <1>1, <2>2 DEF Outcome, Moves
<1>6. CASE doc[op.task].status # "PENDING"
  <2>1. doc[op.task].status \in Terminal \cup {"IN_WORK"}
    BY <1>2, <1>6 DEF Exists, Doc, Status
  <2>2. Effective(doc'[op.task]) = Effective(doc[op.task])
    BY <1>4, <2>1 DEF Effective, Terminal
  <2>3. \A t \in Task : Unmoved(t)
    BY <1>1, <1>4, <2>2 DEF Unmoved, SameStanding, InPlace
  <2> QED
    BY <2>3 DEF Outcome
<1> QED
  BY <1>5, <1>6

LEMMA NormaliseOutcome == ASSUME IndInv, Normalise PROVE Outcome
<1> DEFINE KeptEvent(t) == IF Effective(doc[t]) = "queued" THEN NoEvent ELSE doc[t].readyEvent
<1>1. PICK t \in Unnormalised(op.lane) : Project(t, Effective(doc[t]), KeptEvent(t))
  BY DEF Normalise
<1>2. t \in Task /\ doc[t] \in Doc
  BY DEF Unnormalised, Lane, IndInv, TypeOK
<1>3. Effective(doc[t]) \in QueueState
  BY DEF Effective, QueueState
<1>4. KeptEvent(t) \in EventId \cup {NoEvent}
  BY <1>2 DEF Doc
<1> HIDE DEF KeptEvent
<1>5. /\ doc' \in [Task -> Doc]
      /\ doc'[t] = [doc[t] EXCEPT !.queue = Effective(doc[t]), !.readyEvent = KeptEvent(t)]
      /\ \A u \in Task \ {t} : doc'[u] = doc[u]
  BY <1>1, <1>2, <1>3, <1>4, ProjectDoc DEF IndInv
<1>6. /\ doc'[t].status = doc[t].status /\ doc'[t].queue = Effective(doc[t])
      /\ InPlace(t) /\ doc'[t].summary = doc[t].summary
  BY <1>2, <1>5 DEF Doc, InPlace
<1>7. Effective(doc'[t]) = Effective(doc[t])
  BY <1>6 DEF Effective
<1> QED
  BY <1>5, <1>6, <1>7 DEF Outcome, Unmoved, SameStanding, InPlace

LEMMA RecTouchOutcome == ASSUME IndInv, RecTouch PROVE Outcome
<1>1. /\ rec.task \in Task /\ Touch(rec.task, rec.event, "none", NoData)
      /\ doc[rec.task].status = "PENDING"
  BY DEF IndInv, RecOK, RecTouch, Lane
<1>2. /\ doc'[rec.task].status = doc[rec.task].status
      /\ SameButMerged(doc'[rec.task], doc[rec.task])
      /\ \A u \in Task \ {rec.task} : doc'[u] = doc[u]
  BY <1>1, TouchDoc DEF Applies, IndInv
<1>3. \A u \in Task : SameStanding(doc'[u], doc[u])
  BY <1>1, <1>2, TouchKeeps DEF IndInv
<1> QED
  BY <1>1, <1>2, <1>3 DEF Outcome, Unmoved, Terminal

LEMMA RecProjectOutcome == ASSUME IndInv, RecProject PROVE Outcome
<1>1. /\ rec.task \in Task /\ doc[rec.task].status = "PENDING" /\ doc[rec.task] \in Doc
      /\ doc[rec.task].assignee = op.lane
  BY DEF IndInv, RecOK, RecProject, Lane, TypeOK
<1> DEFINE state == IF rec.job = "promote" THEN "ready" ELSE "queued"
           ready == IF rec.job = "promote" THEN rec.event ELSE NoEvent
<1>2. Project(rec.task, state, ready) /\ state \in QueueState /\ ready \in EventId \cup {NoEvent}
  BY DEF RecProject, QueueState, IndInv, RecOK
<1>3. state = "queued" \/ (state = "ready" /\ Allowed(rec.task))
  BY <1>1 DEF Allowed, IndInv, RecOK
<1> HIDE DEF state, ready
<1>4. /\ doc' \in [Task -> Doc]
      /\ doc'[rec.task] = [doc[rec.task] EXCEPT !.queue = state, !.readyEvent = ready]
      /\ \A u \in Task \ {rec.task} : doc'[u] = doc[u]
  BY <1>1, <1>2, ProjectDoc DEF IndInv
<1>5. /\ doc'[rec.task].status = "PENDING" /\ doc'[rec.task].queue = state /\ InPlace(rec.task)
  BY <1>1, <1>4 DEF Doc, InPlace
<1>6. Requeues(rec.task)
  BY <1>1, <1>3, <1>5 DEF Requeues, Effective, Terminal
<1> QED
  BY <1>1, <1>4, <1>6 DEF Outcome, Moves

\* Taking the lock writes no task document.
LEMMA BeginKeepsDoc == Begin => doc' = doc
<1>1. ASSUME NEW p \in Principal, NEW a \in Principal, BeginReconcile(p, a) PROVE doc' = doc
  BY <1>1 DEF BeginReconcile, durable
<1>2. ASSUME NEW p \in Principal, NEW a \in Principal, NEW k \in Key \cup {NoKey}, NEW f \in Data,
             AssignReplay(p, a, k, f) \/ AssignRecover(p, a, k, f) \/ AssignNew(p, a, k, f)
      PROVE  doc' = doc
  BY <1>2 DEF AssignReplay, AssignRecover, AssignNew, durable
<1>3. ASSUME NEW p \in Principal, NEW t \in Task \cup {NoTask}, NEW k \in Key \cup {NoKey},
             NEW d \in Data, BeginStart(p, t, k, d) \/ BeginMessage(p, t, k, d)
      PROVE  doc' = doc
  BY <1>3 DEF BeginStart, BeginMessage, durable
<1>4. ASSUME NEW p \in Principal, NEW t \in Task \cup {NoTask}, NEW k \in Key \cup {NoKey},
             NEW d \in Data, NEW s \in ReportStatus,
             BeginReport(p, t, s, k, d) \/ ReportReplay(p, t, s, k, d)
      PROVE  doc' = doc
  BY <1>4 DEF BeginReport, ReportReplay, durable
<1>5. ASSUME NEW p \in Principal, NEW t \in Task, NEW k \in Key \cup {NoKey}, NEW d \in Data,
             BeginCancel(p, t, k, d) \/ CancelReplay(p, t, k, d) \/ BeginUpdate(p, t, d)
      PROVE  doc' = doc
  BY <1>5 DEF BeginCancel, CancelReplay, BeginUpdate, durable
<1> QED
  BY <1>1, <1>2, <1>3, <1>4, <1>5 DEF Begin

\* Only seven actions write a task document.
LEMMA DocumentWrites ==
  ASSUME [Next]_vars, doc' # doc
  PROVE  CreateTask \/ EditTask \/ TouchTask \/ ProjectTask \/ Normalise \/ RecTouch \/ RecProject
<1>1. ~Seats /\ ~Interrupt /\ ~Restart /\ ~UNCHANGED vars
  BY DEF Seats, Deactivate, ActivateTask, Interrupt, Restart, durable, vars
<1>2. ~Begin
  BY BeginKeepsDoc
<1>3. Write => CreateTask \/ EditTask \/ TouchTask \/ ProjectTask
  BY DEF Write, AppendKeyed, AppendUnkeyed, PutIndex, PutAssignIndex, Anchor,
       AnchorCheck, AnchorClear, durable
<1>4. Reconciliation => Normalise \/ RecTouch \/ RecProject
  BY DEF Reconciliation, Demote, Promote, RecEvent, RecIndex, Reconciled, durable
<1> QED
  BY <1>1, <1>2, <1>3, <1>4 DEF Next

LEMMA StepOutcome == ASSUME IndInv, [Next]_vars PROVE Outcome
<1>1. CASE doc' = doc
  BY <1>1, SameUnmoved
<1>2. CASE doc' # doc
  BY <1>2, DocumentWrites, CreateOutcome, EditOutcome, MergeOutcome, ProjectionOutcome,
     NormaliseOutcome, RecTouchOutcome, RecProjectOutcome
<1> QED
  BY <1>1, <1>2

LEMMA ForwardStep == ASSUME IndInv, [Next]_vars, NEW t \in Task PROVE Forward(t)
<1>1. Outcome
  BY StepOutcome
<1> QED
  BY <1>1 DEF Outcome, Unmoved, Moves, Enters, Starts, Closes, Requeues, SameStanding,
       Forward, Terminal

LEMMA AdvanceStep == ASSUME IndInv, [Next]_vars, NEW t \in Task, Advances(t) PROVE Allowed(t)
<1>1. Outcome
  BY StepOutcome
<1>2. ~Unmoved(t) /\ ~(doc'[t] = doc[t])
  BY DEF Unmoved, SameStanding, Advances
<1>3. Moves(t)
  BY <1>1, <1>2 DEF Outcome
<1>4. ~Enters(t) /\ ~Closes(t)
  BY DEF Enters, Closes, Advances, Effective, Terminal
<1> QED
  BY <1>3, <1>4 DEF Moves, Starts, Requeues, Advances

\* Statuses only move forward and a closed task keeps its summary, whatever is
\* retried, replayed or interrupted (touch_task_projection, workflow.rs:673-744).
THEOREM StatusesForward == Spec => StatusForward
<1>1. IndInv /\ [Next]_vars => [\A t \in Task : Forward(t)]_vars
  BY ForwardStep
<1> QED
  BY <1>1, Invariance, PTL DEF StatusForward, Spec

\* No operation makes a task of a held lane ready or running (workflow.rs:827).
THEOREM HeldLanesStop == Spec => HoldStops
<1>1. IndInv /\ [Next]_vars => [\A t \in Task : Advances(t) => doc[t].assignee \notin held]_vars
  BY AdvanceStep DEF Allowed
<1> QED
  BY <1>1, Invariance, PTL DEF HoldStops, Spec

\* No task of another operator generation becomes ready or running
\* (generation_current, workflow.rs:473-481).
THEOREM OldGenerationsStop == Spec => GenerationFence
<1>1. IndInv /\ [Next]_vars => [\A t \in Task : Advances(t) => Current(doc[t])]_vars
  BY AdvanceStep DEF Allowed
<1> QED
  BY <1>1, Invariance, PTL DEF GenerationFence, Spec

\* A restart with a hold or with another generation stops what it is meant to
\* stop, whichever operation reconciles the lane (workflow.rs:827, :473-481).
THEOREM OperatorStopped == Spec => OperatorStops
BY HeldLanesStop, OldGenerationsStop DEF OperatorStops

----------------------------------------------------------------------------
(* The queue implements the single-writer lane of TaskLane. *)

\* Every task but t looks the same to TaskLane.
Elsewhere(t) == \A u \in Task \ {t} : /\ Phase(doc'[u]) = Phase(doc[u])
                                      /\ doc'[u].assignee = doc[u].assignee
                                      /\ doc'[u].order = doc[u].order

LEMMA AcceptMap == ASSUME IndInv, NEW t \in Task, Enters(t), Elsewhere(t)
                   PROVE  Abstract!Accept(t)
BY DEF Enters, Elsewhere, Abstract!Accept, Phase

LEMMA RunMap == ASSUME IndInv, NEW t \in Task, Starts(t), Elsewhere(t)
                PROVE  Abstract!Run(t)
<1>1. Phase(doc[t]) = "waiting" /\ Phase(doc'[t]) = "running"
  BY DEF Starts, Phase
<1>2. ASSUME NEW u \in Task \ {t}, doc[u].assignee = doc[t].assignee,
             Phase(doc[u]) \in {"waiting", "running"}
      PROVE  Phase(doc[u]) = "waiting" /\ doc[t].order < doc[u].order
  <2>1. doc[u].status \in {"PENDING", "IN_WORK"}
    BY <1>2 DEF Phase, IndInv, TypeOK, Doc, Status, Terminal
  <2>2. u \in Lane(doc[t].assignee)
    BY <1>2, <2>1 DEF Lane, Exists, Effective, Terminal
  <2>3. t \notin Running(doc[t].assignee)
    <3>1. Exists(t) /\ doc[t].status # "IN_WORK"
      BY DEF Starts, Exists
    <3>2. Effective(doc[t]) # "running"
      BY <3>1, RunningStatus DEF IndInv
    <3> QED
      BY <3>2 DEF Running
  <2>4. Running(doc[t].assignee) = {} /\ IsHead(doc[t].assignee, t)
    BY <2>3 DEF Starts, Preserved
  <2>5. doc[u].status # "IN_WORK"
    BY <2>2, <2>4 DEF Running, Effective, Terminal
  <2> QED
    BY <1>2, <2>1, <2>2, <2>4, <2>5 DEF IsHead, Phase
<1>3. /\ [u \in Task |-> Phase(doc[u])]' = [[u \in Task |-> Phase(doc[u])] EXCEPT ![t] = "running"]
      /\ [u \in Task |-> doc[u].assignee]' = [u \in Task |-> doc[u].assignee]
      /\ [u \in Task |-> doc[u].order]' = [u \in Task |-> doc[u].order]
  BY <1>1 DEF Elsewhere, Starts, InPlace
<1> QED
  BY <1>1, <1>2, <1>3 DEF Abstract!Run, Abstract!Open

LEMMA CloseMap == ASSUME IndInv, NEW t \in Task, Closes(t), Elsewhere(t)
                  PROVE  Abstract!Close(t)
<1>1. Phase(doc[t]) \in {"waiting", "running"} /\ Phase(doc'[t]) = "closed"
  BY DEF Closes, Phase
<1>2. /\ [u \in Task |-> Phase(doc[u])]' = [[u \in Task |-> Phase(doc[u])] EXCEPT ![t] = "closed"]
      /\ [u \in Task |-> doc[u].assignee]' = [u \in Task |-> doc[u].assignee]
      /\ [u \in Task |-> doc[u].order]' = [u \in Task |-> doc[u].order]
  BY <1>1 DEF Elsewhere, Closes, InPlace
<1> QED
  BY <1>1, <1>2 DEF Abstract!Close, Abstract!Open

LEMMA StepMap == IndInv /\ [Next]_vars => [Abstract!LaneNext]_(Abstract!laneVars)
<1> SUFFICES ASSUME IndInv, [Next]_vars PROVE [Abstract!LaneNext]_(Abstract!laneVars)
  OBVIOUS
<1>1. CASE \A t \in Task : Unmoved(t)
  BY <1>1 DEF Unmoved, SameStanding, Phase, Abstract!laneVars
<1>2. ASSUME NEW t \in Task, Moves(t), \A u \in Task \ {t} : doc'[u] = doc[u]
      PROVE  [Abstract!LaneNext]_(Abstract!laneVars)
  <2>1. Elsewhere(t)
    BY <1>2 DEF Elsewhere
  <2>2. CASE Requeues(t)
    BY <2>1, <2>2 DEF Requeues, InPlace, Elsewhere, Phase, Abstract!laneVars
  <2>3. CASE Enters(t) \/ Starts(t) \/ Closes(t)
    <3>1. Abstract!Accept(t) \/ Abstract!Run(t) \/ Abstract!Close(t)
      BY <2>1, <2>3, AcceptMap, RunMap, CloseMap
    <3> QED
      BY <3>1 DEF Abstract!LaneNext
  <2> QED
    BY <1>2, <2>2, <2>3 DEF Moves
<1> QED
  BY <1>1, <1>2, StepOutcome DEF Outcome

LEMMA InitMap == Init => Abstract!LaneInit
BY DEF Init, NoDoc, Phase, Abstract!LaneInit

\* The durable FIFO implements TaskLane: a lane runs one task at a time, the
\* oldest one left (assign_task, start_task; workflow.rs:997-1712).
THEOREM Implementation == Spec => ImplementsLane
BY InitMap, StepMap, Invariance, PTL DEF Spec, ImplementsLane, Abstract!LaneSpec

----------------------------------------------------------------------------
(* The last event of a task. *)


\* A document without a task, or without an event, has no time of an event.
Blank == \A t \in Task : ~Exists(t) \/ doc[t].lastEvent = NoEvent => doc[t].lastAt = 0

\* What no step changes of a task there is.
SameMaker(t) == /\ doc'[t].issuer = doc[t].issuer /\ doc'[t].key = doc[t].key
                /\ doc'[t].assignee = doc[t].assignee

\* The kinds of step the memory of a task can take.
Remembers(t) ==
    /\ doc'[t].lastEvent = doc[t].lastEvent /\ doc'[t].lastAt = doc[t].lastAt /\ SameMaker(t)
    /\ doc'[t].status # "absent" <=> Exists(t)

Begins(t) == ~Exists(t) /\ doc'[t].lastEvent = NoEvent /\ doc'[t].lastAt = 0

Merges(t) ==
    /\ Exists(t) /\ doc'[t].status # "absent" /\ SameMaker(t)
    /\ \E e \in Event :
         /\ doc'[t].lastEvent = IF Stale(doc[t], e) THEN doc[t].lastEvent ELSE e.id
         /\ doc'[t].lastAt = IF Stale(doc[t], e) THEN doc[t].lastAt ELSE e.at

Kept == \A t \in Task : Remembers(t) \/ Merges(t)
Recalled == \A t \in Task : Remembers(t) \/ Begins(t) \/ Merges(t)

LEMMA SameKept == ASSUME doc' = doc PROVE Kept
BY DEF Kept, Remembers, SameMaker, Exists

LEMMA CreateRecalled == ASSUME IndInv, CreateTask PROVE Recalled
<1>1. PICK t \in Task, n \in OrderTime :
         /\ ~Exists(t)
         /\ doc' = [doc EXCEPT ![t] =
                 [NoDoc EXCEPT !.status = "PENDING", !.order = n, !.issuer = op.actor,
                               !.assignee = op.lane, !.key = op.key, !.fields = op.data,
                               !.generation = generation]]
  BY DEF CreateTask
<1>2. Begins(t) /\ \A u \in Task \ {t} : doc'[u] = doc[u]
  BY <1>1 DEF Begins, NoDoc, IndInv, TypeOK
<1> QED
  BY <1>2 DEF Recalled, Remembers, SameMaker, Exists

LEMMA EditKept == ASSUME IndInv, EditTask PROVE Kept
<1>1. op.task \in Task
  BY OnTaskFacts DEF EditTask, OnTask
<1>2. /\ doc' = [doc EXCEPT ![op.task] = [doc[op.task] EXCEPT !.edits = doc[op.task].edits + 1]]
      /\ doc[op.task] \in Doc
  BY <1>1 DEF EditTask, IndInv, TypeOK, Doc
<1>3. /\ \A u \in Task \ {op.task} : doc'[u] = doc[u]
      /\ doc'[op.task] = [doc[op.task] EXCEPT !.edits = doc[op.task].edits + 1]
  BY <1>1, <1>2 DEF IndInv, TypeOK
<1>4. Remembers(op.task)
  BY <1>2, <1>3 DEF Remembers, SameMaker, Exists, Doc
<1> QED
  BY <1>3, <1>4 DEF Kept, Remembers, SameMaker, Exists

LEMMA ProjectKept ==
  ASSUME IndInv, NEW t \in Task, NEW state \in QueueState, NEW r \in EventId \cup {NoEvent},
         Project(t, state, r)
  PROVE  Kept
<1>1. /\ doc'[t] = [doc[t] EXCEPT !.queue = state, !.readyEvent = r]
      /\ \A u \in Task \ {t} : doc'[u] = doc[u]
      /\ doc[t] \in Doc
  BY ProjectDoc, ZenonT(40) DEF IndInv, TypeOK
<1>2. Remembers(t)
  BY <1>1 DEF Remembers, SameMaker, Exists, Doc
<1> QED
  BY <1>1, <1>2 DEF Kept, Remembers, SameMaker, Exists

LEMMA TouchKept ==
  ASSUME IndInv, NEW t \in Task, Exists(t), NEW id, NEW status \in Status \cup {"none"},
         NEW s \in Data \cup {NoData}, Touch(t, id, status, s)
  PROVE  Kept
<1>1. PICK e \in events : doc' = [doc EXCEPT ![t] = Touched(doc[t], e, status, s)]
  BY DEF Touch
<1>2. doc[t] \in Doc /\ e \in Event
  BY DEF IndInv, TypeOK
<1>3. doc'[t] = Touched(doc[t], e, status, s) /\ \A u \in Task \ {t} : doc'[u] = doc[u]
  BY <1>1 DEF IndInv, TypeOK
<1>4. doc'[t].status # "absent"
  BY <1>2, <1>3, TouchedType DEF Applies, Exists, Terminal
<1>5. /\ doc'[t].lastEvent = IF Stale(doc[t], e) THEN doc[t].lastEvent ELSE e.id
      /\ doc'[t].lastAt = IF Stale(doc[t], e) THEN doc[t].lastAt ELSE e.at
  BY <1>2, <1>3 DEF Touched, Doc
<1>6. SameMaker(t)
  BY <1>2, <1>3, TouchedType DEF SameButMerged, SameMaker
<1>7. Merges(t)
  BY <1>2, <1>4, <1>5, <1>6 DEF Merges, Exists
<1> QED
  BY <1>3, <1>7 DEF Kept, Remembers, SameMaker, Exists

LEMMA WriteKept == ASSUME IndInv, TouchTask \/ ProjectTask PROVE Kept
<1>1. op.pc \in OnTask
  BY DEF TouchTask, ProjectTask, OnTask
<1>2. op.task \in Task /\ Exists(op.task) /\ doc[op.task] \in Doc
  BY <1>1, OnTaskFacts DEF IndInv, TypeOK
<1>3. CASE TouchTask
  <2>1. OpStatus \in Status \cup {"none"} /\ OpSummary \in Data \cup {NoData}
    BY DEF OpStatus, OpSummary, IndInv, TypeOK, Op, Status
  <2> QED
    BY <1>2, <1>3, <2>1, TouchKept DEF TouchTask
<1>4. CASE ProjectTask
  BY <1>2, <1>4, ProjectKept DEF ProjectTask, QueueState, Doc
<1> QED
  BY <1>3, <1>4

LEMMA ReconcileKept == ASSUME IndInv, Normalise \/ RecTouch \/ RecProject PROVE Kept
<1>1. CASE Normalise
  <2>1. PICK t \in Unnormalised(op.lane) :
           Project(t, Effective(doc[t]), IF Effective(doc[t]) = "queued" THEN NoEvent ELSE doc[t].readyEvent)
    BY <1>1 DEF Normalise
  <2>2. t \in Task /\ doc[t] \in Doc
    BY DEF Unnormalised, Lane, IndInv, TypeOK
  <2>3. Effective(doc[t]) \in QueueState
    BY DEF Effective, QueueState
  <2>4. (IF Effective(doc[t]) = "queued" THEN NoEvent ELSE doc[t].readyEvent) \in EventId \cup {NoEvent}
    BY <2>2 DEF Doc
  <2> QED
    BY <2>1, <2>2, <2>3, <2>4, ProjectKept
<1>2. CASE RecTouch
  <2>1. /\ rec.task \in Task /\ Touch(rec.task, rec.event, "none", NoData) /\ Exists(rec.task)
    BY <1>2 DEF IndInv, RecOK, RecTouch, Lane
  <2> QED
    BY <2>1, TouchKept
<1>3. CASE RecProject
  <2>1. rec.task \in Task /\ rec.job = "promote" => rec.event \in EventId
    BY <1>3 DEF IndInv, RecOK, RecProject, Lane
  <2>2. rec.task \in Task
    BY <1>3 DEF IndInv, RecOK, RecProject, Lane
  <2> QED
    BY <1>3, <2>1, <2>2, ProjectKept DEF RecProject, QueueState
<1> QED
  BY <1>1, <1>2, <1>3

LEMMA StepKept == ASSUME IndInv, [Next]_vars, ~CreateTask PROVE Kept
<1>1. CASE doc' = doc
  BY <1>1, SameKept
<1>2. CASE doc' # doc
  BY <1>2, DocumentWrites, EditKept, WriteKept, ReconcileKept
<1> QED
  BY <1>1, <1>2

LEMMA StepRecalled == ASSUME IndInv, [Next]_vars PROVE Recalled
BY StepKept, CreateRecalled DEF Kept, Recalled

LEMMA BlankStep ==
  ASSUME IndInv, Blank, [Next]_vars
  PROVE  Blank' /\ \A t \in Task : doc'[t].lastAt >= doc[t].lastAt
<1> SUFFICES ASSUME NEW t \in Task
             PROVE  /\ doc'[t].lastAt >= doc[t].lastAt
                    /\ doc'[t].status = "absent" \/ doc'[t].lastEvent = NoEvent => doc'[t].lastAt = 0
  BY DEF Blank, Exists
<1>1. doc[t].lastAt \in Nat
  BY DEF IndInv, TypeOK, Doc
<1>2. Remembers(t) \/ Begins(t) \/ Merges(t)
  BY StepRecalled DEF Recalled
<1>3. CASE Remembers(t)
  BY <1>1, <1>3 DEF Remembers, Blank
<1>4. CASE Begins(t)
  BY <1>1, <1>4 DEF Begins, Blank
<1>5. CASE Merges(t)
  <2>1. PICK e \in Event :
           /\ doc'[t].lastEvent = IF Stale(doc[t], e) THEN doc[t].lastEvent ELSE e.id
           /\ doc'[t].lastAt = IF Stale(doc[t], e) THEN doc[t].lastAt ELSE e.at
    BY <1>5 DEF Merges
  <2>2. e.id # NoEvent /\ e.at \in Nat
    BY ConstantsAssumption DEF Event
  <2>3. Exists(t) /\ doc'[t].status # "absent"
    BY <1>5 DEF Merges
  <2> QED
    BY <1>1, <2>1, <2>2, <2>3 DEF Stale, Blank
<1> QED
  BY <1>2, <1>3, <1>4, <1>5

\* The merge of an older event, by whichever retry, never takes the time of a
\* task's last event back (touch_task_projection, workflow.rs:684-697).
THEOREM LastEventsForward == Spec => LastEventForward
<1>1. Init => Blank
  BY DEF Init, Blank, NoDoc
<1>2. IndInv /\ Blank /\ [Next]_vars => Blank'
  BY BlankStep
<1>3. IndInv /\ Blank /\ [Next]_vars => [\A t \in Task : doc'[t].lastAt >= doc[t].lastAt]_vars
  BY BlankStep
<1> QED
  BY <1>1, <1>2, <1>3, Invariance, PTL DEF LastEventForward, Spec

----------------------------------------------------------------------------
(* One task for each key. *)

\* The operation has yet to create its task, or has one and no index entry for it.
Fresh(o) == o.pc = "create" \/ (o.pc = "reconcile" /\ o.task = NoTask)
Unindexed(o) == o.pc \in {"event", "index", "edit", "touch", "assignIndex"}

NoEntry(o) == \A t \in Task : <<o.actor, o.key, t>> \notin assignIndex
NoneMade(o) == \A t \in Task : ~(/\ Exists(t) /\ doc[t].issuer = o.actor /\ doc[t].key = o.key
                                /\ doc[t].assignee = o.lane)

\* What the guards of an assignment under a key established still holds at the
\* write that relies on it.
KeyOK == op.kind = "assign" /\ op.key # NoKey =>
           /\ Fresh(op) => NoEntry(op) /\ NoneMade(op)
           /\ Unindexed(op) => NoEntry(op)

\* The operation in progress stays what it is, and does not lose what it knows.
GoesOn == /\ op'.kind = op.kind /\ op'.actor = op.actor /\ op'.key = op.key
          /\ op'.lane = op.lane /\ op'.task = op.task
          /\ Fresh(op') => Fresh(op)
          /\ Unindexed(op') => Unindexed(op)

KeyedAssign(o) == o.kind = "assign" /\ o.key # NoKey

LEMMA ReconciledGoesOn == ASSUME IndInv, Reconciled, KeyedAssign(op') PROVE GoesOn
<1>1. op \in Op /\ op.pc = "reconcile"
  BY DEF IndInv, TypeOK, Reconciled, Scanning
<1>2. op' # NoOp
  BY DEF KeyedAssign, NoOp
<1>3. \E p \in {"create", "event", "touch"} :
         /\ op' = [op EXCEPT !.pc = p]
         /\ p = "create" => op.task = NoTask
         /\ p # "create" => op.kind = "start"
  BY <1>2 DEF Reconciled, Release, Goto
<1> QED
  BY <1>1, <1>3 DEF GoesOn, KeyedAssign, Fresh, Unindexed, Op

LEMMA WriteGoesOn ==
  ASSUME IndInv, Write, ~CreateTask, ~PutAssignIndex, KeyedAssign(op')
  PROVE  GoesOn
<1>1. op \in Op /\ op' # NoOp
  BY DEF IndInv, TypeOK, KeyedAssign, NoOp
<1>2. op.pc \in OnTask => op.task # NoTask
  BY OnTaskFacts, ConstantsAssumption
<1>3. CASE AppendKeyed \/ AppendUnkeyed
  BY <1>1, <1>3 DEF AppendKeyed, AppendUnkeyed, Release, GoesOn, KeyedAssign, Fresh, Unindexed, Op
<1>4. CASE PutIndex \/ EditTask
  BY <1>1, <1>4 DEF PutIndex, EditTask, Goto, GoesOn, Fresh, Unindexed, Op
<1>5. CASE TouchTask
  <2>1. op' = [op EXCEPT !.pc = NextAfterTouch] /\ op.pc = "touch"
    BY <1>1, <1>5 DEF TouchTask, Release, Goto
  <2>2. op.kind = "assign" /\ op.key # NoKey
    BY <1>1, <2>1 DEF KeyedAssign, Op
  <2> QED
    BY <1>1, <2>1, <2>2 DEF NextAfterTouch, GoesOn, Fresh, Unindexed, Op
<1>6. CASE ProjectTask \/ Anchor \/ AnchorCheck \/ AnchorClear
  <2>1. op.task # NoTask
    BY <1>2, <1>6 DEF ProjectTask, Anchor, AnchorCheck, AnchorClear, OnTask
  <2> QED
    BY <1>1, <1>6, <2>1 DEF ProjectTask, Anchor, AnchorCheck, AnchorClear, Release, Goto, GoesOn,
       Fresh, Unindexed, Op
<1> QED
  BY <1>3, <1>4, <1>5, <1>6 DEF Write

\* Every step of a request under way keeps an assignment what it is.
LEMMA StepGoesOn ==
  ASSUME IndInv, [Next]_vars, ~Begin, ~CreateTask, ~PutAssignIndex, KeyedAssign(op')
  PROVE  GoesOn
<1>1. op' # NoOp
  BY DEF KeyedAssign, NoOp
<1>2. CASE op' = op
  BY <1>2 DEF GoesOn
<1>3. CASE op' # op
  <2>1. ~Seats /\ ~Interrupt /\ ~Restart /\ ~UNCHANGED vars
    BY <1>1, <1>3 DEF Seats, Deactivate, ActivateTask, Interrupt, Restart, Release, vars
  <2>2. Reconciliation => Reconciled
    BY <1>3 DEF Reconciliation, Demote, Promote, Normalise, RecEvent, RecIndex, RecTouch, RecProject
  <2> QED
    BY <2>1, <2>2, ReconciledGoesOn, WriteGoesOn DEF Next
<1> QED
  BY <1>2, <1>3

\* A request that takes the lock for an assignment has looked for its key.
LEMMA BeginKnows == ASSUME IndInv, Begin, KeyedAssign(op')
                    PROVE  /\ Fresh(op') => NoEntry(op') /\ NoneMade(op')
                           /\ Unindexed(op') => NoEntry(op')
<1>1. ASSUME NEW p \in Principal, NEW a \in Principal, NEW k \in Key, NEW f \in Data, AssignReplay(p, a, k, f)
      PROVE  ~Fresh(op') /\ ~Unindexed(op')
  BY <1>1, ConstantsAssumption DEF AssignReplay, AssignRequest, Request, Fresh, Unindexed
<1>2. ASSUME NEW p \in Principal, NEW a \in Principal, NEW k \in Key, NEW f \in Data, AssignRecover(p, a, k, f)
      PROVE  ~Fresh(op') /\ NoEntry(op')
  BY <1>2 DEF AssignRecover, AssignRequest, Request, Fresh, NoEntry
<1>3. ASSUME NEW p \in Principal, NEW a \in Principal, NEW k \in Key \cup {NoKey}, NEW f \in Data,
             AssignNew(p, a, k, f)
      PROVE  NoEntry(op') /\ NoneMade(op')
  <2>1. op' = AssignRequest("reconcile", p, a, NoTask, k, f)
    BY <1>3 DEF AssignNew
  <2>2. op'.actor = p /\ op'.key = k /\ op'.lane = a
    BY <2>1 DEF AssignRequest, Request
  <2>3. k # NoKey
    BY <2>2 DEF KeyedAssign
  <2> QED
    BY <1>3, <2>2, <2>3 DEF AssignNew, NoEntry, NoneMade
<1>4. ASSUME NEW p \in Principal, NEW a \in Principal PROVE ~BeginReconcile(p, a)
  BY DEF BeginReconcile, Request, KeyedAssign
<1>5. ASSUME NEW p \in Principal, NEW t \in Task \cup {NoTask}, NEW k \in Key \cup {NoKey}, NEW d \in Data
      PROVE  ~BeginStart(p, t, k, d) /\ ~BeginMessage(p, t, k, d)
  BY DEF BeginStart, BeginMessage, Request, KeyedAssign
<1>6. ASSUME NEW p \in Principal, NEW t \in Task \cup {NoTask}, NEW k \in Key \cup {NoKey}, NEW d \in Data,
             NEW s \in ReportStatus
      PROVE  ~BeginReport(p, t, s, k, d) /\ ~ReportReplay(p, t, s, k, d)
  BY DEF BeginReport, ReportReplay, Request, KeyedAssign
<1>7. ASSUME NEW p \in Principal, NEW t \in Task, NEW k \in Key \cup {NoKey}, NEW d \in Data
      PROVE  ~BeginCancel(p, t, k, d) /\ ~CancelReplay(p, t, k, d) /\ ~BeginUpdate(p, t, d)
  BY DEF BeginCancel, CancelReplay, BeginUpdate, Request, KeyedAssign
<1> QED
  BY <1>1, <1>2, <1>3, <1>4, <1>5, <1>6, <1>7 DEF Begin

\* Taking the lock enters no assignment into the index.
LEMMA BeginKeepsIndex == Begin => assignIndex' = assignIndex
<1>1. ASSUME NEW p \in Principal, NEW a \in Principal, BeginReconcile(p, a) PROVE assignIndex' = assignIndex
  BY <1>1 DEF BeginReconcile, durable
<1>2. ASSUME NEW p \in Principal, NEW a \in Principal, NEW k \in Key \cup {NoKey}, NEW f \in Data,
             AssignReplay(p, a, k, f) \/ AssignRecover(p, a, k, f) \/ AssignNew(p, a, k, f)
      PROVE  assignIndex' = assignIndex
  BY <1>2 DEF AssignReplay, AssignRecover, AssignNew, durable
<1>3. ASSUME NEW p \in Principal, NEW t \in Task \cup {NoTask}, NEW k \in Key \cup {NoKey}, NEW d \in Data,
             BeginStart(p, t, k, d) \/ BeginMessage(p, t, k, d)
      PROVE  assignIndex' = assignIndex
  BY <1>3 DEF BeginStart, BeginMessage, durable
<1>4. ASSUME NEW p \in Principal, NEW t \in Task \cup {NoTask}, NEW k \in Key \cup {NoKey}, NEW d \in Data,
             NEW s \in ReportStatus, BeginReport(p, t, s, k, d) \/ ReportReplay(p, t, s, k, d)
      PROVE  assignIndex' = assignIndex
  BY <1>4 DEF BeginReport, ReportReplay, durable
<1>5. ASSUME NEW p \in Principal, NEW t \in Task, NEW k \in Key \cup {NoKey}, NEW d \in Data,
             BeginCancel(p, t, k, d) \/ CancelReplay(p, t, k, d) \/ BeginUpdate(p, t, d)
      PROVE  assignIndex' = assignIndex
  BY <1>5 DEF BeginCancel, CancelReplay, BeginUpdate, durable
<1> QED
  BY <1>1, <1>2, <1>3, <1>4, <1>5 DEF Begin

\* No step but an assignment's own two writes touches what tells tasks apart.
LEMMA OthersKeep ==
  ASSUME IndInv, [Next]_vars, ~CreateTask, ~PutAssignIndex
  PROVE  /\ assignIndex' = assignIndex
         /\ \A t \in Task : SameMaker(t) /\ (doc'[t].status # "absent" <=> Exists(t))
<1>1. assignIndex' = assignIndex
  <2>1. Begin => assignIndex' = assignIndex
    BY BeginKeepsIndex
  <2>2. Write => assignIndex' = assignIndex
    BY DEF Write, AppendKeyed, AppendUnkeyed, PutIndex, EditTask, TouchTask, ProjectTask, Anchor,
       AnchorCheck, AnchorClear, durable
  <2>3. Reconciliation => assignIndex' = assignIndex
    BY DEF Reconciliation, Demote, Promote, Normalise, RecEvent, RecIndex, RecTouch, RecProject,
       Reconciled, durable
  <2> QED
    BY <2>1, <2>2, <2>3 DEF Next, Seats, Deactivate, ActivateTask, Interrupt, Restart, durable, vars
<1> QED
  BY <1>1, StepKept DEF Kept, Remembers, Merges

KeyInv == AssignOnce /\ KeyOK

LEMMA OtherKeyStep ==
  ASSUME IndInv, KeyInv, [Next]_vars, ~CreateTask, ~PutAssignIndex
  PROVE  KeyInv'
<1>1. AssignOnce'
  BY OthersKeep DEF KeyInv, AssignOnce, SameMaker, Exists
<1>2. ASSUME KeyedAssign(op')
      PROVE  /\ Fresh(op') => NoEntry(op') /\ NoneMade(op')
             /\ Unindexed(op') => NoEntry(op')
  <2>1. CASE Begin
    BY <1>2, <2>1, BeginKnows
  <2>2. CASE ~Begin
    BY <1>2, <2>2, StepGoesOn DEF GoesOn, KeyedAssign, KeyInv, KeyOK, NoEntry, NoneMade
  <2> QED
    BY <2>1, <2>2
<1>3. KeyOK'
  BY <1>2, OthersKeep DEF KeyOK, KeyedAssign, Fresh, Unindexed, NoEntry, NoneMade, SameMaker, Exists
<1> QED
  BY <1>1, <1>3 DEF KeyInv

LEMMA CreateKeyStep == ASSUME IndInv, KeyInv, CreateTask PROVE KeyInv'
<1>1. op \in Op /\ op.kind = "assign" /\ op.pc = "create"
  BY DEF CreateTask, IndInv, OpOK, TypeOK
<1>2. PICK t \in Task, n \in OrderTime :
         /\ ~Exists(t) /\ op' = [op EXCEPT !.pc = "event", !.task = t]
         /\ doc' = [doc EXCEPT ![t] =
                 [NoDoc EXCEPT !.status = "PENDING", !.order = n, !.issuer = op.actor,
                               !.assignee = op.lane, !.key = op.key, !.fields = op.data,
                               !.generation = generation]]
  BY DEF CreateTask
<1>3. /\ doc'[t].issuer = op.actor /\ doc'[t].key = op.key /\ doc'[t].assignee = op.lane
      /\ assignIndex' = assignIndex /\ \A u \in Task \ {t} : doc'[u] = doc[u]
  BY <1>2 DEF CreateTask, NoDoc, IndInv, TypeOK
<1>4. op.key # NoKey => NoEntry(op) /\ NoneMade(op)
  BY <1>1 DEF KeyInv, KeyOK, Fresh
<1>5. AssignOnce'
  BY <1>2, <1>3, <1>4 DEF AssignOnce, KeyInv, NoneMade, Exists
<1>6. KeyOK'
  BY <1>1, <1>2, <1>3, <1>4 DEF KeyOK, Fresh, Unindexed, NoEntry, Op
<1> QED
  BY <1>5, <1>6 DEF KeyInv

LEMMA IndexKeyStep == ASSUME IndInv, KeyInv, PutAssignIndex PROVE KeyInv'
<1>1. op \in Op /\ op.kind = "assign" /\ op.key \in Key /\ op.pc = "assignIndex"
  BY DEF PutAssignIndex, IndInv, OpOK, TypeOK
<1>2. op.task \in Task /\ op.actor \in Principal
  BY <1>1, OnTaskFacts DEF OnTask
<1>3. NoEntry(op)
  BY <1>1, ConstantsAssumption DEF KeyInv, KeyOK, Unindexed
<1>4. /\ assignIndex \subseteq Principal \X Key \X Task
      /\ assignIndex' = assignIndex \cup {<<op.actor, op.key, op.task>>} /\ doc' = doc
  BY DEF PutAssignIndex, IndInv, TypeOK
<1>5. ASSUME NEW i \in assignIndex PROVE ~(i[1] = op.actor /\ i[2] = op.key)
  <2>1. i = <<i[1], i[2], i[3]>> /\ i[3] \in Task
    BY <1>4
  <2> QED
    BY <1>3, <2>1 DEF NoEntry
<1>6. AssignOnce'
  <2>1. \A i, j \in assignIndex' : i[1] = j[1] /\ i[2] = j[2] => i = j
    BY <1>4, <1>5 DEF KeyInv, AssignOnce
  <2> QED
    BY <1>4, <2>1 DEF KeyInv, AssignOnce, Exists
<1>7. ~Fresh(op') /\ ~Unindexed(op')
  <2>1. op'.pc = "none" \/ (op'.pc = "reconcile" /\ op'.task = op.task)
    BY <1>1 DEF PutAssignIndex, Release, Goto, NoOp, Op
  <2> QED
    BY <1>2, <2>1, ConstantsAssumption DEF Fresh, Unindexed
<1>8. KeyOK'
  BY <1>7 DEF KeyOK, Fresh, Unindexed
<1> QED
  BY <1>6, <1>8 DEF KeyInv

\* An issuer's key names one task of a seat, at every point a fault may stop an
\* assignment and its retry may begin (assign_task, workflow.rs:1040-1356).
THEOREM OneTaskPerKey == Spec => []AssignOnce
<1>1. Init => KeyInv
  BY DEF Init, KeyInv, AssignOnce, KeyOK, NoOp, NoDoc, Exists
<1>2. IndInv /\ KeyInv /\ [Next]_vars => KeyInv'
  BY OtherKeyStep, CreateKeyStep, IndexKeyStep
<1>3. KeyInv => AssignOnce
  BY DEF KeyInv
<1> QED
  BY <1>1, <1>2, <1>3, Invariance, PTL DEF Spec

----------------------------------------------------------------------------
(* Nothing without an event. *)

\* An event tells this of a task.
Told(t, kind, status, data) ==
    \E e \in events : /\ e.about.task = t /\ e.about.kind = kind
                      /\ e.about.status = status /\ data \in {NoData, e.about.data}
UpdatesOf(t) == {e \in events : e.about.task = t /\ e.about.kind = "update"}

\* ProjectionExplained of one task.
Explained(t) ==
    /\ doc[t].status = "IN_WORK" => Told(t, "started", "IN_WORK", NoData)
    /\ doc[t].status \in {"COMPLETED", "BLOCKED", "FAILED"} =>
          Told(t, "report", doc[t].status, doc[t].summary)
    /\ doc[t].status = "CANCELLED" => Told(t, "status_changed", "CANCELLED", doc[t].summary)
    /\ Effective(doc[t]) = "ready" => Told(t, "ready", "PENDING", NoData)
    /\ doc[t].edits <= Cardinality(UpdatesOf(t))

DocsExplained == \A t \in Task : /\ Explained(t)
                                 /\ doc[t].status \notin Terminal => doc[t].summary = NoData

\* Before a document follows an event, the event is recorded.
OpTold == op.event # NoEvent /\ op.kind \in {"start", "report", "cancel"} =>
              Told(op.task, EventKind, op.status, op.data)
EditTold == op.pc = "edit" => doc[op.task].edits < Cardinality(UpdatesOf(op.task))
RecTold == rec.job = "promote" /\ rec.pc \in {"index", "touch", "project"} =>
              Told(rec.task, "ready", "PENDING", NoData)

\* The key of a promotion is the engine's own.
ReadyTold == \A t \in Task, e \in events :
    e.id = [by |-> Queue, key |-> ReadyKey(t)] =>
        e.about.task = t /\ e.about.kind = "ready" /\ e.about.status = "PENDING"

ExplainInv == DocsExplained /\ OpTold /\ EditTold /\ RecTold /\ ReadyTold

LEMMA ToldGrows ==
  ASSUME NEW t, NEW kind, NEW status, NEW data, events \subseteq events', IsFiniteSet(events'),
         Told(t, kind, status, data)
  PROVE  \E e \in events' : /\ e.about.task = t /\ e.about.kind = kind
                            /\ e.about.status = status /\ data \in {NoData, e.about.data}
BY DEF Told

LEMMA UpdatesGrow ==
  ASSUME NEW t, events \subseteq events', IsFiniteSet(events')
  PROVE  LET updates == {e \in events' : e.about.task = t /\ e.about.kind = "update"}
         IN  /\ Cardinality(UpdatesOf(t)) \in Nat /\ Cardinality(updates) \in Nat
             /\ Cardinality(UpdatesOf(t)) <= Cardinality(updates)
<1> DEFINE updates == {e \in events' : e.about.task = t /\ e.about.kind = "update"}
<1>1. IsFiniteSet(updates) /\ UpdatesOf(t) \subseteq updates
  BY FS_Subset DEF UpdatesOf
<1> QED
  BY <1>1, FS_Subset, FS_CardinalityType

\* More events explain what fewer do.
LEMMA SameExplained ==
  ASSUME IndInv, DocsExplained, doc' = doc, events \subseteq events', IsFiniteSet(events')
  PROVE  DocsExplained'
<1> SUFFICES ASSUME NEW t \in Task
             PROVE  Explained(t)' /\ (doc'[t].status \notin Terminal => doc'[t].summary = NoData)
  BY DEF DocsExplained
<1> DEFINE updates == {e \in events' : e.about.task = t /\ e.about.kind = "update"}
<1>1. doc[t].edits \in Nat /\ doc[t].edits <= Cardinality(UpdatesOf(t))
  BY DEF IndInv, TypeOK, Doc, DocsExplained, Explained
<1>2. /\ Cardinality(UpdatesOf(t)) \in Nat /\ Cardinality(updates) \in Nat
      /\ Cardinality(UpdatesOf(t)) <= Cardinality(updates)
  BY UpdatesGrow
<1>3. UpdatesOf(t)' = updates
  BY DEF UpdatesOf
<1> HIDE DEF updates
<1>4. doc'[t].edits <= Cardinality(UpdatesOf(t))'
  BY <1>1, <1>2, <1>3
<1>5. Explained(t)
  BY DEF DocsExplained
<1>6. \A kind, status, data : Told(t, kind, status, data) => Told(t, kind, status, data)'
  BY DEF Told
<1>7. Explained(t)'
  BY <1>4, <1>5, <1>6 DEF Explained, Effective
<1> QED
  BY <1>7 DEF DocsExplained

\* A document that looks the same to events is explained by the same events.
LEMMA Explains ==
  ASSUME DocsExplained, events' = events, NEW t \in Task,
         doc'[t].status = doc[t].status, doc'[t].summary = doc[t].summary,
         doc'[t].edits = doc[t].edits, Effective(doc'[t]) \in {Effective(doc[t]), "queued", "running", "terminal"}
  PROVE  Explained(t)' /\ (doc'[t].status \notin Terminal => doc'[t].summary = NoData)
<1>1. Explained(t) /\ (doc[t].status \notin Terminal => doc[t].summary = NoData)
  BY DEF DocsExplained
<1>2. UpdatesOf(t)' = UpdatesOf(t)
  BY DEF UpdatesOf
<1>3. \A kind, status, data : Told(t, kind, status, data)' <=> Told(t, kind, status, data)
  BY DEF Told
<1>4. Effective(doc'[t]) = "ready" => Effective(doc[t]) = "ready"
  OBVIOUS
<1> QED
  BY <1>1, <1>2, <1>3, <1>4 DEF Explained

LEMMA CreateExplained == ASSUME IndInv, DocsExplained, CreateTask PROVE DocsExplained'
<1>1. PICK t \in Task, n \in OrderTime :
         /\ ~Exists(t)
         /\ doc' = [doc EXCEPT ![t] =
                 [NoDoc EXCEPT !.status = "PENDING", !.order = n, !.issuer = op.actor,
                               !.assignee = op.lane, !.key = op.key, !.fields = op.data,
                               !.generation = generation]]
  BY DEF CreateTask
<1>2. events' = events
  BY DEF CreateTask
<1>3. /\ doc'[t].status = "PENDING" /\ doc'[t].queue = "queued" /\ doc'[t].summary = NoData
      /\ doc'[t].edits = 0 /\ \A u \in Task \ {t} : doc'[u] = doc[u]
  BY <1>1 DEF NoDoc, IndInv, TypeOK
<1>4. Cardinality(UpdatesOf(t)) \in Nat
  BY UpdatesGrow, <1>2 DEF IndInv
<1>5. Explained(t)'
  BY <1>2, <1>3, <1>4 DEF Explained, Effective, UpdatesOf, Terminal
<1> QED
  BY <1>2, <1>3, <1>5, Explains DEF DocsExplained

LEMMA EditExplained == ASSUME IndInv, DocsExplained, EditTold, EditTask PROVE DocsExplained'
<1>1. op.task \in Task /\ op.pc = "edit" /\ events' = events
  BY OnTaskFacts DEF EditTask, OnTask
<1>2. /\ doc' = [doc EXCEPT ![op.task] = [doc[op.task] EXCEPT !.edits = doc[op.task].edits + 1]]
      /\ doc[op.task] \in Doc
  BY <1>1 DEF EditTask, IndInv, TypeOK, Doc
<1>3. /\ \A u \in Task \ {op.task} : doc'[u] = doc[u]
      /\ doc'[op.task] = [doc[op.task] EXCEPT !.edits = doc[op.task].edits + 1]
  BY <1>1, <1>2 DEF IndInv, TypeOK
<1> DEFINE t == op.task
<1>4. /\ doc'[t].status = doc[t].status /\ doc'[t].summary = doc[t].summary
      /\ Effective(doc'[t]) = Effective(doc[t]) /\ doc'[t].edits = doc[t].edits + 1
      /\ doc[t].edits \in Nat
  BY <1>2, <1>3 DEF Doc, Effective
<1>5. doc[t].edits < Cardinality(UpdatesOf(t)) /\ Cardinality(UpdatesOf(t)) \in Nat
  BY <1>1, UpdatesGrow DEF EditTold, IndInv
<1> SUFFICES ASSUME NEW u \in Task
             PROVE  Explained(u)' /\ (doc'[u].status \notin Terminal => doc'[u].summary = NoData)
  BY DEF DocsExplained
<1>6. CASE u = t
  BY <1>1, <1>4, <1>5, <1>6 DEF DocsExplained, Explained, Told, UpdatesOf
<1>7. CASE u # t
  BY <1>1, <1>3, <1>7, Explains
<1> QED
  BY <1>6, <1>7

\* A projection of the queue state explains itself unless it makes a task ready.
LEMMA ProjectExplained ==
  ASSUME IndInv, DocsExplained, events' = events, NEW t \in Task, NEW state \in QueueState,
         NEW r \in EventId \cup {NoEvent}, Project(t, state, r),
         state = "ready" => Told(t, "ready", "PENDING", NoData)
  PROVE  DocsExplained'
<1>1. /\ doc'[t] = [doc[t] EXCEPT !.queue = state, !.readyEvent = r]
      /\ \A u \in Task \ {t} : doc'[u] = doc[u]
      /\ doc[t] \in Doc
  BY ProjectDoc, ZenonT(40) DEF IndInv, TypeOK
<1>2. /\ doc'[t].status = doc[t].status /\ doc'[t].summary = doc[t].summary
      /\ doc'[t].edits = doc[t].edits /\ doc'[t].queue = state
  BY <1>1 DEF Doc
<1> SUFFICES ASSUME NEW u \in Task
             PROVE  Explained(u)' /\ (doc'[u].status \notin Terminal => doc'[u].summary = NoData)
  BY DEF DocsExplained
<1>3. CASE u = t
  BY <1>2, <1>3 DEF DocsExplained, Explained, Told, UpdatesOf, Effective
<1>4. CASE u # t
  BY <1>1, <1>4, Explains
<1> QED
  BY <1>3, <1>4

\* A merge puts a summary in only with the closing status it sets.
LEMMA MergedSummary ==
  ASSUME TypeOK, NEW t \in Task, NEW id, NEW status, NEW s, Touch(t, id, status, s)
  PROVE  doc'[t].summary = IF s # NoData /\ doc'[t].status = status THEN s ELSE doc[t].summary
<1>1. PICK e \in events : doc' = [doc EXCEPT ![t] = Touched(doc[t], e, status, s)]
  BY DEF Touch
<1>2. doc[t] \in Doc /\ doc'[t] = Touched(doc[t], e, status, s)
  BY <1>1 DEF TypeOK
<1> QED
  BY <1>2 DEF Touched, Doc

\* The events of an operation explain the document that follows them.
LEMMA TouchExplained ==
  ASSUME IndInv, DocsExplained, OpTold, TouchTask, NEW t \in Task, op.task = t
  PROVE  DocsExplained'
<1>1. op.pc = "touch" /\ op.pc \in OnTask /\ op.pc \in Pending /\ events' = events
  BY DEF TouchTask, OnTask, Pending
<1>2. op.event \in EventId /\ doc[t] \in Doc
  BY <1>1 DEF IndInv, OpOK, TypeOK
<1>3. /\ \A u \in Task \ {t} : doc'[u] = doc[u]
      /\ SameButMerged(doc'[t], doc[t])
  BY TouchOutcome
<1>4. doc'[t].summary = IF OpSummary # NoData /\ doc'[t].status = OpStatus
                        THEN OpSummary ELSE doc[t].summary
  BY <1>2, MergedSummary DEF TouchTask, IndInv
<1>5. doc'[t].edits = doc[t].edits /\ doc'[t].queue = doc[t].queue
  BY <1>3 DEF SameButMerged
<1>6. Explained(t) /\ (doc[t].status \notin Terminal => doc[t].summary = NoData)
  BY <1>2 DEF DocsExplained
<1>7. op.kind \in {"start", "report", "cancel"} => Told(t, EventKind, op.status, op.data)
  BY <1>1, <1>2, ConstantsAssumption DEF OpTold
<1>8. CASE doc'[t].status = doc[t].status
  <2>1. doc'[t].summary = doc[t].summary
    <3>1. CASE doc[t].status \in Terminal
      <4>1. op.kind \notin {"report", "cancel"}
        BY <1>1, <3>1 DEF IndInv, OpOK, Terminal
      <4>2. OpStatus \notin Terminal
        BY <4>1 DEF OpStatus, IndInv, OpOK, Terminal
      <4> QED
        BY <1>4, <4>2 DEF OpSummary
    <3>2. CASE doc[t].status \notin Terminal
      BY <1>4, <1>8, <3>2 DEF OpSummary
    <3> QED
      BY <3>1, <3>2
  <2>2. Effective(doc'[t]) = Effective(doc[t])
    BY <1>5, <1>8 DEF Effective
  <2>3. \A u \in Task : Explained(u)' /\ (doc'[u].status \notin Terminal => doc'[u].summary = NoData)
    BY <1>1, <1>3, <1>5, <1>8, <2>1, <2>2, Explains
  <2> QED
    BY <2>3 DEF DocsExplained
<1>9. CASE doc'[t].status # doc[t].status
  <2>1. /\ op.kind \in {"start", "report", "cancel"} /\ doc[t].status \in {"PENDING", "IN_WORK"}
        /\ op.kind = "start" => doc'[t].status = "IN_WORK"
        /\ op.kind = "report" => doc'[t].status \in {"COMPLETED", "BLOCKED", "FAILED"}
        /\ op.kind = "cancel" => doc'[t].status = "CANCELLED"
    BY <1>9, TouchOutcome
  <2>2. doc'[t].status = op.status /\ OpStatus = op.status
    <3>1. OpStatus \in Status \cup {"none"} /\ OpSummary \in Data \cup {NoData}
      BY DEF OpStatus, OpSummary, IndInv, TypeOK, Op
    <3>2. doc'[t].status = IF Applies(doc[t], OpStatus) THEN OpStatus ELSE doc[t].status
      BY <1>2, <3>1, TouchDoc DEF TouchTask, IndInv
    <3>3. OpStatus = op.status
      BY <2>1 DEF OpStatus
    <3> QED
      BY <1>9, <3>2, <3>3
  <2>3. /\ doc'[t].status \in Terminal => doc'[t].summary = op.data
        /\ doc'[t].status \notin Terminal => doc'[t].summary = NoData
    BY <1>4, <1>6, <2>1, <2>2 DEF OpSummary, Terminal
  <2>4. /\ op.kind = "start" => EventKind = "started"
        /\ op.kind = "report" => EventKind = "report"
        /\ op.kind = "cancel" => EventKind = "status_changed"
    BY <2>1, <2>2 DEF EventKind, Terminal
  <2>5. \A kind, status, data : Told(t, kind, status, data)' <=> Told(t, kind, status, data)
    BY <1>1 DEF Told
  <2>6. UpdatesOf(t)' = UpdatesOf(t)
    BY <1>1 DEF UpdatesOf
  <2>7. Effective(doc'[t]) # "ready"
    BY <2>1 DEF Effective, Terminal
  <2>8. Told(t, "started", op.status, op.data) => Told(t, "started", op.status, NoData)
    BY DEF Told
  <2>9. Explained(t)'
    BY <1>5, <1>6, <1>7, <2>1, <2>2, <2>3, <2>4, <2>5, <2>6, <2>7, <2>8 DEF Explained, Terminal
  <2>10. \A u \in Task \ {t} : Explained(u)' /\ (doc'[u].status \notin Terminal => doc'[u].summary = NoData)
    BY <1>1, <1>3, Explains
  <2> QED
    BY <2>3, <2>9, <2>10 DEF DocsExplained
<1> QED
  BY <1>8, <1>9

LEMMA RecTouchExplained == ASSUME IndInv, DocsExplained, RecTouch PROVE DocsExplained'
<1> DEFINE t == rec.task
<1>1. /\ t \in Task /\ Touch(t, rec.event, "none", NoData) /\ events' = events
      /\ doc[t].status = "PENDING"
  BY DEF IndInv, RecOK, RecTouch, Lane
<1>2. /\ doc'[t].status = doc[t].status
      /\ SameButMerged(doc'[t], doc[t])
      /\ \A u \in Task \ {t} : doc'[u] = doc[u]
  BY <1>1, TouchDoc DEF Applies, IndInv
<1>3. doc'[t].summary = doc[t].summary
  BY <1>1, MergedSummary DEF IndInv
<1>4. doc'[t].edits = doc[t].edits /\ Effective(doc'[t]) = Effective(doc[t])
  BY <1>2 DEF SameButMerged, Effective
<1>5. \A u \in Task : Explained(u)' /\ (doc'[u].status \notin Terminal => doc'[u].summary = NoData)
  BY <1>1, <1>2, <1>3, <1>4, Explains
<1> QED
  BY <1>5 DEF DocsExplained

LEMMA RecProjectExplained ==
  ASSUME IndInv, DocsExplained, RecTold, RecProject PROVE DocsExplained'
<1>1. rec.task \in Task /\ rec.pc = "project" /\ events' = events
  BY DEF IndInv, RecOK, RecProject, Lane
<1>2. CASE rec.job = "promote"
  BY <1>1, <1>2, ProjectExplained DEF RecProject, RecTold, QueueState, IndInv, RecOK
<1>3. CASE rec.job # "promote"
  BY <1>1, <1>3, ProjectExplained DEF RecProject, QueueState
<1> QED
  BY <1>2, <1>3

\* Repairing a stored queue state makes no task ready that was not.
LEMMA NormaliseExplained == ASSUME IndInv, DocsExplained, Normalise PROVE DocsExplained'
<1> DEFINE KeptEvent(t) == IF Effective(doc[t]) = "queued" THEN NoEvent ELSE doc[t].readyEvent
<1>1. PICK t \in Unnormalised(op.lane) : Project(t, Effective(doc[t]), KeptEvent(t))
  BY DEF Normalise
<1>2. t \in Task /\ doc[t] \in Doc /\ events' = events
  BY DEF Unnormalised, Lane, IndInv, TypeOK, Normalise
<1>3. Effective(doc[t]) \in QueueState
  BY DEF Effective, QueueState
<1>4. KeptEvent(t) \in EventId \cup {NoEvent}
  BY <1>2 DEF Doc
<1>5. Effective(doc[t]) = "ready" => Told(t, "ready", "PENDING", NoData)
  BY <1>2 DEF DocsExplained, Explained
<1> HIDE DEF KeptEvent
<1> QED
  BY <1>1, <1>2, <1>3, <1>4, <1>5, ProjectExplained

LEMMA ProjectTaskExplained == ASSUME IndInv, DocsExplained, ProjectTask PROVE DocsExplained'
<1>1. op.task \in Task /\ op.pc = "project" /\ events' = events
  BY OnTaskFacts DEF ProjectTask, OnTask
<1>2. doc[op.task].readyEvent \in EventId \cup {NoEvent}
  BY <1>1 DEF IndInv, TypeOK, Doc
<1>3. CASE op.status \in Terminal
  BY <1>1, <1>3, ProjectExplained DEF ProjectTask, QueueState
<1>4. CASE op.status \notin Terminal
  BY <1>1, <1>2, <1>4, ProjectExplained DEF ProjectTask, QueueState
<1> QED
  BY <1>3, <1>4

LEMMA DocsStep ==
  ASSUME IndInv, IndInv', ExplainInv, [Next]_vars, events \subseteq events'
  PROVE  DocsExplained'
<1>1. CASE doc' = doc
  BY <1>1, SameExplained DEF IndInv, ExplainInv
<1>2. TouchTask => DocsExplained'
  <2>1. TouchTask => op.task \in Task
    BY OnTaskFacts DEF TouchTask, OnTask
  <2> QED
    BY <2>1, TouchExplained DEF ExplainInv
<1>3. CASE doc' # doc
  BY <1>2, <1>3, DocumentWrites, CreateExplained, EditExplained, ProjectTaskExplained,
     NormaliseExplained, RecTouchExplained, RecProjectExplained DEF ExplainInv
<1> QED
  BY <1>1, <1>3

\* Only three actions append an event, and none removes one.
LEMMA BeginKeepsEvents == Begin => events' = events /\ rec' = rec
<1>1. ASSUME NEW p \in Principal, NEW a \in Principal, BeginReconcile(p, a)
      PROVE  events' = events /\ rec' = rec
  BY <1>1 DEF BeginReconcile, durable
<1>2. ASSUME NEW p \in Principal, NEW a \in Principal, NEW k \in Key \cup {NoKey}, NEW f \in Data,
             AssignReplay(p, a, k, f) \/ AssignRecover(p, a, k, f) \/ AssignNew(p, a, k, f)
      PROVE  events' = events /\ rec' = rec
  BY <1>2 DEF AssignReplay, AssignRecover, AssignNew, durable
<1>3. ASSUME NEW p \in Principal, NEW t \in Task \cup {NoTask}, NEW k \in Key \cup {NoKey},
             NEW d \in Data, BeginStart(p, t, k, d) \/ BeginMessage(p, t, k, d)
      PROVE  events' = events /\ rec' = rec
  BY <1>3 DEF BeginStart, BeginMessage, durable
<1>4. ASSUME NEW p \in Principal, NEW t \in Task \cup {NoTask}, NEW k \in Key \cup {NoKey},
             NEW d \in Data, NEW s \in ReportStatus,
             BeginReport(p, t, s, k, d) \/ ReportReplay(p, t, s, k, d)
      PROVE  events' = events /\ rec' = rec
  BY <1>4 DEF BeginReport, ReportReplay, durable
<1>5. ASSUME NEW p \in Principal, NEW t \in Task, NEW k \in Key \cup {NoKey}, NEW d \in Data,
             BeginCancel(p, t, k, d) \/ CancelReplay(p, t, k, d) \/ BeginUpdate(p, t, d)
      PROVE  events' = events /\ rec' = rec
  BY <1>5 DEF BeginCancel, CancelReplay, BeginUpdate, durable
<1> QED
  BY <1>1, <1>2, <1>3, <1>4, <1>5 DEF Begin

LEMMA EventWrites ==
  ASSUME [Next]_vars
  PROVE  \/ events' = events
         \/ (AppendKeyed \/ AppendUnkeyed) /\ \E id : PutEvent(id, OpAbout) /\ id.by = op.actor
         \/ RecEvent /\ PutEvent(RecEventId, RecAbout)
<1>1. Begin => events' = events
  BY BeginKeepsEvents
<1>2. AppendKeyed => events' = events \/ \E id : PutEvent(id, OpAbout) /\ id.by = op.actor
  BY DEF AppendKeyed
<1>3. AppendUnkeyed => \E id : PutEvent(id, OpAbout) /\ id.by = op.actor
  BY DEF AppendUnkeyed
<1>4. RecEvent => events' = events \/ PutEvent(RecEventId, RecAbout)
  BY DEF RecEvent
<1>5. Write => AppendKeyed \/ AppendUnkeyed \/ events' = events
  BY DEF Write, CreateTask, PutIndex, EditTask, TouchTask, PutAssignIndex, ProjectTask, Anchor,
     AnchorCheck, AnchorClear, durable
<1>6. Reconciliation => RecEvent \/ events' = events
  BY DEF Reconciliation, Demote, Promote, Normalise, RecIndex, RecTouch, RecProject, Reconciled,
     durable
<1> QED
  BY <1>1, <1>2, <1>3, <1>4, <1>5, <1>6
     DEF Next, Seats, Deactivate, ActivateTask, Interrupt, Restart, durable, vars

LEMMA EventsGrow == ASSUME [Next]_vars PROVE events \subseteq events'
<1>1. \A id, about : PutEvent(id, about) => events \subseteq events'
  BY DEF PutEvent
<1> QED
  BY <1>1, EventWrites

\* Only the engine uses the keys of its promotions.
LEMMA ReadyStep == ASSUME IndInv, ReadyTold, [Next]_vars PROVE ReadyTold'
<1>1. CASE events' = events
  BY <1>1 DEF ReadyTold
<1>2. CASE (AppendKeyed \/ AppendUnkeyed) /\ \E id : PutEvent(id, OpAbout) /\ id.by = op.actor
  <2>1. op.actor \in Principal
    BY <1>2, OnTaskFacts DEF AppendKeyed, AppendUnkeyed, OnTask
  <2>2. ASSUME NEW id, PutEvent(id, OpAbout), id.by = op.actor PROVE ReadyTold'
    BY <2>1, <2>2, QueueAssumption DEF PutEvent, ReadyTold
  <2> QED
    BY <1>2, <2>2
<1>3. CASE RecEvent /\ PutEvent(RecEventId, RecAbout)
  <2>1. PICK n : events' = events \cup {[id |-> RecEventId, at |-> n, about |-> RecAbout]}
    BY <1>3 DEF PutEvent
  <2>2. ASSUME NEW t \in Task, RecEventId = [by |-> Queue, key |-> ReadyKey(t)]
        PROVE  rec.job = "promote" /\ rec.task = t
    BY <2>2 DEF RecEventId, ReadyKey, RepairKey
  <2>3. rec.job = "promote" => RecAbout.task = rec.task /\ RecAbout.kind = "ready" /\ RecAbout.status = "PENDING"
    BY DEF RecAbout
  <2> HIDE DEF RecEventId, RecAbout
  <2> QED
    BY <2>1, <2>2, <2>3 DEF ReadyTold
<1> QED
  BY <1>1, <1>2, <1>3, EventWrites

\* The event of an operation stays the event of that operation.
SameRequest == /\ op'.task = op.task /\ op'.kind = op.kind /\ op'.status = op.status
               /\ op'.data = op.data /\ op'.event = op.event

LEMMA AfterReconciled ==
  ASSUME IndInv, Reconciled PROVE op' = NoOp \/ (SameRequest /\ op'.pc # "edit")
<1>1. op' = NoOp \/ \E p \in {"create", "event", "touch"} : op' = [op EXCEPT !.pc = p]
  BY DEF Reconciled, Release, Goto
<1> QED
  BY <1>1 DEF SameRequest, IndInv, TypeOK, Op

LEMMA AfterWrite ==
  ASSUME IndInv, Write, ~CreateTask, ~AppendKeyed, ~AppendUnkeyed
  PROVE  op' = NoOp \/ (SameRequest /\ op'.pc # "edit")
<1>1. op' = NoOp \/ \E p \in {"touch", "none", "reconcile", "assignIndex", "project", "anchor",
                              "anchorCheck", "anchorClear"} : op' = [op EXCEPT !.pc = p]
  BY DEF Write, PutIndex, EditTask, TouchTask, NextAfterTouch, PutAssignIndex, ProjectTask, Anchor,
     AnchorCheck, AnchorClear, Release, Goto
<1> QED
  BY <1>1 DEF SameRequest, IndInv, TypeOK, Op

LEMMA OtherStep ==
  ASSUME IndInv, [Next]_vars, ~Begin, ~CreateTask, ~AppendKeyed, ~AppendUnkeyed
  PROVE  op' = NoOp \/ op' = op \/ (SameRequest /\ op'.pc # "edit")
<1>1. Reconciliation => op' = op \/ Reconciled
  BY DEF Reconciliation, Demote, Promote, Normalise, RecEvent, RecIndex, RecTouch, RecProject
<1>2. Seats \/ Interrupt \/ Restart \/ UNCHANGED vars => op' = NoOp \/ op' = op
  BY DEF Seats, Deactivate, ActivateTask, Interrupt, Restart, Release, vars
<1> QED
  BY <1>1, <1>2, AfterReconciled, AfterWrite DEF Next

\* A request that resumes has its event; any other has none yet.
LEMMA BeginTold == ASSUME Begin PROVE op'.pc # "edit" /\ (OpTold' \/ op'.event = NoEvent)
<1>1. ASSUME NEW p \in Principal, NEW a \in Principal, BeginReconcile(p, a)
      PROVE  op'.pc # "edit" /\ op'.event = NoEvent
  BY <1>1 DEF BeginReconcile, Request
<1>2. ASSUME NEW p \in Principal, NEW a \in Principal, NEW k \in Key \cup {NoKey}, NEW f \in Data,
             AssignReplay(p, a, k, f) \/ AssignRecover(p, a, k, f) \/ AssignNew(p, a, k, f)
      PROVE  op'.pc # "edit" /\ op'.event = NoEvent
  BY <1>2 DEF AssignReplay, AssignRecover, AssignNew, AssignRequest, Request
<1>3. ASSUME NEW p \in Principal, NEW t \in Task \cup {NoTask}, NEW k \in Key \cup {NoKey},
             NEW d \in Data, BeginMessage(p, t, k, d)
      PROVE  op'.pc # "edit" /\ op'.event = NoEvent
  BY <1>3 DEF BeginMessage, Request
<1>4. ASSUME NEW p \in Principal, NEW t \in Task \cup {NoTask}, NEW k \in Key \cup {NoKey},
             NEW d \in Data, NEW s \in ReportStatus,
             BeginReport(p, t, s, k, d) \/ ReportReplay(p, t, s, k, d)
      PROVE  op'.pc # "edit" /\ op'.event = NoEvent
  BY <1>4 DEF BeginReport, ReportReplay, Request
<1>5. ASSUME NEW p \in Principal, NEW t \in Task, NEW k \in Key \cup {NoKey}, NEW d \in Data,
             BeginCancel(p, t, k, d) \/ CancelReplay(p, t, k, d) \/ BeginUpdate(p, t, d)
      PROVE  op'.pc # "edit" /\ op'.event = NoEvent
  BY <1>5 DEF BeginCancel, CancelReplay, BeginUpdate, Request
<1>6. ASSUME NEW p \in Principal, NEW t \in Task \cup {NoTask}, NEW k \in Key \cup {NoKey},
             NEW d \in Data, BeginStart(p, t, k, d)
      PROVE  op'.pc # "edit" /\ (OpTold' \/ op'.event = NoEvent)
  <2> DEFINE u == TaskOrActive(p, t)
             about == [task |-> u, kind |-> "started", status |-> "IN_WORK", data |-> d]
             request == Request("start", "reconcile", p, u, k, "IN_WORK", d)
  <2>1. events' = events /\ (\/ op' = request
                             \/ /\ op' = [request EXCEPT !.event = [by |-> p, key |-> k]]
                                /\ \E e \in events : e.about = about)
    BY <1>6 DEF BeginStart, Replayed, Recorded
  <2>2. /\ op'.pc = "reconcile" /\ op'.kind = "start" /\ op'.status = "IN_WORK"
        /\ op'.data = d /\ op'.task = u
    BY <2>1 DEF Request
  <2>3. op'.event = NoEvent \/ \E e \in events' : e.about = about
    BY <2>1 DEF Request
  <2> HIDE DEF u, request
  <2>4. EventKind' = "started"
    BY <2>2 DEF EventKind
  <2>5. (\E e \in events' : e.about = about) =>
          \E e \in events' : /\ e.about.task = op'.task /\ e.about.kind = EventKind'
                             /\ e.about.status = op'.status /\ op'.data = e.about.data
    BY <2>2, <2>4
  <2> QED
    BY <2>2, <2>3, <2>5 DEF OpTold, Told
<1> QED
  BY <1>1, <1>2, <1>3, <1>4, <1>5, <1>6 DEF Begin

\* What an append leaves: its event recorded, or the operation over.
LEMMA Appended ==
  ASSUME IndInv, AppendKeyed \/ AppendUnkeyed
  PROVE  \/ op' = NoOp
         \/ /\ op'.task = op.task /\ op'.kind = op.kind /\ op'.status = op.status /\ op'.data = op.data
            /\ \E e \in events' : e.about = OpAbout
<1>1. op \in Op
  BY DEF IndInv, TypeOK
<1>2. ASSUME NEW id, NEW pc, op' = [op EXCEPT !.pc = pc, !.event = id]
      PROVE  op'.task = op.task /\ op'.kind = op.kind /\ op'.status = op.status /\ op'.data = op.data
  BY <1>1, <1>2 DEF Op
<1>3. ASSUME NEW id, PutEvent(id, OpAbout) PROVE \E e \in events' : e.about = OpAbout
  <2>1. PICK n : events' = events \cup {[id |-> id, at |-> n, about |-> OpAbout]}
    BY <1>3 DEF PutEvent
  <2>2. [id |-> id, at |-> n, about |-> OpAbout].about = OpAbout
    OBVIOUS
  <2> QED
    BY <2>1, <2>2
<1>4. CASE AppendKeyed
  <2> DEFINE id == [by |-> op.actor, key |-> OpEventKey]
  <2>1. \/ op' = NoOp
        \/ PutEvent(id, OpAbout) /\ op' = [op EXCEPT !.pc = "index", !.event = id]
        \/ /\ op' = [op EXCEPT !.pc = "touch", !.event = id] /\ events' = events
           /\ \E e \in events : e.about = OpAbout
    BY <1>4 DEF AppendKeyed, Release, Unrecorded, Conflicting
  <2> HIDE DEF id
  <2> QED
    BY <1>2, <1>3, <2>1
<1>5. CASE AppendUnkeyed
  BY <1>2, <1>3, <1>5 DEF AppendUnkeyed
<1> QED
  BY <1>4, <1>5

LEMMA OpStep == ASSUME IndInv, ExplainInv, [Next]_vars, events \subseteq events' PROVE OpTold'
<1>1. \A t, kind, status, data : Told(t, kind, status, data) =>
         \E e \in events' : /\ e.about.task = t /\ e.about.kind = kind
                            /\ e.about.status = status /\ data \in {NoData, e.about.data}
  BY DEF Told
<1>2. op' = NoOp => OpTold'
  BY DEF NoOp, OpTold
<1>3. CASE Begin
  BY <1>3, BeginTold DEF OpTold
<1>4. CASE CreateTask
  <2>1. op \in Op /\ op.kind = "assign"
    BY <1>4 DEF CreateTask, IndInv, OpOK, TypeOK
  <2>2. op'.kind = "assign"
    BY <1>4, <2>1 DEF CreateTask, Op
  <2> QED
    BY <2>2 DEF OpTold
<1>5. CASE AppendKeyed \/ AppendUnkeyed
  <2>1. CASE op' # NoOp /\ op.kind \in {"start", "report", "cancel"}
    <3>1. PICK e \in events' : e.about = OpAbout
      BY <1>5, <2>1, Appended
    <3>2. /\ op'.task = op.task /\ op'.kind = op.kind /\ op'.status = op.status
          /\ op'.data = op.data
      BY <1>5, <2>1, Appended
    <3>3. EventKind' = EventKind
      BY <3>2 DEF EventKind
    <3>4. /\ e.about.task = op'.task /\ e.about.kind = EventKind'
          /\ e.about.status = op'.status /\ e.about.data = op'.data
      BY <2>1, <3>1, <3>2, <3>3 DEF OpAbout
    <3> QED
      BY <3>1, <3>4 DEF OpTold, Told
  <2>2. CASE op' # NoOp /\ op.kind \notin {"start", "report", "cancel"}
    BY <1>5, <2>2, Appended DEF OpTold
  <2> QED
    BY <1>2, <2>1, <2>2
<1>6. CASE (SameRequest \/ op' = op)
  <2>1. /\ op'.task = op.task /\ op'.kind = op.kind /\ op'.status = op.status
        /\ op'.data = op.data /\ op'.event = op.event
    BY <1>6 DEF SameRequest
  <2>2. EventKind' = EventKind
    BY <2>1 DEF EventKind
  <2>3. op.event # NoEvent /\ op.kind \in {"start", "report", "cancel"} =>
          \E e \in events' : /\ e.about.task = op.task /\ e.about.kind = EventKind
                             /\ e.about.status = op.status /\ op.data \in {NoData, e.about.data}
    BY <1>1 DEF ExplainInv, OpTold
  <2> QED
    BY <2>1, <2>2, <2>3 DEF OpTold, Told
<1> QED
  BY <1>2, <1>3, <1>4, <1>5, <1>6, OtherStep

\* A manager's edit waits for its audit event, which no earlier edit had.
LEMMA AuditedEdit == ASSUME IndInv, DocsExplained, AppendUnkeyed PROVE EditTold'
<1>1. CASE op.kind = "update"
  <2>1. op \in Op /\ op.pc = "event" /\ op.pc \in OnTask /\ doc' = doc
    BY DEF IndInv, TypeOK, AppendUnkeyed, OnTask
  <2>2. PICK t \in Task : op.task = t
    BY <2>1, OnTaskFacts
  <2>3. PICK u \in Uuid : /\ \A e \in events : e.id.key # u
                          /\ PutEvent([by |-> op.actor, key |-> u], OpAbout)
                          /\ op' = [op EXCEPT !.pc = "edit", !.event = [by |-> op.actor, key |-> u]]
    BY <1>1 DEF AppendUnkeyed
  <2>4. PICK n : events' = events \cup {[id |-> [by |-> op.actor, key |-> u], at |-> n, about |-> OpAbout]}
    BY <2>3 DEF PutEvent
  <2> DEFINE e == [id |-> [by |-> op.actor, key |-> u], at |-> n, about |-> OpAbout]
  <2>5. e \notin events /\ e.about.task = t /\ e.about.kind = "update"
    BY <1>1, <2>2, <2>3 DEF OpAbout, EventKind
  <2> HIDE DEF e
  <2>6. UpdatesOf(t)' = UpdatesOf(t) \cup {e} /\ e \notin UpdatesOf(t)
    BY <2>4, <2>5 DEF UpdatesOf, e
  <2>7. IsFiniteSet(UpdatesOf(t))
    BY FS_Subset DEF IndInv, UpdatesOf
  <2>8. /\ Cardinality(UpdatesOf(t)) \in Nat
        /\ Cardinality(UpdatesOf(t) \cup {e}) = Cardinality(UpdatesOf(t)) + 1
    BY <2>6, <2>7, FS_CardinalityType, FS_AddElement
  <2>9. doc[t].edits \in Nat /\ doc[t].edits <= Cardinality(UpdatesOf(t))
    BY DEF IndInv, TypeOK, Doc, DocsExplained, Explained
  <2>10. doc'[t].edits < Cardinality(UpdatesOf(t))'
    BY <2>1, <2>6, <2>8, <2>9
  <2>11. op'.task = t
    BY <2>1, <2>2, <2>3 DEF Op
  <2> QED
    BY <2>10, <2>11 DEF EditTold, UpdatesOf
<1>2. CASE op.kind # "update"
  <2>1. op'.pc = "touch"
    BY <1>2 DEF AppendUnkeyed, IndInv, TypeOK, Op
  <2> QED
    BY <2>1 DEF EditTold
<1> QED
  BY <1>1, <1>2

LEMMA EditStep == ASSUME IndInv, ExplainInv, [Next]_vars PROVE EditTold'
<1>1. CASE AppendUnkeyed
  BY <1>1, AuditedEdit DEF ExplainInv
<1>2. CASE op'.pc # "edit"
  BY <1>2 DEF EditTold
<1>3. CASE ~AppendUnkeyed /\ op'.pc = "edit"
  <2>1. ~Begin /\ op' # NoOp
    BY <1>3, BeginTold DEF NoOp
  <2>2. ~CreateTask /\ ~AppendKeyed
    BY <1>3, <2>1 DEF CreateTask, AppendKeyed, Release, IndInv, TypeOK, Op
  <2>3. op' = op
    BY <1>3, <2>1, <2>2, OtherStep
  <2>4. op.pc = "edit"
    BY <1>3, <2>3
  <2>5. ~EditTask
    BY <2>3, <2>4 DEF EditTask, Goto, IndInv, TypeOK, Op
  <2>6. doc' = doc
    BY <2>2, <2>4, <2>5, DocumentWrites DEF TouchTask, ProjectTask, Normalise, RecTouch, RecProject,
       Repairing, Scanning, IndInv, RecOK
  <2>7. events' = events
    BY <1>3, <2>2, <2>4, EventWrites DEF RecEvent, IndInv, RecOK
  <2> QED
    BY <2>3, <2>6, <2>7 DEF ExplainInv, EditTold, UpdatesOf
<1> QED
  BY <1>1, <1>2, <1>3

LEMMA RecStep == ASSUME IndInv, ExplainInv, [Next]_vars, events \subseteq events' PROVE RecTold'
<1>1. rec \in Rec
  BY DEF IndInv, TypeOK
<1>2. CASE RecEvent
  <2> SUFFICES ASSUME rec'.job = "promote"
               PROVE  \E e \in events' : /\ e.about.task = rec'.task /\ e.about.kind = "ready"
                                         /\ e.about.status = "PENDING"
    BY DEF RecTold, Told
  <2>1. \E pc \in {"index", "touch"} : rec' = [rec EXCEPT !.pc = pc, !.event = RecEventId]
    BY <1>2 DEF RecEvent
  <2>2. rec'.task = rec.task /\ rec.job = "promote" /\ rec.task \in Task
    BY <1>1, <1>2, <2>1 DEF Rec, RecEvent, IndInv, RecOK, Lane
  <2>3. RecEventId = [by |-> Queue, key |-> ReadyKey(rec.task)]
    BY <2>2 DEF RecEventId
  <2>4. CASE Unrecorded(RecEventId)
    <3>1. PICK n : events' = events \cup {[id |-> RecEventId, at |-> n, about |-> RecAbout]}
      BY <1>2, <2>4 DEF RecEvent, PutEvent
    <3>2. RecAbout.task = rec.task /\ RecAbout.kind = "ready" /\ RecAbout.status = "PENDING"
      BY <2>2 DEF RecAbout
    <3> DEFINE e == [id |-> RecEventId, at |-> n, about |-> RecAbout]
    <3>3. e.about.task = rec'.task /\ e.about.kind = "ready" /\ e.about.status = "PENDING"
      BY <2>2, <3>2
    <3> HIDE DEF e
    <3> QED
      BY <3>1, <3>3 DEF e
  <2>5. CASE ~Unrecorded(RecEventId)
    BY <1>2, <2>2, <2>3, <2>5 DEF RecEvent, Unrecorded, ExplainInv, ReadyTold
  <2> QED
    BY <2>4, <2>5
<1>3. CASE ~RecEvent
  <2>1. \/ rec'.job # "promote" \/ rec'.pc \notin {"index", "touch", "project"}
        \/ rec' = rec
        \/ rec'.job = rec.job /\ rec'.task = rec.task /\ rec.pc \in {"index", "touch"}
    <3>1. rec' = NoRec => rec'.job # "promote"
      BY DEF NoRec
    <3>2. Begin => rec' = rec
      BY BeginKeepsEvents
    <3>3. Write => rec' = rec \/ rec' = NoRec
      BY DEF Write, CreateTask, AppendKeyed, AppendUnkeyed, PutIndex, EditTask, TouchTask,
         PutAssignIndex, ProjectTask, Anchor, AnchorCheck, AnchorClear, Release, Goto
    <3>4. Demote \/ Promote => rec'.pc = "event"
      BY DEF Demote, Promote, NoRec
    <3>5. RecIndex \/ RecTouch => /\ rec'.job = rec.job /\ rec'.task = rec.task
                                  /\ rec.pc \in {"index", "touch"}
      BY <1>1 DEF RecIndex, RecTouch, Rec
    <3>6. Normalise \/ RecProject \/ Reconciled => rec' = rec \/ rec' = NoRec
      BY DEF Normalise, RecProject, Reconciled, Release, Goto
    <3>7. Seats \/ Interrupt \/ Restart \/ UNCHANGED vars => rec' = rec \/ rec' = NoRec
      BY DEF Seats, Deactivate, ActivateTask, Interrupt, Restart, Release, vars
    <3> QED
      BY <1>3, <3>1, <3>2, <3>3, <3>4, <3>5, <3>6, <3>7 DEF Next, Reconciliation
  <2> QED
    BY <2>1 DEF ExplainInv, RecTold, Told
<1> QED
  BY <1>2, <1>3

\* What a task document says happened is in the event stream: a document only
\* ever follows an event, and a retry finds the one it follows
\* (append_task_event and touch_task_projection, workflow.rs:619-744).
THEOREM EventsExplain == Spec => []ProjectionExplained
<1>1. Init => ExplainInv
  <2> SUFFICES ASSUME Init PROVE ExplainInv
    OBVIOUS
  <2>1. events = {} /\ op = NoOp /\ rec = NoRec /\ \A t \in Task : doc[t] = NoDoc
    BY DEF Init
  <2>2. \A t \in Task : UpdatesOf(t) = {}
    BY <2>1 DEF UpdatesOf
  <2> QED
    BY <2>1, <2>2, FS_EmptySet DEF ExplainInv, DocsExplained, Explained, OpTold, EditTold, RecTold,
       ReadyTold, NoOp, NoRec, NoDoc, Effective, Terminal
<1>2. IndInv /\ IndInv' /\ ExplainInv /\ [Next]_vars => ExplainInv'
  BY EventsGrow, DocsStep, OpStep, EditStep, RecStep, ReadyStep DEF ExplainInv
<1>3. ExplainInv => ProjectionExplained
  BY DEF ExplainInv, DocsExplained, Explained, Told, UpdatesOf, ProjectionExplained
<1> QED
  BY <1>1, <1>2, <1>3, Invariance, PTL DEF Spec
=============================================================================
