------------------------------ MODULE Delegation ------------------------------
(***************************************************************************)
(* Delegated work as the tools offer it (crates/slc-mcp/src/server.rs),    *)
(* over the task FIFO: an answer may recommend to wake a principal, roots  *)
(* of the manager's portfolio have an identity of their own, and what the  *)
(* manager is not woken for it polls from an index.                        *)
(*                                                                         *)
(* A call of the engine is one step, because it holds workflow_lock; its   *)
(* durable writes are in WorkflowQueue, except that of a new task, which   *)
(* comes before that of its key.  assign_task takes the lock twice, and    *)
(* every answer is looked at again before it goes out.                     *)
(*                                                                         *)
(* TakenOpen, WokenFirst and CountRoots are deliberate mistakes.           *)
(***************************************************************************)
EXTENDS Naturals, FiniteSetsExt

CONSTANTS
    DgTask, DgClient,
    DgPrincipal,       \* the manager and the principals it delegates to
    Manager,
    PrincipalOf,       \* whose call each client makes
    MayAssignTo,       \* <<p, q>>: p may assign to q; anyone to itself
    DgManages,         \* <<p, q>>: p is a manager of q's seat
    DgKey, Site,       \* idempotency keys; slug and stage of a root
    MaxAttempt,        \* attempts of a root (bound)
    PortfolioDepth,    \* MAX_ASSIGNEE_QUEUE_DEPTH, of the portfolio's listing
    DgHolds,           \* the hold lists an operator configures
    DgSettings,        \* who asks for what and how often, one of them in each behaviour
    NoDgTask, NoDgKey, NoSite

\* A task, as far as lanes and identities go.
DgAsk == [ assignee : DgPrincipal, project : BOOLEAN, parent : DgTask \cup {NoDgTask},
           site : Site \cup {NoSite}, attempt : 0..MaxAttempt ]
DgWork ==
    [ state : {"queued", "ready", "running", "done"},
      status : {"none", "COMPLETED", "BLOCKED", "CANCELLED"},
      issuer : DgPrincipal, assignee : DgPrincipal, project : BOOLEAN,
      parent : DgTask \cup {NoDgTask}, site : Site \cup {NoSite}, attempt : 0..MaxAttempt,
      order : Nat, generation : Nat, key : DgPrincipal \X (DgKey \cup {NoDgKey}),
      request : DgAsk, edited : BOOLEAN ]

ASSUME DelegationAssumption ==
    /\ Manager \in DgPrincipal /\ PrincipalOf \in [DgClient -> DgPrincipal]
    /\ MayAssignTo \cup DgManages \subseteq DgPrincipal \X DgPrincipal
    /\ DgHolds \subseteq SUBSET DgPrincipal
    /\ DgSettings \subseteq [ asks : [DgClient -> SUBSET DgPrincipal], kinds : SUBSET {"root", "child", "plain"},
                              keys : SUBSET (DgKey \cup {NoDgKey}), tasks : Nat, edits : Nat, faults : Nat ]
    /\ MaxAttempt \in Nat /\ PortfolioDepth \in Nat
    /\ NoDgTask \notin DgTask \cup DgWork
    /\ IsFiniteSet(DgTask) /\ \A x \in DgSettings : x.tasks <= Cardinality(DgTask)

\* The portfolio fits its listing.
ASSUME PortfolioFits == \A x \in DgSettings : x.tasks <= PortfolioDepth

VARIABLES
    dgSetting,
    work,        \* the task under each id
    keyed,       \* the assignment each key of an issuer made
    onHold,      \* principals whose seats are held
    current,     \* the operator generation
    call,        \* where each call is
    woken,       \* what the last step answered: tasks to start, principals to wake
    dgFaults

dgVars == <<dgSetting, work, keyed, onHold, current, call, woken, dgFaults>>

Resting == [at |-> "resting"]
Silent == [starts |-> {}, calls |-> {}]

\* The engine's lock is free, and a client begins.
Takes(c) == call[c] = Resting /\ \A x \in DgClient : call[x].at # "created"

Accepted == {t \in DgTask : work[t] # NoDgTask}
IsCurrent(x) == x.generation = current

\* The answer goes out past the fence at the end of call_tool: a task of another
\* generation starts nothing, and nobody is woken for it.
Answers(c, starts, calls) ==
    /\ call' = [call EXCEPT ![c] = Resting]
    /\ woken' = [starts |-> {t \in starts : work'[t].generation = current}, calls |-> calls]
Fenced(t, calls) == IF IsCurrent(work[t]) THEN calls ELSE {}

----------------------------------------------------------------------------
(* Lanes *)

LaneOf(W, p) == {t \in DgTask : W[t] # NoDgTask /\ W[t].assignee = p /\ W[t].state # "done"}
ReadyIn(W, p) == {t \in LaneOf(W, p) : W[t].state = "ready"}
HeadOf(W, p) == CHOOSE t \in LaneOf(W, p) : \A u \in LaneOf(W, p) : W[t].order <= W[u].order

\* reconcile_task_queue_locked, of a lane without duplicates.
Promoted(W, p) ==
    IF \/ p \in onHold \/ LaneOf(W, p) = {}
       \/ \E t \in LaneOf(W, p) : W[t].state # "queued"
       \/ ~IsCurrent(W[HeadOf(W, p)])
      THEN W ELSE [W EXCEPT ![HeadOf(W, p)].state = "ready"]

\* ready_task_id of a snapshot; ready_task does not ask for the generation.
ReadyId(W, p) == {t \in ReadyIn(W, p) : IsCurrent(W[t])}

----------------------------------------------------------------------------
(* The portfolio *)

IsRoot(t) ==
    /\ work[t] # NoDgTask /\ work[t].project /\ work[t].issuer = Manager
    /\ work[t].parent = NoDgTask /\ work[t].site # NoSite

\* The oldest tasks of the project are listed, as many as fit.
Listed == {t \in Accepted : /\ work[t].project
                            /\ Cardinality({u \in Accepted : work[u].project /\ work[u].order < work[t].order})
                                 < PortfolioDepth}

TakenOpen(site, attempt) ==
    \E t \in Listed : IsRoot(t) /\ work[t].site = site /\ work[t].attempt = attempt /\ work[t].state # "done"

\* An identity that some root has, whatever became of it.
Taken(site, attempt) ==
    \E t \in Listed : IsRoot(t) /\ work[t].site = site /\ work[t].attempt = attempt

CountRoots == {t \in Listed : IsRoot(t)}

\* What portfolio_index counts: every task, whoever issued it.
Counted == Listed

StatusOf(x) == IF x.state = "done" THEN x.status
               ELSE IF x.state = "running" THEN "IN_WORK" ELSE "PENDING"

PortfolioIndex ==
    [ counts |-> [s \in {"PENDING", "IN_WORK", "COMPLETED", "BLOCKED", "CANCELLED"} |->
                    Cardinality({t \in Counted : StatusOf(work[t]) = s})],
      roots |-> [s \in Site |->
                   LET R == {t \in Listed : IsRoot(t) /\ work[t].site = s}
                   IN  [ count |-> Cardinality(R), last |-> Max({0} \cup {work[t].attempt : t \in R}),
                         blocked |-> \E t \in R : StatusOf(work[t]) = "BLOCKED" ]] ]

\* A terminal report that the manager polls instead of being woken for it.
Polled(x) == x.issuer = Manager /\ x.project

----------------------------------------------------------------------------
(* assign_task, assign_portfolio_task *)

Accessible(p, t) == t \in Accepted /\ (p \in {work[t].issuer, work[t].assignee} \/ <<p, work[t].assignee>> \in DgManages)

\* What assign_portfolio_task asks for, and assign_task of the same project.
OfPortfolio(p, r) == p = Manager /\ r.project

\* A child has the identity of its parent in the portfolio; a root of the manager
\* there must name one.
KindOf(r) == IF r.parent # NoDgTask THEN "child" ELSE IF r.project THEN "root" ELSE "plain"

Requests(c) ==
    LET p == PrincipalOf[c] IN
    { r \in [assignee : dgSetting.asks[c], project : BOOLEAN, parent : Accepted \cup {NoDgTask},
             site : Site \cup {NoSite}, attempt : 0..MaxAttempt] :
        /\ KindOf(r) \in dgSetting.kinds /\ (r.site = NoSite) = (r.attempt = 0)
        /\ IF r.parent # NoDgTask
             THEN r.site = work[r.parent].site /\ r.attempt = work[r.parent].attempt
             ELSE (r.site # NoSite) = r.project
        /\ OfPortfolio(p, r) => r.site # NoSite }

Assignable(p, r) ==
    /\ r.assignee \notin onHold
    /\ p = r.assignee \/ <<p, r.assignee>> \in MayAssignTo

\* The task of this key: in the index, or in the lane of the assignee that a call
\* cut short has left it in.
Known(p, r, k) ==
    IF k = NoDgKey THEN {}
    ELSE IF <<p, k>> \in DOMAIN keyed THEN {keyed[<<p, k>>]}
    ELSE {t \in Accepted : work[t].key = <<p, k>> /\ work[t].assignee = r.assignee}

SameRequest(t, r) == \A field \in DOMAIN r : work[t].request[field] = r[field]

Replays(c, r, k) ==
    LET p == PrincipalOf[c]
    IN  /\ Takes(c) /\ Assignable(p, r)
        /\ \E t \in Known(p, r, k) :
             /\ SameRequest(t, r) /\ IsCurrent(work[t])
             /\ keyed' = [x \in DOMAIN keyed \cup {<<p, k>>} |-> IF x = <<p, k>> THEN t ELSE keyed[x]]
             /\ work' = IF work[t].state = "done" THEN work ELSE Promoted(work, r.assignee)
             /\ call' = [call EXCEPT ![c] = [at |-> "assigned", task |-> t, ready |-> work'[t].state = "ready"]]
        /\ UNCHANGED <<dgSetting, onHold, current, dgFaults>> /\ woken' = Silent

\* A new task is written; the identity of a root is looked for in the same hold of
\* the lock.
Creates(c, r, k) ==
    LET p == PrincipalOf[c]
    IN  /\ Takes(c) /\ Assignable(p, r) /\ Known(p, r, k) = {}
        /\ r.parent # NoDgTask => (Accessible(p, r.parent) /\ IsCurrent(work[r.parent]))
        /\ (OfPortfolio(p, r) /\ r.parent = NoDgTask) => ~Taken(r.site, r.attempt)
        /\ Cardinality(Accepted) < dgSetting.tasks
        /\ LET t == CHOOSE u \in DgTask : u \notin Accepted
           IN
             /\ work' = [Promoted(work, r.assignee) EXCEPT ![t] =
                           [ state |-> "queued", status |-> "none", issuer |-> p, assignee |-> r.assignee,
                             project |-> r.project, parent |-> r.parent, site |-> r.site,
                             attempt |-> r.attempt, order |-> Cardinality(Accepted), generation |-> current,
                             key |-> <<p, k>>, request |-> r, edited |-> FALSE ]]
             /\ call' = [call EXCEPT ![c] = [at |-> "created", task |-> t, key |-> k]]
        /\ UNCHANGED <<dgSetting, keyed, onHold, current, dgFaults>> /\ woken' = Silent

\* Then its key, and the lane is reconciled once more.
Indexes(c) ==
    /\ call[c].at = "created"
    /\ LET t == call[c].task
           p == PrincipalOf[c]
           k == call[c].key
       IN  /\ keyed' = IF k = NoDgKey THEN keyed
                       ELSE [x \in DOMAIN keyed \cup {<<p, k>>} |-> IF x = <<p, k>> THEN t ELSE keyed[x]]
           /\ work' = Promoted(work, work[t].assignee)
           /\ call' = [call EXCEPT ![c] = [at |-> "assigned", task |-> t, ready |-> work'[t].state = "ready"]]
    /\ UNCHANGED <<dgSetting, onHold, current, dgFaults>> /\ woken' = Silent

WokenFirst(t, W) == TRUE

\* The task that the second look at the lane has found ready.
StillReady(t, W) == t \in ReadyId(W, W[t].assignee)

Assigned(c) ==
    /\ call[c].at = "assigned" /\ \A x \in DgClient : call[x].at # "created"
    /\ LET t == call[c].task
       IN  /\ work' = Promoted(work, work[t].assignee)
           /\ Answers(c, IF call[c].ready /\ StillReady(t, work') THEN {t} ELSE {}, {})
    /\ UNCHANGED <<dgSetting, keyed, onHold, current, dgFaults>>

----------------------------------------------------------------------------
(* The other tools *)

\* start_task answers, with a letter to the issuer but nothing to wake for.
StartTask(c, t) ==
    LET p == PrincipalOf[c]
        W == Promoted(work, p)
    IN  /\ Takes(c) /\ p \notin onHold /\ t \in Accepted
        /\ work[t].assignee = p /\ IsCurrent(work[t]) /\ W[t].state = "ready"
        /\ work' = [W EXCEPT ![t].state = "running"]
        /\ Answers(c, {}, {})
        /\ UNCHANGED <<dgSetting, keyed, onHold, current, dgFaults>>

\* The issuer is woken for a terminal report, whose lane goes on; that of a task of
\* another generation is taken like any other.
Called(x) == IF Polled(x) \/ x.issuer \in onHold THEN {} ELSE {x.issuer}

ReportTask(c, t, status) ==
    LET p == PrincipalOf[c]
    IN  /\ Takes(c) /\ t \in Accepted /\ work[t].assignee = p
        /\ work[t].state = "running" \/ (work[t].state = "done" /\ work[t].status = status)
        /\ work' = Promoted([work EXCEPT ![t].state = "done", ![t].status = status], p)
        /\ Answers(c, {}, Fenced(t, Called(work[t])))
        /\ UNCHANGED <<dgSetting, keyed, onHold, current, dgFaults>>

\* A waiting task is withdrawn; if it was ready, the answer has the next head.  A
\* repetition of the call has none.
CancelTask(c, t) ==
    LET p == PrincipalOf[c]
    IN  /\ Takes(c) /\ t \in Accepted /\ p \in {work[t].issuer, work[t].assignee}
        /\ work[t].state \in {"queued", "ready"} \/ work[t].status = "CANCELLED"
        /\ LET W == [work EXCEPT ![t].state = "done", ![t].status = "CANCELLED"]
               q == work[t].assignee
           IN  /\ work' = Promoted(W, q)
               /\ Answers(c, IF work[t].state = "ready" /\ q \notin onHold THEN ReadyIn(work', q) ELSE {}, {})
        /\ UNCHANGED <<dgSetting, keyed, onHold, current, dgFaults>>

TaskMessage(c, t, to) ==
    LET p == PrincipalOf[c]
    IN  /\ Takes(c) /\ Accessible(p, t) /\ to \in {work[t].issuer, work[t].assignee}
        /\ Answers(c, {}, Fenced(t, {to} \ onHold))
        /\ UNCHANGED <<dgSetting, work, keyed, onHold, current, dgFaults>>

ReconcileTaskQueue(c, q) ==
    LET p == PrincipalOf[c]
    IN  /\ Takes(c) /\ q \notin onHold /\ (p = q \/ <<p, q>> \in MayAssignTo)
        /\ work' = Promoted(work, q)
        /\ Answers(c, ReadyIn(work', q), {})
        /\ UNCHANGED <<dgSetting, keyed, onHold, current, dgFaults>>

\* update_task by a manager of the assignee's seat: the project of a task and what
\* identifies it are fields like others.
EditWork(c, t) ==
    LET p == PrincipalOf[c]
    IN  /\ Takes(c) /\ t \in Accepted /\ p # work[t].assignee /\ <<p, work[t].assignee>> \in DgManages
        /\ Cardinality({u \in Accepted : work[u].edited}) < dgSetting.edits /\ ~work[t].edited
        /\ \/ work' = [work EXCEPT ![t].project = ~@, ![t].edited = TRUE]
           \/ \E n \in 1..MaxAttempt \ {work[t].attempt} :
                work' = [work EXCEPT ![t].attempt = n, ![t].edited = TRUE]
        /\ UNCHANGED <<dgSetting, keyed, onHold, current, call, dgFaults>> /\ woken' = Silent

\* A call is cut short.
CutCall(c) ==
    /\ call[c] # Resting /\ dgFaults < dgSetting.faults /\ dgFaults' = dgFaults + 1
    /\ call' = [call EXCEPT ![c] = Resting]
    /\ woken' = Silent /\ UNCHANGED <<dgSetting, work, keyed, onHold, current>>

\* The server restarts, held in another way or for another generation.
RestartServer ==
    /\ dgFaults < dgSetting.faults /\ dgFaults' = dgFaults + 1
    /\ call' = [c \in DgClient |-> Resting]
    /\ onHold' \in DgHolds /\ current' \in {current, current + 1}
    /\ woken' = Silent /\ UNCHANGED <<dgSetting, work, keyed>>

DgInit ==
    /\ dgSetting \in DgSettings
    /\ work = [t \in DgTask |-> NoDgTask] /\ keyed = [x \in {} |-> NoDgTask]
    /\ onHold = {} /\ current = 0 /\ call = [c \in DgClient |-> Resting]
    /\ woken = Silent /\ dgFaults = 0

DgNext ==
    \/ \E c \in DgClient, k \in dgSetting.keys : \E r \in Requests(c) :
         Replays(c, r, k) \/ Creates(c, r, k)
    \/ \E c \in DgClient : Indexes(c) \/ Assigned(c) \/ CutCall(c)
    \/ \E c \in DgClient, t \in DgTask :
         \/ StartTask(c, t) \/ CancelTask(c, t) \/ EditWork(c, t)
         \/ \E s \in {"COMPLETED", "BLOCKED"} : ReportTask(c, t, s)
         \/ \E p \in DgPrincipal : TaskMessage(c, t, p)
    \/ \E c \in DgClient, q \in DgPrincipal : ReconcileTaskQueue(c, q)
    \/ RestartServer

DgSpec == DgInit /\ [][DgNext]_dgVars

----------------------------------------------------------------------------
(* Properties *)

\* "Each historical root (slug, stage, attempt) is unique even after terminal
\* state" (server.rs:735): whatever calls are cut short and repeated, with
\* other keys and other assignees, two roots that no manager has edited differ.
IdentityOnce ==
    \A t, u \in DgTask :
        IsRoot(t) /\ IsRoot(u) /\ ~work[t].edited /\ ~work[u].edited
            => t = u \/ <<work[t].site, work[t].attempt>> # <<work[u].site, work[u].attempt>>

\* A task is recommended to start only while it is ready, and first in its lane: the
\* answer comes from a look at the lane that began after the task was made.
WakesHeads ==
    \A t \in woken.starts :
        /\ work[t].state = "ready" /\ t = HeadOf(work, work[t].assignee)
        /\ work[t].assignee \notin onHold

\* A terminal report of a task of the operator's generation, for which the issuer is not
\* woken, though released, shows in the index that it polls (server.rs:2510,
\* "polled_manager_portfolio"); one of an older generation wakes nobody and, if it is not
\* of the portfolio, shows nowhere else (server.rs:3672).
PolledSeen ==
    [][\A t \in DgTask :
         /\ t \in Accepted /\ work[t].state = "running" /\ work'[t].state = "done"
         /\ IsCurrent(work[t]) /\ work[t].issuer \notin onHold \cup woken'.calls
         => PortfolioIndex' # PortfolioIndex]_dgVars
=============================================================================
