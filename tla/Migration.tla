------------------------------- MODULE Migration -------------------------------
(***************************************************************************)
(* Import of what the Python server kept (crates/slc-core/src/migrate.rs). *)
(* From MongoDB: new ids are planned for projects, then tasks, then        *)
(* documents in the order of their creation, then the documents are        *)
(* written with their links rewritten, then projects and tasks, then the   *)
(* seats with their anchors.  From a vault: file by file, under an id made *)
(* of its name.  A write may fail, a run may be cut short and made again;  *)
(* what it finds in the target then it updates as the target's store does. *)
(*                                                                         *)
(* An id is a sequence: a name and the numbers `unique` has appended.      *)
(*                                                                         *)
(* LinksEarly is a deliberate mistake.                                     *)
(***************************************************************************)
EXTENDS Naturals, Sequences

CONSTANTS
    LegacyData,    \* what there is to import, one of it in each behaviour
    AiSlugs,       \* names a model may propose
    MaxMgFaults    \* failed writes and runs cut short (bound)

\* What the legacy database has, in the order of planning.
LegacyDoc == [kind : {"project", "task", "doc", "history", "deleted"},
              id : Seq(STRING), name : Seq(STRING), links : SUBSET Seq(STRING)]

ASSUME MigrationAssumption ==
    /\ AiSlugs \subseteq Seq(STRING) /\ MaxMgFaults \in Nat
    /\ \A d \in LegacyData :
          /\ d.from \in {"mongo", "vault"} /\ d.to \in {"sqlite", "mongo", "vault"}
          /\ d.ai \in BOOLEAN
          /\ d.docs \in Seq(LegacyDoc)
          /\ d.seats \in Seq([task : Seq(STRING), document : Seq(STRING)])

\* What a seat has as its task is the id of a task or a project, if of anything.
ASSUME SeatsAtTasks == \A d \in LegacyData : \A s \in 1..Len(d.seats), k \in 1..Len(d.docs) :
    d.docs[k].id = d.seats[s].task /\ d.docs[k].kind = "doc" =>
        \E j \in 1..Len(d.docs) : d.docs[j].id = d.docs[k].id /\ d.docs[j].kind \in {"project", "task"}

VARIABLES
    legacy,    \* chosen at the start and left alone
    mgAt,      \* the phase of the run, and how far it is
    idMap,     \* legacy id to new id
    plan,      \* new ids given out in this run, with their legacy documents
    target,    \* documents in the target, by new id
    before,    \* ids in the target that earlier runs have left
    anchored,  \* anchors of the seats in the target
    errors, mgFaults

mgVars == <<legacy, mgAt, idMap, plan, target, before, anchored, errors, mgFaults>>

LegacyDocs == legacy.docs
Enters(phase, k) == mgAt' = [phase |-> phase, k |-> k]
In(phase, list) == mgAt.phase = phase /\ mgAt.k <= Len(list)
NoMap == [x \in {} |-> x]

----------------------------------------------------------------------------
(* New ids *)

Used == {p.new : p \in plan}

\* unique: _2, _3, ... until it is free.
Unique(base) ==
    IF base \notin Used THEN base
    ELSE LET free == {n \in 2..Len(LegacyDocs) + 1 : Append(base, n) \notin Used} IN
         Append(base, CHOOSE n \in free : \A m \in free : n <= m)

\* task_new_id and new_kb_id: the model's proposal, the id as it is, or one
\* made of the text.  A project keeps its id, the diary's are made anew.
KeptOr(d) == {IF d.id = <<>> THEN d.name ELSE d.id}
TaskBases(d) == KeptOr(d) \cup (IF legacy.ai /\ d.kind = "task" THEN AiSlugs ELSE {})
KbBases(d) == IF d.kind = "history" THEN {<<"history">> \o d.id}
              ELSE KeptOr(d) \cup (IF legacy.ai THEN AiSlugs ELSE {})

Mapped(f, x, y) == [z \in DOMAIN f \cup {x} |-> IF z = x THEN y ELSE f[z]]

\* fix_links: an id that is not in the map is kept.
FixLinks(links, map) == {IF l \in DOMAIN map THEN map[l] ELSE l : l \in links}

Plans(d, new) == plan' = plan \cup {[new |-> new, of |-> mgAt.k, early |-> FixLinks(d.links, idMap)]}

\* A project or a task is given its id.
PlanJob ==
    /\ In("plan", LegacyDocs) /\ legacy.from = "mongo"
    /\ LET old == LegacyDocs[mgAt.k] IN
       /\ old.kind \in {"project", "task"}
       /\ \E base \in TaskBases(old) :
             Plans(old, Unique(base)) /\ idMap' = Mapped(idMap, old.id, Unique(base))
    /\ Enters("plan", mgAt.k + 1)
    /\ UNCHANGED <<legacy, target, before, anchored, errors, mgFaults>>

\* A document of the knowledge base: one that keeps its id is not put into the
\* map, a deleted one is skipped.
PlanDoc ==
    /\ In("plan", LegacyDocs) /\ legacy.from = "mongo"
    /\ LET old == LegacyDocs[mgAt.k] IN
       \/ old.kind = "deleted" /\ UNCHANGED <<idMap, plan>>
       \/ /\ old.kind \in {"doc", "history"}
          /\ \E base \in KbBases(old) : LET new == Unique(base) IN
                /\ Plans(old, new)
                /\ idMap' = IF old.kind = "doc" /\ new = old.id THEN idMap ELSE Mapped(idMap, old.id, new)
    /\ Enters("plan", mgAt.k + 1)
    /\ UNCHANGED <<legacy, target, before, anchored, errors, mgFaults>>

----------------------------------------------------------------------------
(* Writing *)

LinksEarly(p) == p.early

\* Links are rewritten when all ids are planned.
Links(p) == FixLinks(LegacyDocs[p.of].links, idMap)

\* kb_upsert and episodic_upsert.  Over a document that is there the vault writes all of
\* it, and MongoDB an entry of history; otherwise only the content is written, the links
\* stay those of an earlier run.
Overwrites(p) == legacy.to = "vault" \/ (legacy.to = "mongo" /\ LegacyDocs[p.of].kind = "history")
Lands(p, links) ==
    LET kept == p.new \in DOMAIN target /\ ~Overwrites(p) IN
    target' = Mapped(target, p.new, [legacy |-> LegacyDocs[p.of].id,
                                     links |-> IF kept THEN target[p.new].links ELSE links])

\* A failed write is reported and the run goes on.
MgWrites(p, links) ==
    \/ Lands(p, links) /\ UNCHANGED <<errors, mgFaults>>
    \/ /\ mgFaults < MaxMgFaults /\ mgFaults' = mgFaults + 1
       /\ errors' = errors \cup {p.of} /\ UNCHANGED target

\* The documents of the knowledge base first, projects and tasks after them.
KbFirst == {p \in plan : LegacyDocs[p.of].kind \in {"doc", "history"}}
WriteOne(phase, ps, next) ==
    /\ mgAt.phase = phase /\ UNCHANGED <<legacy, idMap, plan, before, anchored>>
    /\ LET left == {p \in ps : p.of >= mgAt.k} IN
       IF left = {} THEN Enters(next, 1) /\ UNCHANGED <<target, errors, mgFaults>>
       ELSE LET p == CHOOSE q \in left : \A r \in left : q.of <= r.of IN
            MgWrites(p, Links(p)) /\ Enters(phase, p.of + 1)

Planned ==
    /\ mgAt.phase = "plan" /\ mgAt.k > Len(LegacyDocs) /\ legacy.from = "mongo"
    /\ Enters("write", 1)
    /\ UNCHANGED <<legacy, idMap, plan, target, before, anchored, errors, mgFaults>>
WriteDocs == WriteOne("write", KbFirst, "jobs")
WriteJobs == WriteOne("jobs", plan \ KbFirst, "seats")

\* restore_seat_anchor: a task is the document too, unless the seat has one.
Restored(s) ==
    LET task == IF s.task \in DOMAIN idMap THEN idMap[s.task] ELSE <<>>
        own == IF s.document \in DOMAIN idMap THEN idMap[s.document] ELSE <<>>
    IN [task |-> task, document |-> IF s.document = <<>> THEN task ELSE own]
MigrateSeat ==
    /\ In("seats", legacy.seats)
    /\ \/ anchored' = Mapped(anchored, mgAt.k, Restored(legacy.seats[mgAt.k])) /\ UNCHANGED <<errors, mgFaults>>
       \/ /\ mgFaults < MaxMgFaults /\ mgFaults' = mgFaults + 1
          /\ errors' = errors \cup {0} /\ UNCHANGED anchored
    /\ Enters("seats", mgAt.k + 1)
    /\ UNCHANGED <<legacy, idMap, plan, target, before>>

\* migrate_legacy_vault: a file is written under its name at once, its links
\* are not taken over.
VaultFile ==
    /\ In("plan", LegacyDocs) /\ legacy.from = "vault"
    /\ LET p == [new |-> LegacyDocs[mgAt.k].name, of |-> mgAt.k, early |-> {}] IN
       plan' = plan \cup {p} /\ MgWrites(p, {})
    /\ Enters("plan", mgAt.k + 1)
    /\ UNCHANGED <<legacy, idMap, before, anchored>>

----------------------------------------------------------------------------

MgStart == [phase |-> "plan", k |-> 1]
MgInit ==
    /\ legacy \in LegacyData
    /\ mgAt = MgStart /\ idMap = NoMap /\ plan = {}
    /\ target = NoMap /\ before = {} /\ anchored = NoMap
    /\ errors = {} /\ mgFaults = 0

\* The run is cut short, or one with errors has ended, and it is made again.
Again ==
    /\ mgAt # MgStart /\ mgFaults < MaxMgFaults /\ mgFaults' = mgFaults + 1
    /\ mgAt' = MgStart /\ idMap' = NoMap /\ plan' = {} /\ errors' = {}
    /\ before' = DOMAIN target
    /\ UNCHANGED <<legacy, target, anchored>>

MgNext == PlanJob \/ PlanDoc \/ Planned \/ WriteDocs \/ WriteJobs \/ MigrateSeat \/ VaultFile \/ Again

MgSpec == MgInit /\ [][MgNext]_mgVars

----------------------------------------------------------------------------
(* Properties *)

MgDone == mgAt.phase = "seats" /\ mgAt.k > Len(legacy.seats) /\ errors = {}
MgLive == {k \in 1..Len(LegacyDocs) : LegacyDocs[k].kind # "deleted"}
Imported(id) == id \in {LegacyDocs[k].id : k \in MgLive}

LeadsTo(new, old) == new \in DOMAIN target /\ target[new].legacy = old

\* The links of p are this run's: no model proposes other ids than an earlier run gave,
\* or nothing of an earlier run was found under the id, or what was is written over.
LinksAnew(p) == ~legacy.ai \/ p.new \notin before \/ Overwrites(p)

\* After a run without errors, however many were cut short before it: every
\* document is there under an id of its own, a link leads to the document that
\* it led to, and so does the task a seat is at ("links rewritten only after
\* the FULL id map is known").  SQLite and MongoDB leave the links of documents
\* they find: these still lead back because without a model every run gives
\* the same ids ("stable ids across runs"), and need not with one.
LinksLeadBack == MgDone /\ legacy.from = "mongo" =>
    /\ \A k \in MgLive : \E p \in plan : p.of = k /\ LeadsTo(p.new, LegacyDocs[k].id)
    /\ \A p, q \in plan : p.new = q.new => p.of = q.of
    /\ \A p \in plan : LinksAnew(p) =>
          \A l \in LegacyDocs[p.of].links : Imported(l) => \E m \in target[p.new].links : LeadsTo(m, l)
    /\ \A k \in DOMAIN anchored : LET old == legacy.seats[k].task IN
          Imported(old) => LeadsTo(anchored[k].task, old)

\* A seat's active document is restored as its task is (restore_seat_anchor:
\* "Restore both legacy active pointers through the migration id map").
AnchorRestored == MgDone => \A k \in DOMAIN anchored :
    LET old == legacy.seats[k].document IN Imported(old) => LeadsTo(anchored[k].document, old)
=============================================================================
