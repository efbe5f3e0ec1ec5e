----------------------------- MODULE Documents -----------------------------
(***************************************************************************)
(* Documents, tasks, projects and the anchors of seats, as the tools and   *)
(* the web API change them (crates/slc-core/src/lib.rs, tasks.rs, seat.rs; *)
(* crates/slc-mcp/src/server.rs, webui/api.rs).                            *)
(*                                                                         *)
(* A request reads documents from the store, decides, and writes whole     *)
(* copies back, each call to the store a step of its own: the store keeps  *)
(* no lock between them.  A document is abstracted to what it is, whose it *)
(* is, the ids it refers to and the edits in it; `who` is the document     *)
(* itself, whatever id it has.                                             *)
(*                                                                         *)
(* The store is SQLite, whose kb_insert replaces, or a vault, whose        *)
(* kb_insert looks for the id and then writes.  The engine reaches it      *)
(* through Arc<dyn StorageBackend>, which does not pass kb_rename on: what *)
(* runs is the trait's own get, get, insert and purge (storage/mod.rs:142).*)
(*                                                                         *)
(* CitingVisible, CitingAll and Upserts are deliberate mistakes that show  *)
(* what the properties notice.                                             *)
(***************************************************************************)
EXTENDS Naturals, Sequences, FiniteSets

CONSTANTS
    Id,         \* document ids
    Seat,
    Client,     \* requests in flight
    Name,       \* names of tasks and projects
    Slugs,      \* speaking ids of a name in the order they are tried
    Operators,  \* seats with the operator role (SLC_SEAT_ROLES)
    Manages,    \* the seats each seat may manage (SLC_SEAT_MANAGE_ACL)
    Settings    \* who does what, one of them in each behaviour

Public == "public"      \* no owner
NoId == "no id"
NoDoc == [kind |-> "no document"]
NoSeat == [task |-> "no seat"]
Blank == [task |-> NoId, document |-> NoId]

Kind == {"note", "task", "project", "flow"}   \* flow: a task of the workflow queue

Doc == [ kind  : Kind,
         owner : Seat \cup {Public},
         dead  : BOOLEAN,             \* soft-deleted
         links : SUBSET Id,           \* auto_load, references, project and [[links]]
         edits : SUBSET Nat,
         who   : Id \cup Nat ]        \* the id at the start or the number of the request

Request == {"create", "add", "update", "delete", "rename", "activate", "queue"}

Setting ==
    [ store   : {"sqlite", "vault"},
      docs    : [Id -> Doc \cup {NoDoc}],                      \* at the start
      anchors : [Seat -> [task : Id \cup {NoId}, document : Id \cup {NoId}] \cup {NoSeat}],
      seat    : [Client -> Seat],              \* the seat of a client
      does    : [Client -> SUBSET Request],    \* its requests
      about   : [Client -> SUBSET Id],         \* the documents they name
      rename  : SUBSET (Id \X Id),             \* renames asked for
      ops     : Nat,                           \* requests (bound)
      faults  : Nat ]                          \* requests cut short (bound)

ASSUME DocumentsAssumption ==
    /\ Operators \subseteq Seat /\ Manages \in [Seat -> SUBSET Seat]
    /\ Slugs \in [Name -> Seq(Id) \ {<< >>}]
    /\ Public \notin Seat /\ NoId \notin Id /\ Id \cap Nat = {}
    /\ Settings \subseteq Setting
    /\ \A g \in Settings : \A i \in Id : g.docs[i] # NoDoc => g.docs[i].who = i

VARIABLES
    setting,  \* chosen at the start and left alone
    doc,      \* the document under each id
    anchor,   \* active_task_id and active_document_id of each seat
    job,      \* where each request is
    ops, faults,
    created,  \* creations that were answered: the request and the last one begun by then
    edited,   \* edits that were answered
    halfway   \* renames that began and did not end

vars == <<setting, doc, anchor, job, ops, faults, created, edited, halfway>>

Idle == [at |-> "idle"]
Live(i) == doc[i] # NoDoc /\ ~doc[i].dead
IsTask(i) == Live(i) /\ doc[i].kind \in {"task", "flow"}
IsProject(i) == Live(i) /\ doc[i].kind = "project"

----------------------------------------------------------------------------
(* Who may do what *)

\* A seat manages itself; an operator the seats its access list names.
CanManageTarget(s, t) == s = t \/ (s \in Operators /\ t \in Manages[s])

CanManageSeats(s) == s \in Operators /\ Manages[s] # {}

Visible(s, d) == d.owner \in {Public, s}

CanRead(s, d) == Visible(s, d) \/ (d.owner # Public /\ CanManageTarget(s, d.owner))

CanWrite(s, d) == IF d.owner = Public THEN CanManageSeats(s) ELSE CanManageTarget(s, d.owner)

\* task_update, task_delete: the owner, anybody for a public task, a manager.
ManagesOwner(s, d) == d.owner \notin {Public, s} /\ CanManageTarget(s, d.owner)
MayTask(s, d) == Visible(s, d) \/ ManagesOwner(s, d)

\* What update_document and delete_document ask, by the tool and by the web API.
Updates(s, d) == CanWrite(s, d) /\ d.kind # "flow"
UpdatesWeb(s, d) == CanRead(s, d) /\ CanWrite(s, d) /\ d.kind # "flow"
Deletes(s, d) == CanWrite(s, d) /\ d.kind # "flow"
DeletesWeb(s, d) == CanRead(s, d) /\ d.kind # "flow" /\ CanWrite(s, d)

----------------------------------------------------------------------------
(* Requests *)

Begin(c, request) ==
    /\ request \in setting.does[c] /\ job[c] = Idle
    /\ ops < setting.ops /\ ops' = ops + 1

Goes(c, step) == job' = [job EXCEPT ![c] = step]

\* The speaking id of the name is looked for.
CreateItem(c, n, kind) ==
    /\ Begin(c, "create")
    /\ Goes(c, [at |-> "probe", name |-> n, k |-> 1, kind |-> kind, number |-> ops'])
    /\ UNCHANGED <<setting, doc, anchor, faults, created, edited, halfway>>

CreateTask(c, n) == CreateItem(c, n, "task")
CreateProject(c, n) == CreateItem(c, n, "project")

NewDoc(c, kind, n) == [ kind |-> kind, owner |-> setting.seat[c], dead |-> FALSE,
                        links |-> {}, edits |-> {}, who |-> n ]

\* speaking_id: the next candidate when a live document has this one.
Probe(c) ==
    /\ job[c].at = "probe"
    /\ LET j == job[c]
           i == Slugs[j.name][j.k]
       IN  IF Live(i)
             THEN j.k < Len(Slugs[j.name]) /\ Goes(c, [j EXCEPT !.k = @ + 1])
             ELSE Goes(c, [at |-> "insert", id |-> i, new |-> NewDoc(c, j.kind, j.number)])
    /\ UNCHANGED <<setting, doc, anchor, ops, faults, created, edited, halfway>>

\* add_document: the caller names the id.
AddDocument(c, i) ==
    /\ Begin(c, "add") /\ i \in setting.about[c]
    /\ Goes(c, [at |-> "insert", id |-> i, new |-> NewDoc(c, "note", ops')])
    /\ UNCHANGED <<setting, doc, anchor, faults, created, edited, halfway>>

Upserts(i) == i \in Id

\* kb_insert: a vault refuses an id in its index, soft-deleted documents included;
\* SQLite replaces whatever has the id.
Insertable(i) == setting.store = "vault" => doc[i] = NoDoc

Insert(c) ==
    /\ job[c].at = "insert"
    /\ Goes(c, IF Insertable(job[c].id) THEN [job[c] EXCEPT !.at = "put"] ELSE Idle)
    /\ UNCHANGED <<setting, doc, anchor, ops, faults, created, edited, halfway>>

\* Edits of a document that is purged or replaced by another are no longer expected.
Without(i) == {e \in edited : doc[i] = NoDoc \/ e.who # doc[i].who}

\* The lock of the index was given back after the look: what came since is replaced.
Put(c) ==
    /\ job[c].at = "put"
    /\ LET j == job[c]
       IN  /\ doc' = [doc EXCEPT ![j.id] = j.new]
           /\ created' = created \cup {[id |-> j.id, who |-> j.new.who, by |-> ops]}
           /\ edited' = Without(j.id)
    /\ Goes(c, Idle)
    /\ UNCHANGED <<setting, anchor, ops, faults, halfway>>

\* The document that was read is changed in the request's copy.
Copies(c, i, d, n) ==
    Goes(c, [at |-> "write", id |-> i, number |-> n, copy |-> [d EXCEPT !.edits = @ \cup {n}]])

\* The owner an update may set: its own, none, or a seat the caller manages.
Owners(c, i) ==
    {doc[i].owner, Public} \cup {o \in Seat : CanManageTarget(setting.seat[c], o)}

UpdateDocument(c, i) ==
    /\ Begin(c, "update") /\ i \in setting.about[c]
    /\ Live(i) /\ Updates(setting.seat[c], doc[i])
    /\ \E o \in Owners(c, i) : Copies(c, i, [doc[i] EXCEPT !.owner = o], ops')
    /\ UNCHANGED <<setting, doc, anchor, faults, created, edited, halfway>>

UpdateDocumentWeb(c, i) ==
    /\ Begin(c, "update") /\ i \in setting.about[c]
    /\ Live(i) /\ UpdatesWeb(setting.seat[c], doc[i])
    /\ \E o \in Owners(c, i) : Copies(c, i, [doc[i] EXCEPT !.owner = o], ops')
    /\ UNCHANGED <<setting, doc, anchor, faults, created, edited, halfway>>

\* task_update of a plain task: it is read again as its owner.
UpdateTask(c, i) ==
    /\ Begin(c, "update") /\ i \in setting.about[c]
    /\ IsTask(i) /\ doc[i].kind = "task" /\ MayTask(setting.seat[c], doc[i])
    /\ LET owner == IF doc[i].owner = Public THEN setting.seat[c] ELSE doc[i].owner
       IN  Goes(c, [at |-> "reread", id |-> i, as |-> owner, number |-> ops'])
    /\ UNCHANGED <<setting, doc, anchor, faults, created, edited, halfway>>

Reread(c) ==
    /\ job[c].at = "reread"
    /\ LET j == job[c]
       IN  IF IsTask(j.id) /\ doc[j.id].kind = "task" /\ Visible(j.as, doc[j.id])
             THEN Copies(c, j.id, doc[j.id], j.number)
             ELSE Goes(c, Idle)
    /\ UNCHANGED <<setting, doc, anchor, ops, faults, created, edited, halfway>>

UpdateProject(c, i) ==
    /\ Begin(c, "update") /\ i \in setting.about[c]
    /\ IsProject(i) /\ Visible(setting.seat[c], doc[i])
    /\ Copies(c, i, doc[i], ops')
    /\ UNCHANGED <<setting, doc, anchor, faults, created, edited, halfway>>

\* project_set_status_for: as a seat the caller manages.
SetProjectStatus(c, i, t) ==
    /\ Begin(c, "update") /\ i \in setting.about[c]
    /\ CanManageTarget(setting.seat[c], t)
    /\ IsProject(i) /\ Visible(t, doc[i])
    /\ Copies(c, i, doc[i], ops')
    /\ UNCHANGED <<setting, doc, anchor, faults, created, edited, halfway>>

\* The queue reads a task's projection and writes the next one.
QueueReads(c, i) ==
    /\ Begin(c, "queue") /\ i \in setting.about[c]
    /\ Live(i) /\ doc[i].kind = "flow"
    /\ Copies(c, i, doc[i], ops')
    /\ UNCHANGED <<setting, doc, anchor, faults, created, edited, halfway>>

\* kb_replace writes the whole copy, whatever is there by now.
WriteBack(c) ==
    /\ job[c].at = "write"
    /\ doc' = [doc EXCEPT ![job[c].id] = job[c].copy]
    /\ edited' = edited \cup {[who |-> job[c].copy.who, number |-> job[c].number]}
    /\ Goes(c, Idle)
    /\ UNCHANGED <<setting, anchor, ops, faults, created, halfway>>

\* delete_document asks only about a live document.
DeleteDocument(c, i, purge) ==
    /\ Begin(c, "delete") /\ i \in setting.about[c]
    /\ Live(i) => Deletes(setting.seat[c], doc[i])
    /\ Goes(c, [at |-> "remove", id |-> i, purge |-> purge])
    /\ UNCHANGED <<setting, doc, anchor, faults, created, edited, halfway>>

DeleteDocumentWeb(c, i, purge) ==
    /\ Begin(c, "delete") /\ i \in setting.about[c]
    /\ Live(i) => DeletesWeb(setting.seat[c], doc[i])
    /\ Goes(c, [at |-> "remove", id |-> i, purge |-> purge])
    /\ UNCHANGED <<setting, doc, anchor, faults, created, edited, halfway>>

DeleteTask(c, i) ==
    /\ Begin(c, "delete") /\ i \in setting.about[c]
    /\ IsTask(i) /\ doc[i].kind = "task" /\ MayTask(setting.seat[c], doc[i])
    /\ Goes(c, [at |-> "remove", id |-> i, purge |-> TRUE])
    /\ UNCHANGED <<setting, doc, anchor, faults, created, edited, halfway>>

DeleteProject(c, i) ==
    /\ Begin(c, "delete") /\ i \in setting.about[c]
    /\ IsProject(i) /\ Visible(setting.seat[c], doc[i])
    /\ Goes(c, [at |-> "remove", id |-> i, purge |-> TRUE])
    /\ UNCHANGED <<setting, doc, anchor, faults, created, edited, halfway>>

\* kb_purge or kb_soft_delete of whatever has the id by now.
Remove(c) ==
    /\ job[c].at = "remove"
    /\ LET i == job[c].id
       IN  IF job[c].purge /\ doc[i] # NoDoc
             THEN doc' = [doc EXCEPT ![i] = NoDoc] /\ edited' = Without(i)
             ELSE /\ doc' = IF Live(i) THEN [doc EXCEPT ![i].dead = TRUE] ELSE doc
                  /\ UNCHANGED edited
    /\ Goes(c, Idle)
    /\ UNCHANGED <<setting, anchor, ops, faults, created, halfway>>

----------------------------------------------------------------------------
(* Renames: references are rewritten, the document is written under the    *)
(* new id and purged under the old one, then its name and the anchors of   *)
(* seats follow                                                            *)

\* rename_document; rename_task and rename_project give a new name too.
Rename(c, old, new, named) ==
    /\ Begin(c, "rename") /\ <<old, new>> \in setting.rename /\ new # old
    /\ Live(old) /\ Visible(setting.seat[c], doc[old]) /\ doc[old].kind # "flow"
    /\ ~Live(new)
    /\ halfway' = halfway \cup {<<old, new>>}
    /\ Goes(c, [at |-> "scan", old |-> old, new |-> new, named |-> named])
    /\ UNCHANGED <<setting, doc, anchor, faults, created, edited>>

CitingVisible(c, old) ==
    {i \in Id : Live(i) /\ old \in doc[i].links /\ Visible(setting.seat[c], doc[i])}
CitingAll(c, old) == {i \in Id : Live(i)}

\* The documents that refer to the old id, whoever owns them.
Citing(c, old) == {i \in Id : Live(i) /\ old \in doc[i].links}

Scan(c) ==
    /\ job[c].at = "scan"
    /\ LET j == job[c]
           fixed(i) == [doc[i] EXCEPT !.links = {IF l = j.old THEN j.new ELSE l : l \in @}]
       IN  Goes(c, [at |-> "cascade", old |-> j.old, new |-> j.new, named |-> j.named,
                    copies |-> [i \in Citing(c, j.old) |-> fixed(i)]])
    /\ UNCHANGED <<setting, doc, anchor, ops, faults, created, edited, halfway>>

\* kb_replace_many writes one whole copy after the other.
Cascade(c, i) ==
    /\ job[c].at = "cascade" /\ i \in DOMAIN job[c].copies
    /\ doc' = [doc EXCEPT ![i] = job[c].copies[i]]
    /\ Goes(c, [job[c] EXCEPT !.copies = [k \in DOMAIN @ \ {i} |-> @[k]]])
    /\ UNCHANGED <<setting, anchor, ops, faults, created, edited, halfway>>

\* kb_rename begins with a copy of the live document.
Take(c) ==
    /\ job[c].at = "cascade" /\ DOMAIN job[c].copies = {}
    /\ LET j == job[c]
       IN  Goes(c, IF Live(j.old)
                     THEN [at |-> "look", old |-> j.old, new |-> j.new, named |-> j.named,
                           copy |-> doc[j.old]]
                   ELSE Idle)
    /\ UNCHANGED <<setting, doc, anchor, ops, faults, created, edited, halfway>>

\* Its kb_get of the new id, and the look of kb_insert.
Look(c) ==
    /\ job[c].at = "look"
    /\ Goes(c, IF ~Live(job[c].new) /\ Insertable(job[c].new) THEN [job[c] EXCEPT !.at = "give"]
               ELSE Idle)
    /\ UNCHANGED <<setting, doc, anchor, ops, faults, created, edited, halfway>>

\* The copy is inserted: the document has two ids until the old one is purged.
Give(c) ==
    /\ job[c].at = "give"
    /\ doc' = [doc EXCEPT ![job[c].new] = job[c].copy]
    /\ edited' = Without(job[c].new)
    /\ Goes(c, [at |-> "purge", old |-> job[c].old, new |-> job[c].new, named |-> job[c].named])
    /\ UNCHANGED <<setting, anchor, ops, faults, created, halfway>>

PurgeOld(c) ==
    /\ job[c].at = "purge"
    /\ LET j == job[c]
       IN  /\ doc' = [doc EXCEPT ![j.old] = NoDoc]
           /\ Goes(c, [at |-> IF j.named THEN "name" ELSE "seats", old |-> j.old, new |-> j.new])
    /\ UNCHANGED <<setting, anchor, ops, faults, created, edited, halfway>>

\* The name of a task or project is a second read and write.
ReadNamed(c) ==
    /\ job[c].at = "name"
    /\ LET j == job[c]
       IN  IF IsTask(j.new) \/ IsProject(j.new)
             THEN Goes(c, [at |-> "named", old |-> j.old, new |-> j.new, copy |-> doc[j.new]])
             ELSE Goes(c, [j EXCEPT !.at = "seats"])
    /\ UNCHANGED <<setting, doc, anchor, ops, faults, created, edited, halfway>>

WriteNamed(c) ==
    /\ job[c].at = "named"
    /\ doc' = [doc EXCEPT ![job[c].new] = job[c].copy]
    /\ Goes(c, [at |-> "seats", old |-> job[c].old, new |-> job[c].new])
    /\ UNCHANGED <<setting, anchor, ops, faults, created, edited, halfway>>

\* list_active: copies of the seats that point to the old id.
ListSeats(c) ==
    /\ job[c].at = "seats"
    /\ LET j == job[c]
           to(i) == IF i = j.old THEN j.new ELSE i
           pointing == {s \in Seat : anchor[s] # NoSeat
                                     /\ j.old \in {anchor[s].task, anchor[s].document}}
       IN  Goes(c, [at |-> "anchors", old |-> j.old, new |-> j.new,
                    seats |-> [s \in pointing |-> [task |-> to(anchor[s].task),
                                                   document |-> to(anchor[s].document)]]])
    /\ UNCHANGED <<setting, doc, anchor, ops, faults, created, edited, halfway>>

PutSeat(c, s) ==
    /\ job[c].at = "anchors" /\ s \in DOMAIN job[c].seats
    /\ anchor' = [anchor EXCEPT ![s] = job[c].seats[s]]
    /\ Goes(c, [job[c] EXCEPT !.seats = [k \in DOMAIN @ \ {s} |-> @[k]]])
    /\ UNCHANGED <<setting, doc, ops, faults, created, edited, halfway>>

Renamed(c) ==
    /\ job[c].at = "anchors" /\ DOMAIN job[c].seats = {}
    /\ halfway' = halfway \ {<<job[c].old, job[c].new>>}
    /\ Goes(c, Idle)
    /\ UNCHANGED <<setting, doc, anchor, ops, faults, created, edited>>

----------------------------------------------------------------------------
(* Anchors *)

\* ensure_seat: the seat record is made when it is missing.
Ensured(t) == IF anchor[t] = NoSeat THEN Blank ELSE anchor[t]

ActivateDocument(c, i, t) ==
    /\ Begin(c, "activate") /\ i \in setting.about[c]
    /\ CanManageTarget(setting.seat[c], t) /\ Live(i)
    /\ anchor' = [anchor EXCEPT ![t] = Ensured(t)]
    /\ Goes(c, [at |-> "point", id |-> i, seat |-> t, kind |-> doc[i].kind])
    /\ UNCHANGED <<setting, doc, faults, created, edited, halfway>>

\* set_seat_active_document, and set_seat_active_task for a task.
Point(c) ==
    /\ job[c].at = "point"
    /\ LET j == job[c]
       IN  /\ anchor' = [anchor EXCEPT ![j.seat].document = j.id]
           /\ Goes(c, IF j.kind \in {"task", "flow"} THEN [at |-> "task", id |-> j.id, seat |-> j.seat]
                      ELSE Idle)
    /\ UNCHANGED <<setting, doc, ops, faults, created, edited, halfway>>

\* task_activate_for: a task the target seat sees.
ActivateTask(c, i, t) ==
    /\ Begin(c, "activate") /\ i \in setting.about[c]
    /\ CanManageTarget(setting.seat[c], t) /\ IsTask(i) /\ Visible(t, doc[i])
    /\ Goes(c, [at |-> "task", id |-> i, seat |-> t])
    /\ UNCHANGED <<setting, doc, anchor, faults, created, edited, halfway>>

PointTask(c) ==
    /\ job[c].at = "task"
    /\ LET j == job[c]
       IN  anchor' = IF anchor[j.seat] = NoSeat THEN anchor
                     ELSE [anchor EXCEPT ![j.seat] = [task |-> j.id, document |-> j.id]]
    /\ Goes(c, Idle)
    /\ UNCHANGED <<setting, doc, ops, faults, created, edited, halfway>>

\* set_active_task without a task: the whole seat is read, and written without anchors.
Unanchored(t) == [at |-> "anchors", seats |-> [s \in {t} |-> Blank], old |-> NoId, new |-> NoId]

Deactivate(c, t) ==
    /\ Begin(c, "activate") /\ CanManageTarget(setting.seat[c], t) /\ anchor[t] # NoSeat
    /\ Goes(c, Unanchored(t))
    /\ UNCHANGED <<setting, doc, anchor, faults, created, edited, halfway>>

----------------------------------------------------------------------------
\* A write fails, or the process stops in the middle of every request.
CutShort(cs) ==
    /\ faults < setting.faults /\ faults' = faults + 1
    /\ \E c \in cs : job[c] # Idle
    /\ job' = [c \in Client |-> IF c \in cs THEN Idle ELSE job[c]]
    /\ UNCHANGED <<setting, doc, anchor, ops, created, edited, halfway>>

Init ==
    /\ setting \in Settings
    /\ doc = setting.docs /\ anchor = setting.anchors
    /\ job = [c \in Client |-> Idle] /\ ops = 0 /\ faults = 0
    /\ created = {} /\ edited = {} /\ halfway = {}

Next ==
    \/ \E c \in Client :
        \/ \E n \in Name : CreateTask(c, n) \/ CreateProject(c, n)
        \/ \E i \in Id : \/ AddDocument(c, i) \/ UpdateDocument(c, i) \/ UpdateDocumentWeb(c, i)
                         \/ UpdateTask(c, i) \/ UpdateProject(c, i) \/ QueueReads(c, i)
                         \/ DeleteTask(c, i) \/ DeleteProject(c, i) \/ Cascade(c, i)
        \/ \E i \in Id, purge \in BOOLEAN :
              DeleteDocument(c, i, purge) \/ DeleteDocumentWeb(c, i, purge)
        \/ \E i \in Id, t \in Seat :
              SetProjectStatus(c, i, t) \/ ActivateDocument(c, i, t) \/ ActivateTask(c, i, t)
        \/ \E old, new \in Id, named \in BOOLEAN : Rename(c, old, new, named)
        \/ \E s \in Seat : PutSeat(c, s) \/ Deactivate(c, s)
        \/ Probe(c) \/ Insert(c) \/ Put(c) \/ Reread(c) \/ WriteBack(c) \/ Remove(c)
        \/ Scan(c) \/ Take(c) \/ Look(c) \/ Give(c) \/ PurgeOld(c)
        \/ ReadNamed(c) \/ WriteNamed(c) \/ ListSeats(c) \/ Renamed(c)
        \/ Point(c) \/ PointTask(c)
        \/ CutShort({c})
    \/ CutShort(Client)

Spec == Init /\ [][Next]_vars

----------------------------------------------------------------------------
(* Properties *)

At(i, who) == doc[i] # NoDoc /\ doc[i].who = who

\* One client renames, nobody else does anything, and no id is renamed to two others.
RenamesAlone ==
    /\ \E c \in Client : /\ setting.does[c] = {"rename"}
                         /\ \A d \in Client \ {c} : setting.does[d] = {}
    /\ \A r, q \in setting.rename :
          {r[1], r[2]} \cap {q[1], q[2]} # {} => {r[1], r[2]} = {q[1], q[2]}

\* There at the start and not soft-deleted.
WasLive(i) == i \in Id /\ setting.docs[i] # NoDoc /\ ~setting.docs[i].dead

\* A rename leaves no reference behind (lib.rs:1316): while one client renames, each
\* reference that led to a live document at the start leads to it still, wherever a
\* rename was cut short: by the new id once the document is written there, though the
\* old one may be left beside it for good, and until then by the new id of a rename
\* that has not moved the document yet.  Once renames that nothing cut short are over,
\* the anchors of seats lead there, too.
RenameMovesAll ==
    RenamesAlone =>
        /\ \A i \in Id : Live(i) =>
              \A who \in setting.docs[doc[i].who].links : WasLive(who) =>
                 \E l \in doc[i].links :
                    At(l, who) \/ \E r \in halfway : r[2] = l /\ At(r[1], who)
        /\ (faults = 0 /\ \A c \in Client : job[c] = Idle) =>
              \A s \in Seat : anchor[s] # NoSeat =>
                 \A p \in {"task", "document"} :
                    WasLive(setting.anchors[s][p]) => At(anchor[s][p], setting.anchors[s][p])

\* The documents a client's requests can write.
Writes(c) ==
    setting.about[c] \cup
    {i \in Id : setting.docs[i] # NoDoc /\ "rename" \in setting.does[c]
                /\ \E r \in setting.rename : r[1] \in setting.docs[i].links}
    \cup (IF "rename" \in setting.does[c] THEN UNION {{r[1], r[2]} : r \in setting.rename} ELSE {})

Apart == \A c, d \in Client : c # d => Writes(c) \cap Writes(d) = {}

\* Requests about different documents leave each other's answered edits alone,
\* a rename beside the queue and beside editors of other documents included
\* (the whole copies of lib.rs:1374, tasks.rs:352, server.rs:3345).
EditsKept ==
    (Apart /\ \A c \in Client : "create" \notin setting.does[c]) =>
        \A e \in edited : \E i \in Id : At(i, e.who) /\ e.number \in doc[i].edits

\* Nobody deletes or renames; in SQLite nobody names the id of a new document, either.
Builders ==
    /\ \A c \in Client : setting.does[c] \cap {"delete", "rename"} = {}
    /\ setting.store = "sqlite" => \A c \in Client : "add" \notin setting.does[c]

\* Each of two requests began before the other was answered.
Overlapped(q, r) == q.who <= r.by /\ r.who <= q.by

\* Of creators of one name, whatever else they edit, each gets an id of its own and
\* keeps it, unless they overlap (tasks.rs:252): the id of an answered creation has
\* its document or that of an answered creation that was under way at the same time.
CreationsMeet ==
    Builders => \A r \in created : \E q \in created :
                   q.id = r.id /\ At(q.id, q.who) /\ Overlapped(q, r)
=============================================================================
