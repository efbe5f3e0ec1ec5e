-------------------------- MODULE DocumentsProofs --------------------------
(***************************************************************************)
(* Documents, for any number of them and of clients: the tools and the web *)
(* API grant the same writes; creations of one id overlap; answered edits  *)
(* stay; a rename leaves no reference behind.                              *)
(***************************************************************************)
EXTENDS Documents, TLAPS

\* Whoever may write a document may read it.
LEMMA WriteImpliesRead ==
    ASSUME NEW s \in Seat, NEW d \in Doc, CanWrite(s, d)
    PROVE  CanRead(s, d)
  BY DEF CanWrite, CanRead, Visible, Public

\* update_document and delete_document decide alike for the tools and for the web
\* API, although only the web API asks whether the seat may read the document.
THEOREM DoorsAgree ==
    \A s \in Seat, d \in Doc :
        /\ Updates(s, d) <=> UpdatesWeb(s, d)
        /\ Deletes(s, d) <=> DeletesWeb(s, d)
  BY WriteImpliesRead DEF Updates, UpdatesWeb, Deletes, DeletesWeb

----------------------------------------------------------------------------

\* Steps of requests that neither remove nor rename.
BuilderStep == {"idle", "probe", "insert", "put", "reread", "write", "point", "task", "anchors"}

Makers(i) == {r \in created : r.id = i}

\* The store was asked whether the id is free.
Passed(c) == job[c].at = "put" \/ (job[c].at = "insert" /\ setting.store = "sqlite")

JobOK(c) ==
    LET j == job[c]
    IN  /\ j.at \in BuilderStep
        /\ j.at = "probe" => /\ j.name \in Name /\ j.k \in 1 .. Len(Slugs[j.name])
                             /\ j.kind \in {"task", "project"} /\ j.number \in 0 .. ops
        /\ j.at \in {"insert", "put"} =>
              j.id \in Id /\ j.new \in Doc /\ j.new.who \in 0 .. ops /\ ~j.new.dead
        /\ Passed(c) => /\ Live(j.id) => Makers(j.id) # {}
                        /\ \A r \in Makers(j.id) : j.new.who <= r.by
        /\ j.at = "reread" => j.id \in Id /\ j.number \in Nat
        /\ j.at = "write" =>
              /\ j.id \in Id /\ j.copy \in Doc /\ ~j.copy.dead /\ Live(j.id)
              /\ j.copy.who = doc[j.id].who \/ \E q \in Makers(j.id) : q.who = j.copy.who

\* The id of an answered creation has the document of one.
Made(r) == /\ r.id \in Id /\ r.by \in 0 .. ops /\ r.who \in 0 .. r.by
           /\ Live(r.id) /\ \E q \in Makers(r.id) : doc[r.id].who = q.who

\* What has passed the look of the store, or was answered, overlaps every answered
\* creation of its id; a copy that is to be written back is of one of them.
Building ==
    /\ ops \in Nat
    /\ doc \in [Id -> Doc \cup {NoDoc}]
    /\ job = [c \in Client |-> job[c]]
    /\ \A c \in Client : JobOK(c)
    /\ \A r \in created : Made(r)
    /\ \A q, r \in created : q.id = r.id => Overlapped(q, r)

BuildInv == setting \in Settings /\ (Builders => Building)

LEMMA InitBuilds == Init => BuildInv
<1> SUFFICES ASSUME Init PROVE BuildInv
  OBVIOUS
<1>1. setting \in Setting
  BY DocumentsAssumption DEF Init
<1>2. doc \in [Id -> Doc \cup {NoDoc}]
  BY <1>1 DEF Init, Setting
<1>3. \A c \in Client : JobOK(c)
  BY DEF Init, JobOK, Passed, BuilderStep, Idle
<1> QED BY <1>2, <1>3 DEF Init, BuildInv, Building

\* A step that leaves documents and the other clients alone.
LEMMA OwnStep ==
    ASSUME Building, NEW c \in Client, NEW step, Goes(c, step), doc' = doc, created' = created,
           setting' = setting, ops' \in Nat, ops <= ops', JobOK(c)'
    PROVE  Building'
<1>1. ASSUME NEW d \in Client \ {c} PROVE JobOK(d)'
  <2>1. job'[d] = job[d] /\ JobOK(d) /\ ops \in Nat
    BY DEF Building, Goes
  <2>2. Passed(d)' <=> Passed(d)
    BY <2>1 DEF Passed
  <2>3. 0 .. ops \subseteq 0 .. ops' /\ \A i : Makers(i)' = Makers(i) /\ (Live(i)' <=> Live(i))
    BY <2>1 DEF Makers, Live
  <2> QED BY <2>1, <2>2, <2>3 DEF JobOK
<1>2. ASSUME NEW r \in created' PROVE Made(r)'
  <2>1. Made(r) /\ ops \in Nat
    BY <1>2 DEF Building
  <2>2. r.by \in 0 .. ops'
    BY <2>1 DEF Made
  <2> QED BY <2>1, <2>2 DEF Made, Makers, Live
<1>3. \A q, r \in created' : q.id = r.id => Overlapped(q, r)'
  BY DEF Building, Overlapped
<1> QED BY <1>1, <1>2, <1>3 DEF Building, Goes

LEMMA IdleOK == ASSUME NEW c \in Client, Building, Goes(c, Idle) PROVE JobOK(c)'
  BY DEF Goes, JobOK, Passed, BuilderStep, Idle, Building

\* The copy of a request that has just read the document.
LEMMA CopyOK ==
    ASSUME Building, NEW c \in Client, NEW i \in Id, NEW d, NEW n \in Nat,
           Live(i), d \in Doc, d.who = doc[i].who, ~d.dead, doc' = doc, Copies(c, i, d, n)
    PROVE  JobOK(c)'
<1> DEFINE copy == [d EXCEPT !.edits = @ \cup {n}]
<1>1. copy \in Doc /\ copy.who = d.who /\ ~copy.dead
  BY DEF Doc
<1>2. job'[c] = [at |-> "write", id |-> i, number |-> n, copy |-> copy]
  BY DEF Copies, Goes, Building
<1>3. /\ job'[c].at = "write" /\ job'[c].id = i /\ job'[c].copy = copy
      /\ Live(i)' /\ doc'[i].who = copy.who
  BY <1>1, <1>2 DEF Live
<1> HIDE DEF copy
<1> QED BY <1>1, <1>3 DEF JobOK, Passed, BuilderStep

LEMMA NewDocOK ==
    ASSUME setting \in Settings, NEW c \in Client, NEW kind \in Kind, NEW n \in Nat
    PROVE  NewDoc(c, kind, n) \in Doc /\ NewDoc(c, kind, n).who = n /\ ~NewDoc(c, kind, n).dead
<1>1. NewDoc(c, kind, n) \in Doc
  BY DocumentsAssumption DEF NewDoc, Doc, Setting
<1>2. NewDoc(c, kind, n).who = n /\ ~NewDoc(c, kind, n).dead
  BY DEF NewDoc
<1> QED BY <1>1, <1>2

LEMMA StepBuilds ==
    ASSUME BuildInv, Builders, NEW c \in Client, setting' = setting,
           \/ \E n \in Name : CreateTask(c, n) \/ CreateProject(c, n)
           \/ \E i \in Id : \/ AddDocument(c, i) \/ UpdateDocument(c, i) \/ UpdateDocumentWeb(c, i)
                            \/ UpdateTask(c, i) \/ UpdateProject(c, i) \/ QueueReads(c, i)
           \/ \E i \in Id, t \in Seat :
                 SetProjectStatus(c, i, t) \/ ActivateDocument(c, i, t) \/ ActivateTask(c, i, t)
           \/ \E s \in Seat : PutSeat(c, s) \/ Deactivate(c, s)
           \/ Probe(c) \/ Reread(c) \/ Renamed(c) \/ Point(c) \/ PointTask(c)
    PROVE  Building'
<1> USE DEF BuildInv
<1>s. setting' = setting /\ setting \in Settings
  OBVIOUS
<1>0. Building /\ ops \in Nat /\ JobOK(c) /\ doc \in [Id -> Doc \cup {NoDoc}]
  BY DEF Building
<1>1. ASSUME NEW n \in Name, NEW kind \in {"task", "project"}, CreateItem(c, n, kind)
      PROVE  Building'
  <2>1. ops' \in Nat /\ ops <= ops' /\ doc' = doc /\ created' = created
    BY <1>0, <1>1 DEF CreateItem, Begin
  <2>2. Slugs[n] \in Seq(Id) /\ Slugs[n] # << >>
    BY DocumentsAssumption
  <2>3. 1 \in 1 .. Len(Slugs[n])
    BY <2>2
  <2>4. JobOK(c)'
    <3>1. job'[c] = [at |-> "probe", name |-> n, k |-> 1, kind |-> kind, number |-> ops']
      BY <1>0, <1>1 DEF CreateItem, Goes, Building
    <3>2. /\ job'[c].at = "probe" /\ job'[c].name = n /\ job'[c].k = 1
          /\ job'[c].kind = kind /\ job'[c].number = ops'
      BY <3>1
    <3> QED BY <1>1, <2>1, <2>3, <3>2 DEF JobOK, Passed, BuilderStep
  <2> QED BY <1>0, <1>1, <2>1, <2>4, OwnStep, <1>s DEF CreateItem
<1>2. ASSUME NEW i \in Id, AddDocument(c, i) PROVE Building'
  <2>1. ops' \in Nat /\ ops <= ops' /\ doc' = doc /\ created' = created
    BY <1>0, <1>2 DEF AddDocument, Begin
  <2> DEFINE new == NewDoc(c, "note", ops')
  <2>2. new \in Doc /\ new.who = ops' /\ ~new.dead
    BY <1>s, <2>1, NewDocOK DEF Kind
  <2>4. setting.store # "sqlite"
    BY <1>2 DEF AddDocument, Begin, Builders
  <2>5. job'[c] = [at |-> "insert", id |-> i, new |-> new]
    BY <1>0, <1>2 DEF AddDocument, Goes, Building
  <2>6. job'[c].at = "insert" /\ job'[c].id = i /\ job'[c].new = new
    BY <2>5
  <2>3. JobOK(c)'
    <3> HIDE DEF new
    <3> QED BY <1>s, <2>1, <2>2, <2>4, <2>6 DEF JobOK, Passed, BuilderStep
  <2> QED BY <1>0, <1>2, <2>1, <2>3, OwnStep, <1>s DEF AddDocument
<1>3. ASSUME NEW i \in Id, UpdateDocument(c, i) \/ UpdateDocumentWeb(c, i) PROVE Building'
  <2>1. ops' \in Nat /\ ops <= ops' /\ doc' = doc /\ created' = created /\ Live(i)
    BY <1>0, <1>3 DEF UpdateDocument, UpdateDocumentWeb, Begin
  <2>2. PICK o \in Owners(c, i) : Copies(c, i, [doc[i] EXCEPT !.owner = o], ops')
    BY <1>3 DEF UpdateDocument, UpdateDocumentWeb
  <2>3. doc[i] \in Doc /\ doc[i] # NoDoc /\ ~doc[i].dead
    BY <1>0, <2>1 DEF Live
  <2>4. o \in Seat \cup {Public}
    BY <2>3 DEF Owners, Doc
  <2>5. /\ [doc[i] EXCEPT !.owner = o] \in Doc /\ [doc[i] EXCEPT !.owner = o].who = doc[i].who
        /\ ~[doc[i] EXCEPT !.owner = o].dead
    BY <2>3, <2>4 DEF Doc
  <2>6. JobOK(c)'
    BY <1>0, <2>1, <2>2, <2>3, <2>5, CopyOK
  <2> QED BY <1>0, <2>1, <2>2, <2>6, OwnStep, <1>s DEF Copies
<1>4. ASSUME NEW i \in Id, UpdateTask(c, i) PROVE Building'
  <2>1. ops' \in Nat /\ ops <= ops' /\ doc' = doc /\ created' = created
    BY <1>0, <1>4 DEF UpdateTask, Begin
  <2>2. JobOK(c)'
    BY <1>0, <1>4, <2>1 DEF UpdateTask, Goes, JobOK, Passed, BuilderStep, Building
  <2> QED BY <1>0, <1>4, <2>1, <2>2, OwnStep, <1>s DEF UpdateTask
<1>5. ASSUME NEW i \in Id, UpdateProject(c, i) \/ QueueReads(c, i)
                             \/ \E t \in Seat : SetProjectStatus(c, i, t)
      PROVE  Building'
  <2>1. /\ ops' \in Nat /\ ops <= ops' /\ doc' = doc /\ created' = created /\ Live(i)
        /\ Copies(c, i, doc[i], ops')
    BY <1>0, <1>5 DEF QueueReads, UpdateProject, SetProjectStatus, IsProject, Begin
  <2>2. doc[i] \in Doc /\ doc[i] # NoDoc /\ ~doc[i].dead
    BY <1>0, <2>1 DEF Live
  <2>3. JobOK(c)'
    BY <1>0, <2>1, <2>2, CopyOK
  <2> QED BY <1>0, <2>1, <2>3, OwnStep, <1>s DEF Copies
<1>6. ASSUME NEW i \in Id, NEW t \in Seat, ActivateDocument(c, i, t) \/ ActivateTask(c, i, t)
      PROVE  Building'
  <2>1. ops' \in Nat /\ ops <= ops' /\ doc' = doc /\ created' = created
    BY <1>0, <1>6 DEF ActivateDocument, ActivateTask, Begin
  <2>2. JobOK(c)'
    BY <1>0, <1>6, <2>1 DEF ActivateDocument, ActivateTask, Goes, JobOK, Passed, BuilderStep, Building
  <2> QED BY <1>0, <1>6, <2>1, <2>2, OwnStep, <1>s DEF ActivateDocument, ActivateTask
<1>7. ASSUME NEW s \in Seat, PutSeat(c, s) \/ Deactivate(c, s) PROVE Building'
  <2>1. ops' \in Nat /\ ops <= ops' /\ doc' = doc /\ created' = created
    BY <1>0, <1>7 DEF PutSeat, Deactivate, Begin
  <2>2. job'[c].at = "anchors"
    <3>1. CASE PutSeat(c, s)
      <4> DEFINE left == [k \in DOMAIN job[c].seats \ {s} |-> job[c].seats[k]]
      <4>1. job'[c] = [job[c] EXCEPT !.seats = left]
        BY <1>0, <3>1 DEF PutSeat, Goes, Building
      <4>2. [job[c] EXCEPT !.seats = left].at = job[c].at
        OBVIOUS
      <4> QED BY <3>1, <4>1, <4>2 DEF PutSeat
    <3>2. CASE Deactivate(c, s)
      BY <1>0, <3>2 DEF Deactivate, Unanchored, Goes, Building
    <3> QED BY <1>7, <3>1, <3>2
  <2>3. JobOK(c)'
    BY <2>2 DEF JobOK, Passed, BuilderStep
  <2> QED BY <1>0, <1>7, <2>1, <2>3, OwnStep, <1>s DEF PutSeat, Deactivate
<1>8. CASE Probe(c)
  <2> DEFINE j == job[c]  i == Slugs[j.name][j.k]
  <2>1. ops' \in Nat /\ ops <= ops' /\ doc' = doc /\ created' = created
    BY <1>0, <1>8 DEF Probe
  <2>2. /\ j.name \in Name /\ j.k \in 1 .. Len(Slugs[j.name])
        /\ j.kind \in {"task", "project"} /\ j.number \in 0 .. ops
    BY <1>0, <1>8 DEF Probe, JobOK
  <2>3. Slugs[j.name] \in Seq(Id)
    BY <2>2, DocumentsAssumption
  <2>4. i \in Id
    BY <2>2, <2>3
  <2>5. CASE Live(i)
    <3>1. j.k < Len(Slugs[j.name]) /\ Goes(c, [j EXCEPT !.k = @ + 1])
      BY <1>8, <2>5 DEF Probe
    <3>2. job'[c] = [j EXCEPT !.k = @ + 1]
      BY <1>0, <3>1 DEF Goes, Building
    <3>3. /\ job'[c].at = "probe" /\ job'[c].name = j.name
          /\ job'[c].kind = j.kind /\ job'[c].number = j.number
      BY <1>8, <3>2 DEF Probe
    <3>4. job'[c].k \in 1 .. Len(Slugs[j.name])
      BY <2>2, <2>3, <3>1, <3>2
    <3>5. JobOK(c)'
      BY <2>1, <2>2, <3>3, <3>4, <1>8 DEF JobOK, Passed, BuilderStep, Probe
    <3> QED BY <1>0, <2>1, <3>1, <3>5, OwnStep, <1>s
  <2>6. CASE ~Live(i)
    <3> DEFINE new == NewDoc(c, j.kind, j.number)
    <3>1. Goes(c, [at |-> "insert", id |-> i, new |-> new])
      BY <1>8, <2>6 DEF Probe
    <3>2. new \in Doc /\ new.who = j.number /\ ~new.dead
      BY <1>s, <2>2, NewDocOK DEF Kind
    <3>4. job'[c] = [at |-> "insert", id |-> i, new |-> new]
      BY <1>0, <3>1 DEF Goes, Building
    <3>5. job'[c].at = "insert" /\ job'[c].id = i /\ job'[c].new = new
      BY <3>4
    <3>8. PICK k : k = i
      OBVIOUS
    <3>6. Makers(k)' = {} /\ ~Live(k)'
      BY <1>0, <2>1, <2>6, <3>8 DEF Building, Made, Makers, Live
    <3>7. ops' = ops
      BY <1>8 DEF Probe
    <3>3. JobOK(c)'
      <4> HIDE DEF new, i
      <4> QED BY <2>2, <2>4, <3>2, <3>5, <3>6, <3>7, <3>8 DEF JobOK, Passed, BuilderStep
    <3> QED BY <1>0, <2>1, <3>1, <3>3, OwnStep, <1>s
  <2> QED BY <2>5, <2>6
<1>9. CASE Reread(c)
  <2> DEFINE j == job[c]
  <2>1. ops' \in Nat /\ ops <= ops' /\ doc' = doc /\ created' = created /\ j.id \in Id /\ j.number \in Nat
    BY <1>0, <1>9 DEF Reread, JobOK
  <2>2. CASE Goes(c, Idle)
    BY <1>0, <2>1, <2>2, OwnStep, <1>s, IdleOK
  <2>3. CASE IsTask(j.id) /\ Copies(c, j.id, doc[j.id], j.number)
    <3>1. doc[j.id] \in Doc /\ Live(j.id) /\ ~doc[j.id].dead
      BY <1>0, <2>1, <2>3 DEF IsTask, Live
    <3>2. JobOK(c)'
      BY <1>0, <2>1, <2>3, <3>1, CopyOK
    <3> QED BY <1>0, <2>1, <2>3, <3>2, OwnStep, <1>s DEF Copies
  <2> QED BY <1>9, <2>2, <2>3 DEF Reread
<1>10. CASE Renamed(c)
  BY <1>0, <1>10, OwnStep, <1>s, IdleOK DEF Renamed
<1>11. CASE Point(c)
  <2>1. ops' \in Nat /\ ops <= ops' /\ doc' = doc /\ created' = created
    BY <1>0, <1>11 DEF Point
  <2>2. CASE Goes(c, Idle)
    BY <1>0, <2>1, <2>2, OwnStep, <1>s, IdleOK
  <2>3. CASE Goes(c, [at |-> "task", id |-> job[c].id, seat |-> job[c].seat])
    <3>1. JobOK(c)'
      BY <1>0, <2>3 DEF Goes, JobOK, Passed, BuilderStep, Building
    <3> QED BY <1>0, <2>1, <2>3, <3>1, OwnStep, <1>s
  <2> QED BY <1>11, <2>2, <2>3 DEF Point
<1>12. CASE PointTask(c)
  BY <1>0, <1>12, OwnStep, <1>s, IdleOK DEF PointTask
<1> QED BY <1>1, <1>2, <1>3, <1>4, <1>5, <1>6, <1>7, <1>8, <1>9, <1>10, <1>11, <1>12
    DEF CreateTask, CreateProject

LEMMA DocIsSome == \A d \in Doc : d # NoDoc
<1> SUFFICES ASSUME NEW d \in Doc PROVE d.kind # NoDoc.kind
  OBVIOUS
<1>1. d.kind \in Kind
  BY DEF Doc
<1> QED BY <1>1 DEF Kind, NoDoc

LEMMA InsertBuilds ==
    ASSUME Building, setting \in Settings, NEW c \in Client, Insert(c) PROVE Building'
<1>1. ops' = ops /\ ops \in Nat /\ doc' = doc /\ created' = created /\ setting' = setting
  BY DEF Insert, Building
<1>2. JobOK(c) /\ job[c].at = "insert"
  BY DEF Insert, Building
<1>3. CASE Insertable(job[c].id)
  <2>1. Goes(c, [job[c] EXCEPT !.at = "put"])
    BY <1>3 DEF Insert
  <2>2. job'[c].at = "put" /\ job'[c].id = job[c].id /\ job'[c].new = job[c].new
    <3>1. job'[c] = [job[c] EXCEPT !.at = "put"]
      BY <2>1 DEF Goes, Building
    <3>2. "at" \in DOMAIN job[c] => [job[c] EXCEPT !.at = "put"].at = "put"
      OBVIOUS
    <3> QED BY <1>2, <3>1, <3>2 DEF JobOK
  <2>3. Passed(c) \/ (~Live(job[c].id) /\ Makers(job[c].id) = {})
    <3>1. CASE setting.store = "sqlite"
      BY <1>2, <3>1 DEF Passed
    <3>2. CASE doc[job[c].id] = NoDoc
      BY <3>2 DEF Building, Made, Makers, Live
    <3>3. setting.store \in {"sqlite", "vault"}
      BY DocumentsAssumption DEF Setting
    <3> QED BY <1>3, <3>1, <3>2, <3>3 DEF Insertable
  <2>4. PICK i, d : i = job[c].id /\ d = job[c].new
    OBVIOUS
  <2>5. Passed(c)' => /\ Live(i)' => Makers(i)' # {}
                      /\ \A r \in Makers(i)' : d.who <= r.by
    BY <1>1, <1>2, <2>3, <2>4 DEF JobOK, Live, Makers
  <2>6. JobOK(c)'
    BY <1>1, <1>2, <2>2, <2>4, <2>5 DEF JobOK, BuilderStep, Passed
  <2> QED BY <1>1, <2>1, <2>6, OwnStep
<1>4. CASE ~Insertable(job[c].id)
  <2>1. Goes(c, Idle)
    BY <1>4 DEF Insert
  <2> QED BY <1>1, <2>1, OwnStep, IdleOK
<1> QED BY <1>3, <1>4

\* An answered creation overlaps the answered ones of its id.
LEMMA PutBuilds ==
    ASSUME Building, NEW c \in Client, Put(c) PROVE Building'
<1>1. ops' = ops /\ ops \in Nat /\ setting' = setting /\ Goes(c, Idle)
  BY DEF Put, Building
<1>2. PICK i \in Id, d \in Doc : /\ i = job[c].id /\ d = job[c].new
                                 /\ d.who \in 0 .. ops /\ ~d.dead
                                 /\ Live(i) => Makers(i) # {}
                                 /\ \A r \in Makers(i) : d.who <= r.by
  BY DEF Put, Building, JobOK, Passed
<1>3. PICK q : q = [id |-> i, who |-> d.who, by |-> ops]
  OBVIOUS
<1>4. q.id = i /\ q.who = d.who /\ q.by = ops
  BY <1>3
<1>5. doc' = [doc EXCEPT ![i] = d] /\ created' = created \cup {q}
  BY <1>2, <1>3 DEF Put
<1>6. doc'[i] = d /\ doc' \in [Id -> Doc \cup {NoDoc}] /\ \A k \in Id \ {i} : doc'[k] = doc[k]
  BY <1>5 DEF Building
<1>7. Live(i)' /\ q \in Makers(i)' /\ \A k \in Id \ {i} : Live(k)' <=> Live(k)
  BY <1>2, <1>4, <1>5, <1>6, DocIsSome DEF Live, Makers
<1>8. /\ \A k \in Id : Makers(k) \subseteq Makers(k)'
      /\ \A k \in Id \ {i} : Makers(k)' = Makers(k)
      /\ \A r \in Makers(i)' : r \in Makers(i) \/ r = q
  BY <1>4, <1>5 DEF Makers
<1>9. ASSUME NEW r \in created' PROVE Made(r)'
  <2>1. CASE r = q
    BY <1>1, <1>2, <1>4, <1>6, <1>7, <2>1 DEF Made
  <2>2. CASE r \in created
    <3>1. Made(r)
      BY <2>2 DEF Building
    <3>2. CASE r.id = i
      BY <1>1, <1>4, <1>6, <1>7, <3>1, <3>2 DEF Made
    <3>3. CASE r.id # i
      BY <1>1, <1>6, <1>7, <1>8, <3>1, <3>3 DEF Made
    <3> QED BY <3>2, <3>3
  <2> QED BY <1>5, <2>1, <2>2
<1>10. ASSUME NEW r \in created', r.id = i PROVE Overlapped(q, r) /\ Overlapped(r, q)
  <2>1. CASE r = q
    BY <1>2, <1>4, <2>1 DEF Overlapped
  <2>2. CASE r \in created
    <3>1. Made(r) /\ r \in Makers(i)
      BY <1>10, <2>2 DEF Building, Makers
    <3> QED BY <1>1, <1>2, <1>4, <3>1 DEF Overlapped, Made
  <2> QED BY <1>5, <2>1, <2>2
<1>11. \A r, x \in created' : r.id = x.id => Overlapped(r, x)'
  <2> SUFFICES ASSUME NEW r \in created', NEW x \in created', r.id = x.id
               PROVE  Overlapped(r, x)
    BY DEF Overlapped
  <2>1. CASE r = q
    BY <1>4, <1>10, <2>1
  <2>2. CASE x = q
    BY <1>4, <1>10, <2>2
  <2>3. CASE r \in created /\ x \in created
    BY <2>3 DEF Building
  <2> QED BY <1>5, <2>1, <2>2, <2>3
<1>12. JobOK(c)'
  BY <1>1, IdleOK
<1>13. ASSUME NEW k \in Client \ {c} PROVE JobOK(k)'
  <2>1. job'[k] = job[k] /\ JobOK(k) /\ (Passed(k)' <=> Passed(k))
    BY <1>1 DEF Goes, Building, Passed
  <2>0. PICK j : j = job[k]
    OBVIOUS
  <2>2. Passed(k) => /\ Live(j.id)' => Makers(j.id)' # {}
                     /\ \A r \in Makers(j.id)' : j.new.who <= r.by
    <3> SUFFICES ASSUME Passed(k) PROVE /\ Live(j.id)' => Makers(j.id)' # {}
                                        /\ \A r \in Makers(j.id)' : j.new.who <= r.by
      OBVIOUS
    <3>1. /\ j.id \in Id /\ j.new.who \in 0 .. ops /\ (Live(j.id) => Makers(j.id) # {})
          /\ \A r \in Makers(j.id) : j.new.who <= r.by
      BY <2>0, <2>1 DEF JobOK, Passed
    <3>2. CASE j.id = i
      BY <1>1, <1>4, <1>7, <1>8, <3>1, <3>2
    <3>3. CASE j.id # i
      BY <1>7, <1>8, <3>1, <3>3
    <3> QED BY <3>2, <3>3
  <2>3. j.at = "write" =>
          /\ j.id \in Id /\ j.copy \in Doc /\ ~j.copy.dead /\ Live(j.id)'
          /\ j.copy.who = doc'[j.id].who \/ \E x \in Makers(j.id)' : x.who = j.copy.who
    <3> SUFFICES ASSUME j.at = "write" PROVE
          /\ j.id \in Id /\ j.copy \in Doc /\ ~j.copy.dead /\ Live(j.id)'
          /\ j.copy.who = doc'[j.id].who \/ \E x \in Makers(j.id)' : x.who = j.copy.who
      OBVIOUS
    <3>1. /\ j.id \in Id /\ j.copy \in Doc /\ ~j.copy.dead /\ Live(j.id)
          /\ j.copy.who = doc[j.id].who \/ \E x \in Makers(j.id) : x.who = j.copy.who
      BY <2>0, <2>1 DEF JobOK
    <3>2. CASE j.id = i
      <4>1. PICK r \in created : r.id = i
        BY <1>2, <3>1, <3>2 DEF Makers
      <4>2. \E x \in Makers(i) : doc[i].who = x.who
        BY <4>1 DEF Building, Made
      <4> QED BY <1>7, <1>8, <3>1, <3>2, <4>2
    <3>3. CASE j.id # i
      BY <1>6, <1>7, <1>8, <3>1, <3>3
    <3> QED BY <3>2, <3>3
  <2> QED BY <1>1, <2>0, <2>1, <2>2, <2>3 DEF JobOK, Passed
<1>14. job' = [k \in Client |-> job'[k]]
  BY <1>1 DEF Goes, Building
<1> QED BY <1>1, <1>6, <1>9, <1>11, <1>12, <1>13, <1>14 DEF Building

LEMMA WriteBackBuilds ==
    ASSUME Building, NEW c \in Client, WriteBack(c) PROVE Building'
<1>1. ops' = ops /\ setting' = setting /\ Goes(c, Idle) /\ created' = created
  BY DEF WriteBack
<1>2. PICK i \in Id, d \in Doc : /\ i = job[c].id /\ d = job[c].copy /\ ~d.dead /\ Live(i)
                                 /\ (d.who = doc[i].who \/ \E q \in Makers(i) : q.who = d.who)
  BY DEF WriteBack, Building, JobOK
<1>3. doc' = [doc EXCEPT ![i] = d]
  BY <1>2 DEF WriteBack
<1>4. doc'[i] = d /\ doc' \in [Id -> Doc \cup {NoDoc}] /\ \A k \in Id \ {i} : doc'[k] = doc[k]
  BY <1>3 DEF Building
<1>5. \A k \in Id : (Live(k)' <=> Live(k)) /\ Makers(k)' = Makers(k)
  BY <1>1, <1>2, <1>4, DocIsSome DEF Live, Makers
<1>6. ASSUME NEW r \in created' PROVE Made(r)'
  <2>1. Made(r)
    BY <1>1, <1>6 DEF Building
  <2>2. CASE r.id = i
    BY <1>1, <1>2, <1>4, <1>5, <2>1, <2>2 DEF Made
  <2>3. CASE r.id # i
    BY <1>1, <1>4, <1>5, <2>1, <2>3 DEF Made
  <2> QED BY <2>2, <2>3
<1>7. \A q, r \in created' : q.id = r.id => Overlapped(q, r)'
  BY <1>1 DEF Building, Overlapped
<1>8. JobOK(c)'
  BY <1>1, IdleOK
<1>9. ASSUME NEW k \in Client \ {c} PROVE JobOK(k)'
  <2>1. job'[k] = job[k] /\ JobOK(k) /\ (Passed(k)' <=> Passed(k))
    BY <1>1 DEF Goes, Building, Passed
  <2> DEFINE j == job[k]
  <2>2. j.at = "write" => j.copy.who = doc'[j.id].who \/ \E x \in Makers(j.id) : x.who = j.copy.who
    <3> SUFFICES ASSUME j.at = "write"
                 PROVE  j.copy.who = doc'[j.id].who \/ \E x \in Makers(j.id) : x.who = j.copy.who
      OBVIOUS
    <3>1. /\ j.id \in Id
          /\ j.copy.who = doc[j.id].who \/ \E x \in Makers(j.id) : x.who = j.copy.who
      BY <2>1 DEF JobOK
    <3>2. CASE j.id = i /\ Makers(i) # {}
      <4>1. \E x \in Makers(i) : doc[i].who = x.who
        BY <3>2 DEF Building, Made, Makers
      <4> QED BY <3>1, <3>2, <4>1
    <3>3. CASE j.id = i /\ Makers(i) = {}
      BY <1>2, <1>4, <3>1, <3>3
    <3>4. CASE j.id # i
      BY <1>4, <3>1, <3>4
    <3> QED BY <3>2, <3>3, <3>4
  <2>3. Passed(k) => j.id \in Id
    BY <2>1 DEF JobOK, Passed
  <2> QED BY <1>1, <1>5, <2>1, <2>2, <2>3 DEF JobOK
<1>10. job' = [k \in Client |-> job'[k]] /\ ops \in Nat
  BY <1>1 DEF Goes, Building
<1> QED BY <1>1, <1>4, <1>6, <1>7, <1>8, <1>9, <1>10 DEF Building

LEMMA CutBuilds ==
    ASSUME Building, setting' = setting, NEW cs \in SUBSET Client, CutShort(cs) PROVE Building'
<1>0. doc' = doc /\ created' = created /\ ops' = ops
  BY DEF CutShort
<1>1. ASSUME NEW k \in Client PROVE JobOK(k)'
  <2>1. CASE job'[k] = Idle
    BY <2>1 DEF JobOK, Passed, BuilderStep, Idle
  <2>2. CASE job'[k] = job[k]
    BY <1>0, <2>2 DEF JobOK, Passed, Makers, Live, Building
  <2> QED BY <2>1, <2>2 DEF CutShort
<1>2. \A r \in created' : Made(r)'
  BY <1>0 DEF Building, Made, Makers, Live
<1>3. \A q, r \in created' : q.id = r.id => Overlapped(q, r)'
  BY <1>0 DEF Building, Overlapped
<1> QED BY <1>0, <1>1, <1>2, <1>3 DEF CutShort, Building

\* Requests that remove or rename are not asked, and none of their steps is under way.
LEMMA NoOther ==
    ASSUME Builders, Building, NEW c \in Client
    PROVE  /\ ~Remove(c) /\ ~Scan(c) /\ ~Take(c) /\ ~Look(c) /\ ~Give(c) /\ ~PurgeOld(c)
           /\ ~ReadNamed(c) /\ ~WriteNamed(c) /\ ~ListSeats(c)
           /\ \A i \in Id : ~Cascade(c, i) /\ ~DeleteTask(c, i) /\ ~DeleteProject(c, i)
           /\ \A i \in Id, purge \in BOOLEAN :
                 ~DeleteDocument(c, i, purge) /\ ~DeleteDocumentWeb(c, i, purge)
           /\ \A old, new \in Id, named \in BOOLEAN : ~Rename(c, old, new, named)
<1>1. job[c].at \in BuilderStep
  BY DEF Building, JobOK
<1>2. ~Begin(c, "delete") /\ ~Begin(c, "rename")
  BY DEF Builders, Begin
<1>3. \A i \in Id : ~Cascade(c, i)
  BY <1>1 DEF BuilderStep, Cascade
<1>4. /\ ~Remove(c) /\ ~Scan(c) /\ ~Take(c) /\ ~Look(c) /\ ~Give(c) /\ ~PurgeOld(c)
      /\ ~ReadNamed(c) /\ ~WriteNamed(c) /\ ~ListSeats(c)
  BY <1>1 DEF BuilderStep, Remove, Scan, Take, Look, Give, PurgeOld, ReadNamed, WriteNamed, ListSeats
<1> QED BY <1>2, <1>3, <1>4
        DEF DeleteTask, DeleteProject, DeleteDocument, DeleteDocumentWeb, Rename

LEMMA SettingStays == [Next]_vars => setting' = setting
<1>1. ASSUME NEW c \in Client,
             \/ \E n \in Name : CreateTask(c, n) \/ CreateProject(c, n)
             \/ \E i \in Id : \/ AddDocument(c, i) \/ UpdateDocument(c, i)
                              \/ UpdateDocumentWeb(c, i) \/ UpdateTask(c, i)
                              \/ UpdateProject(c, i) \/ QueueReads(c, i) \/ Cascade(c, i) \/ DeleteTask(c, i) \/ DeleteProject(c, i)
             \/ \E i \in Id, purge \in BOOLEAN :
                   DeleteDocument(c, i, purge) \/ DeleteDocumentWeb(c, i, purge)
      PROVE  setting' = setting
  BY <1>1 DEF CreateTask, CreateProject, CreateItem, AddDocument, UpdateDocument,
              UpdateDocumentWeb, UpdateTask, UpdateProject, QueueReads, Cascade, DeleteTask, DeleteProject, DeleteDocument, DeleteDocumentWeb
<1>2. ASSUME NEW c \in Client,
             \/ \E i \in Id, t \in Seat :
                   SetProjectStatus(c, i, t) \/ ActivateDocument(c, i, t) \/ ActivateTask(c, i, t)
             \/ \E old, new \in Id, named \in BOOLEAN : Rename(c, old, new, named)
             \/ \E s \in Seat : PutSeat(c, s) \/ Deactivate(c, s)
      PROVE  setting' = setting
  BY <1>2 DEF SetProjectStatus, ActivateDocument, ActivateTask, Rename, PutSeat, Deactivate
<1>3. ASSUME NEW c \in Client,
             \/ Probe(c) \/ Insert(c) \/ Put(c) \/ Reread(c) \/ WriteBack(c) \/ Remove(c)
             \/ Scan(c) \/ Take(c) \/ Look(c) \/ Give(c) \/ PurgeOld(c) \/ ReadNamed(c) \/ WriteNamed(c) \/ ListSeats(c) \/ Renamed(c)
             \/ Point(c) \/ PointTask(c)
      PROVE  setting' = setting
  BY <1>3 DEF Probe, Insert, Put, Reread, WriteBack, Remove, Scan, Take, Look, Give, PurgeOld, ReadNamed, WriteNamed,
              ListSeats, Renamed, Point, PointTask
<1>4. ASSUME NEW cs, CutShort(cs) PROVE setting' = setting
  BY <1>4 DEF CutShort
<1>5. UNCHANGED vars => setting' = setting
  BY DEF vars
<1> QED BY <1>1, <1>2, <1>3, <1>4, <1>5 DEF Next

LEMMA NextBuilds == BuildInv /\ [Next]_vars => BuildInv'
<1> SUFFICES ASSUME BuildInv, [Next]_vars PROVE BuildInv'
  OBVIOUS
<1>1. setting' = setting
  BY SettingStays
<1> SUFFICES ASSUME Builders PROVE Building'
  BY <1>1 DEF BuildInv, Builders
<1>2. Building
  BY DEF BuildInv
<1>3. CASE Next
  <2>1. CASE CutShort(Client)
    BY <1>1, <1>2, <2>1, CutBuilds
  <2>2. ASSUME NEW c \in Client, Insert(c) \/ Put(c) \/ WriteBack(c) \/ CutShort({c})
        PROVE  Building'
    BY <1>1, <1>2, <2>2, InsertBuilds, PutBuilds, WriteBackBuilds, CutBuilds
    DEF BuildInv
  <2> QED BY <1>1, <1>2, <1>3, <2>1, <2>2, NoOther, StepBuilds DEF Next
<1>4. CASE UNCHANGED vars
  BY <1>2, <1>4 DEF vars, Building, JobOK, Passed, Made, Makers, Live, Overlapped
<1> QED BY <1>3, <1>4

\* While nobody removes or renames, the id of an answered creation has its document
\* or that of an answered creation that overlapped it, for any names, ids, clients and
\* interleavings, in a vault and in SQLite.
THEOREM CreatorsMeet == Spec => []CreationsMeet
<1>1. ASSUME BuildInv, Builders, NEW r \in created
      PROVE  \E q \in created : q.id = r.id /\ At(q.id, q.who) /\ Overlapped(q, r)
  <2>1. Building /\ Made(r)
    BY <1>1 DEF BuildInv, Building
  <2>2. PICK q \in Makers(r.id) : doc[r.id].who = q.who
    BY <2>1 DEF Made
  <2> QED BY <2>1, <2>2 DEF Building, Made, Makers, At, Live
<1>2. BuildInv => CreationsMeet
  BY <1>1 DEF CreationsMeet
<1> QED BY <1>2, InitBuilds, NextBuilds, PTL DEF Spec

----------------------------------------------------------------------------
(* Requests about different documents *)

\* The documents a rename touches: what it names and what refers to it.
Cited ==
    {i \in Id : setting.docs[i] # NoDoc /\ \E r \in setting.rename : r[1] \in setting.docs[i].links}
    \cup UNION {{r[1], r[2]} : r \in setting.rename}

\* A copy that can be written back: of the document that has the id, with its edits.
Copied(i, d) == /\ d \in Doc /\ doc[i] # NoDoc
                /\ d.who = doc[i].who /\ doc[i].edits \subseteq d.edits

\* What the old id has is under the new one, too.
Given(old, new) == doc[old] # NoDoc => Copied(old, doc[new])

KeepSteps == {"idle", "insert", "put", "reread", "write", "remove", "scan", "cascade", "look",
              "give", "purge", "name", "named", "seats", "anchors", "point", "task"}

\* What the request of a client holds is of documents that only this client writes.
KeepOK(c) ==
    /\ job[c].at \in KeepSteps
    /\ job[c].at \in {"insert", "put"} =>
          job[c].id \in Writes(c) /\ job[c].new \in Doc /\ job[c].new.links = {}
    /\ job[c].at = "reread" => job[c].id \in Writes(c) /\ job[c].number \in Nat
    /\ job[c].at = "remove" => job[c].id \in Writes(c)
    /\ job[c].at = "write" => /\ job[c].id \in Writes(c) /\ Copied(job[c].id, job[c].copy)
                              /\ job[c].copy.links = doc[job[c].id].links
                              /\ job[c].number \in job[c].copy.edits
    /\ job[c].at \in {"scan", "cascade", "look", "give", "purge", "name", "named"} =>
          /\ "rename" \in setting.does[c] /\ <<job[c].old, job[c].new>> \in setting.rename
          /\ job[c].old # job[c].new
    /\ job[c].at \in {"look", "give"} => Copied(job[c].old, job[c].copy)
    /\ job[c].at = "purge" => Given(job[c].old, job[c].new)
    /\ job[c].at = "cascade" =>
          /\ "copies" \in DOMAIN job[c]
          /\ \A i \in DOMAIN job[c].copies :
                i \in Writes(c) \cap Cited /\ Copied(i, job[c].copies[i])
    /\ job[c].at = "named" => Copied(job[c].new, job[c].copy)

\* What a rename does not touch refers to nothing that is renamed.
Unlinked == \A i \in Id \ Cited : doc[i] # NoDoc =>
               \A r \in setting.rename : r[1] \notin doc[i].links

Kept(e) == \E i \in Id : At(i, e.who) /\ e.number \in doc[i].edits

Keeping ==
    /\ ops \in Nat
    /\ doc \in [Id -> Doc \cup {NoDoc}]
    /\ job = [c \in Client |-> job[c]]
    /\ \A c \in Client : KeepOK(c)
    /\ Unlinked
    /\ \A e \in edited : Kept(e)

NoCreators == \A c \in Client : "create" \notin setting.does[c]

KeepInv == setting \in Settings /\ (Apart /\ NoCreators => Keeping)

LEMMA WritesAre ==
    ASSUME setting \in Settings, NEW c \in Client
    PROVE  /\ Writes(c) \subseteq Id /\ setting.about[c] \subseteq Writes(c)
           /\ setting.rename \subseteq Id \X Id /\ Cited \subseteq Id
           /\ "rename" \in setting.does[c] =>
                 /\ Cited \subseteq Writes(c)
                 /\ \A r \in setting.rename : r[1] \in Writes(c) \cap Cited
                                              /\ r[2] \in Writes(c) \cap Cited
<1>1. setting \in Setting
  BY DocumentsAssumption
<1>2. setting.about[c] \subseteq Id /\ setting.rename \subseteq Id \X Id
  BY <1>1 DEF Setting
<1> QED BY <1>2 DEF Writes, Cited

LEMMA InitKeeps == Init => KeepInv
<1> SUFFICES ASSUME Init PROVE KeepInv
  OBVIOUS
<1>1. setting \in Setting
  BY DocumentsAssumption DEF Init
<1>2. doc \in [Id -> Doc \cup {NoDoc}]
  BY <1>1 DEF Init, Setting
<1>3. \A c \in Client : KeepOK(c)
  BY DEF Init, KeepOK, KeepSteps, Idle
<1>4. Unlinked
  BY DEF Unlinked, Cited, Init
<1> QED BY <1>2, <1>3, <1>4 DEF Init, KeepInv, Keeping

LEMMA CopiedStays ==
    ASSUME NEW i, NEW d, Copied(i, d), doc'[i] = doc[i]
    PROVE  Copied(i, d)'
  BY DEF Copied

\* A step that leaves documents alone that others write leaves the others alone.
LEMMA OthersKeep ==
    ASSUME Keeping, Apart, setting \in Settings, setting' = setting,
           NEW c \in Client, NEW step, Goes(c, step), \A k \in Id \ Writes(c) : doc'[k] = doc[k],
           NEW d \in Client \ {c}
    PROVE  KeepOK(d)'
<1>1. KeepOK(d) /\ job'[d] = job[d]
  BY DEF Keeping, Goes
<1>2. Writes(d)' = Writes(d) /\ Cited' = Cited
  BY DEF Writes, Cited
<1>3. \A i \in Writes(d) : doc'[i] = doc[i]
  BY WritesAre DEF Apart
<1>4. \A i \in Writes(d) : \A x : Copied(i, x) => Copied(i, x)'
  BY <1>3, CopiedStays
<1>5. job[d].at \in {"named", "look", "give", "purge"} =>
         job[d].new \in Writes(d) /\ job[d].old \in Writes(d)
  BY <1>1, WritesAre DEF KeepOK
<1>6. job[d].at = "purge" => Given(job[d].old, job[d].new)'
  BY <1>1, <1>3, <1>5 DEF KeepOK, Given, Copied
<1>7. job[d].at \in {"look", "give"} => Copied(job[d].old, job[d].copy)'
  BY <1>1, <1>4, <1>5 DEF KeepOK
<1>8. job[d].at = "named" => Copied(job[d].new, job[d].copy)'
  BY <1>1, <1>4, <1>5 DEF KeepOK
<1> QED BY <1>1, <1>2, <1>3, <1>4, <1>6, <1>7, <1>8 DEF KeepOK

LEMMA StepKeeps ==
    ASSUME Keeping, Apart, setting \in Settings, setting' = setting, ops' \in Nat,
           NEW c \in Client, NEW step, Goes(c, step), KeepOK(c)',
           doc' \in [Id -> Doc \cup {NoDoc}], \A k \in Id \ Writes(c) : doc'[k] = doc[k],
           Unlinked', \A e \in edited' : Kept(e)'
    PROVE  Keeping'
<1>1. \A d \in Client \ {c} : KeepOK(d)'
  BY OthersKeep
<1>2. job' = [d \in Client |-> job'[d]]
  BY DEF Keeping, Goes
<1> QED BY <1>1, <1>2 DEF Keeping

\* A step that leaves all documents alone.
LEMMA OwnKeeps ==
    ASSUME Keeping, Apart, setting \in Settings, setting' = setting, ops' \in Nat,
           doc' = doc, edited' = edited, NEW c \in Client, NEW step, Goes(c, step), KeepOK(c)'
    PROVE  Keeping'
<1>1. Unlinked'
  BY DEF Keeping, Unlinked, Cited
<1>2. \A e \in edited' : Kept(e)'
  BY DEF Keeping, Kept, At
<1> QED BY <1>1, <1>2, StepKeeps DEF Keeping

LEMMA StepAt ==
    ASSUME job = [k \in Client |-> job[k]], NEW c \in Client, NEW step, Goes(c, step)
    PROVE  job'[c] = step
  BY DEF Goes

\* Steps after which a request holds nothing of a document.
LEMMA FreeKeeps ==
    ASSUME Keeping, NEW c \in Client,
           job'[c].at \in {"idle", "seats", "anchors", "point", "task"}
    PROVE  KeepOK(c)'
  BY DEF KeepOK, KeepSteps

LEMMA CopyKeeps ==
    ASSUME Keeping, setting \in Settings, setting' = setting, doc' = doc,
           NEW c \in Client, NEW i \in Writes(c), NEW d, NEW n \in Nat, doc[i] # NoDoc,
           d \in Doc, d.who = doc[i].who, d.links = doc[i].links, d.edits = doc[i].edits,
           Copies(c, i, d, n)
    PROVE  KeepOK(c)'
<1> DEFINE copy == [d EXCEPT !.edits = @ \cup {n}]
<1>1. /\ copy \in Doc /\ copy.who = d.who /\ copy.links = d.links
      /\ copy.edits = d.edits \cup {n}
  BY DEF Doc
<1>2. job'[c] = [at |-> "write", id |-> i, number |-> n, copy |-> copy]
  BY StepAt DEF Copies, Keeping
<1>3. /\ job'[c].at = "write" /\ job'[c].id = i /\ job'[c].copy = copy /\ job'[c].number = n
  BY <1>2
<1> HIDE DEF copy
<1>4. Copied(i, copy)'
  BY <1>1 DEF Copied
<1>5. i \in Writes(c)'
  BY DEF Writes
<1> QED BY <1>1, <1>3, <1>4, <1>5 DEF KeepOK, KeepSteps

LEMMA EditorsKeep ==
    ASSUME Keeping, Apart, setting \in Settings, setting' = setting, NEW c \in Client, NEW i \in Id,
           \/ AddDocument(c, i) \/ UpdateDocument(c, i) \/ UpdateDocumentWeb(c, i)
           \/ UpdateTask(c, i) \/ UpdateProject(c, i) \/ QueueReads(c, i)
           \/ \E t \in Seat : SetProjectStatus(c, i, t)
    PROVE  Keeping'
<1>0. /\ ops' \in Nat /\ doc' = doc /\ edited' = edited /\ i \in setting.about[c]
      /\ i \in Writes(c) /\ i \in Writes(c)'
  <2>1. /\ ops' \in Nat /\ doc' = doc /\ edited' = edited /\ i \in setting.about[c]
    BY DEF Keeping, AddDocument, UpdateDocument, UpdateDocumentWeb, UpdateTask, UpdateProject,
           QueueReads, SetProjectStatus, Begin
  <2> QED BY <2>1, WritesAre DEF Writes
<1>1. CASE AddDocument(c, i)
  <2> DEFINE new == NewDoc(c, "note", ops')
  <2>1. new \in Doc /\ new.links = {}
    BY <1>0, NewDocOK DEF Kind, NewDoc
  <2> HIDE DEF new
  <2>2. Goes(c, [at |-> "insert", id |-> i, new |-> new])
    BY <1>1 DEF AddDocument, new
  <2>3. job'[c].at = "insert" /\ job'[c].id = i /\ job'[c].new = new
    BY <2>2, StepAt DEF Keeping
  <2>4. KeepOK(c)'
    BY <1>0, <2>1, <2>3 DEF KeepOK, KeepSteps
  <2> QED BY <1>0, <2>2, <2>4, OwnKeeps
<1>2. CASE UpdateDocument(c, i) \/ UpdateDocumentWeb(c, i)
  <2>1. doc[i] \in Doc /\ doc[i] # NoDoc
    BY <1>2 DEF UpdateDocument, UpdateDocumentWeb, Live, Keeping
  <2>2. PICK o \in Owners(c, i) : Copies(c, i, [doc[i] EXCEPT !.owner = o], ops')
    BY <1>2 DEF UpdateDocument, UpdateDocumentWeb
  <2> DEFINE d == [doc[i] EXCEPT !.owner = o]
  <2>3. o \in Seat \cup {Public}
    BY <2>1 DEF Owners, Doc
  <2>4. d \in Doc /\ d.who = doc[i].who /\ d.links = doc[i].links /\ d.edits = doc[i].edits
    BY <2>1, <2>3 DEF Doc
  <2>5. Copies(c, i, d, ops')
    BY <2>2
  <2> HIDE DEF d
  <2>6. KeepOK(c)'
    BY <1>0, <2>1, <2>4, <2>5, CopyKeeps
  <2> QED BY <1>0, <2>5, <2>6, OwnKeeps DEF Copies
<1>3. CASE UpdateTask(c, i)
  <2>1. PICK owner : Goes(c, [at |-> "reread", id |-> i, as |-> owner, number |-> ops'])
    BY <1>3 DEF UpdateTask
  <2>2. job'[c].at = "reread" /\ job'[c].id = i /\ job'[c].number = ops'
    BY <2>1, StepAt DEF Keeping
  <2>3. KeepOK(c)'
    BY <1>0, <2>2 DEF KeepOK, KeepSteps
  <2> QED BY <1>0, <2>1, <2>3, OwnKeeps
<1>4. CASE UpdateProject(c, i) \/ QueueReads(c, i) \/ \E t \in Seat : SetProjectStatus(c, i, t)
  <2>1. doc[i] \in Doc /\ doc[i] # NoDoc /\ Copies(c, i, doc[i], ops')
    BY <1>4 DEF UpdateProject, QueueReads, SetProjectStatus, IsProject, Live, Keeping
  <2>2. KeepOK(c)'
    BY <1>0, <2>1, CopyKeeps
  <2> QED BY <1>0, <2>1, <2>2, OwnKeeps DEF Copies
<1> QED BY <1>1, <1>2, <1>3, <1>4

LEMMA RereadKeeps ==
    ASSUME Keeping, Apart, setting \in Settings, NEW c \in Client, Reread(c)
    PROVE  Keeping'
<1>0. ops' \in Nat /\ doc' = doc /\ edited' = edited /\ setting' = setting
  BY DEF Keeping, Reread
<1>1. PICK i \in Writes(c), n \in Nat : i = job[c].id /\ n = job[c].number
  BY DEF Keeping, KeepOK, Reread
<1>2. i \in Id
  BY WritesAre
<1>3. CASE Goes(c, Idle)
  <2>1. KeepOK(c)'
    BY <1>3, StepAt, FreeKeeps DEF Idle, Keeping
  <2> QED BY <1>0, <1>3, <2>1, OwnKeeps
<1>4. CASE IsTask(i) /\ Copies(c, i, doc[i], n)
  <2>1. doc[i] \in Doc /\ doc[i] # NoDoc
    BY <1>2, <1>4 DEF IsTask, Live, Keeping
  <2>2. KeepOK(c)'
    BY <1>0, <1>4, <2>1, CopyKeeps
  <2> QED BY <1>0, <1>4, <2>2, OwnKeeps DEF Copies
<1> QED BY <1>1, <1>3, <1>4 DEF Reread

LEMMA DeletesKeep ==
    ASSUME Keeping, Apart, setting \in Settings, setting' = setting, NEW c \in Client, NEW i \in Id,
           \/ DeleteTask(c, i) \/ DeleteProject(c, i)
           \/ \E purge \in BOOLEAN : DeleteDocument(c, i, purge) \/ DeleteDocumentWeb(c, i, purge)
    PROVE  Keeping'
<1>0. /\ ops' \in Nat /\ doc' = doc /\ edited' = edited /\ i \in setting.about[c]
  <2>1. ASSUME NEW p, DeleteDocument(c, i, p) \/ DeleteDocumentWeb(c, i, p)
        PROVE  /\ ops' \in Nat /\ doc' = doc /\ edited' = edited /\ i \in setting.about[c]
    BY <2>1 DEF Keeping, DeleteDocument, DeleteDocumentWeb, Begin
  <2>2. ASSUME DeleteTask(c, i) \/ DeleteProject(c, i)
        PROVE  /\ ops' \in Nat /\ doc' = doc /\ edited' = edited /\ i \in setting.about[c]
    BY <2>2 DEF Keeping, DeleteTask, DeleteProject, Begin
  <2> QED BY <2>1, <2>2
<1>1. i \in Writes(c)'
  BY <1>0 DEF Writes
<1>2. PICK p : Goes(c, [at |-> "remove", id |-> i, purge |-> p])
  BY DEF DeleteTask, DeleteProject, DeleteDocument, DeleteDocumentWeb
<1>3. job'[c].at = "remove" /\ job'[c].id = i
  BY <1>2, StepAt DEF Keeping
<1>4. KeepOK(c)'
  BY <1>1, <1>3 DEF KeepOK, KeepSteps
<1> QED BY <1>0, <1>2, <1>4, OwnKeeps

LEMMA AnchorsKeep ==
    ASSUME Keeping, Apart, setting \in Settings, setting' = setting, NEW c \in Client,
           \/ \E i \in Id, t \in Seat : ActivateDocument(c, i, t) \/ ActivateTask(c, i, t)
           \/ \E s \in Seat : PutSeat(c, s) \/ Deactivate(c, s)
           \/ ListSeats(c) \/ Renamed(c) \/ Point(c) \/ PointTask(c)
    PROVE  Keeping'
<1>0. /\ ops' \in Nat /\ doc' = doc /\ edited' = edited
  <2>1. ASSUME NEW i, NEW t, ActivateDocument(c, i, t) \/ ActivateTask(c, i, t)
        PROVE  /\ ops' \in Nat /\ doc' = doc /\ edited' = edited
    BY <2>1 DEF Keeping, ActivateDocument, ActivateTask, Begin
  <2>2. ASSUME NEW s, PutSeat(c, s) \/ Deactivate(c, s)
        PROVE  /\ ops' \in Nat /\ doc' = doc /\ edited' = edited
    BY <2>2 DEF Keeping, PutSeat, Deactivate, Begin
  <2>3. ASSUME ListSeats(c) \/ Renamed(c) \/ Point(c) \/ PointTask(c)
        PROVE  /\ ops' \in Nat /\ doc' = doc /\ edited' = edited
    BY <2>3 DEF Keeping, ListSeats, Renamed, Point, PointTask
  <2> QED BY <2>1, <2>2, <2>3
<1>1. PICK step : Goes(c, step) /\ step.at \in {"idle", "seats", "anchors", "point", "task"}
  <2>1. ASSUME NEW i \in Id, NEW t \in Seat, ActivateDocument(c, i, t) \/ ActivateTask(c, i, t)
        PROVE  \E step : Goes(c, step) /\ step.at \in {"point", "task"}
    <3>1. CASE ActivateDocument(c, i, t)
      <4> DEFINE step == [at |-> "point", id |-> i, seat |-> t, kind |-> doc[i].kind]
      <4>1. Goes(c, step) /\ step.at = "point"
        BY <3>1 DEF ActivateDocument
      <4> QED BY <4>1
    <3>2. CASE ActivateTask(c, i, t)
      <4> DEFINE step == [at |-> "task", id |-> i, seat |-> t]
      <4>1. Goes(c, step) /\ step.at = "task"
        BY <3>2 DEF ActivateTask
      <4> QED BY <4>1
    <3> QED BY <2>1, <3>1, <3>2
  <2>2. ASSUME NEW s \in Seat, PutSeat(c, s) PROVE \E step : Goes(c, step) /\ step.at = "anchors"
    <3> DEFINE left == [k \in DOMAIN job[c].seats \ {s} |-> job[c].seats[k]]
               step == [job[c] EXCEPT !.seats = left]
    <3>1. Goes(c, step) /\ step.at = "anchors"
      BY <2>2 DEF PutSeat
    <3> QED BY <3>1
  <2>3. ASSUME NEW s \in Seat, Deactivate(c, s) PROVE \E step : Goes(c, step) /\ step.at = "anchors"
    BY <2>3 DEF Deactivate, Unanchored
  <2>4. CASE ListSeats(c)
    <3> DEFINE to(i) == IF i = job[c].old THEN job[c].new ELSE i
               pointing == {s \in Seat : anchor[s] # NoSeat
                                         /\ job[c].old \in {anchor[s].task, anchor[s].document}}
               step == [at |-> "anchors", old |-> job[c].old, new |-> job[c].new,
                        seats |-> [s \in pointing |-> [task |-> to(anchor[s].task),
                                                       document |-> to(anchor[s].document)]]]
    <3>1. Goes(c, step)
      BY <2>4 DEF ListSeats
    <3>2. step.at = "anchors"
      OBVIOUS
    <3> HIDE DEF step
    <3> QED BY <3>1, <3>2
  <2>5. CASE Renamed(c) \/ PointTask(c)
    BY <2>5 DEF Renamed, PointTask, Idle
  <2>6. CASE Point(c)
    <3>1. CASE Goes(c, Idle)
      BY <3>1 DEF Idle
    <3>2. CASE Goes(c, [at |-> "task", id |-> job[c].id, seat |-> job[c].seat])
      <4> DEFINE step == [at |-> "task", id |-> job[c].id, seat |-> job[c].seat]
      <4>1. Goes(c, step) /\ step.at = "task"
        BY <3>2
      <4> QED BY <4>1
    <3> QED BY <2>6, <3>1, <3>2 DEF Point
  <2> QED BY <2>1, <2>2, <2>3, <2>4, <2>5, <2>6
<1>2. KeepOK(c)'
  BY <1>1, StepAt, FreeKeeps DEF Keeping
<1> QED BY <1>0, <1>1, <1>2, OwnKeeps

LEMMA RenamesBegin ==
    ASSUME Keeping, Apart, setting \in Settings, NEW c \in Client,
           NEW old \in Id, NEW new \in Id, NEW named \in BOOLEAN, Rename(c, old, new, named)
    PROVE  Keeping'
<1>0. /\ ops' \in Nat /\ doc' = doc /\ edited' = edited /\ setting' = setting
      /\ "rename" \in setting.does[c] /\ <<old, new>> \in setting.rename /\ old # new
  BY DEF Keeping, Rename, Begin
<1>1. Goes(c, [at |-> "scan", old |-> old, new |-> new, named |-> named])
  BY DEF Rename
<1>2. job'[c].at = "scan" /\ job'[c].old = old /\ job'[c].new = new
  BY <1>1, StepAt DEF Keeping
<1>3. KeepOK(c)'
  BY <1>0, <1>2 DEF KeepOK, KeepSteps
<1> QED BY <1>0, <1>1, <1>3, OwnKeeps

\* The copies a scan makes are of documents with a reference to the old id.
LEMMA ScanKeeps ==
    ASSUME Keeping, Apart, setting \in Settings, NEW c \in Client, Scan(c)
    PROVE  Keeping'
<1>0. ops' \in Nat /\ doc' = doc /\ edited' = edited /\ setting' = setting
  BY DEF Keeping, Scan
<1>1. PICK old \in Id, new \in Id : /\ old = job[c].old /\ new = job[c].new /\ old # new
                                    /\ <<old, new>> \in setting.rename
                                    /\ "rename" \in setting.does[c]
  <2>1. /\ "rename" \in setting.does[c] /\ <<job[c].old, job[c].new>> \in setting.rename
        /\ job[c].old # job[c].new
    BY DEF Keeping, KeepOK, Scan
  <2> QED BY <2>1, WritesAre
<1> DEFINE fixed(i) == [doc[i] EXCEPT !.links = {IF l = old THEN new ELSE l : l \in @}]
           copies == [i \in Citing(c, old) |-> fixed(i)]
<1>3. ASSUME NEW i \in Citing(c, old) PROVE i \in Writes(c) \cap Cited /\ Copied(i, fixed(i))
  <2>1. i \in Id /\ doc[i] # NoDoc /\ old \in doc[i].links /\ doc[i] \in Doc
    BY DEF Citing, Live, Keeping
  <2>2. i \in Cited
    BY <1>1, <2>1 DEF Keeping, Unlinked
  <2>3. {IF l = old THEN new ELSE l : l \in doc[i].links} \subseteq Id
    BY <2>1 DEF Doc
  <2>4. fixed(i) \in Doc /\ fixed(i).who = doc[i].who /\ fixed(i).edits = doc[i].edits
    BY <2>1, <2>3 DEF Doc
  <2> HIDE DEF fixed
  <2> QED BY <1>1, <2>1, <2>2, <2>4, WritesAre DEF Copied
<1>4. DOMAIN copies = Citing(c, old) /\ \A i \in Citing(c, old) : copies[i] = fixed(i)
  OBVIOUS
<1>5. \A i \in DOMAIN copies : i \in Writes(c) \cap Cited /\ Copied(i, copies[i])
  BY <1>3, <1>4
<1>10. Goes(c, [at |-> "cascade", old |-> old, new |-> new, named |-> job[c].named,
                copies |-> copies])
  BY <1>1 DEF Scan
<1> HIDE DEF copies
<1>2. PICK cs : /\ \A i \in DOMAIN cs : i \in Writes(c) \cap Cited /\ Copied(i, cs[i])
                /\ Goes(c, [at |-> "cascade", old |-> old, new |-> new, named |-> job[c].named,
                            copies |-> cs])
  BY <1>5, <1>10
<1>6. /\ job'[c].at = "cascade" /\ job'[c].old = old /\ job'[c].new = new
      /\ job'[c].copies = cs /\ "copies" \in DOMAIN job'[c]
  BY <1>2, StepAt DEF Keeping
<1>7. Writes(c)' = Writes(c) /\ Cited' = Cited
  BY <1>0 DEF Writes, Cited
<1>8. \A i \in DOMAIN cs : Copied(i, cs[i])'
  BY <1>0, <1>2, CopiedStays
<1>9. KeepOK(c)'
  BY <1>0, <1>1, <1>2, <1>6, <1>7, <1>8 DEF KeepOK, KeepSteps
<1> QED BY <1>0, <1>2, <1>9, OwnKeeps

LEMMA ReadNamedKeeps ==
    ASSUME Keeping, Apart, setting \in Settings, NEW c \in Client, ReadNamed(c)
    PROVE  Keeping'
<1>0. /\ ops' \in Nat /\ doc' = doc /\ edited' = edited /\ setting' = setting
      /\ job[c].at = "name"
  BY DEF Keeping, ReadNamed
<1>1. PICK old \in Id, new \in Id : /\ old = job[c].old /\ new = job[c].new /\ old # new
                                    /\ <<old, new>> \in setting.rename
                                    /\ "rename" \in setting.does[c]
  <2>1. /\ "rename" \in setting.does[c] /\ <<job[c].old, job[c].new>> \in setting.rename
        /\ job[c].old # job[c].new
    BY <1>0 DEF Keeping, KeepOK
  <2> QED BY <2>1, WritesAre
<1>2. CASE IsTask(new) \/ IsProject(new)
  <2>1. PICK d \in Doc : d = doc[new] /\ d # NoDoc
    BY <1>2 DEF IsTask, IsProject, Live, Keeping
  <2>2. Goes(c, [at |-> "named", old |-> old, new |-> new, copy |-> d])
    BY <1>1, <1>2, <2>1 DEF ReadNamed
  <2>3. job'[c].at = "named" /\ job'[c].old = old /\ job'[c].new = new /\ job'[c].copy = d
    BY <2>2, StepAt DEF Keeping
  <2>4. Copied(new, d)'
    BY <1>0, <2>1 DEF Copied
  <2>5. KeepOK(c)'
    BY <1>0, <1>1, <2>3, <2>4 DEF KeepOK, KeepSteps
  <2> QED BY <1>0, <2>2, <2>5, OwnKeeps
<1>3. CASE ~(IsTask(new) \/ IsProject(new))
  <2> DEFINE step == [job[c] EXCEPT !.at = "seats"]
  <2>1. Goes(c, step)
    BY <1>1, <1>3 DEF ReadNamed
  <2>2. step.at = "seats"
    BY <1>0
  <2> HIDE DEF step
  <2>3. KeepOK(c)'
    BY <2>1, <2>2, StepAt, FreeKeeps DEF Keeping
  <2> QED BY <1>0, <2>1, <2>3, OwnKeeps
<1> QED BY <1>2, <1>3

----------------------------------------------------------------------------
(* Steps that write documents *)

\* A copy is written over the document it is of: no edit is lost.
LEMMA CopyWritten ==
    ASSUME Keeping, NEW i \in Id, NEW d, Copied(i, d), doc' = [doc EXCEPT ![i] = d],
           NEW e, Kept(e)
    PROVE  Kept(e)'
<1>1. PICK k \in Id : At(k, e.who) /\ e.number \in doc[k].edits
  BY DEF Kept
<1>2. At(k, e.who)' /\ e.number \in doc'[k].edits
  BY <1>1, DocIsSome DEF Keeping, Copied, At
<1> QED BY <1>2 DEF Kept

LEMMA WrittenDocs ==
    ASSUME Keeping, NEW i \in Id, NEW d \in Doc \cup {NoDoc}, doc' = [doc EXCEPT ![i] = d]
    PROVE  /\ doc' \in [Id -> Doc \cup {NoDoc}] /\ doc'[i] = d
           /\ \A k \in Id \ {i} : doc'[k] = doc[k]
  BY DEF Keeping

LEMMA LinksStay ==
    ASSUME Keeping, setting' = setting,
           \A k \in Id \ Cited : doc'[k] # NoDoc =>
              doc'[k].links = {} \/ (doc[k] # NoDoc /\ doc'[k].links = doc[k].links)
    PROVE  Unlinked'
<1>1. Cited' = Cited
  BY DEF Cited
<1> QED BY <1>1 DEF Keeping, Unlinked

LEMMA InsertKeeps ==
    ASSUME Keeping, Apart, setting \in Settings, NEW c \in Client, Insert(c)
    PROVE  Keeping'
<1>0. ops' \in Nat /\ edited' = edited /\ setting' = setting /\ doc' = doc
  BY DEF Keeping, Insert
<1>1. job[c].at = "insert" /\ KeepOK(c)
  BY DEF Keeping, Insert
<1>2. CASE Goes(c, Idle)
  <2>1. KeepOK(c)'
    BY <1>2, StepAt, FreeKeeps DEF Idle, Keeping
  <2> QED BY <1>0, <1>2, <2>1, OwnKeeps
<1>3. CASE Goes(c, [job[c] EXCEPT !.at = "put"])
  <2>1. job'[c] = [job[c] EXCEPT !.at = "put"]
    BY <1>3, StepAt DEF Keeping
  <2>2. job'[c].id = job[c].id /\ job'[c].new = job[c].new /\ job'[c].at \in {"put", job[c].at}
    BY <2>1
  <2>3. Writes(c)' = Writes(c)
    BY <1>0 DEF Writes
  <2>4. KeepOK(c)'
    BY <1>1, <2>2, <2>3 DEF KeepOK, KeepSteps
  <2> QED BY <1>0, <1>3, <2>4, OwnKeeps
<1> QED BY <1>2, <1>3 DEF Insert

\* A document takes the place of another, whose edits go with it, and of no other.
LEMMA ReplacedEdits ==
    ASSUME Keeping, NEW i \in Id, NEW d, doc' = [doc EXCEPT ![i] = d], NEW e \in Without(i)
    PROVE  Kept(e)'
<1>1. e \in edited /\ (doc[i] = NoDoc \/ e.who # doc[i].who)
  BY DEF Without
<1>2. PICK k \in Id : At(k, e.who) /\ e.number \in doc[k].edits
  BY <1>1 DEF Keeping, Kept
<1>3. doc'[k] = doc[k]
  BY <1>1, <1>2 DEF At, Keeping
<1> QED BY <1>2, <1>3 DEF Kept, At

LEMMA PutKeeps ==
    ASSUME Keeping, Apart, setting \in Settings, NEW c \in Client, Put(c)
    PROVE  Keeping'
<1>0. ops' \in Nat /\ setting' = setting /\ Goes(c, Idle)
  BY DEF Keeping, Put
<1>1. PICK i \in Writes(c), d \in Doc : i = job[c].id /\ d = job[c].new /\ d.links = {}
  BY DEF Keeping, KeepOK, Put
<1>2. i \in Id
  BY WritesAre
<1>3. KeepOK(c)'
  BY <1>0, StepAt, FreeKeeps DEF Idle, Keeping
<1>4. doc' = [doc EXCEPT ![i] = d] /\ edited' = Without(i)
  BY <1>1 DEF Put
<1>5. /\ doc' \in [Id -> Doc \cup {NoDoc}] /\ doc'[i] = d
      /\ \A k \in Id \ {i} : doc'[k] = doc[k]
  BY <1>2, <1>4, WrittenDocs
<1>6. Unlinked'
  BY <1>0, <1>1, <1>5, LinksStay
<1>7. \A e \in edited' : Kept(e)'
  BY <1>2, <1>4, ReplacedEdits
<1> QED BY <1>0, <1>3, <1>5, <1>6, <1>7, StepKeeps

LEMMA WriteBackKeeps ==
    ASSUME Keeping, Apart, setting \in Settings, NEW c \in Client, WriteBack(c)
    PROVE  Keeping'
<1>0. ops' \in Nat /\ setting' = setting /\ Goes(c, Idle)
  BY DEF Keeping, WriteBack
<1>9. PICK n : n = job[c].number
  OBVIOUS
<1>1. PICK i \in Writes(c), d \in Doc :
         /\ i = job[c].id /\ d = job[c].copy
         /\ Copied(i, d) /\ d.links = doc[i].links /\ n \in d.edits
  BY <1>9 DEF Keeping, KeepOK, WriteBack, Copied
<1>2. i \in Id /\ d # NoDoc
  BY WritesAre, DocIsSome
<1>3. KeepOK(c)'
  BY <1>0, StepAt, FreeKeeps DEF Idle, Keeping
<1>4. doc' = [doc EXCEPT ![i] = d] /\ edited' = edited \cup {[who |-> d.who, number |-> n]}
  BY <1>1, <1>9 DEF WriteBack
<1>5. /\ doc' \in [Id -> Doc \cup {NoDoc}] /\ doc'[i] = d
      /\ \A k \in Id \ {i} : doc'[k] = doc[k]
  BY <1>2, <1>4, WrittenDocs
<1>6. Unlinked'
  BY <1>0, <1>1, <1>5, LinksStay DEF Copied
<1>7. \A e \in edited : Kept(e)'
  BY <1>1, <1>2, <1>4, CopyWritten DEF Keeping
<1>8. Kept([who |-> d.who, number |-> n])'
  BY <1>1, <1>2, <1>5 DEF Kept, At
<1> QED BY <1>0, <1>3, <1>4, <1>5, <1>6, <1>7, <1>8, StepKeeps

\* A purge takes the edits of its document along and no others.
LEMMA RemoveKeeps ==
    ASSUME Keeping, Apart, setting \in Settings, NEW c \in Client, Remove(c)
    PROVE  Keeping'
<1>0. ops' \in Nat /\ setting' = setting /\ Goes(c, Idle)
  BY DEF Keeping, Remove
<1>1. PICK i \in Writes(c) : i = job[c].id
  BY DEF Keeping, KeepOK, Remove
<1>2. i \in Id
  BY WritesAre
<1>3. KeepOK(c)'
  BY <1>0, StepAt, FreeKeeps DEF Idle, Keeping
<1>4. CASE job[c].purge /\ doc[i] # NoDoc
  <2>1. doc' = [doc EXCEPT ![i] = NoDoc] /\ edited' = Without(i)
    BY <1>1, <1>4 DEF Remove
  <2>2. /\ doc' \in [Id -> Doc \cup {NoDoc}] /\ doc'[i] = NoDoc
        /\ \A k \in Id \ {i} : doc'[k] = doc[k]
    BY <1>2, <2>1, WrittenDocs
  <2>3. Unlinked'
    BY <1>0, <2>2, LinksStay
  <2>4. \A e \in edited' : Kept(e)'
    BY <1>2, <2>1, ReplacedEdits
  <2> QED BY <1>0, <1>3, <2>2, <2>3, <2>4, StepKeeps
<1>5. CASE ~(job[c].purge /\ doc[i] # NoDoc) /\ Live(i)
  <2> DEFINE d == [doc[i] EXCEPT !.dead = TRUE]
  <2>1. doc[i] \in Doc /\ doc[i] # NoDoc
    BY <1>2, <1>5 DEF Live, Keeping
  <2>2. d \in Doc /\ d.who = doc[i].who /\ d.links = doc[i].links /\ d.edits = doc[i].edits
    BY <2>1 DEF Doc
  <2>3. doc' = [doc EXCEPT ![i] = d]
    BY <1>1, <1>5 DEF Remove
  <2>4. edited' = edited
    BY <1>1, <1>5 DEF Remove
  <2> HIDE DEF d
  <2>5. /\ doc' \in [Id -> Doc \cup {NoDoc}] /\ doc'[i] = d
        /\ \A k \in Id \ {i} : doc'[k] = doc[k]
    BY <1>2, <2>2, <2>3, WrittenDocs
  <2>6. Unlinked'
    BY <1>0, <2>1, <2>2, <2>5, LinksStay
  <2>7. Copied(i, d)
    BY <2>1, <2>2 DEF Copied
  <2>8. \A e \in edited' : Kept(e)'
    BY <1>2, <2>3, <2>4, <2>7, CopyWritten DEF Keeping
  <2> QED BY <1>0, <1>3, <2>5, <2>6, <2>8, StepKeeps
<1>6. CASE ~(job[c].purge /\ doc[i] # NoDoc) /\ ~Live(i)
  <2>1. doc' = doc /\ edited' = edited
    BY <1>1, <1>6 DEF Remove
  <2> QED BY <1>0, <1>3, <2>1, OwnKeeps
<1> QED BY <1>4, <1>5, <1>6

LEMMA CascadeKeeps ==
    ASSUME Keeping, Apart, setting \in Settings, NEW c \in Client, NEW i \in Id, Cascade(c, i)
    PROVE  Keeping'
<1>1. PICK cs : cs = job[c].copies
  OBVIOUS
<1> DEFINE left == [k \in DOMAIN cs \ {i} |-> cs[k]]
           step == [job[c] EXCEPT !.copies = left]
<1>0. /\ ops' \in Nat /\ edited' = edited /\ setting' = setting
      /\ job[c].at = "cascade" /\ i \in DOMAIN cs /\ doc' = [doc EXCEPT ![i] = cs[i]]
  BY <1>1 DEF Keeping, Cascade
<1>2. Goes(c, step)
  BY <1>1 DEF Cascade
<1>3. /\ "copies" \in DOMAIN job[c]
      /\ "rename" \in setting.does[c] /\ <<job[c].old, job[c].new>> \in setting.rename
      /\ job[c].old # job[c].new
      /\ \A k \in DOMAIN cs : k \in Writes(c) \cap Cited /\ Copied(k, cs[k])
  BY <1>0, <1>1 DEF Keeping, KeepOK
<1>4. PICK d \in Doc : d = cs[i] /\ Copied(i, d) /\ d # NoDoc
  BY <1>0, <1>3, DocIsSome DEF Copied
<1>5. /\ doc' \in [Id -> Doc \cup {NoDoc}] /\ doc'[i] = d
      /\ \A k \in Id \ {i} : doc'[k] = doc[k]
  BY <1>0, <1>4, WrittenDocs
<1>6. /\ job'[c].at = "cascade" /\ job'[c].old = job[c].old /\ job'[c].new = job[c].new
      /\ job'[c].copies = left /\ "copies" \in DOMAIN job'[c]
  <2>1. job'[c] = step
    BY <1>2, StepAt DEF Keeping
  <2>2. /\ step.at = job[c].at /\ step.old = job[c].old /\ step.new = job[c].new
        /\ step.copies = left /\ "copies" \in DOMAIN step
    BY <1>3
  <2> HIDE DEF step, left
  <2> QED BY <1>0, <2>1, <2>2
<1>7. \A k \in DOMAIN left : k \in Writes(c) \cap Cited /\ Copied(k, left[k])'
  <2> SUFFICES ASSUME NEW k \in DOMAIN cs \ {i}
               PROVE  k \in Writes(c) \cap Cited /\ Copied(k, left[k])'
    OBVIOUS
  <2>1. k \in Writes(c) \cap Cited /\ Copied(k, cs[k]) /\ k \in Id
    BY <1>3, WritesAre
  <2>2. Copied(k, cs[k])'
    BY <1>5, <2>1, CopiedStays
  <2> QED BY <2>1, <2>2
<1>8. Writes(c)' = Writes(c) /\ Cited' = Cited
  BY <1>0 DEF Writes, Cited
<1>9. KeepOK(c)'
  <2> HIDE DEF left
  <2> QED BY <1>0, <1>3, <1>6, <1>7, <1>8 DEF KeepOK, KeepSteps
<1>10. Unlinked'
  BY <1>0, <1>3, <1>5, LinksStay
<1>11. \A e \in edited' : Kept(e)'
  BY <1>0, <1>4, CopyWritten DEF Keeping
<1>12. \A k \in Id \ Writes(c) : doc'[k] = doc[k]
  BY <1>0, <1>3, <1>5
<1> HIDE DEF step
<1> QED BY <1>0, <1>2, <1>5, <1>9, <1>10, <1>11, <1>12, StepKeeps

LEMMA WriteNamedKeeps ==
    ASSUME Keeping, Apart, setting \in Settings, NEW c \in Client, WriteNamed(c)
    PROVE  Keeping'
<1>0. /\ ops' \in Nat /\ edited' = edited /\ setting' = setting
      /\ Goes(c, [at |-> "seats", old |-> job[c].old, new |-> job[c].new])
  BY DEF Keeping, WriteNamed
<1>1. PICK i \in Writes(c) \cap Cited : i = job[c].new /\ Copied(i, job[c].copy)
  BY WritesAre DEF Keeping, KeepOK, WriteNamed
<1>2. PICK d \in Doc : d = job[c].copy /\ Copied(i, d) /\ d # NoDoc
  BY <1>1, DocIsSome DEF Copied
<1>3. i \in Id /\ doc' = [doc EXCEPT ![i] = d]
  BY <1>1, <1>2, WritesAre DEF WriteNamed
<1>4. KeepOK(c)'
  BY <1>0, StepAt, FreeKeeps DEF Keeping
<1>5. /\ doc' \in [Id -> Doc \cup {NoDoc}] /\ doc'[i] = d
      /\ \A k \in Id \ {i} : doc'[k] = doc[k]
  BY <1>3, WrittenDocs
<1>6. Unlinked'
  BY <1>0, <1>1, <1>5, LinksStay
<1>7. \A e \in edited' : Kept(e)'
  BY <1>0, <1>2, <1>3, CopyWritten DEF Keeping
<1> QED BY <1>0, <1>4, <1>5, <1>6, <1>7, StepKeeps

\* kb_rename looks at what it moves and where to.
LEMMA LooksKeep ==
    ASSUME Keeping, Apart, setting \in Settings, NEW c \in Client, Take(c) \/ Look(c)
    PROVE  Keeping'
<1>0. ops' \in Nat /\ edited' = edited /\ setting' = setting /\ doc' = doc
  BY DEF Keeping, Take, Look
<1>1. KeepOK(c)
  BY DEF Keeping
<1>2. CASE Goes(c, Idle)
  <2>1. KeepOK(c)'
    BY <1>2, StepAt, FreeKeeps DEF Idle, Keeping
  <2> QED BY <1>0, <1>2, <2>1, OwnKeeps
<1>3. CASE Take(c) /\ Live(job[c].old)
  <2> DEFINE step == [at |-> "look", old |-> job[c].old, new |-> job[c].new,
                      named |-> job[c].named, copy |-> doc[job[c].old]]
  <2>1. Goes(c, step) /\ job[c].at = "cascade"
    BY <1>3 DEF Take
  <2>2. job'[c] = step
    BY <2>1, StepAt DEF Keeping
  <2>3. /\ job'[c].at = "look" /\ job'[c].old = job[c].old /\ job'[c].new = job[c].new
        /\ job'[c].copy = doc[job[c].old]
    BY <2>2
  <2>4. /\ "rename" \in setting.does[c] /\ <<job[c].old, job[c].new>> \in setting.rename
        /\ job[c].old # job[c].new
    BY <1>1, <2>1 DEF KeepOK
  <2>5. PICK old \in Id : old = job[c].old
    BY <2>4, WritesAre
  <2>8. PICK d : d = doc[old]
    OBVIOUS
  <2>6. Copied(old, d)'
    BY <1>0, <1>3, <2>5, <2>8 DEF Copied, Live, Keeping
  <2>7. KeepOK(c)'
    BY <1>0, <2>3, <2>4, <2>5, <2>6, <2>8 DEF KeepOK, KeepSteps
  <2> HIDE DEF step
  <2> QED BY <1>0, <2>1, <2>7, OwnKeeps
<1>4. CASE Look(c) /\ Goes(c, [job[c] EXCEPT !.at = "give"])
  <2>1. job'[c] = [job[c] EXCEPT !.at = "give"]
    BY <1>4, StepAt DEF Keeping
  <2>2. /\ job'[c].old = job[c].old /\ job'[c].new = job[c].new /\ job'[c].copy = job[c].copy
        /\ job'[c].at \in {"give", job[c].at}
    BY <2>1
  <2>3. job[c].at = "look"
    BY <1>4 DEF Look
  <2>6. PICK old, d : old = job[c].old /\ d = job[c].copy
    OBVIOUS
  <2>4. Copied(old, d)'
    BY <1>0, <1>1, <2>3, <2>6 DEF KeepOK, Copied
  <2>5. KeepOK(c)'
    BY <1>0, <1>1, <2>2, <2>3, <2>4, <2>6 DEF KeepOK, KeepSteps
  <2> QED BY <1>0, <1>4, <2>5, OwnKeeps
<1> QED BY <1>2, <1>3, <1>4 DEF Take, Look

\* What a rename names is in its client's hands.
LEMMA RenamesOwn ==
    ASSUME Keeping, setting \in Settings, NEW c \in Client,
           job[c].at \in {"look", "give", "purge"}
    PROVE  /\ job[c].old \in Writes(c) \cap Cited /\ job[c].old \in Id
           /\ job[c].new \in Writes(c) \cap Cited /\ job[c].new \in Id
           /\ "rename" \in setting.does[c] /\ <<job[c].old, job[c].new>> \in setting.rename
           /\ job[c].old # job[c].new
<1>1. /\ "rename" \in setting.does[c] /\ <<job[c].old, job[c].new>> \in setting.rename
      /\ job[c].old # job[c].new
  BY DEF Keeping, KeepOK
<1> QED BY <1>1, WritesAre

LEMMA GiveKeeps ==
    ASSUME Keeping, Apart, setting \in Settings, NEW c \in Client, Give(c)
    PROVE  Keeping'
<1> DEFINE step == [at |-> "purge", old |-> job[c].old, new |-> job[c].new, named |-> job[c].named]
<1>0. ops' \in Nat /\ setting' = setting /\ job[c].at = "give" /\ Goes(c, step)
  BY DEF Keeping, Give
<1>1. PICK old \in Writes(c) \cap Cited, new \in Writes(c) \cap Cited :
         /\ old = job[c].old /\ new = job[c].new /\ <<old, new>> \in setting.rename
         /\ "rename" \in setting.does[c] /\ old # new /\ old \in Id /\ new \in Id
  BY <1>0, RenamesOwn
<1>2. PICK d \in Doc : d = job[c].copy /\ Copied(old, d)
  BY <1>0, <1>1 DEF Keeping, KeepOK, Copied
<1>3. doc' = [doc EXCEPT ![new] = d] /\ edited' = Without(new)
  BY <1>1, <1>2 DEF Give
<1>4. /\ doc' \in [Id -> Doc \cup {NoDoc}] /\ doc'[new] = d
      /\ \A k \in Id \ {new} : doc'[k] = doc[k]
  BY <1>1, <1>3, WrittenDocs
<1>5. job'[c] = step
  BY <1>0, StepAt DEF Keeping
<1>6. job'[c].at = "purge" /\ job'[c].old = old /\ job'[c].new = new
  BY <1>1, <1>5
<1>7. Given(old, new)'
  BY <1>1, <1>2, <1>4 DEF Given, Copied
<1>8. KeepOK(c)'
  BY <1>0, <1>1, <1>6, <1>7 DEF KeepOK, KeepSteps
<1>9. Unlinked'
  BY <1>0, <1>1, <1>4, LinksStay
<1>10. \A e \in edited' : Kept(e)'
  BY <1>1, <1>3, ReplacedEdits
<1> HIDE DEF step
<1> QED BY <1>0, <1>1, <1>4, <1>8, <1>9, <1>10, StepKeeps

\* The old id is purged: what it had is under the new one.
LEMMA PurgeKeeps ==
    ASSUME Keeping, Apart, setting \in Settings, NEW c \in Client, PurgeOld(c)
    PROVE  Keeping'
<1>0. ops' \in Nat /\ edited' = edited /\ setting' = setting /\ job[c].at = "purge"
  BY DEF Keeping, PurgeOld
<1>1. PICK old \in Writes(c) \cap Cited, new \in Writes(c) \cap Cited :
         /\ old = job[c].old /\ new = job[c].new /\ <<old, new>> \in setting.rename
         /\ "rename" \in setting.does[c] /\ old # new /\ old \in Id /\ new \in Id
  BY <1>0, RenamesOwn
<1>2. doc' = [doc EXCEPT ![old] = NoDoc]
  BY <1>1 DEF PurgeOld
<1>3. PICK at \in {"name", "seats"} : Goes(c, [at |-> at, old |-> old, new |-> new])
  BY <1>1 DEF PurgeOld
<1>4. job'[c].at = at /\ job'[c].old = old /\ job'[c].new = new
  BY <1>3, StepAt DEF Keeping
<1>5. KeepOK(c)'
  BY <1>0, <1>1, <1>4 DEF KeepOK, KeepSteps
<1>6. /\ doc' \in [Id -> Doc \cup {NoDoc}] /\ doc'[old] = NoDoc
      /\ \A k \in Id \ {old} : doc'[k] = doc[k]
  BY <1>1, <1>2, WrittenDocs
<1>7. Unlinked'
  BY <1>0, <1>1, <1>6, LinksStay
<1>8. Given(old, new)
  BY <1>0, <1>1 DEF Keeping, KeepOK
<1>9. ASSUME NEW e \in edited PROVE Kept(e)'
  <2>1. PICK k \in Id : At(k, e.who) /\ e.number \in doc[k].edits
    BY DEF Keeping, Kept
  <2>2. CASE k = old
    <3>1. At(new, e.who) /\ e.number \in doc[new].edits
      BY <1>8, <2>1, <2>2, DocIsSome DEF At, Given, Copied
    <3> QED BY <1>1, <1>6, <3>1 DEF Kept, At
  <2>3. CASE k # old
    BY <1>6, <2>1, <2>3 DEF Kept, At
  <2> QED BY <2>2, <2>3
<1> QED BY <1>0, <1>1, <1>3, <1>5, <1>6, <1>7, <1>9, StepKeeps

----------------------------------------------------------------------------

LEMMA CutKeeps ==
    ASSUME Keeping, setting' = setting, NEW cs \in SUBSET Client, CutShort(cs)
    PROVE  Keeping'
<1>0. doc' = doc /\ edited' = edited /\ ops' = ops
  BY DEF CutShort
<1>1. Unlinked' /\ \A e \in edited' : Kept(e)'
  BY <1>0 DEF Keeping, Unlinked, Cited, Kept, At
<1>2. ASSUME NEW k \in Client PROVE KeepOK(k)'
  <2>1. CASE k \in cs
    BY <2>1, FreeKeeps DEF CutShort, Idle
  <2>2. CASE k \notin cs
    <3>1. job'[k] = job[k] /\ KeepOK(k)
      BY <2>2 DEF CutShort, Keeping
    <3>2. Writes(k)' = Writes(k) /\ Cited' = Cited
      BY DEF Writes, Cited
    <3> QED BY <1>0, <3>1, <3>2 DEF KeepOK, Copied, Given
  <2> QED BY <2>1, <2>2
<1> QED BY <1>0, <1>1, <1>2 DEF CutShort, Keeping

LEMMA NothingKeeps == ASSUME Keeping, UNCHANGED vars PROVE Keeping'
<1>1. Unlinked' /\ \A e \in edited' : Kept(e)'
  BY DEF vars, Keeping, Unlinked, Cited, Kept, At
<1>2. ASSUME NEW k \in Client PROVE KeepOK(k)'
  <2>1. KeepOK(k) /\ Writes(k)' = Writes(k) /\ Cited' = Cited
    BY DEF vars, Keeping, Writes, Cited
  <2> QED BY <2>1 DEF vars, KeepOK, Copied, Given
<1> QED BY <1>1, <1>2 DEF vars, Keeping

LEMMA NextKeeps == KeepInv /\ [Next]_vars => KeepInv'
<1> SUFFICES ASSUME KeepInv, [Next]_vars PROVE KeepInv'
  OBVIOUS
<1>1. setting' = setting /\ setting \in Settings
  BY SettingStays DEF KeepInv
<1> SUFFICES ASSUME Apart, NoCreators PROVE Keeping'
  BY <1>1 DEF KeepInv, Apart, Writes, NoCreators
<1>2. Keeping
  BY DEF KeepInv
<1>3. CASE Next
  <2>1. CASE CutShort(Client)
    BY <1>1, <1>2, <2>1, CutKeeps
  <2>2. ASSUME NEW c \in Client, CutShort({c}) PROVE Keeping'
    BY <1>1, <1>2, <2>2, CutKeeps
  <2>3. ASSUME NEW c \in Client, NEW n \in Name, CreateTask(c, n) \/ CreateProject(c, n)
        PROVE  Keeping'
    BY <2>3 DEF NoCreators, CreateTask, CreateProject, CreateItem, Begin
  <2>4. ASSUME NEW c \in Client, Probe(c) PROVE Keeping'
    BY <1>2, <2>4 DEF Probe, Keeping, KeepOK, KeepSteps
  <2>5. ASSUME NEW c \in Client, NEW i \in Id,
               \/ AddDocument(c, i) \/ UpdateDocument(c, i) \/ UpdateDocumentWeb(c, i)
               \/ UpdateTask(c, i) \/ UpdateProject(c, i) \/ QueueReads(c, i)
               \/ DeleteTask(c, i) \/ DeleteProject(c, i) \/ Cascade(c, i)
        PROVE  Keeping'
    BY <1>1, <1>2, <2>5, EditorsKeep, DeletesKeep, CascadeKeeps
  <2>6. ASSUME NEW c \in Client, NEW i \in Id, NEW purge \in BOOLEAN,
               DeleteDocument(c, i, purge) \/ DeleteDocumentWeb(c, i, purge)
        PROVE  Keeping'
    BY <1>1, <1>2, <2>6, DeletesKeep
  <2>7. ASSUME NEW c \in Client, NEW i \in Id, NEW t \in Seat,
               SetProjectStatus(c, i, t) \/ ActivateDocument(c, i, t) \/ ActivateTask(c, i, t)
        PROVE  Keeping'
    BY <1>1, <1>2, <2>7, EditorsKeep, AnchorsKeep
  <2>8. ASSUME NEW c \in Client,
               \/ \E old, new \in Id, named \in BOOLEAN : Rename(c, old, new, named)
               \/ Scan(c) \/ ReadNamed(c)
        PROVE  Keeping'
    BY <1>1, <1>2, <2>8, RenamesBegin, ScanKeeps, ReadNamedKeeps
  <2>9. ASSUME NEW c \in Client,
               \/ \E s \in Seat : PutSeat(c, s) \/ Deactivate(c, s)
               \/ ListSeats(c) \/ Renamed(c) \/ Point(c) \/ PointTask(c)
        PROVE  Keeping'
    BY <1>1, <1>2, <2>9, AnchorsKeep
  <2>10. ASSUME NEW c \in Client,
                \/ Insert(c) \/ Put(c) \/ Reread(c) \/ WriteBack(c) \/ Remove(c)
                \/ Take(c) \/ Look(c) \/ Give(c) \/ PurgeOld(c) \/ WriteNamed(c)
         PROVE  Keeping'
    BY <1>1, <1>2, <2>10, InsertKeeps, PutKeeps, RereadKeeps, WriteBackKeeps, RemoveKeeps,
       LooksKeep, GiveKeeps, PurgeKeeps, WriteNamedKeeps
  <2> QED BY <1>3, <2>1, <2>2, <2>3, <2>4, <2>5, <2>6, <2>7, <2>8, <2>9, <2>10 DEF Next
<1>4. CASE UNCHANGED vars
  BY <1>2, <1>4, NothingKeeps
<1> QED BY <1>3, <1>4

\* While no two requests can write one document, no answered edit is lost, for any
\* documents, renames, cuts and interleavings: a whole copy is only ever written back
\* over what was read for it.
THEOREM EditsStay == Spec => []EditsKept
<1>1. KeepInv => EditsKept
  BY DEF KeepInv, NoCreators, Keeping, EditsKept, Kept
<1> QED BY <1>1, InitKeeps, NextKeeps, PTL DEF Spec

----------------------------------------------------------------------------
(* A rename leaves no reference behind *)

\* The references of a document that led to a live one lead there still, or will once
\* the document is moved.
Leads(i) == \A who \in setting.docs[doc[i].who].links : WasLive(who) =>
               \E l \in doc[i].links :
                  At(l, who) \/ \E r \in halfway : r[2] = l /\ At(r[1], who)

AllLead == \A i \in Id : Live(i) => Leads(i)

\* Nobody soft-deletes anything.
StayAlive == \A i \in Id : doc[i] # NoDoc /\ WasLive(doc[i].who) => ~doc[i].dead

\* A copy in which the new id stands for the old one.
Fixed(d, old, new) == [d EXCEPT !.links = {IF l = old THEN new ELSE l : l \in @}]

RenameSteps == {"idle", "scan", "cascade", "look", "give", "purge", "name", "named", "seats",
                "anchors"}

\* How far the rename of a client is.
RenameOK(c) ==
    /\ job[c].at \in RenameSteps
    /\ job[c].at # "idle" => /\ job[c].old \in Id /\ job[c].new \in Id
                             /\ job[c].old # job[c].new
    /\ job[c].at \in {"scan", "cascade", "look", "give"} =>
          <<job[c].old, job[c].new>> \in halfway /\ Live(job[c].old) /\ ~Live(job[c].new)
    /\ job[c].at \in {"look", "give"} => job[c].copy = doc[job[c].old]
    /\ job[c].at \in {"look", "give", "purge"} =>
          \A k \in Id : Live(k) => job[c].old \notin doc[k].links
    /\ job[c].at = "purge" => /\ <<job[c].old, job[c].new>> \in halfway
                              /\ Live(job[c].old) /\ doc[job[c].new] = doc[job[c].old]
    /\ job[c].at = "cascade" =>
          /\ "copies" \in DOMAIN job[c]
          /\ \A i \in Id :
                IF i \in DOMAIN job[c].copies
                THEN Live(i) /\ job[c].copies[i] = Fixed(doc[i], job[c].old, job[c].new)
                ELSE Live(i) => job[c].old \notin doc[i].links
    /\ job[c].at = "named" => job[c].copy = doc[job[c].new]
    /\ job[c].at \in {"name", "named", "seats", "anchors"} => doc[job[c].old] = NoDoc
    /\ job[c].at = "anchors" =>
          /\ "seats" \in DOMAIN job[c]
          /\ \A s \in DOMAIN job[c].seats : \A p \in {"task", "document"} :
                /\ s \in Seat /\ anchor[s] # NoSeat
                /\ job[c].seats[s][p] =
                      IF anchor[s][p] = job[c].old THEN job[c].new ELSE anchor[s][p]

\* At the start the anchor led to a live document.
Began(s, p) == WasLive(setting.anchors[s][p])

\* The rename under way will give the seat the new id.
Fixing(c, s, p) ==
    /\ job[c].at \in {"name", "named", "seats", "anchors"}
    /\ job[c].at = "anchors" => s \in DOMAIN job[c].seats
    /\ anchor[s][p] = job[c].old /\ At(job[c].new, setting.anchors[s][p])

Points(c, s, p) == /\ anchor[s][p] \in Id
                   /\ At(anchor[s][p], setting.anchors[s][p]) \/ Fixing(c, s, p)

Anchored(c) == faults = 0 => \A s \in Seat, p \in {"task", "document"} :
                  anchor[s] # NoSeat /\ Began(s, p) => Points(c, s, p)

Renaming ==
    /\ faults \in Nat
    /\ doc \in [Id -> Doc \cup {NoDoc}]
    /\ job = [c \in Client |-> job[c]]
    /\ anchor = [s \in Seat |-> anchor[s]]
    /\ halfway \subseteq setting.rename
    /\ StayAlive /\ AllLead
    /\ \A c \in Client : IF setting.does[c] = {} THEN job[c] = Idle ELSE RenameOK(c) /\ Anchored(c)

RenameInv == setting \in Settings /\ (RenamesAlone => Renaming)

LEMMA InitRenames == Init => RenameInv
<1> SUFFICES ASSUME Init, RenamesAlone PROVE Renaming
  BY DEF Init, RenameInv
<1>1. setting \in Setting /\ \A i \in Id : setting.docs[i] # NoDoc => setting.docs[i].who = i
  BY DocumentsAssumption DEF Init
<1>2. doc \in [Id -> Doc \cup {NoDoc}] /\ anchor = [s \in Seat |-> anchor[s]]
  BY <1>1 DEF Init, Setting
<1>3. \A i \in Id : doc[i] # NoDoc => doc[i].who = i
  BY <1>1 DEF Init
<1>4. AllLead
  <2> SUFFICES ASSUME NEW i \in Id, doc[i] # NoDoc,
                      NEW who \in setting.docs[doc[i].who].links, WasLive(who)
               PROVE  who \in doc[i].links /\ At(who, who)
    BY DEF AllLead, Live, Leads
  <2>1. who \in doc[i].links
    BY <1>3 DEF Init
  <2> QED BY <1>3, <2>1 DEF Init, At, WasLive
<1>5. ASSUME NEW c \in Client PROVE job[c] = Idle /\ RenameOK(c) /\ Anchored(c)
  <2>1. job[c] = Idle /\ RenameOK(c)
    BY DEF Init, RenameOK, RenameSteps, Idle
  <2>2. ASSUME NEW s \in Seat, NEW p \in {"task", "document"}, Began(s, p) PROVE Points(c, s, p)
    BY <1>3, <2>2 DEF Began, WasLive, Points, At, Init
  <2> QED BY <2>1, <2>2 DEF Anchored
<1>6. StayAlive
  BY <1>3 DEF Init, StayAlive, WasLive
<1> QED BY <1>2, <1>4, <1>5, <1>6 DEF Init, Renaming

LEMMA Renamer ==
    ASSUME Renaming, RenamesAlone, NEW c \in Client, job[c] # Idle \/ setting.does[c] # {}
    PROVE  /\ setting.does[c] = {"rename"} /\ RenameOK(c) /\ Anchored(c)
           /\ \A d \in Client \ {c} : setting.does[d] = {} /\ job[d] = Idle
  BY DEF Renaming, RenamesAlone

\* A step of the client that renames.
LEMMA RenamerSteps ==
    ASSUME Renaming, RenamesAlone, setting' = setting, faults' = faults,
           NEW c \in Client, job[c] # Idle \/ setting.does[c] # {},
           NEW step, Goes(c, step), RenameOK(c)',
           doc' \in [Id -> Doc \cup {NoDoc}], anchor' = [s \in Seat |-> anchor'[s]],
           halfway' \subseteq setting.rename, StayAlive', AllLead',
           \A s \in Seat, p \in {"task", "document"} :
              (faults = 0 /\ anchor'[s] # NoSeat /\ Began(s, p)) => Points(c, s, p)'
    PROVE  Renaming'
<1>1. \A d \in Client \ {c} : setting.does[d] = {} /\ job'[d] = Idle
  BY Renamer DEF Goes, Renaming
<1>2. Anchored(c)'
  BY DEF Anchored, Began, WasLive
<1>3. job' = [d \in Client |-> job'[d]]
  BY DEF Goes, Renaming
<1>4. setting.does[c] # {}
  BY Renamer
<1> QED BY <1>1, <1>2, <1>3, <1>4 DEF Renaming

\* A step of the client that renames, which leaves documents and anchors alone.
LEMMA RenamerOwn ==
    ASSUME Renaming, RenamesAlone, setting' = setting, faults' = faults, doc' = doc,
           anchor' = anchor, halfway' = halfway,
           NEW c \in Client, job[c] # Idle \/ setting.does[c] # {},
           NEW step, Goes(c, step), RenameOK(c)',
           \A s \in Seat, p \in {"task", "document"} :
              (anchor[s] # NoSeat /\ Fixing(c, s, p)) => Fixing(c, s, p)'
    PROVE  Renaming'
<1>1. StayAlive' /\ AllLead'
  BY DEF Renaming, StayAlive, AllLead, Live, Leads, At, WasLive
<1>2. ASSUME NEW s \in Seat, NEW p \in {"task", "document"}, faults = 0, anchor'[s] # NoSeat,
             Began(s, p)
      PROVE  Points(c, s, p)'
  <2>1. Points(c, s, p)
    BY <1>2, Renamer DEF Anchored
  <2> QED BY <1>2, <2>1 DEF Points, At
<1> QED BY <1>1, <1>2, RenamerSteps DEF Renaming

LEMMA RenameRenames ==
    ASSUME Renaming, RenamesAlone, setting \in Settings, NEW c \in Client,
           NEW old \in Id, NEW new \in Id, NEW named \in BOOLEAN, Rename(c, old, new, named)
    PROVE  Renaming'
<1>0. /\ doc' = doc /\ anchor' = anchor /\ setting' = setting /\ faults' = faults
      /\ setting.does[c] # {} /\ <<old, new>> \in setting.rename /\ job[c] = Idle
      /\ halfway' = halfway \cup {<<old, new>>} /\ Live(old) /\ ~Live(new) /\ new # old
      /\ Goes(c, [at |-> "scan", old |-> old, new |-> new, named |-> named])
  BY DEF Rename, Begin
<1>1. job'[c].at = "scan" /\ job'[c].old = old /\ job'[c].new = new
  BY <1>0, StepAt DEF Renaming
<1>2. RenameOK(c)'
  BY <1>0, <1>1 DEF RenameOK, RenameSteps, Live
<1>3. StayAlive'
  BY <1>0 DEF Renaming, StayAlive, WasLive
<1>4. AllLead'
  BY <1>0 DEF Renaming, AllLead, Live, Leads, At, WasLive
<1>5. ASSUME NEW s \in Seat, NEW p \in {"task", "document"}, faults = 0, anchor'[s] # NoSeat,
             Began(s, p)
      PROVE  Points(c, s, p)'
  <2>1. Points(c, s, p)
    BY <1>0, <1>5, Renamer DEF Anchored
  <2> QED BY <1>0, <2>1 DEF Points, At, Fixing, Idle
<1> QED BY <1>0, <1>2, <1>3, <1>4, <1>5, RenamerSteps DEF Renaming

LEMMA ScanRenames ==
    ASSUME Renaming, RenamesAlone, setting \in Settings, NEW c \in Client, Scan(c)
    PROVE  Renaming'
<1>0. /\ doc' = doc /\ anchor' = anchor /\ setting' = setting /\ faults' = faults
      /\ halfway' = halfway /\ job[c].at = "scan" /\ job[c] # Idle
  BY DEF Scan, Idle
<1>1. PICK old \in Id, new \in Id :
         /\ old = job[c].old /\ new = job[c].new /\ old # new
         /\ <<old, new>> \in halfway /\ Live(old) /\ ~Live(new)
  BY <1>0, Renamer DEF RenameOK
<1> DEFINE copies == [i \in Citing(c, old) |-> Fixed(doc[i], old, new)]
<1>2. Goes(c, [at |-> "cascade", old |-> old, new |-> new, named |-> job[c].named,
               copies |-> copies])
  BY <1>1 DEF Scan, Fixed
<1>3. \A i \in Id : IF i \in DOMAIN copies
                    THEN Live(i) /\ copies[i] = Fixed(doc[i], old, new)
                    ELSE Live(i) => old \notin doc[i].links
  BY DEF Citing
<1> HIDE DEF copies
<1>4. PICK cs : /\ \A i \in Id : IF i \in DOMAIN cs
                                 THEN Live(i) /\ cs[i] = Fixed(doc[i], old, new)
                                 ELSE Live(i) => old \notin doc[i].links
                /\ Goes(c, [at |-> "cascade", old |-> old, new |-> new, named |-> job[c].named,
                            copies |-> cs])
  BY <1>2, <1>3
<1>5. /\ job'[c].at = "cascade" /\ job'[c].old = old /\ job'[c].new = new
      /\ job'[c].copies = cs /\ "copies" \in DOMAIN job'[c]
  BY <1>4, StepAt DEF Renaming
<1>6. \A i \in Id : IF i \in DOMAIN cs
                    THEN Live(i)' /\ cs[i] = Fixed(doc[i], old, new)'
                    ELSE Live(i)' => old \notin doc'[i].links
  BY <1>0, <1>4 DEF Live, Fixed
<1>7. RenameOK(c)'
  BY <1>0, <1>1, <1>5, <1>6 DEF RenameOK, RenameSteps, Live, Fixed
<1>8. \A s, p : ~Fixing(c, s, p)
  BY <1>0 DEF Fixing
<1> QED BY <1>0, <1>4, <1>7, <1>8, RenamerOwn

LEMMA FixedIs ==
    ASSUME NEW d \in Doc, NEW old \in Id, NEW new \in Id, old # new
    PROVE  /\ Fixed(d, old, new) \in Doc
           /\ Fixed(d, old, new).who = d.who /\ Fixed(d, old, new).dead = d.dead
           /\ old \notin Fixed(d, old, new).links
           /\ old \in d.links => new \in Fixed(d, old, new).links
           /\ \A l \in d.links : l # old => l \in Fixed(d, old, new).links
<1>1. {IF l = old THEN new ELSE l : l \in d.links} \subseteq Id
  BY DEF Doc
<1> QED BY <1>1 DEF Fixed, Doc

\* A copy is written: what led to the old id leads to the new id of this rename.
LEMMA CascadeRenames ==
    ASSUME Renaming, RenamesAlone, setting \in Settings, NEW c \in Client, NEW i \in Id,
           Cascade(c, i)
    PROVE  Renaming'
<1>1. PICK cs : cs = job[c].copies
  OBVIOUS
<1> DEFINE left == [k \in DOMAIN cs \ {i} |-> cs[k]]
           step == [job[c] EXCEPT !.copies = left]
<1>0. /\ anchor' = anchor /\ setting' = setting /\ faults' = faults /\ halfway' = halfway
      /\ job[c].at = "cascade" /\ job[c] # Idle /\ i \in DOMAIN cs
      /\ doc' = [doc EXCEPT ![i] = cs[i]]
  BY <1>1 DEF Cascade, Idle
<1>2. Goes(c, step)
  BY <1>1 DEF Cascade
<1>3. PICK old \in Id, new \in Id :
         /\ old = job[c].old /\ new = job[c].new /\ old # new
         /\ <<old, new>> \in halfway /\ Live(old) /\ ~Live(new)
         /\ "copies" \in DOMAIN job[c]
         /\ \A k \in Id : IF k \in DOMAIN cs
                          THEN Live(k) /\ cs[k] = Fixed(doc[k], old, new)
                          ELSE Live(k) => old \notin doc[k].links
  <2>1. RenameOK(c)
    BY <1>0, Renamer
  <2>2. /\ job[c].old \in Id /\ job[c].new \in Id /\ job[c].old # job[c].new
        /\ <<job[c].old, job[c].new>> \in halfway /\ Live(job[c].old) /\ ~Live(job[c].new)
        /\ "copies" \in DOMAIN job[c]
    BY <1>0, <2>1 DEF RenameOK
  <2>3. \A k \in Id : IF k \in DOMAIN cs
                      THEN Live(k) /\ cs[k] = Fixed(doc[k], job[c].old, job[c].new)
                      ELSE Live(k) => job[c].old \notin doc[k].links
    BY <1>0, <1>1, <2>1 DEF RenameOK
  <2> QED BY <2>2, <2>3
<1>4. doc[i] \in Doc /\ cs[i] = Fixed(doc[i], old, new) /\ Live(i)
  BY <1>0, <1>3 DEF Renaming, Live
<1>5. PICK d \in Doc : /\ d = cs[i] /\ d # NoDoc /\ d.who = doc[i].who /\ ~d.dead
                       /\ old \notin d.links
                       /\ old \in doc[i].links => new \in d.links
                       /\ \A l \in doc[i].links : l # old => l \in d.links
  BY <1>4, FixedIs, DocIsSome, <1>3 DEF Live
<1>6. /\ doc' \in [Id -> Doc \cup {NoDoc}] /\ doc'[i] = d
      /\ \A k \in Id \ {i} : doc'[k] = doc[k]
  BY <1>0, <1>5 DEF Renaming
<1>7. \A k : \A who : At(k, who) /\ k \in Id => At(k, who)'
  BY <1>5, <1>6 DEF At
<1>8. \A k \in Id : Live(k)' <=> Live(k)
  BY <1>4, <1>5, <1>6 DEF Live
<1>9. /\ job'[c].at = "cascade" /\ job'[c].old = old /\ job'[c].new = new
      /\ job'[c].copies = left /\ "copies" \in DOMAIN job'[c]
  <2>1. job'[c] = step
    BY <1>2, StepAt DEF Renaming
  <2>2. /\ step.at = job[c].at /\ step.old = job[c].old /\ step.new = job[c].new
        /\ step.copies = left /\ "copies" \in DOMAIN step
    BY <1>3
  <2> HIDE DEF step, left
  <2> QED BY <1>0, <1>3, <2>1, <2>2
<1>10. ASSUME NEW k \in Id
       PROVE  IF k \in DOMAIN left
              THEN Live(k)' /\ left[k] = Fixed(doc'[k], old, new)
              ELSE Live(k)' => old \notin doc'[k].links
  <2>1. CASE k = i
    BY <1>5, <1>6, <2>1
  <2>2. CASE k # i
    BY <1>3, <1>6, <1>8, <2>2
  <2> QED BY <2>1, <2>2
<1>11. RenameOK(c)'
  <2> HIDE DEF left
  <2>1. Live(old)' /\ ~Live(new)'
    BY <1>3, <1>8
  <2> QED BY <1>0, <1>3, <1>9, <1>10, <2>1 DEF RenameOK, RenameSteps
<1>12. StayAlive'
  BY <1>0, <1>5, <1>6 DEF Renaming, StayAlive, WasLive
<1>13. AllLead'
  <2> SUFFICES ASSUME NEW k \in Id, Live(k), NEW who \in setting.docs[doc[k].who].links,
                      WasLive(who)
               PROVE  \E l \in doc'[k].links :
                         At(l, who)' \/ \E r \in halfway : r[2] = l /\ At(r[1], who)'
    <3>1. \A k \in Id : Live(k) => doc'[k].who = doc[k].who
      BY <1>5, <1>6 DEF Live
    <3> QED BY <1>0, <1>8, <3>1 DEF AllLead, Leads, WasLive
  <2>1. PICK l \in doc[k].links : At(l, who) \/ \E r \in halfway : r[2] = l /\ At(r[1], who)
    BY DEF Renaming, AllLead, Leads
  <2>2. l \in Id /\ \A r \in halfway : r[1] \in Id /\ r \in setting.rename
    BY WritesAre DEF Renaming, Live, Doc
  <2>3. At(l, who)' \/ \E r \in halfway : r[2] = l /\ At(r[1], who)'
    BY <1>7, <2>1, <2>2
  <2>4. CASE k # i \/ l # old
    BY <1>5, <1>6, <2>1, <2>3, <2>4
  <2>5. CASE k = i /\ l = old
    <3>1. new \in doc'[k].links
      BY <1>5, <1>6, <2>1, <2>5
    <3>2. CASE At(old, who)
      <4>1. <<old, new>>[2] = new /\ At(<<old, new>>[1], who)'
        BY <1>7, <3>2
      <4> QED BY <1>3, <3>1, <4>1
    <3>3. ASSUME NEW r \in halfway, r[2] = old, At(r[1], who) PROVE FALSE
      <4>1. {r[1], r[2]} = {old, new}
        <5>1. r \in setting.rename /\ <<old, new>> \in setting.rename
          BY <1>3, <2>2 DEF Renaming
        <5>2. {r[1], r[2]} \cap {<<old, new>>[1], <<old, new>>[2]} # {}
          BY <3>3
        <5> QED BY <5>1, <5>2 DEF RenamesAlone
      <4>2. r[1] = new
        BY <1>3, <3>3, <4>1
      <4>3. doc[new] # NoDoc /\ ~doc[new].dead
        BY <1>3, <3>3, <4>2 DEF At, Renaming, StayAlive
      <4> QED BY <1>3, <4>3 DEF Live
    <3> QED BY <2>1, <2>5, <3>2, <3>3
  <2> QED BY <2>4, <2>5
<1>14. ASSUME NEW s \in Seat, NEW p \in {"task", "document"}, faults = 0, anchor'[s] # NoSeat,
              Began(s, p)
       PROVE  Points(c, s, p)'
  <2>1. anchor[s][p] \in Id /\ At(anchor[s][p], setting.anchors[s][p])
    BY <1>0, <1>14, Renamer DEF Anchored, Points, Fixing
  <2>2. At(anchor[s][p], setting.anchors[s][p])'
    <3>1. PICK x : x = anchor[s][p]
      OBVIOUS
    <3>2. CASE x = i
      BY <1>0, <1>5, <1>6, <2>1, <3>1, <3>2 DEF At
    <3>3. CASE x # i
      BY <1>0, <2>1, <3>1, <3>3 DEF At, Renaming
    <3> QED BY <3>2, <3>3
  <2> QED BY <1>0, <2>1, <2>2 DEF Points
<1> HIDE DEF step, left
<1>15. anchor' = [s \in Seat |-> anchor'[s]] /\ halfway' \subseteq setting.rename
  BY <1>0 DEF Renaming
<1> QED BY <1>0, <1>2, <1>6, <1>11, <1>12, <1>13, <1>14, <1>15, RenamerSteps

\* kb_rename looks at what it moves, once nothing refers to the old id any more.
LEMMA LooksRename ==
    ASSUME Renaming, RenamesAlone, setting \in Settings, NEW c \in Client, Take(c) \/ Look(c)
    PROVE  Renaming'
<1>0. /\ doc' = doc /\ anchor' = anchor /\ setting' = setting /\ faults' = faults
      /\ halfway' = halfway /\ job[c].at \in {"cascade", "look"} /\ job[c] # Idle
  BY DEF Take, Look, Idle
<1>1. RenameOK(c)
  BY <1>0, Renamer
<1>2. \A s, p : ~Fixing(c, s, p)
  BY <1>0 DEF Fixing
<1>3. CASE Goes(c, Idle)
  <2>1. RenameOK(c)'
    BY <1>3, StepAt DEF Idle, Renaming, RenameOK, RenameSteps
  <2> QED BY <1>0, <1>2, <1>3, <2>1, RenamerOwn
<1>4. CASE Take(c) /\ Live(job[c].old)
  <2> DEFINE step == [at |-> "look", old |-> job[c].old, new |-> job[c].new,
                      named |-> job[c].named, copy |-> doc[job[c].old]]
  <2>1. Goes(c, step) /\ job[c].at = "cascade" /\ DOMAIN job[c].copies = {}
    BY <1>4 DEF Take
  <2>2. job'[c] = step
    BY <2>1, StepAt DEF Renaming
  <2>3. /\ job'[c].at = "look" /\ job'[c].old = job[c].old /\ job'[c].new = job[c].new
        /\ job'[c].copy = doc[job[c].old]
    BY <2>2
  <2>4. \A k \in Id : Live(k) => job[c].old \notin doc[k].links
    BY <1>1, <2>1 DEF RenameOK
  <2>5. RenameOK(c)'
    BY <1>0, <1>1, <2>1, <2>3, <2>4 DEF RenameOK, RenameSteps, Live
  <2> HIDE DEF step
  <2> QED BY <1>0, <1>2, <2>1, <2>5, RenamerOwn
<1>5. CASE Look(c) /\ Goes(c, [job[c] EXCEPT !.at = "give"])
  <2>1. job'[c] = [job[c] EXCEPT !.at = "give"]
    BY <1>5, StepAt DEF Renaming
  <2>2. /\ job'[c].old = job[c].old /\ job'[c].new = job[c].new /\ job'[c].copy = job[c].copy
        /\ job'[c].at \in {"give", job[c].at} /\ job[c].at = "look"
    BY <1>5, <2>1 DEF Look
  <2>3. RenameOK(c)'
    BY <1>0, <1>1, <2>2 DEF RenameOK, RenameSteps, Live
  <2> QED BY <1>0, <1>2, <1>5, <2>3, RenamerOwn
<1> QED BY <1>3, <1>4, <1>5 DEF Take, Look

\* The copy is written: the document has both ids.
LEMMA GiveRenames ==
    ASSUME Renaming, RenamesAlone, setting \in Settings, NEW c \in Client, Give(c)
    PROVE  Renaming'
<1> DEFINE step == [at |-> "purge", old |-> job[c].old, new |-> job[c].new, named |-> job[c].named]
<1>0. /\ anchor' = anchor /\ setting' = setting /\ faults' = faults /\ halfway' = halfway
      /\ job[c].at = "give" /\ job[c] # Idle /\ Goes(c, step)
  BY DEF Give, Idle
<1>1. PICK old \in Id, new \in Id :
         /\ old = job[c].old /\ new = job[c].new /\ old # new
         /\ <<old, new>> \in halfway /\ Live(old) /\ ~Live(new)
         /\ job[c].copy = doc[old] /\ \A k \in Id : Live(k) => old \notin doc[k].links
  <2>1. RenameOK(c)
    BY <1>0, Renamer
  <2>2. /\ job[c].old \in Id /\ job[c].new \in Id /\ job[c].old # job[c].new
        /\ <<job[c].old, job[c].new>> \in halfway /\ Live(job[c].old) /\ ~Live(job[c].new)
        /\ job[c].copy = doc[job[c].old]
    BY <1>0, <2>1 DEF RenameOK
  <2>3. \A k \in Id : Live(k) => job[c].old \notin doc[k].links
    BY <1>0, <2>1 DEF RenameOK
  <2> QED BY <2>2, <2>3
<1>2. doc[old] # NoDoc /\ ~doc[old].dead /\ doc[old] \in Doc
  BY <1>1 DEF Live, Renaming
<1>3. doc' = [doc EXCEPT ![new] = doc[old]]
  BY <1>1 DEF Give
<1>4. /\ doc' \in [Id -> Doc \cup {NoDoc}] /\ doc'[new] = doc[old]
      /\ \A k \in Id \ {new} : doc'[k] = doc[k]
  BY <1>1, <1>2, <1>3 DEF Renaming
<1>5. job'[c] = step
  BY <1>0, StepAt DEF Renaming
<1>6. job'[c].at = "purge" /\ job'[c].old = old /\ job'[c].new = new
  BY <1>1, <1>5
<1>7. \A k \in Id : Live(k)' <=> (Live(k) \/ k = new)
  BY <1>1, <1>2, <1>4 DEF Live
<1>8. RenameOK(c)'
  <2>1. \A k \in Id : Live(k)' => old \notin doc'[k].links
    BY <1>1, <1>4, <1>7
  <2>2. Live(old)' /\ doc'[new] = doc'[old]
    BY <1>1, <1>4, <1>7
  <2> QED BY <1>0, <1>1, <1>6, <2>1, <2>2 DEF RenameOK, RenameSteps
<1>9. StayAlive'
  BY <1>0, <1>2, <1>4 DEF Renaming, StayAlive, WasLive
<1>10. \A k \in Id : \A who : (WasLive(who) /\ At(k, who)) => At(k, who)'
  <2> SUFFICES ASSUME NEW k \in Id, NEW who, WasLive(who), At(k, who) PROVE k # new
    BY <1>4 DEF At
  <2> QED BY <1>1 DEF At, Live, Renaming, StayAlive
<1>11. ASSUME NEW k \in Id, Live(k), NEW who \in setting.docs[doc[k].who].links, WasLive(who)
       PROVE  \E l \in doc[k].links : At(l, who)' \/ \E r \in halfway : r[2] = l /\ At(r[1], who)'
  <2>1. PICK l \in doc[k].links : At(l, who) \/ \E r \in halfway : r[2] = l /\ At(r[1], who)
    BY <1>11 DEF Renaming, AllLead, Leads
  <2>2. l \in Id /\ \A r \in halfway : r[1] \in Id
    BY <1>11, WritesAre DEF Renaming, Live, Doc
  <2> QED BY <1>10, <1>11, <2>1, <2>2
<1>12. AllLead'
  <2> SUFFICES ASSUME NEW k \in Id, Live(k)', NEW who \in setting.docs[doc'[k].who].links,
                      WasLive(who)
               PROVE  \E l \in doc'[k].links :
                         At(l, who)' \/ \E r \in halfway : r[2] = l /\ At(r[1], who)'
    BY <1>0 DEF AllLead, Leads, WasLive
  <2>1. CASE k = new
    BY <1>1, <1>4, <1>11, <2>1
  <2>2. CASE k # new
    BY <1>4, <1>7, <1>11, <2>2
  <2> QED BY <2>1, <2>2
<1>13. ASSUME NEW s \in Seat, NEW p \in {"task", "document"}, faults = 0, anchor'[s] # NoSeat,
              Began(s, p)
       PROVE  Points(c, s, p)'
  <2>1. anchor[s][p] \in Id /\ At(anchor[s][p], setting.anchors[s][p])
    BY <1>0, <1>13, Renamer DEF Anchored, Points, Fixing
  <2>2. At(anchor[s][p], setting.anchors[s][p])'
    <3>1. PICK x : x = anchor[s][p]
      OBVIOUS
    <3>2. PICK who : who = setting.anchors[s][p]
      OBVIOUS
    <3>3. At(x, who)'
      BY <1>10, <1>13, <2>1, <3>1, <3>2 DEF Began
    <3> QED BY <1>0, <3>1, <3>2, <3>3 DEF At
  <2> QED BY <1>0, <2>1, <2>2 DEF Points
<1> HIDE DEF step
<1>14. anchor' = [s \in Seat |-> anchor'[s]] /\ halfway' \subseteq setting.rename
  BY <1>0 DEF Renaming
<1> QED BY <1>0, <1>4, <1>8, <1>9, <1>12, <1>13, <1>14, RenamerSteps

\* The old id is purged: nothing refers to it, and the document is under the new one.
LEMMA PurgeRenames ==
    ASSUME Renaming, RenamesAlone, setting \in Settings, NEW c \in Client, PurgeOld(c)
    PROVE  Renaming'
<1>0. /\ anchor' = anchor /\ setting' = setting /\ faults' = faults /\ halfway' = halfway
      /\ job[c].at = "purge" /\ job[c] # Idle
  BY DEF PurgeOld, Idle
<1>1. PICK old \in Id, new \in Id :
         /\ old = job[c].old /\ new = job[c].new /\ old # new
         /\ <<old, new>> \in halfway /\ Live(old)
         /\ doc[new] = doc[old] /\ \A k \in Id : Live(k) => old \notin doc[k].links
  <2>1. RenameOK(c)
    BY <1>0, Renamer
  <2>2. /\ job[c].old \in Id /\ job[c].new \in Id /\ job[c].old # job[c].new
        /\ <<job[c].old, job[c].new>> \in halfway /\ Live(job[c].old)
        /\ doc[job[c].new] = doc[job[c].old]
    BY <1>0, <2>1 DEF RenameOK
  <2>3. \A k \in Id : Live(k) => job[c].old \notin doc[k].links
    BY <1>0, <2>1 DEF RenameOK
  <2> QED BY <2>2, <2>3
<1>2. doc' = [doc EXCEPT ![old] = NoDoc]
  BY <1>1 DEF PurgeOld
<1>3. PICK at \in {"name", "seats"} : Goes(c, [at |-> at, old |-> old, new |-> new])
  BY <1>1 DEF PurgeOld
<1>4. job'[c].at = at /\ job'[c].old = old /\ job'[c].new = new
  BY <1>3, StepAt DEF Renaming
<1>5. /\ doc' \in [Id -> Doc \cup {NoDoc}] /\ doc'[old] = NoDoc
      /\ \A k \in Id \ {old} : doc'[k] = doc[k]
  BY <1>1, <1>2 DEF Renaming
<1>6. RenameOK(c)'
  BY <1>1, <1>4, <1>5 DEF RenameOK, RenameSteps
<1>7. StayAlive'
  BY <1>0, <1>5 DEF Renaming, StayAlive, WasLive
<1>8. \A k \in Id : \A who : At(k, who) => IF k = old THEN At(new, who)' ELSE At(k, who)'
  BY <1>1, <1>5 DEF At
<1>9. ASSUME NEW k \in Id, Live(k), k # old, NEW who \in setting.docs[doc[k].who].links,
             WasLive(who)
      PROVE  \E l \in doc[k].links : At(l, who)' \/ \E r \in halfway : r[2] = l /\ At(r[1], who)'
  <2>1. PICK l \in doc[k].links : At(l, who) \/ \E r \in halfway : r[2] = l /\ At(r[1], who)
    BY <1>9 DEF Renaming, AllLead, Leads
  <2>2. l \in Id /\ l # old
    BY <1>1, <1>9 DEF Renaming, Live, Doc
  <2>3. CASE At(l, who)
    BY <1>8, <2>1, <2>2, <2>3
  <2>4. ASSUME NEW r \in halfway, r[2] = l, At(r[1], who)
        PROVE  At(l, who)' \/ \E q \in halfway : q[2] = l /\ At(q[1], who)'
    <3>1. r \in setting.rename /\ <<old, new>> \in setting.rename /\ r[1] \in Id
      BY <1>1, <2>4, WritesAre DEF Renaming
    <3>2. CASE r[1] = old
      <4>1. {r[1], r[2]} = {old, new}
        <5>1. {r[1], r[2]} \cap {<<old, new>>[1], <<old, new>>[2]} # {}
          BY <3>2
        <5> QED BY <3>1, <5>1 DEF RenamesAlone
      <4>2. l = new
        BY <2>2, <2>4, <4>1
      <4> QED BY <1>1, <1>8, <2>4, <3>2, <4>2
    <3>3. CASE r[1] # old
      BY <1>8, <2>4, <3>1, <3>3
    <3> QED BY <3>2, <3>3
  <2> QED BY <2>1, <2>3, <2>4
<1>10. AllLead'
  <2> SUFFICES ASSUME NEW k \in Id, Live(k)', NEW who \in setting.docs[doc'[k].who].links,
                      WasLive(who)
               PROVE  \E l \in doc'[k].links :
                         At(l, who)' \/ \E r \in halfway : r[2] = l /\ At(r[1], who)'
    BY <1>0 DEF AllLead, Leads, WasLive
  <2>1. k # old /\ Live(k) /\ doc'[k] = doc[k]
    BY <1>5 DEF Live
  <2> QED BY <1>9, <2>1
<1>11. ASSUME NEW s \in Seat, NEW p \in {"task", "document"}, faults = 0, anchor'[s] # NoSeat,
              Began(s, p)
       PROVE  Points(c, s, p)'
  <2>1. anchor[s][p] \in Id /\ At(anchor[s][p], setting.anchors[s][p])
    BY <1>0, <1>11, Renamer DEF Anchored, Points, Fixing
  <2>2. CASE anchor[s][p] = old
    <3>1. At(new, setting.anchors[s][p])'
      BY <1>0, <1>1, <1>5, <2>1, <2>2 DEF At
    <3>2. Fixing(c, s, p)'
      BY <1>0, <1>4, <2>2, <3>1 DEF Fixing, At
    <3> QED BY <1>0, <2>1, <3>2 DEF Points
  <2>3. CASE anchor[s][p] # old
    BY <1>0, <1>5, <2>1, <2>3 DEF Points, At
  <2> QED BY <2>2, <2>3
<1>12. anchor' = [s \in Seat |-> anchor'[s]] /\ halfway' \subseteq setting.rename
  BY <1>0 DEF Renaming
<1> QED BY <1>0, <1>3, <1>5, <1>6, <1>7, <1>10, <1>11, <1>12, RenamerSteps

LEMMA NamesRename ==
    ASSUME Renaming, RenamesAlone, setting \in Settings, NEW c \in Client,
           ReadNamed(c) \/ WriteNamed(c)
    PROVE  Renaming'
<1>0. /\ anchor' = anchor /\ setting' = setting /\ faults' = faults /\ halfway' = halfway
      /\ job[c].at \in {"name", "named"} /\ job[c] # Idle
  BY DEF ReadNamed, WriteNamed, Idle
<1>1. PICK old \in Id, new \in Id :
         /\ old = job[c].old /\ new = job[c].new /\ old # new /\ doc[old] = NoDoc
         /\ job[c].at = "named" => job[c].copy = doc[new]
  <2>1. RenameOK(c)
    BY <1>0, Renamer
  <2>2. /\ job[c].old \in Id /\ job[c].new \in Id /\ job[c].old # job[c].new
        /\ doc[job[c].old] = NoDoc
    BY <1>0, <2>1 DEF RenameOK
  <2>3. job[c].at = "named" => job[c].copy = doc[job[c].new]
    BY <2>1 DEF RenameOK
  <2> QED BY <2>2, <2>3
<1>2. doc' = doc
  <2>1. CASE ReadNamed(c)
    BY <2>1 DEF ReadNamed
  <2>2. CASE WriteNamed(c)
    BY <1>1, <2>2 DEF WriteNamed, Renaming
  <2> QED BY <2>1, <2>2
<1>3. PICK step : /\ Goes(c, step) /\ step.at \in {"named", "seats"}
                  /\ step.old = old /\ step.new = new
                  /\ step.at = "named" => step.copy = doc[new]
  <2>1. CASE ReadNamed(c) /\ (IsTask(job[c].new) \/ IsProject(job[c].new))
    <3> DEFINE step == [at |-> "named", old |-> job[c].old, new |-> job[c].new,
                        copy |-> doc[job[c].new]]
    <3>1. Goes(c, step)
      BY <2>1 DEF ReadNamed
    <3>2. step.at = "named" /\ step.old = old /\ step.new = new /\ step.copy = doc[new]
      BY <1>1
    <3> HIDE DEF step
    <3> QED BY <3>1, <3>2
  <2>2. CASE ReadNamed(c) /\ ~(IsTask(job[c].new) \/ IsProject(job[c].new))
    <3> DEFINE step == [job[c] EXCEPT !.at = "seats"]
    <3>1. Goes(c, step)
      BY <2>2 DEF ReadNamed
    <3>2. step.at = "seats" /\ step.old = old /\ step.new = new
      BY <1>0, <1>1
    <3> HIDE DEF step
    <3> QED BY <3>1, <3>2
  <2>3. CASE WriteNamed(c)
    <3> DEFINE step == [at |-> "seats", old |-> job[c].old, new |-> job[c].new]
    <3>1. Goes(c, step)
      BY <2>3 DEF WriteNamed
    <3>2. step.at = "seats" /\ step.old = old /\ step.new = new
      BY <1>1
    <3> HIDE DEF step
    <3> QED BY <3>1, <3>2
  <2> QED BY <2>1, <2>2, <2>3
<1>4. job'[c] = step
  BY <1>3, StepAt DEF Renaming
<1>5. RenameOK(c)'
  BY <1>1, <1>2, <1>3, <1>4 DEF RenameOK, RenameSteps
<1>6. \A s, p : Fixing(c, s, p) => Fixing(c, s, p)'
  BY <1>0, <1>1, <1>2, <1>3, <1>4 DEF Fixing, At
<1> QED BY <1>0, <1>2, <1>3, <1>5, <1>6, RenamerOwn

\* list_active: the seats that point to the old id get the new one.
LEMMA ListRenames ==
    ASSUME Renaming, RenamesAlone, setting \in Settings, NEW c \in Client, ListSeats(c)
    PROVE  Renaming'
<1>0. /\ doc' = doc /\ anchor' = anchor /\ setting' = setting /\ faults' = faults
      /\ halfway' = halfway /\ job[c].at = "seats" /\ job[c] # Idle
  BY DEF ListSeats, Idle
<1>1. PICK old \in Id, new \in Id :
         old = job[c].old /\ new = job[c].new /\ old # new /\ doc[old] = NoDoc
  <2>1. RenameOK(c)
    BY <1>0, Renamer
  <2>2. /\ job[c].old \in Id /\ job[c].new \in Id /\ job[c].old # job[c].new
        /\ doc[job[c].old] = NoDoc
    BY <1>0, <2>1 DEF RenameOK
  <2> QED BY <2>2
<1> DEFINE to(i) == IF i = old THEN new ELSE i
           pointing == {s \in Seat : /\ anchor[s] # NoSeat
                                     /\ old \in {anchor[s].task, anchor[s].document}}
           seats == [s \in pointing |-> [task |-> to(anchor[s].task),
                                         document |-> to(anchor[s].document)]]
<1>2. Goes(c, [at |-> "anchors", old |-> old, new |-> new, seats |-> seats])
  BY <1>1 DEF ListSeats
<1>3. \A s \in DOMAIN seats : \A p \in {"task", "document"} :
         /\ s \in Seat /\ anchor[s] # NoSeat
         /\ seats[s][p] = IF anchor[s][p] = old THEN new ELSE anchor[s][p]
  OBVIOUS
<1>4. \A s \in Seat : \A p \in {"task", "document"} :
         anchor[s] # NoSeat /\ anchor[s][p] = old => s \in DOMAIN seats
  OBVIOUS
<1> HIDE DEF seats
<1>5. /\ job'[c].at = "anchors" /\ job'[c].old = old /\ job'[c].new = new
      /\ job'[c].seats = seats /\ "seats" \in DOMAIN job'[c]
  BY <1>2, StepAt DEF Renaming
<1>6. RenameOK(c)'
  BY <1>0, <1>1, <1>3, <1>5 DEF RenameOK, RenameSteps
<1>7. \A s \in Seat, p \in {"task", "document"} :
         (anchor[s] # NoSeat /\ Fixing(c, s, p)) => Fixing(c, s, p)'
  BY <1>0, <1>1, <1>4, <1>5 DEF Fixing, At
<1> QED BY <1>0, <1>2, <1>6, <1>7, RenamerOwn

LEMMA PutRenames ==
    ASSUME Renaming, RenamesAlone, setting \in Settings, NEW c \in Client, NEW t \in Seat,
           PutSeat(c, t)
    PROVE  Renaming'
<1>1. PICK seats : seats = job[c].seats
  OBVIOUS
<1> DEFINE left == [k \in DOMAIN seats \ {t} |-> seats[k]]
           step == [job[c] EXCEPT !.seats = left]
<1>0. /\ doc' = doc /\ setting' = setting /\ faults' = faults /\ halfway' = halfway
      /\ job[c].at = "anchors" /\ job[c] # Idle /\ t \in DOMAIN seats
      /\ anchor' = [anchor EXCEPT ![t] = seats[t]]
  BY <1>1 DEF PutSeat, Idle
<1>2. Goes(c, step)
  BY <1>1 DEF PutSeat
<1>3. PICK old \in Id, new \in Id :
         /\ old = job[c].old /\ new = job[c].new /\ old # new /\ doc[old] = NoDoc
         /\ "seats" \in DOMAIN job[c]
         /\ \A s \in DOMAIN seats : \A p \in {"task", "document"} :
               /\ s \in Seat /\ anchor[s] # NoSeat
               /\ seats[s][p] = IF anchor[s][p] = old THEN new ELSE anchor[s][p]
  <2>1. RenameOK(c)
    BY <1>0, Renamer
  <2>2. /\ job[c].old \in Id /\ job[c].new \in Id /\ job[c].old # job[c].new
        /\ doc[job[c].old] = NoDoc /\ "seats" \in DOMAIN job[c]
    BY <1>0, <2>1 DEF RenameOK
  <2>3. \A s \in DOMAIN seats : \A p \in {"task", "document"} :
           /\ s \in Seat /\ anchor[s] # NoSeat
           /\ seats[s][p] = IF anchor[s][p] = job[c].old THEN job[c].new ELSE anchor[s][p]
    BY <1>0, <1>1, <2>1 DEF RenameOK
  <2> QED BY <2>2, <2>3
<1>4. /\ job'[c].at = "anchors" /\ job'[c].old = old /\ job'[c].new = new
      /\ job'[c].seats = left /\ "seats" \in DOMAIN job'[c]
  <2>1. job'[c] = step
    BY <1>2, StepAt DEF Renaming
  <2>2. /\ step.at = job[c].at /\ step.old = job[c].old /\ step.new = job[c].new
        /\ step.seats = left /\ "seats" \in DOMAIN step
    BY <1>3
  <2> HIDE DEF step, left
  <2> QED BY <1>0, <1>3, <2>1, <2>2
<1>5. /\ anchor' = [s \in Seat |-> anchor'[s]] /\ anchor'[t] = seats[t]
      /\ \A s \in Seat : s # t => anchor'[s] = anchor[s]
  BY <1>0 DEF Renaming
<1>6. DOMAIN left = DOMAIN seats \ {t} /\ \A s \in DOMAIN left : left[s] = seats[s]
  OBVIOUS
<1> HIDE DEF left, step
<1>7. RenameOK(c)'
  <2>1. \A s \in DOMAIN left : \A p \in {"task", "document"} :
           /\ s \in Seat /\ anchor'[s] # NoSeat
           /\ left[s][p] = IF anchor'[s][p] = old THEN new ELSE anchor'[s][p]
    BY <1>3, <1>5, <1>6
  <2> QED BY <1>0, <1>3, <1>4, <2>1 DEF RenameOK, RenameSteps
<1>8. ASSUME NEW s \in Seat, NEW p \in {"task", "document"}, faults = 0, anchor'[s] # NoSeat,
             Began(s, p)
      PROVE  Points(c, s, p)'
  <2>1. anchor[s] # NoSeat
    BY <1>0, <1>3, <1>5, <1>8
  <2>2. Points(c, s, p)
    BY <1>8, <2>1, Renamer, <1>0 DEF Anchored
  <2>3. CASE s # t
    <3>1. anchor'[s] = anchor[s]
      BY <1>5, <2>3
    <3>2. CASE At(anchor[s][p], setting.anchors[s][p])
      BY <1>0, <2>2, <3>1, <3>2 DEF Points, At
    <3>3. CASE Fixing(c, s, p)
      <4>1. s \in DOMAIN left /\ anchor'[s][p] = old /\ At(new, setting.anchors[s][p])
        BY <1>0, <1>1, <1>3, <1>6, <2>3, <3>1, <3>3 DEF Fixing
      <4>2. Fixing(c, s, p)'
        BY <1>0, <1>4, <4>1 DEF Fixing, At
      <4> QED BY <2>2, <3>1, <4>2 DEF Points
    <3> QED BY <2>2, <3>2, <3>3 DEF Points
  <2>4. CASE s = t
    <3>1. anchor'[s][p] = IF anchor[s][p] = old THEN new ELSE anchor[s][p]
      BY <1>0, <1>3, <1>5, <2>4
    <3>2. CASE anchor[s][p] = old
      <4>1. At(new, setting.anchors[s][p])
        BY <1>3, <2>2, <3>2 DEF Points, Fixing, At
      <4> QED BY <1>0, <3>1, <3>2, <4>1 DEF Points, At
    <3>3. CASE anchor[s][p] # old
      <4>1. At(anchor[s][p], setting.anchors[s][p]) /\ anchor[s][p] \in Id
        BY <1>3, <2>2, <3>3 DEF Points, Fixing
      <4> QED BY <1>0, <3>1, <3>3, <4>1 DEF Points, At
    <3> QED BY <3>2, <3>3
  <2> QED BY <2>3, <2>4
<1>9. StayAlive' /\ AllLead' /\ halfway' \subseteq setting.rename
  BY <1>0 DEF Renaming, StayAlive, AllLead, Live, Leads, At, WasLive
<1> QED BY <1>0, <1>2, <1>5, <1>7, <1>8, <1>9, RenamerSteps DEF Renaming

\* The rename ends: nothing needs the old id any more.
LEMMA EndRenames ==
    ASSUME Renaming, RenamesAlone, setting \in Settings, NEW c \in Client, Renamed(c)
    PROVE  Renaming'
<1>0. /\ doc' = doc /\ anchor' = anchor /\ setting' = setting /\ faults' = faults
      /\ job[c].at = "anchors" /\ job[c] # Idle /\ Goes(c, Idle) /\ DOMAIN job[c].seats = {}
      /\ halfway' = halfway \ {<<job[c].old, job[c].new>>}
  BY DEF Renamed, Idle
<1>1. doc[job[c].old] = NoDoc
  BY <1>0, Renamer DEF RenameOK
<1>2. RenameOK(c)'
  BY <1>0, StepAt DEF Idle, Renaming, RenameOK, RenameSteps
<1>3. StayAlive' /\ halfway' \subseteq setting.rename
  BY <1>0 DEF Renaming, StayAlive, WasLive
<1>4. AllLead'
  <2> SUFFICES ASSUME NEW i \in Id, Live(i), NEW who \in setting.docs[doc[i].who].links,
                      WasLive(who), NEW l \in doc[i].links,
                      NEW r \in halfway, r[2] = l, At(r[1], who)
               PROVE  r \in halfway'
    BY <1>0 DEF Renaming, AllLead, Live, Leads, At, WasLive
  <2>1. r[1] # job[c].old
    BY <1>1 DEF At
  <2> QED BY <1>0, <2>1
<1>5. ASSUME NEW s \in Seat, NEW p \in {"task", "document"}, faults = 0, anchor'[s] # NoSeat,
             Began(s, p)
      PROVE  Points(c, s, p)'
  <2>1. Points(c, s, p)
    BY <1>0, <1>5, Renamer DEF Anchored
  <2> QED BY <1>0, <2>1 DEF Points, At, Fixing
<1> QED BY <1>0, <1>2, <1>3, <1>4, <1>5, RenamerSteps DEF Renaming

LEMMA CutRenames ==
    ASSUME Renaming, setting' = setting, NEW cs \in SUBSET Client, CutShort(cs)
    PROVE  Renaming'
<1>0. /\ doc' = doc /\ anchor' = anchor /\ halfway' = halfway /\ faults' = faults + 1
      /\ faults' \in Nat /\ faults' # 0
  BY DEF CutShort, Renaming
<1>1. StayAlive' /\ AllLead'
  BY <1>0 DEF Renaming, StayAlive, AllLead, Live, Leads, At, WasLive
<1>2. ASSUME NEW c \in Client, setting.does[c] # {} PROVE RenameOK(c)' /\ Anchored(c)'
  <2>1. Anchored(c)'
    BY <1>0 DEF Anchored
  <2>2. CASE c \in cs
    BY <2>1, <2>2 DEF CutShort, RenameOK, RenameSteps, Idle
  <2>3. CASE c \notin cs
    <3>1. job'[c] = job[c] /\ RenameOK(c)
      BY <1>2, <2>3 DEF CutShort, Renaming
    <3> QED BY <1>0, <2>1, <3>1 DEF RenameOK, Live
  <2> QED BY <2>2, <2>3
<1>3. ASSUME NEW c \in Client, setting.does[c] = {} PROVE job'[c] = Idle
  BY <1>3 DEF CutShort, Renaming
<1>4. job' = [c \in Client |-> job'[c]]
  BY DEF CutShort
<1> QED BY <1>0, <1>1, <1>2, <1>3, <1>4 DEF Renaming

LEMMA NothingRenames == ASSUME Renaming, UNCHANGED vars PROVE Renaming'
<1>1. StayAlive' /\ AllLead'
  BY DEF vars, Renaming, StayAlive, AllLead, Live, Leads, At, WasLive
<1>2. ASSUME NEW c \in Client, setting.does[c] # {} PROVE RenameOK(c)' /\ Anchored(c)'
  <2>1. RenameOK(c) /\ Anchored(c)
    BY <1>2 DEF Renaming
  <2>2. RenameOK(c)'
    BY <2>1 DEF vars, RenameOK, Live
  <2> QED BY <2>1, <2>2 DEF vars, Anchored, Points, Fixing, Began, At, WasLive
<1> QED BY <1>1, <1>2 DEF vars, Renaming

\* Nobody does anything but rename.
LEMMA OnlyRenames ==
    ASSUME Renaming, RenamesAlone, NEW c \in Client
    PROVE  /\ \A n \in Name : ~CreateTask(c, n) /\ ~CreateProject(c, n)
           /\ \A i \in Id : /\ ~AddDocument(c, i) /\ ~UpdateDocument(c, i)
                            /\ ~UpdateDocumentWeb(c, i) /\ ~UpdateTask(c, i)
                            /\ ~UpdateProject(c, i) /\ ~QueueReads(c, i)
                            /\ ~DeleteTask(c, i) /\ ~DeleteProject(c, i)
           /\ \A i \in Id, purge \in BOOLEAN :
                 ~DeleteDocument(c, i, purge) /\ ~DeleteDocumentWeb(c, i, purge)
           /\ \A i \in Id, t \in Seat : /\ ~SetProjectStatus(c, i, t)
                                        /\ ~ActivateDocument(c, i, t) /\ ~ActivateTask(c, i, t)
           /\ \A s \in Seat : ~Deactivate(c, s)
           /\ ~Probe(c) /\ ~Insert(c) /\ ~Put(c) /\ ~Reread(c) /\ ~WriteBack(c)
           /\ ~Remove(c) /\ ~Point(c) /\ ~PointTask(c)
<1>1. setting.does[c] \in {{}, {"rename"}} /\ job[c].at \in RenameSteps
  <2>1. setting.does[c] \in {{}, {"rename"}}
    BY DEF RenamesAlone
  <2>2. IF setting.does[c] = {} THEN job[c] = Idle ELSE RenameOK(c)
    BY DEF Renaming
  <2>3. job[c].at \in RenameSteps
    BY <2>2 DEF RenameOK, RenameSteps, Idle
  <2> QED BY <2>1, <2>3
<1>2. \A request : request # "rename" => ~Begin(c, request)
  BY <1>1 DEF Begin
<1>3. ~Begin(c, "create") /\ ~Begin(c, "add") /\ ~Begin(c, "update") /\ ~Begin(c, "queue")
      /\ ~Begin(c, "delete") /\ ~Begin(c, "activate")
  BY <1>2
<1>4. ~Probe(c) /\ ~Insert(c) /\ ~Put(c) /\ ~Reread(c) /\ ~WriteBack(c) /\ ~Remove(c)
      /\ ~Point(c) /\ ~PointTask(c)
  BY <1>1 DEF RenameSteps, Probe, Insert, Put, Reread, WriteBack, Remove, Point, PointTask
<1>5. \A i \in Id : /\ ~AddDocument(c, i) /\ ~UpdateDocument(c, i)
                    /\ ~UpdateDocumentWeb(c, i) /\ ~UpdateTask(c, i)
                    /\ ~UpdateProject(c, i) /\ ~QueueReads(c, i)
                    /\ ~DeleteTask(c, i) /\ ~DeleteProject(c, i)
  BY <1>3 DEF AddDocument, UpdateDocument, UpdateDocumentWeb, UpdateTask, UpdateProject,
              QueueReads, DeleteTask, DeleteProject
<1>6. \A i \in Id, purge \in BOOLEAN :
         ~DeleteDocument(c, i, purge) /\ ~DeleteDocumentWeb(c, i, purge)
  BY <1>3 DEF DeleteDocument, DeleteDocumentWeb
<1>7. \A i \in Id, t \in Seat : /\ ~SetProjectStatus(c, i, t)
                                /\ ~ActivateDocument(c, i, t) /\ ~ActivateTask(c, i, t)
  BY <1>3 DEF SetProjectStatus, ActivateDocument, ActivateTask
<1>8. \A n \in Name : ~CreateTask(c, n) /\ ~CreateProject(c, n)
  BY <1>3 DEF CreateTask, CreateProject, CreateItem
<1>9. \A s \in Seat : ~Deactivate(c, s)
  BY <1>3 DEF Deactivate
<1> QED BY <1>4, <1>5, <1>6, <1>7, <1>8, <1>9

LEMMA NextRenames == RenameInv /\ [Next]_vars => RenameInv'
<1> SUFFICES ASSUME RenameInv, [Next]_vars PROVE RenameInv'
  OBVIOUS
<1>1. setting' = setting /\ setting \in Settings
  BY SettingStays DEF RenameInv
<1> SUFFICES ASSUME RenamesAlone PROVE Renaming'
  BY <1>1 DEF RenameInv, RenamesAlone
<1>2. Renaming
  BY DEF RenameInv
<1>3. CASE Next
  <2>1. CASE CutShort(Client)
    BY <1>1, <1>2, <2>1, CutRenames
  <2>2. ASSUME NEW c \in Client, CutShort({c}) PROVE Renaming'
    BY <1>1, <1>2, <2>2, CutRenames
  <2>3. ASSUME NEW c \in Client, NEW i \in Id, Cascade(c, i) PROVE Renaming'
    BY <1>1, <1>2, <2>3, CascadeRenames
  <2>4. ASSUME NEW c \in Client, NEW s \in Seat, PutSeat(c, s) PROVE Renaming'
    BY <1>1, <1>2, <2>4, PutRenames
  <2>5. ASSUME NEW c \in Client,
               \/ \E old, new \in Id, named \in BOOLEAN : Rename(c, old, new, named)
               \/ Scan(c) \/ Take(c) \/ Look(c) \/ Give(c) \/ PurgeOld(c)
               \/ ReadNamed(c) \/ WriteNamed(c) \/ ListSeats(c) \/ Renamed(c)
        PROVE  Renaming'
    BY <1>1, <1>2, <2>5, RenameRenames, ScanRenames, LooksRename, GiveRenames, PurgeRenames,
       NamesRename, ListRenames, EndRenames
  <2> QED BY <1>2, <1>3, <2>1, <2>2, <2>3, <2>4, <2>5, OnlyRenames DEF Next
<1>4. CASE UNCHANGED vars
  BY <1>2, <1>4, NothingRenames
<1> QED BY <1>3, <1>4

\* However many documents a rename touches and wherever it is cut short, each reference
\* to a live document leads to it, or to the new id of a rename that has not moved it yet;
\* and when nothing was cut short the anchors of seats lead to theirs.
THEOREM RenamesMoveAll == Spec => []RenameMovesAll
<1>1. ASSUME RenameInv PROVE RenameMovesAll
  <2> SUFFICES ASSUME RenamesAlone, Renaming PROVE RenameMovesAll
    BY <1>1 DEF RenameInv, RenameMovesAll
  <2>1. PICK c \in Client : setting.does[c] = {"rename"}
    BY DEF RenamesAlone
  <2>2. RenameOK(c) /\ Anchored(c)
    BY <2>1, Renamer
  <2>3. ASSUME faults = 0, job[c] = Idle, NEW s \in Seat, anchor[s] # NoSeat,
               NEW p \in {"task", "document"}, Began(s, p)
        PROVE  At(anchor[s][p], setting.anchors[s][p])
    BY <2>2, <2>3 DEF Anchored, Points, Fixing, Idle
  <2> QED BY <2>1, <2>3 DEF RenameMovesAll, Renaming, AllLead, Leads, Began
<1> QED BY <1>1, InitRenames, NextRenames, PTL DEF Spec
=============================================================================
