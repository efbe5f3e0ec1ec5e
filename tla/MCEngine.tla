---------------------------- MODULE MCEngine -------------------------------
(***************************************************************************)
(* Small instances for TLC of what the seats keep: documents, focuses,     *)
(* memory and text objects, of the stores that are databases, and of the   *)
(* migration into a store.  They share no state; each behaviour is of one  *)
(* of them.                                                                *)
(***************************************************************************)
EXTENDS Documents, Focuses, Memory, ExternalState, Stores, Migration, TLC

CONSTANTS a, b, c, d, e, s1, s2, c1, c2, n, q1, q2, o, Parts

VARIABLE part

\* The first seat is an operator that manages the second.
ManagesOne == (s1 :> {s2}) @@ (s2 :> {})
SlugsOfName == n :> <<a, b, c>>

A(kind, owner, links, who) ==
    [kind |-> kind, owner |-> owner, dead |-> FALSE, links |-> links, edits |-> {}, who |-> who]
Empty == [i \in Id |-> NoDoc]

\* Two creators of one name, who also edit and activate, and in a vault add notes.
Building ==
    [ store |-> "vault", docs |-> Empty, anchors |-> (s1 :> NoSeat) @@ (s2 :> Blank),
      seat |-> (c1 :> s1) @@ (c2 :> s2),
      does |-> (c1 :> {"create", "update", "activate"}) @@ (c2 :> {"create", "add", "update"}),
      about |-> (c1 :> {a, b}) @@ (c2 :> {a, b}), rename |-> {}, ops |-> 4, faults |-> 1 ]
BuildingRows == [ Building EXCEPT !.store = "sqlite", !.does = [@ EXCEPT ![c2] = {"create", "update"}] ]

\* One client renames; documents of both seats refer to what it renames.
Renaming ==
    [ store |-> "vault",
      docs |-> (a :> A("project", Public, {}, a)) @@ (b :> A("task", s2, {a}, b))
               @@ (c :> A("flow", s1, {a, b}, c)) @@ (d :> NoDoc) @@ (e :> NoDoc),
      anchors |-> (s1 :> [task |-> NoId, document |-> a]) @@ (s2 :> [task |-> b, document |-> a]),
      seat |-> (c1 :> s2) @@ (c2 :> s1),
      does |-> (c1 :> {"rename"}) @@ (c2 :> {}),
      about |-> (c1 :> {}) @@ (c2 :> {}),
      rename |-> {<<a, d>>, <<d, a>>, <<b, e>>}, ops |-> 4, faults |-> 2 ]

\* A rename beside the queue and beside editors of documents it leaves alone.
Beside ==
    [ Renaming EXCEPT
      !.docs = [@ EXCEPT ![c] = A("flow", s1, {}, c), ![e] = A("task", s1, {}, e)],
      !.does = (c1 :> {"rename", "activate"}) @@ (c2 :> {"queue", "update", "delete"}),
      !.about = (c1 :> {}) @@ (c2 :> {c, e}), !.rename = {<<a, d>>}, !.faults = 1 ]

\* An operator and the seat it manages edit, delete and activate at once.
Managing ==
    [ Renaming EXCEPT
      !.docs = [@ EXCEPT ![c] = A("note", s2, {}, c)],
      !.does = [k \in {c1, c2} |-> {"update", "delete", "activate"}],
      !.about = [k \in {c1, c2} |-> {a, b, c}], !.rename = {}, !.ops = 2, !.faults = 0 ]

AllSettings == {Building, BuildingRows, Renaming, [Renaming EXCEPT !.store = "sqlite"], Beside, Managing}

----------------------------------------------------------------------------

\* One client adds, updates and archives focuses; one adds while another changes
\* and removes them.
OneChanges == (c1 :> {"add", "update", "archive"}) @@ (c2 :> {})
FocusRequests == {OneChanges, (c1 :> {"add", "remove"}) @@ (c2 :> {"add"})}

\* Two daily summaries make a digest, a digest is merged at once; a restart.
Weekly ==
    [ events |-> 3, week |-> 2, month |-> 1, newest |-> 20, lists |-> 500, looks |-> 100, facts |-> 1,
      last |-> 3, faults |-> 1, lenient |-> TRUE, runners |-> {q1}, harvests |-> FALSE ]

\* Insights are merged with older ones.
Merging == [Weekly EXCEPT !.events = 2, !.week = 1, !.last = 2]

\* Of three events the oldest two are listed, and the insights are not among the
\* oldest three documents.
Crowded == [Weekly EXCEPT !.week = 1, !.last = 2, !.lists = 2, !.looks = 3]

\* A timer and a tool call compress at once; insights are not reached.
Overlapping == [Merging EXCEPT !.month = 9, !.faults = 0, !.runners = {q1, q2}]

OverlappingVault == [Overlapping EXCEPT !.lenient = FALSE, !.faults = 1]

\* Facts are harvested, alone with a restart and beside a compression.
Harvesting == [Merging EXCEPT !.lenient = FALSE, !.events = 1, !.last = 1, !.harvests = TRUE]
HarvestingBeside == [Harvesting EXCEPT !.week = 9, !.faults = 0, !.runners = {q1, q2}]

\* The vault, with a daily summary that is enough for a digest.
VaultDays == {[Merging EXCEPT !.lenient = FALSE, !.faults = 0]}

AllSizes == {Weekly, Merging, Crowded, Overlapping, OverlappingVault, Harvesting, HarvestingBeside}

----------------------------------------------------------------------------

\* Documents of two ids in SQLite and in MongoDB, and what one row has.
TwoTables ==
    [ engine |-> "sqlite", own |-> (c1 :> {a, b}) @@ (c2 :> {a}), ops |-> 5, faults |-> 1,
      does |-> (c1 :> {"add", "put", "rename", "delete", "purge"}) @@ (c2 :> {"count", "mark", "digest", "sweep", "delete"}) ]
OneCollection == [TwoTables EXCEPT !.engine = "mongo"]
Counting ==
    [TwoTables EXCEPT !.does = [k \in {c1, c2} |-> {"count", "note", "mark"}], !.ops = 4, !.faults = 2]
Sides ==
    [ TwoTables EXCEPT !.ops = 4,
      !.does = (c1 :> {"add", "activate", "close", "arm", "fire", "keep", "drop"}) @@ (c2 :> {"count"}) ]
AllStores == {TwoTables, OneCollection, Counting, [Counting EXCEPT !.engine = "mongo"], Sides}

----------------------------------------------------------------------------

\* A project, a task, an entry of the diary and documents that link to each
\* other, one of them deleted; the same with a model that proposes the id of
\* another, into each store; the same as a vault, whose files are of one name.
L(kind, id, links) == [kind |-> kind, id |-> id, name |-> <<"x">>, links |-> links]
Python ==
    [ from |-> "mongo", to |-> "sqlite", ai |-> FALSE,
      docs |-> <<L("project", <<"p">>, {}), L("task", <<"t">>, {<<"p">>, <<"h">>}), L("deleted", <<"g">>, {}),
                 L("history", <<"h">>, {<<"q">>}), L("doc", <<"q">>, {<<"t">>, <<"h">>, <<"g">>})>>,
      seats |-> <<[task |-> <<"t">>, document |-> <<>>], [task |-> <<"t">>, document |-> <<"q">>]>> ]
Proposals == {<<"q">>, <<"y">>}
Named == {[Python EXCEPT !.ai = TRUE, !.to = store] : store \in {"sqlite", "mongo", "vault"}}
AllLegacy == {Python, [Python EXCEPT !.from = "vault", !.to = "vault"]} \cup Named

----------------------------------------------------------------------------

MCInit ==
    /\ part \in Parts /\ Init /\ FocusInit /\ MemInit /\ ObjectInit /\ StInit /\ MgInit
    /\ part = "documents" \/ setting = Building
    /\ part = "focuses" \/ asks = OneChanges
    /\ part = "memory" \/ sizes = Weekly
    /\ part = "stores" \/ stSetting = CHOOSE s \in StSettings : TRUE
    /\ part = "migration" \/ legacy = Python

\* A step changes the variables of its own part.
Only(p) ==
    /\ part = p /\ UNCHANGED part
    /\ p # "documents" => UNCHANGED vars
    /\ p # "focuses" => UNCHANGED focusVars
    /\ p # "memory" => UNCHANGED memVars
    /\ p # "objects" => UNCHANGED objectVars
    /\ p # "stores" => UNCHANGED stVars
    /\ p # "migration" => UNCHANGED mgVars

MCNext ==
    \/ Only("documents") /\ Next
    \/ Only("focuses") /\ FocusNext
    \/ Only("memory") /\ MemNext
    \/ Only("objects") /\ ObjectNext
    \/ Only("stores") /\ StNext
    \/ Only("migration") /\ MgNext

MCSpec == MCInit /\ [][MCNext]_<<part, vars, focusVars, memVars, objectVars, stVars, mgVars>>
=============================================================================
