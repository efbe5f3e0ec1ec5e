------------------------------- MODULE Stores -------------------------------
(***************************************************************************)
(* The two stores that are databases (crates/slc-core/src/storage/sqlite.rs*)
(* and mongodb.rs), one of them in each behaviour: documents, history,     *)
(* vectors and the counters of a seat, as the engine's requests use them.  *)
(*                                                                         *)
(* SQLite runs a call's statements one after the other behind one lock and *)
(* without a transaction; MongoDB runs single commands, and a call of      *)
(* several of them is interleaved with other calls.  A call that SQLite    *)
(* and MongoDB make alike is one action.  kb_rename is the trait's default *)
(* (storage/mod.rs), of several calls, in both.                            *)
(*                                                                         *)
(* LockUnheld is a deliberate mistake.                                     *)
(***************************************************************************)
EXTENDS Naturals, FiniteSets, Functions

CONSTANTS
    StId,        \* ids of documents and of history
    StClient,    \* requests in flight
    StSettings   \* the store and who uses it, one of them in each behaviour

NoRow == [who |-> "no row"]
StIdle == [at |-> "idle"]
Nobody == "nobody"

StRequest == {"add", "put", "rename", "delete", "purge", "note", "digest", "mark", "count", "sweep",
              "activate", "close", "arm", "fire", "keep", "drop"}

StSetting ==
    [ engine : {"sqlite", "mongo"},
      does   : [StClient -> SUBSET StRequest],
      own    : [StClient -> SUBSET StId],   \* ids a client's requests are about
      ops    : Nat,                         \* requests (bound)
      faults : Nat ]                        \* failed statements and crashes (bound)

ASSUME StoresAssumption == StSettings \subseteq StSetting /\ Nobody \notin StClient

\* Of two clients that write rows, one of them over a row that is there, neither has
\* an id of the other's: kb_replace and kb_rename write back what they have read.
ASSUME RowsApart ==
    \A s \in StSettings : \A c, d \in StClient :
        /\ c # d /\ s.does[c] \cap {"put", "rename"} # {}
        /\ s.does[d] \cap {"add", "put", "rename"} # {}
        => s.own[c] \cap s.own[d] = {}

VARIABLES
    stSetting,  \* chosen at the start and left alone
    kb,        \* documents: row of each id, named by the id it was first stored under
    past,       \* history
    vec,        \* whose vector is stored for an id
    requests,   \* usage_stats.total_requests of a seat
    side,       \* the seat's anchors and status, a timer, the records of a collection
    conn,       \* who holds SQLite's connection
    stJob,      \* where each request is
    at,         \* ids at one of which each document must be found
    noted,      \* ids of history that was stored
    counted,    \* counts that were answered
    stOps, stFaults

stVars == <<stSetting, kb, past, vec, requests, side, conn, stJob, at, noted, counted, stOps, stFaults>>

Sqlite == stSetting.engine = "sqlite"
Mongo == stSetting.engine = "mongo"
StLive(i) == kb[i] # NoRow /\ ~kb[i].dead

\* What kb_get returns: MongoDB does not look at deleted_at.
Gets(i) == IF Sqlite THEN StLive(i) ELSE kb[i] # NoRow

\* MongoDB keeps documents and history in one collection, under one key.
Taken(i) == kb[i] # NoRow \/ past[i] # NoRow

LockUnheld(c) == TRUE

\* The lock around the connection, which a call holds through its closure.
LockHeld(c) == Sqlite => conn \in {Nobody, c}
Holds(c) == conn' = IF Sqlite THEN c ELSE conn
Releases(c) == conn' = IF conn = c THEN Nobody ELSE conn

Moves(c, to) == stJob' = [stJob EXCEPT ![c] = to]
To(c, there) == Moves(c, [stJob[c] EXCEPT !.at = there])
Ends(c) == Moves(c, StIdle)
Tables == <<kb, past, vec, requests, side>>
Bounds == <<stSetting, stOps, stFaults, noted, counted>>

----------------------------------------------------------------------------
(* Requests *)

StInit ==
    /\ stSetting \in StSettings
    /\ kb = [i \in StId |-> NoRow] /\ past = kb
    /\ vec = [i \in StId |-> Nobody]
    /\ side = [document |-> Nobody, task |-> Nobody, open |-> TRUE,
               timer |-> "none", records |-> {}]
    /\ requests = 0 /\ counted = 0 /\ noted = {} /\ conn = Nobody
    /\ stJob = [c \in StClient |-> StIdle]
    /\ at = [i \in StId |-> {}]
    /\ stOps = 0 /\ stFaults = 0

StBegin(c, r, i, j) ==
    /\ stJob[c] = StIdle /\ stOps < stSetting.ops
    /\ r \in stSetting.does[c] /\ {i, j} \subseteq stSetting.own[c]
    /\ i = j <=> r # "rename"
    \* a document is named by its first id: no other of that name is about
    /\ r = "add" => \A k \in StId \ {i} : kb[k].who # i
    /\ stOps' = stOps + 1
    /\ Moves(c, [at |-> r, id |-> i, new |-> j, copy |-> NoRow])
    /\ UNCHANGED <<stSetting, Tables, conn, at, noted, counted, stFaults>>

\* kb_insert, of a document its caller did not find.  SQLite overwrites a row.
StAdd(c) == LET i == stJob[c].id row == [who |-> i, dead |-> FALSE] IN
    /\ stJob[c].at = "add" /\ LockHeld(c) /\ UNCHANGED <<past, vec, requests, side, conn, Bounds>>
    /\ \/ /\ ~Gets(i) /\ (Mongo => ~Taken(i))
          /\ kb' = [kb EXCEPT ![i] = row]
          /\ at' = [at EXCEPT ![i] = {i}]
          /\ To(c, "unembed")
       \/ /\ Gets(i) \/ (Mongo /\ Taken(i))
          /\ Ends(c) /\ UNCHANGED <<kb, at>>

\* kb_replace looks whether the id is there and writes the whole row.
PutLooks(c) == LET i == stJob[c].id IN
    /\ stJob[c].at = "put" /\ LockHeld(c)
    /\ IF Gets(i) THEN Moves(c, [stJob[c] EXCEPT !.at = "replace", !.copy = kb[i]]) ELSE Ends(c)
    /\ UNCHANGED <<Tables, conn, at, Bounds>>
PutWrites(c) == LET i == stJob[c].id IN
    /\ stJob[c].at = "replace" /\ LockHeld(c)
    /\ kb' = [kb EXCEPT ![i] = stJob[c].copy]
    /\ To(c, "unembed")
    /\ UNCHANGED <<past, vec, requests, side, conn, at, Bounds>>

\* embed_document after a write: the old vector goes, the new one is stored.
Unembed(c) == LET j == stJob[c].new IN
    /\ stJob[c].at = "unembed" /\ LockHeld(c)
    /\ vec' = [vec EXCEPT ![j] = Nobody, ![stJob[c].id] = Nobody]
    /\ To(c, "embed")
    /\ UNCHANGED <<kb, past, requests, side, conn, at, Bounds>>
Embed(c) == LET j == stJob[c].new IN
    /\ stJob[c].at = "embed" /\ LockHeld(c)
    /\ vec' = [vec EXCEPT ![j] = IF kb[j] = NoRow \/ (Mongo /\ @ # Nobody) THEN @ ELSE kb[j].who]
    /\ Ends(c)
    /\ UNCHANGED <<kb, past, requests, side, conn, at, Bounds>>

\* kb_soft_delete and kb_purge: the vector stays.
StDelete(c) == LET i == stJob[c].id IN
    /\ stJob[c].at = "delete" /\ LockHeld(c)
    /\ kb' = IF kb[i] = NoRow THEN kb ELSE [kb EXCEPT ![i].dead = TRUE]
    /\ at' = [w \in StId |-> IF kb[i].who = w THEN {} ELSE at[w]]
    /\ Ends(c) /\ UNCHANGED <<past, vec, requests, side, conn, Bounds>>
PurgeRow(i) == kb' = [kb EXCEPT ![i] = NoRow] /\ UNCHANGED past
StPurge(c) == LET i == stJob[c].id IN
    /\ stJob[c].at = "purge" /\ LockHeld(c) /\ PurgeRow(i)
    /\ at' = [w \in StId |-> IF kb[i].who = w THEN {} ELSE at[w]]
    /\ Ends(c) /\ UNCHANGED <<vec, requests, side, conn, Bounds>>

\* kb_cleanup_graveyard, started by hand: every document deleted before the cutoff.
StSweep(c) ==
    /\ stJob[c].at = "sweep" /\ LockHeld(c)
    /\ kb' = [i \in StId |-> IF StLive(i) THEN kb[i] ELSE NoRow]
    /\ Ends(c) /\ UNCHANGED <<past, vec, requests, side, conn, at, Bounds>>

----------------------------------------------------------------------------
(* kb_rename.  The engine calls the store through Arc<dyn StorageBackend>,  *)
(* whose delegation leaves kb_rename out, so that for every store the       *)
(* trait's default runs: four calls that other requests may come between.   *)

AtNew(w, j) == [at EXCEPT ![w] = {j}]
Either(w, j) == [at EXCEPT ![w] = @ \cup (IF @ = {} THEN {} ELSE {j})]

RenameReads(c) == LET i == stJob[c].id IN
    /\ stJob[c].at = "rename" /\ LockHeld(c)
    /\ IF ~Gets(i) THEN Ends(c)
       ELSE Moves(c, [stJob[c] EXCEPT !.at = "rename free", !.copy = kb[i]])
    /\ UNCHANGED <<Tables, conn, at, Bounds>>
RenameLooks(c) ==
    /\ stJob[c].at = "rename free" /\ LockHeld(c)
    /\ To(c, IF Gets(stJob[c].new) THEN "refused" ELSE "rename insert")
    /\ UNCHANGED <<Tables, conn, at, Bounds>>

\* kb_insert: MongoDB refuses an id that is taken, SQLite overwrites.
RenameCopies(c) == LET j == stJob[c].new w == stJob[c].copy.who IN
    /\ stJob[c].at = "rename insert" /\ LockHeld(c)
    /\ UNCHANGED <<past, vec, requests, side, conn, Bounds>>
    /\ \/ /\ Mongo => ~Taken(j)
          /\ kb' = [kb EXCEPT ![j] = stJob[c].copy]
          /\ at' = Either(w, j)
          /\ To(c, "rename purge")
       \/ Mongo /\ Taken(j) /\ To(c, "refused") /\ UNCHANGED <<kb, at>>
RenamePurges(c) == LET w == stJob[c].copy.who IN
    /\ stJob[c].at = "rename purge" /\ LockHeld(c) /\ PurgeRow(stJob[c].id)
    /\ at' = IF at[w] = {} THEN at ELSE AtNew(w, stJob[c].new)
    /\ To(c, "unembed")
    /\ UNCHANGED <<vec, requests, side, conn, Bounds>>

\* The error is answered.
StRefused(c) ==
    /\ stJob[c].at = "refused" /\ Ends(c)
    /\ UNCHANGED <<Tables, conn, at, Bounds>>

----------------------------------------------------------------------------
(* History and counters *)

\* episodic_insert, which both stores refuse for an id that is there.
StNote(c) == LET i == stJob[c].id IN
    /\ stJob[c].at = "note" /\ LockHeld(c)
    /\ IF past[i] # NoRow \/ (Mongo /\ Taken(i)) THEN UNCHANGED <<past, noted>>
       ELSE past' = [past EXCEPT ![i] = [who |-> i, marked |-> FALSE]] /\ noted' = noted \cup {i}
    /\ Ends(c) /\ UNCHANGED <<kb, vec, requests, side, conn, at, stSetting, stOps, stFaults, counted>>

\* episodic_upsert: SQLite updates and, without a row, inserts, in one closure;
\* MongoDB replaces or inserts in one command.
DigestUpdates(c) == LET i == stJob[c].id IN
    /\ stJob[c].at = "digest" /\ Sqlite /\ LockHeld(c)
    /\ IF past[i] # NoRow
       THEN past' = [past EXCEPT ![i].marked = FALSE] /\ Ends(c) /\ UNCHANGED conn
       ELSE To(c, "digest insert") /\ Holds(c) /\ UNCHANGED past
    /\ UNCHANGED <<kb, vec, requests, side, at, Bounds>>
DigestInserts(c) == LET i == stJob[c].id IN
    /\ \/ stJob[c].at = "digest insert"
       \/ stJob[c].at = "digest" /\ Mongo
    /\ IF Mongo /\ kb[i] # NoRow THEN UNCHANGED <<past, noted>>
       ELSE past' = [past EXCEPT ![i] = [who |-> i, marked |-> FALSE]] /\ noted' = noted \cup {i}
    /\ Releases(c) /\ Ends(c)
    /\ UNCHANGED <<kb, vec, requests, side, at, stSetting, stOps, stFaults, counted>>

\* episodic_patch_meta: SQLite reads the rows and updates one after the other by
\* id, in calls of their own; MongoDB updates all in one command.
MarkReads(c) ==
    /\ stJob[c].at = "mark" /\ Sqlite /\ LockHeld(c)
    /\ Moves(c, [stJob[c] EXCEPT !.at = "mark rows", !.copy = {i \in StId : past[i] # NoRow}])
    /\ UNCHANGED <<Tables, conn, at, Bounds>>
MarkRow(c) ==
    /\ stJob[c].at = "mark rows" /\ LockHeld(c)
    /\ \/ \E i \in stJob[c].copy :
            /\ past' = IF past[i] = NoRow THEN past ELSE [past EXCEPT ![i].marked = TRUE]
            /\ Moves(c, [stJob[c] EXCEPT !.copy = @ \ {i}])
       \/ stJob[c].copy = {} /\ Ends(c) /\ UNCHANGED past
    /\ UNCHANGED <<kb, vec, requests, side, conn, at, Bounds>>
MarkAll(c) ==
    /\ stJob[c].at = "mark" /\ Mongo
    /\ past' = [i \in StId |-> IF past[i] = NoRow THEN NoRow ELSE [past[i] EXCEPT !.marked = TRUE]]
    /\ Ends(c) /\ UNCHANGED <<kb, vec, requests, side, conn, at, Bounds>>

\* incr_seat_stats: SQLite reads and writes in one closure, MongoDB has $inc.
CountReads(c) ==
    /\ stJob[c].at = "count" /\ Sqlite /\ LockHeld(c) /\ Holds(c)
    /\ Moves(c, [stJob[c] EXCEPT !.at = "count writes", !.copy = requests])
    /\ UNCHANGED <<Tables, at, Bounds>>
CountWrites(c) ==
    /\ \/ stJob[c].at = "count writes" /\ requests' = stJob[c].copy + 1
       \/ stJob[c].at = "count" /\ Mongo /\ requests' = requests + 1
    /\ counted' = counted + 1
    /\ Releases(c) /\ Ends(c)
    /\ UNCHANGED <<kb, past, vec, side, at, noted, stSetting, stOps, stFaults>>

\* Statements on one row.  document_activate points the seat's anchor at the document
\* and, for a task, then both anchors; cleaning up closes an expired seat; a timer is
\* written whole and marked fired; records are put and deleted.
OnSide(c, r, new, to) ==
    /\ stJob[c].at = r /\ LockHeld(c) /\ side' = new /\ To(c, to)
    /\ UNCHANGED <<kb, past, vec, requests, conn, at, Bounds>>
Done(c, r, new) ==
    /\ stJob[c].at = r /\ LockHeld(c) /\ side' = new /\ Ends(c)
    /\ UNCHANGED <<kb, past, vec, requests, conn, at, Bounds>>

AnchorDocument(c) == stJob[c].at = "activate" /\ Gets(stJob[c].id) /\
    OnSide(c, "activate", [side EXCEPT !.document = stJob[c].id], "activate task")
AnchorNothing(c) == stJob[c].at = "activate" /\ ~Gets(stJob[c].id) /\ Done(c, "activate", side)
AnchorTask(c) ==
    \/ Done(c, "activate task", [side EXCEPT !.document = stJob[c].id, !.task = stJob[c].id])
    \/ Done(c, "activate task", side)    \* not a task
CloseSeat(c) == Done(c, "close", [side EXCEPT !.open = FALSE])
ArmTimer(c) == Done(c, "arm", [side EXCEPT !.timer = "armed"])
FireTimer(c) == Done(c, "fire", [side EXCEPT !.timer = IF @ = "none" THEN @ ELSE "fired"])
KeepRecord(c) == Done(c, "keep", [side EXCEPT !.records = @ \cup {stJob[c].id}])
DropRecord(c) == Done(c, "drop", [side EXCEPT !.records = @ \ {stJob[c].id}])

----------------------------------------------------------------------------
(* Failures *)

\* A statement fails: the call answers an error, what it wrote before stays.  A
\* failure around a vector is not noticed.
StFails(c) ==
    /\ stJob[c].at \notin {"idle", "refused"} /\ stFaults < stSetting.faults
    /\ stFaults' = stFaults + 1
    /\ IF stJob[c].at = "unembed" THEN To(c, "embed")
       ELSE IF stJob[c].at \in {"rename", "rename free", "rename insert", "rename purge"}
       THEN To(c, "refused") ELSE Ends(c)
    /\ Releases(c)
    /\ UNCHANGED <<stSetting, Tables, at, noted, counted, stOps>>

\* The process stops and is started again: SQLite keeps each statement it ran.
StCrash ==
    /\ stFaults < stSetting.faults /\ stFaults' = stFaults + 1
    /\ stJob' = [c \in StClient |-> StIdle] /\ conn' = Nobody
    /\ UNCHANGED <<stSetting, Tables, at, noted, counted, stOps>>

StNext ==
    \/ \E c \in StClient :
        \/ \E r \in StRequest, i, j \in StId : StBegin(c, r, i, j)
        \/ StAdd(c) \/ PutLooks(c) \/ PutWrites(c) \/ Unembed(c) \/ Embed(c)
        \/ StDelete(c) \/ StPurge(c) \/ StSweep(c)
        \/ StRefused(c) \/ RenameReads(c) \/ RenameLooks(c) \/ RenameCopies(c) \/ RenamePurges(c)
        \/ StNote(c) \/ DigestUpdates(c) \/ DigestInserts(c)
        \/ MarkReads(c) \/ MarkRow(c) \/ MarkAll(c)
        \/ CountReads(c) \/ CountWrites(c) \/ StFails(c)
        \/ AnchorDocument(c) \/ AnchorNothing(c) \/ AnchorTask(c) \/ CloseSeat(c)
        \/ ArmTimer(c) \/ FireTimer(c) \/ KeepRecord(c) \/ DropRecord(c)
    \/ StCrash

StSpec == StInit /\ [][StNext]_stVars

----------------------------------------------------------------------------
(* Properties *)

\* What the stores answered to have stored is there, whatever failed since: a
\* document that nobody deleted under its id, or under one of two while its rename
\* is unfinished or failed; history that was noted for ever, also when a document
\* has its id; and no answered tool call is missing from the seat's counter.
StoredIsKept ==
    /\ \A w \in StId : at[w] # {} => \E i \in at[w] : StLive(i) /\ kb[i].who = w
    /\ \A i \in noted : past[i] # NoRow
    /\ counted <= requests
=============================================================================
