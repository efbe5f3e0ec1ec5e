----------------------------- MODULE VaultNotes -----------------------------
(***************************************************************************)
(* The notes of the Obsidian vault store                                   *)
(* (crates/slc-core/src/storage/obsidian.rs): one file per document, and an*)
(* index in memory from document id to the place of its file.              *)
(*                                                                         *)
(* A request looks into the index, writes a file and updates the index in  *)
(* separate steps.  A restart builds the index from the files; no refresh  *)
(* does, and no rename of the store runs, because the Arc the engine keeps *)
(* passes neither on (storage/mod.rs): a rename is an insert and a purge.  *)
(* A note is abstracted to the id in its frontmatter and to whether it is  *)
(* soft-deleted.                                                           *)
(*                                                                         *)
(* ClearNothing and PurgeNothing are deliberate mistakes that show what    *)
(* the properties notice.                                                  *)
(***************************************************************************)
EXTENDS Naturals, FiniteSets, Functions

CONSTANTS
    Folder,     \* folders, with the vault's own directory
    Top,        \* the vault's own directory
    Id,         \* document ids
    Name,       \* stems of file names; a stem can be an id
    Client,     \* requests in flight
    Home,       \* default_folder
    Settings    \* who does what around the store, one of them in each behaviour

ByRule == "by rule"     \* file_name: None
Unnamed == "unnamed"    \* no id in the frontmatter
NoNote == [id |-> "no note"]
NoEntry == [stem |-> "no entry"]

Place == Folder \X Name
Note == [id : Id \cup {Unnamed}, dead : BOOLEAN]
Entry == [folder : Folder, stem : Name \cup {ByRule}, dead : BOOLEAN]

Setting ==
    [ safe   : [Id -> Name],           \* safe_file_name
      own    : [Client -> SUBSET Id],  \* the ids each client's requests are about
      moves  : BOOLEAN,                \* a request may name another folder
      hand   : SUBSET (Folder \X Id),  \* places for notes a person left, without frontmatter
      ops    : Nat,                    \* requests (bound)
      faults : Nat ]                   \* crashes and failed file operations (bound)

ASSUME NotesAssumption ==
    /\ Top \in Folder /\ Id \subseteq Name
    /\ Home \in [Id -> Folder \ {Top}]
    /\ Settings \subseteq Setting
    /\ Unnamed \notin Id

\* Unless a person left notes in the vault's own directory: each client keeps to ids
\* of its own, ids have file names of their own, and what a person left has a file
\* name that is its id.  Beside crashes documents stay in one folder.
ASSUME NotesApart ==
    \A s \in Settings : (\A p \in s.hand : p[1] # Top) =>
        /\ \A i, j \in Id : s.safe[i] = s.safe[j] => i = j
        /\ \A c, d \in Client : c # d => s.own[c] \cap s.own[d] = {}
        /\ \A p \in s.hand : s.safe[p[2]] = p[2]
        /\ s.faults > 0 => ~s.moves /\ \A p \in s.hand : p[1] = Home[p[2]]

VARIABLES
    setting,  \* chosen at the start and left alone
    file,     \* the note at each place
    index,    \* the entry of each id
    job,      \* where each request is
    open,     \* the store was opened
    ops, faults,
    answer    \* what the last answered request about an id promised

vars == <<setting, file, index, job, open, ops, faults, answer>>

Idle == [at |-> "idle"]
Busy(i) == \E c \in Client : job[c] # Idle /\ job[c].id = i

----------------------------------------------------------------------------
(* Files and index *)

Explicit(files, i) == {p \in Place : files[p] # NoNote /\ files[p].id = i}

\* Two notes with the same id in their frontmatter: the index is not rebuilt.
Duplicates(files) == \E i \in Id : Cardinality(Explicit(files, i)) > 1

\* The entry an id gets from the files: an id in the frontmatter wins over a
\* file's name, and of files with the same name the first one met, in folder d.
Built(files, i, d) ==
    IF Explicit(files, i) # {}
      THEN LET p == CHOOSE p \in Explicit(files, i) : TRUE
           IN  [folder |-> p[1], stem |-> ByRule, dead |-> files[p].dead]
    ELSE IF files[<<d, i>>] # NoNote /\ files[<<d, i>>].id = Unnamed
      THEN [folder |-> d, stem |-> i, dead |-> files[<<d, i>>].dead]
    ELSE NoEntry

Named(files, i) == {d \in Folder : files[<<d, i>>] # NoNote /\ files[<<d, i>>].id = Unnamed}

\* The indexes a scan of these files may end with.
Rebuilt(files) ==
    LET found(i) == IF Named(files, i) = {} THEN {Top} ELSE Named(files, i)
    IN  {[i \in Id |-> Built(files, i, met[i])] :
            met \in {m \in [Id -> Folder] : \A i \in Id : m[i] \in found(i)}}

\* Where an entry's file is read and written.
Stem(i, entry) ==
    IF entry = NoEntry \/ entry.stem = ByRule THEN setting.safe[i] ELSE entry.stem

PlaceOf(i) == <<index[i].folder, Stem(i, index[i])>>

\* sanitize_folder refuses the empty name of the vault's own directory.
CanRead(i) == index[i] # NoEntry /\ index[i].folder # Top /\ file[PlaceOf(i)] # NoNote

\* The id a note that was read carries.
IdRead(i) == IF file[PlaceOf(i)].id = Unnamed THEN i ELSE file[PlaceOf(i)].id

----------------------------------------------------------------------------
(* Requests *)

Ask(c, i) ==
    /\ open /\ job[c] = Idle /\ i \in setting.own[c]
    /\ ops < setting.ops /\ ops' = ops + 1

\* A request goes on to write_note with this document.
Carry(c, i, d, dead) ==
    /\ job' = [job EXCEPT ![c] = [at |-> "look", id |-> i, folder |-> d, dead |-> dead]]
    /\ answer' = [answer EXCEPT ![i] = IF @ = "kept" THEN @ ELSE "none"]

\* Folders a request may name: sanitize_folder lets no other through.
Places(i) == IF setting.moves THEN Folder \ {Top} ELSE {Home[i]}

\* kb_insert, episodic_insert: refused when the index has the id; write_note takes
\* the lock again.
Insert(c, i, d) ==
    /\ Ask(c, i) /\ index[i] = NoEntry
    /\ Carry(c, i, d, FALSE)
    /\ UNCHANGED <<setting, file, index, open, faults>>

\* kb_replace, kb_upsert of an id the index has.
Replace(c, i, d) ==
    /\ Ask(c, i)
    /\ Carry(c, i, d, FALSE)
    /\ UNCHANGED <<setting, file, index, open, faults>>

\* kb_update_content, kb_patch_meta, kb_soft_delete, kb_restore: the note is
\* read, and written back under the id it carries.
Edit(c, i, dead) ==
    /\ Ask(c, i) /\ CanRead(i)
    /\ Carry(c, IdRead(i), index[i].folder, dead)
    /\ UNCHANGED <<setting, file, index, open, faults>>

\* write_note takes the index's entry, and the lock is released again.
Look(c) ==
    /\ job[c].at = "look"
    /\ job' = [job EXCEPT ![c] = [at |-> "write", id |-> @.id, folder |-> @.folder,
                                  dead |-> @.dead, previous |-> index[@.id]]]
    /\ UNCHANGED <<setting, file, index, open, ops, faults, answer>>

\* The request's document moves away from the folder of its entry.
Moving(c) == job[c].previous # NoEntry /\ job[c].previous.folder # job[c].folder

Written(c) == [file EXCEPT ![<<job[c].folder, Stem(job[c].id, job[c].previous)>>] =
                 [id |-> job[c].id, dead |-> job[c].dead]]

Write(c) ==
    /\ job[c].at = "write"
    /\ file' = Written(c)
    /\ job' = [job EXCEPT ![c].at = IF Moving(c) THEN "clear" ELSE "index"]
    /\ UNCHANGED <<setting, index, open, ops, faults, answer>>

ClearNothing(c) == file

\* The note at the old folder is removed.
Cleared(c) ==
    [file EXCEPT ![<<job[c].previous.folder, Stem(job[c].id, job[c].previous)>>] = NoNote]

Clear(c) ==
    /\ job[c].at = "clear"
    /\ job[c].previous.folder # Top
    /\ file' = Cleared(c)
    /\ job' = [job EXCEPT ![c].at = "index"]
    /\ UNCHANGED <<setting, index, open, ops, faults, answer>>

\* The old folder is not accepted: an error after the write.
ClearRefused(c) ==
    /\ job[c].at = "clear"
    /\ job[c].previous.folder = Top
    /\ job' = [job EXCEPT ![c] = Idle]
    /\ UNCHANGED <<setting, file, index, open, ops, faults, answer>>

\* IndexEntry::from_doc, which keeps no file name.
Indexed(c) == [folder |-> job[c].folder, stem |-> ByRule, dead |-> job[c].dead]

\* The index is updated; the copy of it that is persisted is never read back.
IndexIt(c) ==
    /\ job[c].at = "index"
    /\ index' = [index EXCEPT ![job[c].id] = Indexed(c)]
    /\ answer' = [answer EXCEPT ![job[c].id] = "kept"]
    /\ job' = [job EXCEPT ![c] = Idle]
    /\ UNCHANGED <<setting, file, open, ops, faults>>

\* kb_purge: the entry goes, then the file, with an await in between.
Purge(c, i) ==
    /\ Ask(c, i) /\ index[i] # NoEntry
    /\ index' = [index EXCEPT ![i] = NoEntry]
    /\ answer' = [answer EXCEPT ![i] = "none"]
    /\ job' = [job EXCEPT ![c] = [at |-> "purge", id |-> i, folder |-> index[i].folder]]
    /\ UNCHANGED <<setting, file, open, faults>>

PurgeNothing(c) == file

Purged(c) ==
    IF job[c].folder = Top THEN file
    ELSE [file EXCEPT ![<<job[c].folder, setting.safe[job[c].id]>>] = NoNote]

PurgeFile(c) ==
    /\ job[c].at = "purge"
    /\ file' = Purged(c)
    /\ answer' = [answer EXCEPT ![job[c].id] = IF job[c].folder = Top THEN @ ELSE "gone"]
    /\ job' = [job EXCEPT ![c] = Idle]
    /\ UNCHANGED <<setting, index, open, ops, faults>>

----------------------------------------------------------------------------
(* Faults *)

\* The file could not be removed: kb_purge answers the same.
PurgeLeaves(c) ==
    /\ job[c].at = "purge" /\ job[c].folder # Top
    /\ faults < setting.faults /\ faults' = faults + 1
    /\ answer' = [answer EXCEPT ![job[c].id] = "left"]
    /\ job' = [job EXCEPT ![c] = Idle]
    /\ UNCHANGED <<setting, file, index, open, ops>>

\* A file operation of write_note fails, and the request with it.
StepFails(c) ==
    /\ job[c].at \in {"write", "clear"}
    /\ faults < setting.faults /\ faults' = faults + 1
    /\ job' = [job EXCEPT ![c] = Idle]
    /\ UNCHANGED <<setting, file, index, open, ops, answer>>

\* A crash and a restart: the vault is opened if its index can be rebuilt.
Reopen ==
    /\ faults < setting.faults /\ faults' = faults + 1
    /\ job' = [c \in Client |-> Idle]
    /\ open' = ~Duplicates(file)
    /\ index' \in IF Duplicates(file) THEN {index} ELSE Rebuilt(file)
    /\ UNCHANGED <<setting, file, ops, answer>>

HandNote == [id |-> Unnamed, dead |-> FALSE]

Init ==
    /\ setting \in Settings
    /\ \E kept \in SUBSET setting.hand :
          file = [p \in Place |-> IF p \in kept THEN HandNote ELSE NoNote]
    /\ index \in Rebuilt(file)
    /\ job = [c \in Client |-> Idle] /\ open = TRUE
    /\ ops = 0 /\ faults = 0
    /\ answer = [i \in Id |-> "none"]

Step(c) ==
    \/ Look(c) \/ Write(c) \/ Clear(c) \/ ClearRefused(c) \/ IndexIt(c) \/ PurgeFile(c)

Next ==
    \/ \E c \in Client, i \in Id :
          \/ \E d \in Places(i) : Insert(c, i, d) \/ Replace(c, i, d)
          \/ \E dead \in BOOLEAN : Edit(c, i, dead)
          \/ Purge(c, i)
    \/ \E c \in Client : Step(c) \/ StepFails(c) \/ PurgeLeaves(c)
    \/ Reopen

Spec == Init /\ [][Next]_vars

----------------------------------------------------------------------------
(* Properties *)

TypeOK ==
    /\ setting \in Settings
    /\ file \in [Place -> Note \cup {NoNote}]
    /\ index \in [Id -> Entry \cup {NoEntry}]
    /\ \A c \in Client :
          \/ job[c] = Idle
          \/ job[c].at = "purge" /\ job[c].folder \in Folder
          \/ /\ job[c].at \in {"look", "write", "clear", "index"}
             /\ job[c].folder \in Folder \ {Top} /\ job[c].dead \in BOOLEAN
    /\ open \in BOOLEAN
    /\ answer \in [Id -> {"none", "kept", "gone", "left"}]

\* No note lies in the vault's own directory, whose name sanitize_folder refuses: such
\* a document cannot be read, moved or removed through the store.
Plain == \A p \in setting.hand : p[1] # Top

Settled == open /\ \A c \in Client : job[c] = Idle

\* Without faults, between requests no two notes carry one id, and every note that
\* carries an id is in the index where it lies: "leaving the old note behind
\* creates duplicate IDs" (obsidian.rs:850).
IndexFollowsFiles ==
    Plain /\ faults = 0 /\ Settled =>
        /\ ~Duplicates(file)
        /\ \A i \in Id : Explicit(file, i) # {} => index[i] = Built(file, i, Top)

\* What requests were told stays true until the next request about the id,
\* through restarts: a stored document is found, a purged one is not.  A purge
\* whose file could not be removed is answered alike (obsidian.rs:1280) and promises
\* nothing: the document comes back with the next restart.
AnswersHold ==
    Plain /\ open => \A i \in Id : ~Busy(i) =>
        /\ answer[i] = "kept" => index[i] # NoEntry /\ CanRead(i) /\ IdRead(i) = i
        /\ answer[i] = "gone" => index[i] = NoEntry /\ Explicit(file, i) = {}
=============================================================================
