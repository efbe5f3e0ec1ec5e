---------------------------- MODULE VaultSidecars ----------------------------
(***************************************************************************)
(* The part of the Obsidian vault store that is not notes                  *)
(* (crates/slc-core/src/storage/obsidian.rs): records, timers and          *)
(* embeddings, each a map in memory and one JSON file, and seats, a map in *)
(* memory and one JSON file per seat.                                      *)
(*                                                                         *)
(* A write changes memory under the map's mutex, releases it, and persists *)
(* under a second acquisition: the whole map as it then is, or, for a seat,*)
(* the copy taken at the change.  The files are read when the vault is     *)
(* opened and never again: the store's own refresh is not reached through  *)
(* the Arc the engine keeps, whose implementation leaves refresh to the    *)
(* trait's default.  What is written is abstracted to a stamp: a later     *)
(* change has a larger one.                                                *)
(*                                                                         *)
(* PersistCopy is a deliberate mistake that shows what a property notices. *)
(***************************************************************************)
EXTENDS Naturals

CONSTANTS
    Record,      \* keys of a map that is persisted as a whole
    Seat,        \* seats, persisted one by one
    SideWriter,      \* requests in flight
    MaxStamp,    \* changes (bound)
    MaxCrashes   \* restarts (bound)

ASSUME SidecarsAssumption ==
    /\ Record \cap Seat = {}
    /\ MaxStamp \in Nat /\ MaxCrashes \in Nat

VARIABLES
    shared,      \* another process, or a person, writes the same files: left alone
    mem,         \* stamp of each key in memory
    disk,        \* stamp of each key in its file
    sideWriter,  \* what each request is persisting
    clock,       \* the last stamp
    crashes,
    answered     \* the latest change of each key whose request was answered

sideVars == <<shared, mem, disk, sideWriter, clock, crashes, answered>>

Key == Record \cup Seat
Idle == [at |-> "idle"]
Persisting(k, n) == [at |-> "persist", key |-> k, stamp |-> n]

\* put_record, delete_record, insert_timer, touch_seat and their like.
Change(w, k) ==
    /\ sideWriter[w] = Idle
    /\ clock < MaxStamp /\ clock' = clock + 1
    /\ mem' = [mem EXCEPT ![k] = clock']
    /\ sideWriter' = [sideWriter EXCEPT ![w] = Persisting(k, clock')]
    /\ UNCHANGED <<shared, disk, crashes, answered>>

PersistCopy(w) == [disk EXCEPT ![sideWriter[w].key] = sideWriter[w].stamp]

\* The map is locked while it is written; the seat was copied under its lock.
Persisted(w) ==
    IF sideWriter[w].key \in Record
      THEN [k \in Key |-> IF k \in Record THEN mem[k] ELSE disk[k]]
      ELSE [disk EXCEPT ![sideWriter[w].key] = sideWriter[w].stamp]

Persist(w) ==
    /\ sideWriter[w].at = "persist"
    /\ disk' = Persisted(w)
    /\ sideWriter' = [sideWriter EXCEPT ![w] = Idle]
    /\ answered' = [answered EXCEPT ![sideWriter[w].key] =
                      IF @ < sideWriter[w].stamp THEN sideWriter[w].stamp ELSE @]
    /\ UNCHANGED <<shared, mem, clock, crashes>>

\* The write fails: the request gets an error, memory keeps the change.
PersistFails(w) ==
    /\ sideWriter[w].at = "persist"
    /\ sideWriter' = [sideWriter EXCEPT ![w] = Idle]
    /\ UNCHANGED <<shared, mem, disk, clock, crashes, answered>>

\* The periodic refresh of the engine: Arc<dyn StorageBackend> has the default of
\* the trait, which does nothing.
Refresh == UNCHANGED sideVars

\* Another process sharing the vault, or a person, writes the file of a key.
Elsewhere(k) ==
    /\ shared
    /\ clock < MaxStamp /\ clock' = clock + 1
    /\ disk' = [disk EXCEPT ![k] = clock']
    /\ UNCHANGED <<shared, mem, sideWriter, crashes, answered>>

Crash(memory) ==
    /\ crashes < MaxCrashes /\ crashes' = crashes + 1
    /\ mem' = memory
    /\ sideWriter' = [w \in SideWriter |-> Idle]
    /\ UNCHANGED <<shared, disk, clock, answered>>

\* A restart opens the vault: load_sidecars fills the memory from the files.
Reopen == Crash(disk)

SideInit ==
    /\ shared \in BOOLEAN
    /\ mem = [k \in Key |-> 0] /\ disk = [k \in Key |-> 0]
    /\ sideWriter = [w \in SideWriter |-> Idle]
    /\ clock = 0 /\ crashes = 0
    /\ answered = [k \in Key |-> 0]

SideNext ==
    \/ \E w \in SideWriter : \/ \E k \in Key : Change(w, k)
                         \/ Persist(w) \/ PersistFails(w)
    \/ Refresh
    \/ \E k \in Key : Elsewhere(k)
    \/ Reopen

SideSpec == SideInit /\ [][SideNext]_sideVars

\* A request goes on to its write, which has no await before it.
Fairness == \A w \in SideWriter : WF_sideVars(Persist(w) \/ PersistFails(w))

SideFairSpec == SideSpec /\ Fairness

----------------------------------------------------------------------------
(* Properties *)

SideTypeOK ==
    /\ shared \in BOOLEAN
    /\ mem \in [Key -> Nat] /\ disk \in [Key -> Nat] /\ answered \in [Key -> Nat]
    /\ sideWriter \in [SideWriter -> {Idle} \cup [at : {"persist"}, key : Key, stamp : Nat]]
    /\ clock \in Nat /\ crashes \in Nat

\* The files of the maps hold every answered write.
InFile == \A k \in Record : answered[k] <= disk[k]

\* While one process writes the files, an answered write survives any restart: "the
\* vault is the single source of truth, and all writes are serialized through the
\* engine" (README.md:44).
Durable == ~shared => InFile

\* No read goes back behind an answered write: "there are no concurrent-access
\* conflicts" (README.md:43).
NotRewound == ~shared => \A k \in Record : answered[k] <= mem[k]

\* Once writing stops, memory is not behind what another process wrote: "changes
\* made by another service sharing the same vault (e.g. the web UI) become
\* visible" (lib.rs:1703).
ForeignShown == <>[](\A k \in Key : disk[k] <= mem[k])
=============================================================================
