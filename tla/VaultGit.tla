------------------------------ MODULE VaultGit ------------------------------
(***************************************************************************)
(* The coalesced commit worker of the Obsidian vault store                 *)
(* (crates/slc-core/src/storage/obsidian.rs, git_commit).                  *)
(*                                                                         *)
(* A write never waits for Git.  It changes the vault, raises `dirty`, and *)
(* swaps `worker_active`; whoever finds it down spawns the worker, which   *)
(* sleeps, lowers `dirty` and snapshots the vault until it finds no new    *)
(* write.  The two flags are separate atomics with acquire and release     *)
(* order: the worker's release store of `worker_active` may still sit in   *)
(* its CPU's store buffer when its next load of `dirty` is done.           *)
(*                                                                         *)
(* GitDoneLowering, NeverRecheck and ReclaimBlindly are deliberate mistakes*)
(* that show what the properties notice.                                   *)
(***************************************************************************)
EXTENDS Naturals, FiniteSets

CONSTANTS
    Writer,    \* requests that write the vault
    Worker     \* worker tasks, one spawned after another (bound)

VARIABLES
    delayed,    \* a store may become visible after a later load on this machine
    unseen,     \* writers whose last change no snapshot has started after
    dirty,      \* git_commit_dirty
    active,     \* git_commit_worker_active
    writer,     \* where each writer is in git_commit
    worker,     \* where each worker is in its loop
    buffered    \* workers whose store of worker_active is not visible yet

vars == <<delayed, unseen, dirty, active, writer, worker, buffered>>

Owning == {"debounce", "git", "finish", "release"}

\* The worker that `worker_active` stands for, its release not yet visible.
Holder(k) == worker[k] \in Owning \/ k \in buffered

----------------------------------------------------------------------------
(* A write. *)

ChangeVault(w) ==
    /\ writer[w] = "idle"
    /\ unseen' = unseen \cup {w}
    /\ writer' = [writer EXCEPT ![w] = "mark"]
    /\ UNCHANGED <<delayed, dirty, active, worker, buffered>>

MarkDirty(w) ==
    /\ writer[w] = "mark"
    /\ dirty' = TRUE
    /\ writer' = [writer EXCEPT ![w] = "claim"]
    /\ UNCHANGED <<delayed, unseen, active, worker, buffered>>

\* The swap: an active worker will see the flag, else this write spawns one.
Claim(w) ==
    /\ writer[w] = "claim"
    /\ writer' = [writer EXCEPT ![w] = "idle"]
    /\ active' = TRUE
    /\ IF active THEN UNCHANGED worker
       ELSE \E k \in Worker :
              /\ worker[k] = "none" /\ k \notin buffered
              /\ worker' = [worker EXCEPT ![k] = "debounce"]
    /\ UNCHANGED <<delayed, unseen, dirty, buffered>>

----------------------------------------------------------------------------
(* The worker. *)

\* The debounce is over: what is on disk now is covered, the flag goes down.
Begin(k) ==
    /\ worker[k] = "debounce"
    /\ dirty' = FALSE /\ unseen' = {}
    /\ worker' = [worker EXCEPT ![k] = "git"]
    /\ UNCHANGED <<delayed, active, writer, buffered>>

GitDoneLowering(k) ==
    /\ worker[k] = "git"
    /\ dirty' = FALSE
    /\ worker' = [worker EXCEPT ![k] = "finish"]
    /\ UNCHANGED <<delayed, unseen, active, writer, buffered>>

\* Git commits, finds nothing to commit, or fails with a warning.
GitDone(k) ==
    /\ worker[k] = "git"
    /\ worker' = [worker EXCEPT ![k] = "finish"]
    /\ UNCHANGED <<delayed, unseen, dirty, active, writer, buffered>>

\* A write came meanwhile: another pass, under the same claim.
Finish(k) ==
    /\ worker[k] = "finish"
    /\ dirty' = FALSE
    /\ worker' = [worker EXCEPT ![k] = IF dirty THEN "debounce" ELSE "release"]
    /\ UNCHANGED <<delayed, unseen, active, writer, buffered>>

Release(k) ==
    /\ worker[k] = "release"
    /\ worker' = [worker EXCEPT ![k] = "recheck"]
    /\ IF delayed THEN buffered' = buffered \cup {k} /\ UNCHANGED active
       ELSE active' = FALSE /\ UNCHANGED buffered
    /\ UNCHANGED <<delayed, unseen, dirty, writer>>

\* The release store reaches the other CPUs.
Drain(k) ==
    /\ k \in buffered
    /\ active' = FALSE /\ buffered' = buffered \ {k}
    /\ UNCHANGED <<delayed, unseen, dirty, writer, worker>>

NeverRecheck(k) ==
    /\ worker[k] = "recheck"
    /\ worker' = [worker EXCEPT ![k] = "none"]
    /\ UNCHANGED <<delayed, unseen, dirty, active, writer, buffered>>

Recheck(k) ==
    /\ worker[k] = "recheck"
    /\ worker' = [worker EXCEPT ![k] = IF dirty THEN "reclaim" ELSE "none"]
    /\ UNCHANGED <<delayed, unseen, dirty, active, writer, buffered>>

ReclaimBlindly(k) ==
    /\ worker[k] = "reclaim" /\ k \notin buffered
    /\ active' = TRUE
    /\ worker' = [worker EXCEPT ![k] = "debounce"]
    /\ UNCHANGED <<delayed, unseen, dirty, writer, buffered>>

\* compare_exchange waits for the CPU's own stores first.
Reclaim(k) ==
    /\ worker[k] = "reclaim" /\ k \notin buffered
    /\ active' = TRUE
    /\ worker' = [worker EXCEPT ![k] = IF active THEN "none" ELSE "debounce"]
    /\ UNCHANGED <<delayed, unseen, dirty, writer, buffered>>

----------------------------------------------------------------------------

Init ==
    /\ delayed \in BOOLEAN
    /\ unseen = {} /\ dirty = FALSE /\ active = FALSE /\ buffered = {}
    /\ writer = [w \in Writer |-> "idle"]
    /\ worker = [k \in Worker |-> "none"]

Request(w) == MarkDirty(w) \/ Claim(w)
Loop(k) == Begin(k) \/ GitDone(k) \/ Finish(k) \/ Release(k) \/ Recheck(k) \/ Reclaim(k)

Next == \/ \E w \in Writer : ChangeVault(w) \/ Request(w)
        \/ \E k \in Worker : Loop(k) \/ Drain(k)

Spec == Init /\ [][Next]_vars

\* A request runs git_commit to its end without awaiting; tokio runs the worker,
\* Git returns, and a store buffer drains.
FairSpec == /\ Spec
            /\ \A w \in Writer : WF_vars(Request(w))
            /\ \A k \in Worker : WF_vars(Loop(k)) /\ WF_vars(Drain(k))

----------------------------------------------------------------------------
(* Properties. *)

TypeOK ==
    /\ delayed \in BOOLEAN
    /\ unseen \subseteq Writer /\ buffered \subseteq Worker
    /\ dirty \in BOOLEAN /\ active \in BOOLEAN
    /\ writer \in [Writer -> {"idle", "mark", "claim"}]
    /\ worker \in [Worker -> Owning \cup {"none", "recheck", "reclaim"}]

\* Never two workers at Git: a burst "is drained by at most one bounded worker"
\* (obsidian.rs:1009), even while a release is not yet visible.
OneWorker == \A j, k \in Worker : Holder(j) /\ Holder(k) => j = k

\* Someone is bound to look at the flag or to snapshot the vault.
Attended == \/ \E k \in Worker : worker[k] = "debounce"
            \/ /\ dirty
               /\ \/ \E w \in Writer : writer[w] = "claim"
                  \/ \E k \in Worker : worker[k] # "none"

\* No finished write is left behind for the next one, on any machine: the recheck
\* "closes the race where a write arrives after the first idle observation"
\* (obsidian.rs:322).
NoneLeft == \A w \in unseen : writer[w] = "mark" \/ Attended

\* The same where stores become visible in the order they are made.
NothingStranded == ~delayed => NoneLeft

\* There every change of the vault is followed by a snapshot.
Snapshotted == \A w \in Writer : (~delayed /\ w \in unseen) ~> w \notin unseen
=============================================================================
