-------------------------- MODULE BackgroundProofs --------------------------
(***************************************************************************)
(* What runs beside the calls, for any number of it: one worker stores what*)
(* the writers of a vault left for git; in a vault that one process writes,  *)
(* records and timers are durable and never rewound; the default timers of *)
(* a seat are made once, whatever calls fail and however often it restarts.*)
(***************************************************************************)
EXTENDS VaultGit, VaultSidecars, Timers, FiniteSetTheorems, TLAPS

----------------------------------------------------------------------------
(* VaultGit: one worker *)

\* The flag is up exactly while some worker holds it, and a release that is
\* still in a store buffer belongs to a worker that has left the loop.
ClaimOK == /\ active <=> \E k \in Worker : Holder(k)
           /\ \A k \in buffered : worker[k] \notin Owning

IndInv == TypeOK /\ OneWorker /\ ClaimOK

LEMMA IndInvInit == Init => IndInv
BY DEF Init, IndInv, TypeOK, OneWorker, ClaimOK, Holder, Owning

\* A step that keeps every worker's place, or moves it within the loop, keeps the claim.
LEMMA HoldersKept ==
  ASSUME IndInv, TypeOK', active' = active, buffered' = buffered,
         \A k \in Worker : worker'[k] \in Owning <=> worker[k] \in Owning
  PROVE  IndInv'
<1>1. \A k \in Worker : Holder(k)' <=> Holder(k)
  BY DEF Holder
<1>2. \A k \in buffered' : worker'[k] \notin Owning
  BY DEF IndInv, TypeOK, ClaimOK
<1> QED
  BY <1>1, <1>2 DEF IndInv, OneWorker, ClaimOK

LEMMA ClaimStep == ASSUME IndInv, NEW w \in Writer, Claim(w) PROVE IndInv'
<1>1. CASE active
  <2>1. TypeOK' /\ worker' = worker /\ buffered' = buffered /\ active' = active
    BY <1>1 DEF Claim, IndInv, TypeOK
  <2> QED
    BY <2>1, HoldersKept
<1>2. CASE ~active
  <2>1. PICK k \in Worker : /\ worker[k] = "none" /\ k \notin buffered
                            /\ worker' = [worker EXCEPT ![k] = "debounce"]
    BY <1>2 DEF Claim
  <2>2. TypeOK' /\ active' = TRUE /\ buffered' = buffered
    BY <2>1 DEF Claim, IndInv, TypeOK, Owning
  <2>3. \A j \in Worker : ~Holder(j)
    BY <1>2 DEF IndInv, ClaimOK
  <2>4. Holder(k)' /\ \A j \in Worker \ {k} : ~Holder(j)'
    BY <2>1, <2>2, <2>3 DEF Holder, Owning, IndInv, TypeOK
  <2>5. \A j \in buffered' : worker'[j] \notin Owning
    BY <2>1, <2>2 DEF IndInv, TypeOK, ClaimOK
  <2> QED
    BY <2>2, <2>4, <2>5 DEF IndInv, OneWorker, ClaimOK
<1> QED
  BY <1>1, <1>2

LEMMA ReleaseStep == ASSUME IndInv, NEW k \in Worker, Release(k) PROVE IndInv'
<1>1. /\ worker[k] = "release" /\ worker' = [worker EXCEPT ![k] = "recheck"]
      /\ TypeOK'
  BY DEF Release, IndInv, TypeOK, Owning
<1>2. Holder(k) /\ \A j \in Worker \ {k} : ~Holder(j)
  BY <1>1 DEF Holder, Owning, IndInv, OneWorker
<1>3. worker'[k] \notin Owning /\ \A j \in Worker \ {k} : worker'[j] = worker[j]
  BY <1>1 DEF Owning, IndInv, TypeOK
<1>4. CASE delayed
  <2>1. buffered' = buffered \cup {k} /\ active' = active
    BY <1>4 DEF Release
  <2>2. Holder(k)' /\ \A j \in Worker \ {k} : ~Holder(j)'
    BY <1>2, <1>3, <2>1 DEF Holder
  <2>3. \A j \in buffered' : worker'[j] \notin Owning
    BY <1>3, <2>1 DEF IndInv, TypeOK, ClaimOK
  <2> QED
    BY <1>1, <1>2, <2>1, <2>2, <2>3 DEF IndInv, OneWorker, ClaimOK
<1>5. CASE ~delayed
  <2>1. buffered' = buffered /\ active' = FALSE
    BY <1>5 DEF Release
  <2>2. k \notin buffered
    BY <1>1 DEF IndInv, ClaimOK, Owning
  <2>3. \A j \in Worker : ~Holder(j)'
    BY <1>2, <1>3, <2>1, <2>2 DEF Holder
  <2>4. \A j \in buffered' : worker'[j] \notin Owning
    BY <1>3, <2>1 DEF IndInv, TypeOK, ClaimOK
  <2> QED
    BY <1>1, <2>1, <2>3, <2>4 DEF IndInv, OneWorker, ClaimOK
<1> QED
  BY <1>4, <1>5 DEF Release

LEMMA DrainStep == ASSUME IndInv, NEW k \in Worker, Drain(k) PROVE IndInv'
<1>1. /\ k \in buffered /\ active' = FALSE /\ buffered' = buffered \ {k} /\ worker' = worker
      /\ TypeOK'
  BY DEF Drain, IndInv, TypeOK
<1>2. Holder(k) /\ \A j \in Worker \ {k} : ~Holder(j)
  BY <1>1 DEF Holder, IndInv, OneWorker
<1>3. \A j \in Worker : ~Holder(j)'
  BY <1>1, <1>2 DEF Holder, IndInv, ClaimOK
<1> QED
  BY <1>1, <1>3 DEF IndInv, OneWorker, ClaimOK

LEMMA ReclaimStep == ASSUME IndInv, NEW k \in Worker, Reclaim(k) PROVE IndInv'
<1>1. /\ worker[k] = "reclaim" /\ k \notin buffered /\ active' = TRUE /\ buffered' = buffered
      /\ TypeOK'
  BY DEF Reclaim, IndInv, TypeOK, Owning
<1>2. CASE active
  <2>1. worker' = [worker EXCEPT ![k] = "none"] /\ active' = active
    BY <1>1, <1>2 DEF Reclaim
  <2>2. \A j \in Worker : worker'[j] \in Owning <=> worker[j] \in Owning
    BY <1>1, <2>1 DEF IndInv, TypeOK, Owning
  <2> QED
    BY <1>1, <2>1, <2>2, HoldersKept
<1>3. CASE ~active
  <2>1. worker' = [worker EXCEPT ![k] = "debounce"]
    BY <1>3 DEF Reclaim
  <2>2. \A j \in Worker : ~Holder(j)
    BY <1>3 DEF IndInv, ClaimOK
  <2>3. Holder(k)' /\ \A j \in Worker \ {k} : ~Holder(j)'
    BY <1>1, <2>1, <2>2 DEF Holder, Owning, IndInv, TypeOK
  <2>4. \A j \in buffered' : worker'[j] \notin Owning
    BY <1>1, <2>1 DEF IndInv, TypeOK, ClaimOK
  <2> QED
    BY <1>1, <2>3, <2>4 DEF IndInv, OneWorker, ClaimOK
<1> QED
  BY <1>2, <1>3

LEMMA IndInvStep == IndInv /\ [Next]_vars => IndInv'
<1> SUFFICES ASSUME IndInv, [Next]_vars PROVE IndInv'
  OBVIOUS
<1>1. ASSUME NEW w \in Writer, ChangeVault(w) \/ MarkDirty(w) PROVE IndInv'
  <2>1. TypeOK' /\ worker' = worker /\ buffered' = buffered /\ active' = active
    BY <1>1 DEF ChangeVault, MarkDirty, IndInv, TypeOK
  <2> QED
    BY <2>1, HoldersKept
<1>2. ASSUME NEW k \in Worker, Begin(k) \/ GitDone(k) \/ Finish(k) \/ Recheck(k) PROVE IndInv'
  <2>1. TypeOK' /\ buffered' = buffered /\ active' = active
    BY <1>2 DEF Begin, GitDone, Finish, Recheck, IndInv, TypeOK, Owning
  <2>2. \A j \in Worker : worker'[j] \in Owning <=> worker[j] \in Owning
    BY <1>2 DEF Begin, GitDone, Finish, Recheck, IndInv, TypeOK, Owning
  <2> QED
    BY <2>1, <2>2, HoldersKept
<1>3. CASE UNCHANGED vars
  <2>1. TypeOK' /\ worker' = worker /\ buffered' = buffered /\ active' = active
    BY <1>3 DEF vars, IndInv, TypeOK
  <2> QED
    BY <2>1, HoldersKept
<1> QED
  BY <1>1, <1>2, <1>3, ClaimStep, ReleaseStep, DrainStep, ReclaimStep DEF Next, Request, Loop

THEOREM Invariance == Spec => []IndInv
BY IndInvInit, IndInvStep, PTL DEF Spec

\* At most one worker runs Git, however late a release becomes visible
\* (git_commit's claim and finish_git_commit_worker, obsidian.rs:324-332).
THEOREM OneCommitter == Spec => []OneWorker
<1>1. IndInv => OneWorker
  BY DEF IndInv
<1> QED
  BY <1>1, Invariance, PTL

----------------------------------------------------------------------------
(* Without the store buffer no write is left behind. *)

Ordered == IndInv /\ buffered = {} /\ NoneLeft

LEMMA OrderedStep == ASSUME ~delayed, Ordered, [Next]_vars PROVE Ordered'
<1>1. IndInv' /\ IndInv
  BY IndInvStep DEF Ordered
<1>2. buffered' = {}
  BY DEF Ordered, Next, Request, Loop, ChangeVault, MarkDirty, Claim, Begin, GitDone, Finish,
         Release, Drain, Recheck, Reclaim, vars
<1>3. active => \E k \in Worker : worker[k] \in Owning
  BY DEF Ordered, IndInv, ClaimOK, Holder
<1>4. TypeOK /\ \A w \in unseen : writer[w] = "mark" \/ Attended
  BY DEF Ordered, IndInv, NoneLeft
<1>5. ASSUME NEW w \in Writer, ChangeVault(w) PROVE NoneLeft'
  <2>1. /\ unseen' = unseen \cup {w} /\ writer' = [writer EXCEPT ![w] = "mark"] /\ writer[w] = "idle"
        /\ dirty' = dirty /\ worker' = worker
    BY <1>5 DEF ChangeVault
  <2>2. Attended => Attended'
    BY <1>4, <2>1 DEF Attended, TypeOK
  <2> QED
    BY <1>4, <2>1, <2>2 DEF NoneLeft, TypeOK
<1>6. ASSUME NEW w \in Writer, MarkDirty(w) PROVE NoneLeft'
  <2>1. dirty' /\ writer'[w] = "claim"
    BY <1>4, <1>6 DEF MarkDirty, TypeOK
  <2> QED
    BY <2>1 DEF NoneLeft, Attended
<1>7. ASSUME NEW w \in Writer, Claim(w) PROVE NoneLeft'
  <2>1. /\ writer[w] = "claim" /\ writer' = [writer EXCEPT ![w] = "idle"]
        /\ unseen' = unseen /\ dirty' = dirty
    BY <1>7 DEF Claim
  <2>2. CASE active
    <3>1. worker' = worker /\ \E k \in Worker : worker[k] # "none"
      BY <1>3, <1>7, <2>2 DEF Claim, Owning
    <3>2. Attended => Attended'
      BY <2>1, <3>1 DEF Attended
    <3> QED
      BY <1>4, <2>1, <3>2 DEF NoneLeft, TypeOK
  <2>3. CASE ~active
    <3>1. \E k \in Worker : worker'[k] = "debounce"
      BY <1>4, <1>7, <2>3 DEF Claim, TypeOK
    <3> QED
      BY <3>1 DEF NoneLeft, Attended
  <2> QED
    BY <2>2, <2>3
<1>8. ASSUME NEW k \in Worker, Begin(k) PROVE NoneLeft'
  BY <1>8 DEF Begin, NoneLeft
<1>9. ASSUME NEW k \in Worker, GitDone(k) \/ Release(k) PROVE NoneLeft'
  <2>1. /\ unseen' = unseen /\ writer' = writer /\ dirty' = dirty /\ worker[k] # "debounce"
        /\ worker'[k] # "none" /\ \A j \in Worker \ {k} : worker'[j] = worker[j]
    BY <1>4, <1>9 DEF GitDone, Release, TypeOK
  <2>2. Attended => Attended'
    BY <2>1 DEF Attended
  <2> QED
    BY <1>4, <2>1, <2>2 DEF NoneLeft
<1>10. ASSUME NEW k \in Worker, Finish(k) PROVE NoneLeft'
  <2>1. /\ unseen' = unseen /\ writer' = writer /\ worker[k] = "finish"
        /\ worker'[k] = IF dirty THEN "debounce" ELSE "release"
        /\ \A j \in Worker \ {k} : worker'[j] = worker[j]
    BY <1>4, <1>10 DEF Finish, TypeOK
  <2>2. Attended => Attended'
    BY <2>1 DEF Attended
  <2> QED
    BY <1>4, <2>1, <2>2 DEF NoneLeft
<1>11. ASSUME NEW k \in Worker, Recheck(k) PROVE NoneLeft'
  <2>1. /\ unseen' = unseen /\ writer' = writer /\ dirty' = dirty /\ worker[k] = "recheck"
        /\ worker'[k] = IF dirty THEN "reclaim" ELSE "none"
        /\ \A j \in Worker \ {k} : worker'[j] = worker[j]
    BY <1>4, <1>11 DEF Recheck, TypeOK
  <2>2. Attended => Attended'
    BY <2>1 DEF Attended
  <2> QED
    BY <1>4, <2>1, <2>2 DEF NoneLeft
<1>12. ASSUME NEW k \in Worker, Reclaim(k) PROVE NoneLeft'
  <2>1. /\ unseen' = unseen /\ writer' = writer /\ dirty' = dirty /\ worker[k] = "reclaim"
        /\ worker'[k] = IF active THEN "none" ELSE "debounce"
        /\ \A j \in Worker \ {k} : worker'[j] = worker[j]
    BY <1>4, <1>12 DEF Reclaim, TypeOK
  <2>2. active => \E j \in Worker \ {k} : worker[j] # "none"
    BY <1>3, <2>1 DEF Owning
  <2>3. Attended => Attended'
    BY <2>1, <2>2 DEF Attended
  <2> QED
    BY <1>4, <2>1, <2>3 DEF NoneLeft
<1>13. ASSUME NEW k \in Worker, Drain(k) PROVE NoneLeft'
  <2>1. k \in buffered
    BY <1>13 DEF Drain
  <2> QED
    BY <2>1 DEF Ordered
<1>14. ASSUME UNCHANGED vars PROVE NoneLeft'
  <2>1. unseen' = unseen /\ writer' = writer /\ worker' = worker /\ dirty' = dirty
    BY <1>14 DEF vars
  <2>2. Attended <=> Attended'
    BY <2>1 DEF Attended
  <2> QED
    BY <1>4, <2>1, <2>2 DEF NoneLeft
<1>15. NoneLeft'
  BY <1>5, <1>6, <1>7, <1>8, <1>9, <1>10, <1>11, <1>12, <1>13, <1>14 DEF Next, Request, Loop
<1> QED
  BY <1>1, <1>2, <1>15 DEF Ordered

\* If stores become visible in program order, the recheck after the release leaves
\* no finished write without a snapshot to come (obsidian.rs:321-332).
THEOREM RecheckSuffices == Spec => []NothingStranded
<1> DEFINE Inv == IndInv /\ (~delayed => Ordered)
<1>1. Init => Inv
  BY IndInvInit DEF Ordered, Init, NoneLeft
<1>2. ASSUME Inv, [Next]_vars PROVE Inv'
  <2>1. delayed' = delayed
    BY <1>2 DEF Next, Request, Loop, ChangeVault, MarkDirty, Claim, Begin, GitDone, Finish,
         Release, Drain, Recheck, Reclaim, vars
  <2>2. IndInv'
    BY <1>2, IndInvStep
  <2>3. ~delayed => Ordered'
    BY <1>2, OrderedStep
  <2> QED
    BY <2>1, <2>2, <2>3
<1>3. Inv => NothingStranded
  BY DEF Ordered, NothingStranded
<1> QED
  BY <1>1, <1>2, <1>3, PTL DEF Spec

----------------------------------------------------------------------------
(* VaultSidecars: a change is not rewound *)

\* No file of a map is ahead of memory and no request is: what is written next
\* holds every change made so far.
Ahead ==
    /\ \A k \in Record : answered[k] <= disk[k] /\ disk[k] <= mem[k] /\ mem[k] <= clock
    /\ \A w \in SideWriter : sideWriter[w].at = "persist" /\ sideWriter[w].key \in Record =>
           sideWriter[w].stamp <= mem[sideWriter[w].key]

SideInv == SideTypeOK /\ (~shared => Ahead)

\* The initial memory and files are empty, and nothing is in flight.
LEMMA InitInductive == SideInit => SideInv
  BY SidecarsAssumption DEF SideInit, SideInv, SideTypeOK, Ahead, Key, Idle

Requesting == {Idle} \cup [at : {"persist"}, key : Key, stamp : Nat]

\* Every step keeps the types.
LEMMA StepTypes == ASSUME SideTypeOK, [SideNext]_sideVars PROVE SideTypeOK'
<1> USE SidecarsAssumption DEF SideTypeOK
<1>1. ASSUME NEW w \in SideWriter, NEW k \in Key, Change(w, k) PROVE SideTypeOK'
  <2>1. clock' \in Nat /\ mem' \in [Key -> Nat]
    BY <1>1 DEF Change
  <2>2. Persisting(k, clock') \in [at : {"persist"}, key : Key, stamp : Nat]
    BY <2>1 DEF Persisting
  <2>3. sideWriter' \in [SideWriter -> Requesting]
    BY <1>1, <2>2 DEF Change, Requesting
  <2> QED BY <1>1, <2>1, <2>3 DEF Change, Requesting
<1>2. ASSUME NEW w \in SideWriter, Persist(w) PROVE SideTypeOK'
  <2>1. sideWriter[w].key \in Key /\ sideWriter[w].stamp \in Nat
    BY <1>2 DEF Persist, Idle
  <2>2. disk' \in [Key -> Nat]
    BY <1>2, <2>1 DEF Persist, Persisted, Key
  <2>3. answered' \in [Key -> Nat]
    BY <1>2, <2>1 DEF Persist
  <2> QED BY <1>2, <2>2, <2>3 DEF Persist
<1>3. ASSUME NEW w \in SideWriter, PersistFails(w) PROVE SideTypeOK'
  BY <1>3 DEF PersistFails
<1>4. CASE Refresh
  BY <1>4 DEF Refresh, sideVars
<1>6. ASSUME NEW k \in Key, Elsewhere(k) PROVE SideTypeOK'
  BY <1>6 DEF Elsewhere
<1>7. ASSUME Reopen PROVE SideTypeOK'
  BY <1>7 DEF Reopen, Crash
<1>8. CASE UNCHANGED sideVars
  BY <1>8 DEF sideVars
<1> QED BY <1>1, <1>2, <1>3, <1>4, <1>6, <1>7, <1>8 DEF SideNext

\* Every step keeps files behind memory and answers behind files.
LEMMA StepAhead == ASSUME SideTypeOK, ~shared, Ahead, [SideNext]_sideVars PROVE Ahead'
<1> USE SidecarsAssumption DEF SideTypeOK, Ahead
<1>1. ASSUME NEW w \in SideWriter, NEW k \in Key, Change(w, k) PROVE Ahead'
  <2>1. sideWriter' = [sideWriter EXCEPT ![w] = [at |-> "persist", key |-> k, stamp |-> clock']]
    BY <1>1 DEF Change, Persisting
  <2>2. \A q \in Record : mem[q] <= mem'[q] /\ mem'[q] <= clock' /\ mem'[q] \in Nat
    BY <1>1 DEF Change, Key
  <2>3. \A q \in Record : answered'[q] <= disk'[q] /\ disk'[q] <= mem'[q]
    BY <1>1, <2>2 DEF Change, Key
  <2>4. ASSUME NEW v \in SideWriter, sideWriter'[v].at = "persist", sideWriter'[v].key \in Record
        PROVE sideWriter'[v].stamp <= mem'[sideWriter'[v].key]
    <3>1. CASE v = w
      BY <1>1, <2>1, <3>1 DEF Change
    <3>2. CASE v # w
      <4>1. sideWriter'[v] = sideWriter[v]
        BY <2>1, <3>2
      <4>2. sideWriter[v].stamp \in Nat /\ mem[sideWriter[v].key] \in Nat
        BY <2>4, <4>1 DEF Idle, Key
      <4> QED BY <2>2, <2>4, <4>1, <4>2
    <3> QED BY <3>1, <3>2
  <2> QED BY <1>1, <2>2, <2>3, <2>4 DEF Change
<1>2. ASSUME NEW w \in SideWriter, Persist(w) PROVE Ahead'
  <2>1. sideWriter[w].key \in Key /\ sideWriter[w].stamp \in Nat
    BY <1>2 DEF Persist, Idle
  <2>2. \A k \in Record : disk'[k] = IF sideWriter[w].key \in Record THEN mem[k] ELSE disk[k]
    BY <1>2, <2>1 DEF Persist, Persisted, Key
  <2>3. \A k \in Record : answered'[k] = IF k = sideWriter[w].key /\ answered[k] < sideWriter[w].stamp
                                           THEN sideWriter[w].stamp ELSE answered[k]
    BY <1>2, <2>1 DEF Persist, Key
  <2>4. \A k \in Record : answered'[k] <= disk'[k] /\ disk'[k] <= mem[k]
    BY <1>2, <2>1, <2>2, <2>3 DEF Persist, Key
  <2>5. \A v \in SideWriter : sideWriter'[v] = IF v = w THEN Idle ELSE sideWriter[v]
    BY <1>2 DEF Persist
  <2>6. Idle.at # "persist"
    BY DEF Idle
  <2> QED BY <1>2, <2>4, <2>5, <2>6 DEF Persist
<1>3. ASSUME NEW w \in SideWriter, PersistFails(w) PROVE Ahead'
  BY <1>3 DEF PersistFails, Idle
<1>4. ASSUME Reopen PROVE Ahead'
  <2>1. \A k \in Record : disk[k] <= clock
    BY DEF Key
  <2> QED BY <1>4, <2>1 DEF Reopen, Crash, Idle, Key
<1>5. CASE UNCHANGED sideVars
  BY <1>5 DEF sideVars
<1>6. CASE Refresh
  BY <1>6 DEF Refresh, sideVars
<1>7. \A k \in Key : ~Elsewhere(k)
  BY DEF Elsewhere
<1> QED BY <1>1, <1>2, <1>3, <1>4, <1>5, <1>6, <1>7 DEF SideNext

\* Who writes the files never changes.
LEMMA SettingFixed == ASSUME [SideNext]_sideVars PROVE UNCHANGED shared
  BY DEF SideNext, sideVars, Change, Persist, PersistFails, Refresh, Elsewhere, Reopen, Crash

\* The invariant holds throughout every behaviour.
LEMMA SideInvariance == SideSpec => []SideInv
<1>1. SideInv /\ [SideNext]_sideVars => SideInv'
  BY StepTypes, StepAhead, SettingFixed DEF SideInv
<1> QED BY <1>1, InitInductive, PTL DEF SideSpec

\* A write that put_record, delete_record or insert_timer answered is in the
\* file, and stays there through restarts, failed writes and other requests.
THEOREM AnsweredIsDurable == SideSpec => []Durable
<1>1. SideInv => Durable
  BY DEF SideInv, Ahead, Durable, InFile
<1> QED BY <1>1, SideInvariance, PTL

\* Memory is never behind an answered write: no request reads an older value.
THEOREM ReadsNeverRewind == SideSpec => []NotRewound
<1>1. ASSUME SideInv, ~shared, NEW k \in Record PROVE answered[k] <= mem[k]
  <2>1. answered[k] \in Nat /\ disk[k] \in Nat /\ mem[k] \in Nat
    BY <1>1 DEF SideInv, SideTypeOK, Key
  <2> QED BY <1>1, <2>1 DEF SideInv, Ahead
<1>2. SideInv => NotRewound
  BY <1>1 DEF NotRewound
<1> QED BY <1>2, SideInvariance, PTL

----------------------------------------------------------------------------
(* Timers: one timer of a type, one task of a timer *)

\* The tasks and records of the registry.
TimersTypeOK ==
    /\ tmActive \subseteq TmSeat
    /\ saved \in [TimerId -> {NoSuch, "later", "due"}]
    /\ loop \in [TimerId -> [Task -> {NoSuch, "sleep", "handle", "write"}]]

\* No timer of the seat has one of the types.
Lacks(s, types) == \A id \in TimerId : id[1] = s /\ id[2] \in types => saved[id] = NoSuch

\* What the start of the service found missing is still missing.
BootOK ==
    /\ boot.at \in {"seats", "create", "spawn"} => boot.todo \subseteq TmSeat
    /\ boot.at \in {"create", "spawn"} => boot.seat \in TmSeat /\ boot.missing \subseteq TmType
    /\ boot.at = "create" => Lacks(boot.seat, boot.missing)
    /\ boot.at = "spawn" => /\ boot.id \in TimerId /\ saved[boot.id] # NoSuch
                            /\ Lacks(boot.seat, boot.missing \ {boot.id[2]})

OneRecord == \A i, j \in TimerId :
    i[1] = j[1] /\ i[2] = j[2] /\ saved[i] # NoSuch /\ saved[j] # NoSuch => i = j

\* A task belongs to a record and to a key of the registry.
TasksOK == \A id \in TimerId : \A n \in Task :
    loop[id][n] # NoSuch => /\ saved[id] # NoSuch /\ id \in handles
                            /\ \A k \in Task : loop[id][k] # NoSuch => k = n

TimersInv == TimersTypeOK /\ BootOK /\ OneRecord /\ TasksOK

\* A step that makes no record and no task keeps what is not about boot.
LEMMA SameTimers ==
  ASSUME TimersInv, tmActive' \subseteq TmSeat, saved' \in [TimerId -> {NoSuch, "later", "due"}],
         loop' \in [TimerId -> [Task -> {NoSuch, "sleep", "handle", "write"}]], handles' = handles,
         \A id \in TimerId : saved'[id] # NoSuch <=> saved[id] # NoSuch,
         \A id \in TimerId : \A n \in Task : loop'[id][n] # NoSuch <=> loop[id][n] # NoSuch
  PROVE  /\ TimersTypeOK' /\ OneRecord' /\ TasksOK'
         /\ boot' = boot => BootOK'
BY DEF TimersInv, TimersTypeOK, OneRecord, TasksOK, BootOK, Lacks

LEMMA BootSteps ==
  ASSUME TimersInv, BootStarts \/ (\E s \in TmSeat : Defaults(s)) \/ SeatDone \/ StartFails
  PROVE  TimersInv'
<1>1. saved' = saved /\ loop' = loop /\ handles' = handles /\ tmActive' = tmActive
  BY DEF BootStarts, Defaults, SeatDone, StartFails, tmBounds
<1>2. TimersTypeOK' /\ OneRecord' /\ TasksOK'
  BY <1>1 DEF TimersInv, TimersTypeOK, OneRecord, TasksOK
<1>3. CASE BootStarts
  BY <1>1, <1>2, <1>3 DEF BootStarts, TimersInv, TimersTypeOK, BootOK
<1>4. ASSUME NEW s \in TmSeat, Defaults(s) PROVE TimersInv'
  <2>1. Lacks(s, TmType \ TypesOf(s))
    BY DEF Lacks, TypesOf, Saved, TimerId
  <2>2. /\ boot'.at = "create" /\ boot'.todo \subseteq TmSeat /\ boot'.seat = s
        /\ boot'.missing = TmType \ TypesOf(s)
    BY <1>4 DEF Defaults, TimersInv, BootOK
  <2> QED
    BY <1>1, <1>2, <2>1, <2>2 DEF TimersInv, BootOK, Lacks
<1>5. CASE SeatDone
  BY <1>1, <1>2, <1>5 DEF SeatDone, TimersInv, BootOK
<1>6. CASE StartFails
  BY <1>1, <1>2, <1>6 DEF StartFails, TimersInv, BootOK
<1> QED
  BY <1>3, <1>4, <1>5, <1>6

LEMMA RegisterStep == ASSUME TimersInv, NEW t \in TmType, Register(t) PROVE TimersInv'
<1> DEFINE id == <<boot.seat, t, Fresh(boot.seat, t)>>
<1>1. Fresh(boot.seat, t) \in 1 .. MaxRecords /\ boot.seat \in TmSeat /\ t \in boot.missing
  BY DEF Register, HasRoom, Fresh, TimersInv, BootOK
<1>2. id \in TimerId /\ id[1] = boot.seat /\ id[2] = t
  BY <1>1 DEF TimerId
<1>3. /\ saved' = [saved EXCEPT ![id] = "later"] /\ loop' = loop /\ handles' = handles
      /\ tmActive' = tmActive /\ boot.at = "create"
      /\ boot' = [at |-> "spawn", todo |-> boot.todo, seat |-> boot.seat, missing |-> boot.missing, id |-> id]
  BY DEF Register, tmBounds
<1> HIDE DEF id
<1>4. /\ saved' \in [TimerId -> {NoSuch, "later", "due"}] /\ saved'[id] = "later"
      /\ \A i \in TimerId \ {id} : saved'[i] = saved[i]
  BY <1>2, <1>3 DEF TimersInv, TimersTypeOK
<1>5. TimersTypeOK'
  BY <1>3, <1>4 DEF TimersInv, TimersTypeOK
<1>6. Lacks(boot.seat, boot.missing)
  BY <1>3 DEF TimersInv, BootOK
<1>7. OneRecord'
  BY <1>1, <1>2, <1>4, <1>6 DEF TimersInv, OneRecord, Lacks
<1>8. TasksOK'
  BY <1>3, <1>4 DEF TimersInv, TasksOK, NoSuch
<1>9. BootOK'
  <2>1. \A i \in TimerId : i[1] = boot.seat /\ i[2] \in boot.missing \ {t} => saved'[i] = NoSuch
    BY <1>2, <1>4, <1>6 DEF Lacks
  <2> QED
    BY <1>2, <1>3, <1>4, <2>1 DEF TimersInv, BootOK, Lacks, NoSuch
<1> QED
  BY <1>5, <1>7, <1>8, <1>9 DEF TimersInv

\* A task is spawned for records that have none.
LEMMA SpawnedTasks ==
  ASSUME TimersInv, NEW ids \in SUBSET {id \in TimerId : saved[id] # NoSuch}, Spawned(ids),
         saved' = saved, tmActive' = tmActive
  PROVE  TimersTypeOK' /\ OneRecord' /\ TasksOK'
<1>1. OneRecord'
  BY DEF TimersInv, OneRecord
<1>2. handles' = handles \cup {id \in ids : id \notin handles}
  BY DEF Spawned, Known
<1>3. ASSUME NEW id \in TimerId
      PROVE  /\ loop'[id] \in [Task -> {NoSuch, "sleep", "handle", "write"}]
             /\ loop'[id] = loop[id] \/ /\ id \in ids /\ \A n \in Task : loop[id][n] = NoSuch
                                        /\ loop'[id][1] = "sleep" /\ loop'[id][2] = NoSuch
  <2>1. CASE id \in ids /\ id \notin handles
    <3>1. \A n \in Task : loop[id][n] = NoSuch
      BY <2>1 DEF TimersInv, TasksOK
    <3>2. loop'[id] = [n \in Task |-> IF \A k \in Task : ~(k < n) THEN "sleep" ELSE NoSuch]
      BY <2>1, <3>1 DEF Spawned, Known
    <3>3. loop'[id][1] = "sleep" /\ loop'[id][2] = NoSuch
      BY <3>2 DEF Task
    <3> QED
      BY <2>1, <3>1, <3>2, <3>3
  <2>2. CASE ~(id \in ids /\ id \notin handles)
    <3>1. loop'[id] = [n \in Task |-> loop[id][n]]
      BY <2>2 DEF Spawned, Known
    <3>2. loop[id] \in [Task -> {NoSuch, "sleep", "handle", "write"}]
      BY DEF TimersInv, TimersTypeOK
    <3> QED
      BY <3>1, <3>2
  <2> QED
    BY <2>1, <2>2
<1>4. loop' \in [TimerId -> [Task -> {NoSuch, "sleep", "handle", "write"}]]
  BY <1>3 DEF Spawned
<1>5. TasksOK'
  BY <1>2, <1>3 DEF TimersInv, TasksOK, Task
<1> QED
  BY <1>1, <1>4, <1>5 DEF TimersInv, TimersTypeOK

LEMMA SpawnSteps == ASSUME TimersInv, SpawnNew \/ StartAll PROVE TimersInv'
<1>1. saved' = saved /\ tmActive' = tmActive
  BY DEF SpawnNew, StartAll, tmBounds
<1>2. CASE SpawnNew
  <2>1. {boot.id} \in SUBSET {id \in TimerId : saved[id] # NoSuch} /\ Spawned({boot.id})
    BY <1>2 DEF SpawnNew, TimersInv, BootOK
  <2>2. TimersTypeOK' /\ OneRecord' /\ TasksOK'
    BY <1>1, <2>1, SpawnedTasks
  <2>3. BootOK'
    BY <1>1, <1>2 DEF SpawnNew, TimersInv, BootOK, Lacks
  <2> QED
    BY <2>2, <2>3 DEF TimersInv
<1>3. CASE StartAll
  <2>1. TimersTypeOK' /\ OneRecord' /\ TasksOK'
    BY <1>1, <1>3, SpawnedTasks DEF StartAll
  <2>2. BootOK'
    BY <1>3 DEF StartAll, BootOK, On
  <2> QED
    BY <2>1, <2>2 DEF TimersInv
<1> QED
  BY <1>2, <1>3

LEMMA TaskSteps ==
  ASSUME TimersInv, NEW id \in TimerId, Elapses(id) \/ \E n \in Task : Runs(id, n)
  PROVE  TimersInv'
<1>1. boot' = boot /\ handles' = handles /\ tmActive' = tmActive
  BY DEF Elapses, Runs, Wakes, Handled, Rewrites, tmBounds
<1>2. CASE Elapses(id)
  BY <1>1, <1>2, SameTimers DEF Elapses, NoSuch, TimersInv, TimersTypeOK
<1>3. ASSUME NEW n \in Task, Runs(id, n) PROVE TimersInv'
  <2>1. PICK at \in {"sleep", "handle", "write"} : loop' = [loop EXCEPT ![id][n] = at]
    BY <1>3 DEF Runs, Wakes, Handled, Rewrites, Becomes, After
  <2>2. loop[id][n] # NoSuch /\ saved[id] # NoSuch
    BY <1>3 DEF Runs, Wakes, Handled, Rewrites, NoSuch, TimersInv, TasksOK
  <2>3. saved' = saved \/ saved' = [saved EXCEPT ![id] = "later"]
    BY <1>3 DEF Runs, Wakes, Handled, Rewrites
  <2>4. /\ loop' \in [TimerId -> [Task -> {NoSuch, "sleep", "handle", "write"}]]
        /\ \A i \in TimerId : \A k \in Task : loop'[i][k] # NoSuch <=> loop[i][k] # NoSuch
    BY <2>1, <2>2 DEF TimersInv, TimersTypeOK, NoSuch
  <2>5. /\ saved' \in [TimerId -> {NoSuch, "later", "due"}]
        /\ \A i \in TimerId : saved'[i] # NoSuch <=> saved[i] # NoSuch
    BY <2>2, <2>3 DEF TimersInv, TimersTypeOK, NoSuch
  <2> QED
    BY <1>1, <2>4, <2>5, SameTimers DEF TimersInv, TimersTypeOK
<1> QED
  BY <1>2, <1>3

LEMMA SeatStep == ASSUME TimersInv, NEW s \in TmSeat, SeatComes(s) PROVE TimersInv'
BY DEF SeatComes, TimersInv, TimersTypeOK, BootOK, Lacks, OneRecord, TasksOK

LEMMA RestartStep == ASSUME TimersInv, Restart PROVE TimersInv'
BY DEF Restart, Off, TimersInv, TimersTypeOK, BootOK, OneRecord, TasksOK

LEMMA AtMostOne ==
  ASSUME NEW S, \A x, y \in S : x = y
  PROVE  Cardinality(S) <= 1
<1>1. CASE S = {}
  BY <1>1, FS_EmptySet
<1>2. CASE S # {}
  <2>1. PICK x : S = {x}
    BY <1>2
  <2> QED
    BY <2>1, FS_Singleton
<1> QED
  BY <1>1, <1>2

\* However often the service starts, whatever fails in between: one timer of a
\* type per seat, one task per timer (create_defaults, spawn; timer.rs:99-240).
THEOREM OneTimer == TmSpec => []OneTimerEach
<1>1. TmInit => TimersInv
  BY DEF TmInit, Off, TimersInv, TimersTypeOK, BootOK, OneRecord, TasksOK
<1>2. TimersInv /\ [TmNext]_tmVars => TimersInv'
  <2>1. TimersInv /\ UNCHANGED tmVars => TimersInv'
    BY DEF tmVars, TimersInv, TimersTypeOK, BootOK, Lacks, OneRecord, TasksOK
  <2> QED
    BY <2>1, BootSteps, RegisterStep, SpawnSteps, TaskSteps, SeatStep, RestartStep DEF TmNext, Booting
<1>3. TimersInv => OneTimerEach
  <2> SUFFICES ASSUME TimersInv PROVE OneTimerEach
    OBVIOUS
  <2>1. \A s \in TmSeat, t \in TmType : Cardinality(Saved(s, t)) <= 1
    BY AtMostOne DEF Saved, TimersInv, OneRecord
  <2>2. \A id \in TimerId : Cardinality({n \in Task : loop[id][n] # NoSuch}) <= 1
    BY AtMostOne DEF TimersInv, TasksOK
  <2> QED
    BY <2>1, <2>2 DEF OneTimerEach
<1> QED
  BY <1>1, <1>2, <1>3, PTL DEF TmSpec
=============================================================================
