------------------------- MODULE VaultNotesProofs -------------------------
(***************************************************************************)
(* The vault's notes, for every number of documents, folders, clients,     *)
(* requests and crashes: the index follows the files, and answers hold.    *)
(*                                                                         *)
(* A document has a column of places, one in each folder, that only        *)
(* requests about it touch; and only its client has one of them in flight. *)
(***************************************************************************)
EXTENDS VaultNotes, FiniteSetTheorems, TLAPS

----------------------------------------------------------------------------
(* The invariant *)

Crashes == setting.faults > 0

At(i, d) == <<d, setting.safe[i]>>
Here(i) == {d \in Folder : file[At(i, d)] # NoNote /\ file[At(i, d)].id = i}

\* Each note lies in the column of its id, or is one that a person left.
ColumnOK(p) ==
    file[p] # NoNote =>
       \/ file[p].id = Unnamed /\ p \in setting.hand
       \/ /\ file[p].id \in Id /\ p[1] # Top /\ p[2] = setting.safe[file[p].id]
          /\ Crashes => p[1] = Home[file[p].id]

EntryOK(i) ==
    \/ index[i] = NoEntry
    \/ /\ index[i].folder \in Folder \ {Top}
       /\ index[i].stem = ByRule \/ index[i].stem = setting.safe[i]
       /\ Crashes => index[i].folder = Home[i]

\* A note that a failed removal left, or the one written next in its place.
Loose(i) == Crashes /\ faults > 0 /\ index[i] = NoEntry /\ answer[i] \notin {"kept", "gone"}

Follows(i) ==
    \/ Loose(i)
    \/ \A d \in Here(i) : index[i] = [folder |-> d, stem |-> ByRule, dead |-> file[At(i, d)].dead]

Answered(i) ==
    /\ answer[i] = "kept" => Here(i) # {}
    /\ answer[i] = "gone" => /\ index[i] = NoEntry /\ Here(i) = {}
                             /\ Crashes => file[At(i, Home[i])] = NoNote

\* The steps of a request.
Formed(c) == DOMAIN job[c] = {"at", "id", "folder", "dead", "previous"}
Purging(c, i) == job[c].at = "purge" /\ index[i] = NoEntry /\ Here(i) \subseteq {job[c].folder} /\ answer[i] = "none"
Before(c, i) ==
    /\ job[c].at = "look" \/ (job[c].at = "write" /\ job[c].previous = index[i] /\ Formed(c))
    /\ Follows(i) /\ Answered(i) /\ answer[i] # "gone"
Clearing(c, i) ==
    /\ Formed(c) /\ job[c].at = "clear" /\ job[c].previous = index[i] /\ Moving(c) /\ answer[i] # "gone"
    /\ job[c].folder \in Here(i) /\ Here(i) \subseteq {job[c].folder, job[c].previous.folder}
    /\ file[At(i, job[c].folder)].dead = job[c].dead
Indexing(c, i) ==
    /\ Formed(c) /\ job[c].at = "index" /\ Here(i) = {job[c].folder} /\ answer[i] # "gone"
    /\ file[At(i, job[c].folder)].dead = job[c].dead

JobOK(c) ==
    \/ job[c] = Idle
    \/ /\ job[c].id \in setting.own[c] /\ job[c].folder \in Folder \ {Top}
       /\ Crashes => job[c].folder = Home[job[c].id]
       /\ \/ Purging(c, job[c].id)
          \/ /\ job[c].dead \in BOOLEAN
             /\ Before(c, job[c].id) \/ Clearing(c, job[c].id) \/ Indexing(c, job[c].id)

NotesInv ==
    /\ setting \in Settings /\ faults \in Nat
    /\ Plain =>
         /\ open = TRUE
         /\ file \in [Place -> Note \cup {NoNote}] /\ \A p \in Place : ColumnOK(p)
         /\ index = [i \in Id |-> index[i]] /\ \A i \in Id : EntryOK(i)
         /\ job = [c \in Client |-> job[c]] /\ \A c \in Client : JobOK(c)
         /\ answer = [i \in Id |-> answer[i]]
         /\ \A i \in Id : ~Busy(i) => Follows(i) /\ Answered(i)

----------------------------------------------------------------------------
(* Ids and their columns *)

LEMMA NothingIsApart ==
    /\ NoNote \notin Note /\ NoEntry \notin Entry
    /\ \A x \in Note : x # NoNote
    /\ \A d, s, b : [folder |-> d, stem |-> s, dead |-> b] # NoEntry
<1>1. ASSUME NEW x \in Note PROVE x # NoNote
  <2>1. DOMAIN x = {"id", "dead"}
    BY DEF Note
  <2>2. DOMAIN NoNote = {"id"}
    BY DEF NoNote
  <2>3. "dead" \in DOMAIN x /\ "dead" \notin DOMAIN NoNote
    BY <2>1, <2>2
  <2> QED BY <2>3
<1>2. ASSUME NEW d, NEW s, NEW b PROVE [folder |-> d, stem |-> s, dead |-> b] # NoEntry
  <2> DEFINE x == [folder |-> d, stem |-> s, dead |-> b]
  <2>1. "folder" \in DOMAIN x
    OBVIOUS
  <2>2. "folder" \notin DOMAIN NoEntry
    BY DEF NoEntry
  <2> QED BY <2>1, <2>2
<1>3. ASSUME NEW x \in Entry PROVE x # NoEntry
  <2>1. "folder" \in DOMAIN x
    BY DEF Entry
  <2>2. "folder" \notin DOMAIN NoEntry
    BY DEF NoEntry
  <2> QED BY <2>1, <2>2
<1> QED BY <1>1, <1>2, <1>3

LEMMA SettingIs ==
    ASSUME NotesInv, Plain
    PROVE  /\ setting \in Setting
           /\ \A i, j \in Id : setting.safe[i] = setting.safe[j] => i = j
           /\ \A c, d \in Client : c # d => setting.own[c] \cap setting.own[d] = {}
           /\ \A c \in Client : setting.own[c] \subseteq Id
           /\ \A p \in setting.hand : p \in Folder \X Id /\ p[1] # Top /\ setting.safe[p[2]] = p[2]
           /\ Crashes => ~setting.moves /\ \A p \in setting.hand : p[1] = Home[p[2]]
           /\ \A i \in Id, d \in Folder : At(i, d) \in Place /\ setting.safe[i] \in Name
<1>1. setting \in Settings /\ setting \in Setting
  BY NotesAssumption DEF NotesInv
<1>2. \A p \in setting.hand : p[1] # Top
  BY DEF Plain
<1>3. /\ setting.safe \in [Id -> Name] /\ setting.own \in [Client -> SUBSET Id]
      /\ setting.hand \in SUBSET (Folder \X Id)
  BY <1>1 DEF Setting
<1> QED BY <1>1, <1>2, <1>3, NotesApart DEF Crashes, At, Place

LEMMA StemIs == ASSUME NotesInv, Plain, NEW i \in Id PROVE Stem(i, index[i]) = setting.safe[i]
  BY DEF NotesInv, EntryOK, Stem

\* One place of k's column is written.
LEMMA OnePlace ==
    ASSUME NotesInv, Plain, NEW k \in Id, NEW d \in Folder, NEW x \in Note \cup {NoNote},
           file' = [file EXCEPT ![<<d, setting.safe[k]>>] = x], setting' = setting,
           x # NoNote => x.id = k /\ d # Top /\ (Crashes => d = Home[k])
    PROVE  /\ file' \in [Place -> Note \cup {NoNote}] /\ \A p \in Place : ColumnOK(p)'
           /\ file'[At(k, d)] = x /\ \A e \in Folder \ {d} : file'[At(k, e)] = file[At(k, e)]
           /\ \A i \in Id \ {k}, e \in Folder : file'[At(i, e)] = file[At(i, e)]
<1>1. At(k, d) \in Place /\ At(k, d) = <<d, setting.safe[k]>>
  BY SettingIs DEF At
<1>2. file \in [Place -> Note \cup {NoNote}] /\ \A p \in Place : ColumnOK(p)
  BY DEF NotesInv
<1>3. /\ file' \in [Place -> Note \cup {NoNote}] /\ file'[At(k, d)] = x
      /\ \A p \in Place \ {At(k, d)} : file'[p] = file[p]
  BY <1>1, <1>2
<1>4. \A i \in Id, e \in Folder : At(i, e) = At(k, d) => i = k /\ e = d
  BY SettingIs DEF At
<1>5. \A i \in Id, e \in Folder : At(i, e) \in Place
  BY SettingIs
<1>6. ASSUME NEW p \in Place PROVE ColumnOK(p)'
  <2>1. CASE p = At(k, d)
    BY <1>1, <1>3, <2>1 DEF ColumnOK, Crashes
  <2>2. CASE p # At(k, d)
    BY <1>2, <1>3, <2>2 DEF ColumnOK, Crashes
  <2> QED BY <2>1, <2>2
<1> QED BY <1>3, <1>4, <1>5, <1>6

Still(i) ==
    /\ index'[i] = index[i] /\ answer'[i] = answer[i]
    /\ \A d \in Folder : file'[At(i, d)] = file[At(i, d)]

LEMMA StillIs ==
    ASSUME NEW i \in Id, Still(i), setting' = setting, faults \in Nat, faults' \in Nat, faults' >= faults
    PROVE  /\ Here(i)' = Here(i)
           /\ Answered(i) => Answered(i)'
           /\ Follows(i) => Follows(i)'
           /\ EntryOK(i) => EntryOK(i)'
<1>1. Here(i)' = Here(i) /\ Here(i) \subseteq Folder
  BY DEF Here, Still, At
<1>2. Follows(i) => Follows(i)'
  BY <1>1 DEF Follows, Still, At, Loose, Crashes
<1>3. ASSUME Answered(i) PROVE Answered(i)'
  <2>1. Home[i] \in Folder
    BY NotesAssumption
  <2> QED BY <1>1, <1>3, <2>1 DEF Answered, Still, At, Crashes
<1> QED BY <1>1, <1>2, <1>3 DEF EntryOK, Still, Crashes

\* A step of one client about one id.
LEMMA ClientKeeps ==
    ASSUME NotesInv, Plain, NEW c \in Client, NEW k \in setting.own[c], job[c] = Idle \/ job[c].id = k,
           setting' = setting, open' = open, faults' \in Nat, faults' >= faults,
           file' \in [Place -> Note \cup {NoNote}], \A p \in Place : ColumnOK(p)',
           index' = [i \in Id |-> index'[i]], EntryOK(k)',
           job' = [d \in Client |-> job'[d]], \A d \in Client \ {c} : job'[d] = job[d],
           JobOK(c)', job'[c] = Idle \/ job'[c].id = k,
           answer' = [i \in Id |-> answer'[i]], \A i \in Id \ {k} : Still(i),
           job'[c] = Idle => Follows(k)' /\ Answered(k)'
    PROVE  NotesInv'
<1>0. faults \in Nat
  BY DEF NotesInv
<1>1. ASSUME NEW d \in Client \ {c} PROVE JobOK(d)'
  <2>1. JobOK(d) /\ job'[d] = job[d]
    BY DEF NotesInv
  <2>2. CASE job[d] = Idle
    BY <2>1, <2>2 DEF JobOK
  <2>3. CASE job[d] # Idle
    <3>1. PICK i : i = job[d].id
      OBVIOUS
    <3>2. i \in setting.own[d] /\ i \in Id /\ i # k
      BY <2>1, <2>3, <3>1, SettingIs DEF JobOK
    <3>3. Still(i) /\ Here(i)' = Here(i) /\ (Follows(i) => Follows(i)') /\ (Answered(i) => Answered(i)')
      BY <1>0, <3>2, StillIs
    <3>4. Here(i) \subseteq Folder
      BY DEF Here
    <3>5. /\ Purging(d, i) => Purging(d, i)'
          /\ Before(d, i) => Before(d, i)'
          /\ Clearing(d, i) => Clearing(d, i)'
          /\ Indexing(d, i) => Indexing(d, i)'
      BY <2>1, <3>3, <3>4 DEF Purging, Before, Clearing, Indexing, Formed, Moving, Still, At
    <3>6. /\ i \in setting.own[d] /\ job[d].folder \in Folder \ {Top} /\ (Crashes => job[d].folder = Home[i])
          /\ \/ Purging(d, i)
             \/ job[d].dead \in BOOLEAN /\ (Before(d, i) \/ Clearing(d, i) \/ Indexing(d, i))
      BY <2>1, <2>3, <3>1 DEF JobOK
    <3>7. /\ job'[d].id = i /\ i \in setting'.own[d] /\ job'[d].folder \in Folder \ {Top}
          /\ (Crashes' => job'[d].folder = Home[i])
          /\ \/ Purging(d, i)'
             \/ job'[d].dead \in BOOLEAN /\ (Before(d, i)' \/ Clearing(d, i)' \/ Indexing(d, i)')
      BY <2>1, <3>1, <3>5, <3>6 DEF Crashes
    <3> QED BY <3>7 DEF JobOK, Purging, Before, Clearing, Indexing, Follows, Answered, Here, At, Moving, Formed, Loose, Crashes
  <2> QED BY <2>2, <2>3
<1>2. ASSUME NEW i \in Id, ~Busy(i)' PROVE Follows(i)' /\ Answered(i)'
  <2>1. CASE i = k
    BY <1>2, <2>1 DEF Busy
  <2>2. CASE i # k
    <3>1. ~Busy(i)
      BY <1>2, <2>2 DEF Busy
    <3>2. Follows(i) /\ Answered(i)
      BY <3>1 DEF NotesInv
    <3> QED BY <1>0, <2>2, <3>2, StillIs
  <2> QED BY <2>1, <2>2
<1>3. ASSUME NEW i \in Id PROVE EntryOK(i)'
  <2>1. CASE i = k
    BY <2>1
  <2>2. CASE i # k
    BY <1>0, <2>2, StillIs DEF NotesInv
  <2> QED BY <2>1, <2>2
<1>4. setting \in Settings /\ open = TRUE
  BY DEF NotesInv
<1> QED BY <1>1, <1>2, <1>3, <1>4 DEF NotesInv

\* The id a client has in flight, or takes up, is its own.
LEMMA OwnIsFree ==
    ASSUME NotesInv, Plain, NEW c \in Client, NEW k \in setting.own[c], job[c] = Idle
    PROVE  k \in Id /\ ~Busy(k) /\ Follows(k) /\ Answered(k) /\ EntryOK(k)
<1>1. ASSUME NEW d \in Client, job[d] # Idle, job[d].id = k PROVE FALSE
  <2>1. k \in setting.own[d] /\ d # c
    BY <1>1 DEF NotesInv, JobOK
  <2> QED BY <2>1, SettingIs
<1>2. k \in Id /\ ~Busy(k)
  BY <1>1, SettingIs DEF Busy
<1> QED BY <1>2 DEF NotesInv

----------------------------------------------------------------------------
(* Requests *)

LEMMA CarryKeeps ==
    ASSUME NotesInv, Plain, NEW c \in Client, NEW i \in setting.own[c], job[c] = Idle,
           NEW d \in Folder \ {Top}, NEW dead \in BOOLEAN, Carry(c, i, d, dead), Crashes => d = Home[i],
           UNCHANGED <<setting, file, index, open, faults>>
    PROVE  NotesInv'
<1> DEFINE s == [at |-> "look", id |-> i, folder |-> d, dead |-> dead]
<1>1. job' = [job EXCEPT ![c] = s] /\ answer' = [answer EXCEPT ![i] = IF @ = "kept" THEN @ ELSE "none"]
  BY DEF Carry
<1>2. i \in Id /\ ~Busy(i) /\ Follows(i) /\ Answered(i) /\ EntryOK(i)
  BY OwnIsFree
<1>3. s.at = "look" /\ s.id = i /\ s.folder = d /\ s.dead = dead /\ s # Idle
  BY DEF Idle
<1> HIDE DEF s
<1>4. /\ job' = [e \in Client |-> job'[e]] /\ job'[c] = s /\ \A e \in Client \ {c} : job'[e] = job[e]
      /\ answer' = [j \in Id |-> answer'[j]] /\ \A j \in Id \ {i} : answer'[j] = answer[j]
      /\ answer'[i] \in {"kept", "none"} /\ (answer'[i] = "kept" => answer[i] = "kept")
      /\ (answer'[i] = "none" => answer[i] # "kept")
  BY <1>1, <1>2 DEF NotesInv
<1>5. Follows(i)' /\ Answered(i)' /\ EntryOK(i)' /\ \A p \in Place : ColumnOK(p)'
  BY <1>2, <1>4 DEF Follows, Answered, EntryOK, ColumnOK, Here, At, Crashes, NotesInv, Loose
<1>6. \A j \in Id \ {i} : Still(j)
  BY <1>4 DEF Still
<1>7. JobOK(c)'
  BY <1>3, <1>4, <1>5 DEF JobOK, Before, Crashes
<1> QED BY <1>3, <1>4, <1>5, <1>6, <1>7, ClientKeeps DEF NotesInv

\* A note of i's column carries i.
LEMMA ReadsItself ==
    ASSUME NotesInv, Plain, NEW i \in Id, CanRead(i)
    PROVE  index[i].folder \in Folder \ {Top} /\ IdRead(i) = i /\ (Crashes => index[i].folder = Home[i])
<1>1. PlaceOf(i) = At(i, index[i].folder)
  BY StemIs DEF PlaceOf, At
<1>2. index[i].folder \in Folder \ {Top} /\ (Crashes => index[i].folder = Home[i])
  BY DEF CanRead, NotesInv, EntryOK
<1>3. PICK p \in Place : p = PlaceOf(i) /\ p[2] = setting.safe[i]
  BY <1>1, <1>2, SettingIs DEF At
<1>4. ColumnOK(p) /\ file[p] # NoNote
  BY <1>3 DEF NotesInv, CanRead
<1>5. file[p].id = Unnamed \/ file[p].id = i
  BY <1>3, <1>4, SettingIs DEF ColumnOK
<1> QED BY <1>2, <1>3, <1>5 DEF IdRead

LEMMA RequestsKeep ==
    ASSUME NotesInv, Plain, NEW c \in Client, NEW i \in Id,
           \/ \E d \in Places(i) : Insert(c, i, d) \/ Replace(c, i, d)
           \/ \E dead \in BOOLEAN : Edit(c, i, dead)
    PROVE  NotesInv'
<1>1. ASSUME NEW d \in Places(i), Insert(c, i, d) \/ Replace(c, i, d) PROVE NotesInv'
  <2>1. /\ Carry(c, i, d, FALSE) /\ i \in setting.own[c] /\ job[c] = Idle
        /\ UNCHANGED <<setting, file, index, open, faults>>
    BY <1>1 DEF Insert, Replace, Ask
  <2>2. d \in Folder \ {Top} /\ (Crashes => d = Home[i])
    BY <1>1, NotesAssumption, SettingIs DEF Places
  <2> QED BY <2>1, <2>2, CarryKeeps
<1>2. ASSUME NEW dead \in BOOLEAN, Edit(c, i, dead) PROVE NotesInv'
  <2>1. /\ Carry(c, IdRead(i), index[i].folder, dead) /\ i \in setting.own[c] /\ job[c] = Idle /\ CanRead(i)
        /\ UNCHANGED <<setting, file, index, open, faults>>
    BY <1>2 DEF Edit, Ask
  <2>2. PICK d : d = index[i].folder
    OBVIOUS
  <2>3. d \in Folder \ {Top} /\ IdRead(i) = i /\ (Crashes => d = Home[i])
    BY <2>1, <2>2, ReadsItself
  <2>4. Carry(c, i, d, dead)
    BY <2>1, <2>2, <2>3
  <2> QED BY <2>1, <2>3, <2>4, CarryKeeps
<1> QED BY <1>1, <1>2

LEMMA PurgeKeeps == ASSUME NotesInv, Plain, NEW c \in Client, NEW i \in Id, Purge(c, i) PROVE NotesInv'
<1> DEFINE s == [at |-> "purge", id |-> i, folder |-> index[i].folder]
<1>1. /\ i \in setting.own[c] /\ job[c] = Idle /\ index[i] # NoEntry
      /\ index' = [index EXCEPT ![i] = NoEntry] /\ answer' = [answer EXCEPT ![i] = "none"]
      /\ job' = [job EXCEPT ![c] = s] /\ UNCHANGED <<setting, file, open, faults>>
  BY DEF Purge, Ask
<1>2. ~Busy(i) /\ Follows(i) /\ EntryOK(i)
  BY <1>1, OwnIsFree
<1>3. s.at = "purge" /\ s.id = i /\ s.folder = index[i].folder /\ s # Idle
  BY DEF Idle
<1> HIDE DEF s
<1>4. /\ job' = [e \in Client |-> job'[e]] /\ job'[c] = s /\ \A e \in Client \ {c} : job'[e] = job[e]
      /\ answer' = [j \in Id |-> answer'[j]] /\ \A j \in Id \ {i} : answer'[j] = answer[j]
      /\ index' = [j \in Id |-> index'[j]] /\ \A j \in Id \ {i} : index'[j] = index[j]
      /\ answer'[i] = "none" /\ index'[i] = NoEntry
  BY <1>1 DEF NotesInv
<1>5. \A d \in Here(i) : d = index[i].folder
  <2> SUFFICES ASSUME NEW d \in Here(i) PROVE d = index[i].folder
    OBVIOUS
  <2>1. index[i] = [folder |-> d, stem |-> ByRule, dead |-> file[At(i, d)].dead]
    BY <1>1, <1>2 DEF Follows, Loose, Crashes
  <2> QED BY <2>1
<1>6. Here(i)' = Here(i) /\ (\A p \in Place : ColumnOK(p)') /\ EntryOK(i)'
  BY <1>1, <1>4 DEF Here, At, ColumnOK, Crashes, EntryOK, NotesInv
<1>7. JobOK(c)'
  <2>1. s.folder \in Folder \ {Top} /\ (Crashes => s.folder = Home[i])
    BY <1>1, <1>2, <1>3 DEF EntryOK
  <2>2. Purging(c, i)'
    BY <1>3, <1>4, <1>5, <1>6 DEF Purging
  <2> QED BY <1>1, <1>3, <1>4, <2>1, <2>2 DEF JobOK, Crashes
<1>8. \A j \in Id \ {i} : Still(j)
  BY <1>1, <1>4 DEF Still
<1>9. file' \in [Place -> Note \cup {NoNote}] /\ open' = open /\ faults' \in Nat /\ faults' >= faults
  BY <1>1 DEF NotesInv
<1> QED BY <1>1, <1>3, <1>4, <1>6, <1>7, <1>8, <1>9, ClientKeeps DEF NotesInv

----------------------------------------------------------------------------
(* The steps of a request *)

\* What a busy client is about.
LEMMA JobIs ==
    ASSUME NotesInv, Plain, NEW c \in Client, job[c] # Idle
    PROVE  \E k \in setting.own[c] :
              /\ k = job[c].id /\ k \in Id /\ job[c].folder \in Folder \ {Top} /\ EntryOK(k)
              /\ Crashes => job[c].folder = Home[k]
              /\ \/ Purging(c, k)
                 \/ job[c].dead \in BOOLEAN /\ (Before(c, k) \/ Clearing(c, k) \/ Indexing(c, k))
  BY SettingIs DEF NotesInv, JobOK

LEMMA LookKeeps == ASSUME NotesInv, Plain, NEW c \in Client, Look(c) PROVE NotesInv'
<1>1. job[c].at = "look" /\ job[c] # Idle /\ UNCHANGED <<setting, file, index, open, ops, faults, answer>>
  BY DEF Look, Idle
<1>2. PICK k \in setting.own[c] :
              /\ k = job[c].id /\ k \in Id /\ job[c].folder \in Folder \ {Top} /\ EntryOK(k)
              /\ Crashes => job[c].folder = Home[k]
              /\ job[c].dead \in BOOLEAN /\ Before(c, k)
  BY <1>1, JobIs DEF Purging, Clearing, Indexing
<1> DEFINE s == [at |-> "write", id |-> k, folder |-> job[c].folder, dead |-> job[c].dead, previous |-> index[k]]
<1>3. job' = [job EXCEPT ![c] = s]
  BY <1>2 DEF Look
<1>4. /\ s.at = "write" /\ s.id = k /\ s.folder = job[c].folder /\ s.dead = job[c].dead /\ s.previous = index[k]
      /\ s # Idle /\ DOMAIN s = {"at", "id", "folder", "dead", "previous"}
  BY DEF Idle
<1> HIDE DEF s
<1>5. job' = [e \in Client |-> job'[e]] /\ job'[c] = s /\ \A e \in Client \ {c} : job'[e] = job[e]
  BY <1>3 DEF NotesInv
<1>6. Here(k)' = Here(k) /\ Follows(k)' /\ Answered(k)' /\ EntryOK(k)' /\ \A p \in Place : ColumnOK(p)'
  <2>1. Here(k)' = Here(k) /\ EntryOK(k)' /\ \A p \in Place : ColumnOK(p)'
    BY <1>1, <1>2 DEF EntryOK, ColumnOK, Here, At, Crashes, NotesInv
  <2>2. Follows(k) /\ Answered(k)
    BY <1>2 DEF Before
  <2>3. Follows(k)'
    BY <1>1, <2>1, <2>2 DEF Follows, At, Loose, Crashes
  <2>4. Answered(k)'
    BY <1>1, <2>1, <2>2 DEF Answered, At, Crashes
  <2> QED BY <2>1, <2>3, <2>4
<1>7. JobOK(c)'
  <2>1. answer'[k] = answer[k] /\ index'[k] = index[k] /\ setting' = setting
    BY <1>1
  <2>2. Before(c, k)'
    BY <1>2, <1>4, <1>5, <1>6, <2>1 DEF Before, Formed
  <2> QED BY <1>2, <1>4, <1>5, <2>1, <2>2 DEF JobOK, Crashes
<1>8. \A j \in Id \ {k} : Still(j)
  BY <1>1 DEF Still
<1>9. /\ file' \in [Place -> Note \cup {NoNote}] /\ open' = open
      /\ index' = [i \in Id |-> index'[i]] /\ answer' = [i \in Id |-> answer'[i]]
      /\ setting' = setting /\ faults' \in Nat /\ faults' >= faults
  BY <1>1 DEF NotesInv
<1> QED BY <1>2, <1>4, <1>5, <1>6, <1>7, <1>8, <1>9, ClientKeeps

LEMMA Onward ==
    ASSUME NotesInv, Plain, NEW c \in Client, Formed(c), NEW a, a # "idle", job' = [job EXCEPT ![c].at = a]
    PROVE  /\ job' = [e \in Client |-> job'[e]] /\ \A e \in Client \ {c} : job'[e] = job[e]
           /\ job'[c].at = a /\ job'[c] # Idle /\ job'[c].id = job[c].id /\ job'[c].folder = job[c].folder
           /\ job'[c].dead = job[c].dead /\ job'[c].previous = job[c].previous /\ Formed(c)'
<1>1. /\ job' = [e \in Client |-> job'[e]] /\ \A e \in Client \ {c} : job'[e] = job[e]
      /\ job'[c] = [job[c] EXCEPT !.at = a]
  BY DEF NotesInv
<1> DEFINE x == job[c]  y == [x EXCEPT !.at = a]
<1>2. DOMAIN x = {"at", "id", "folder", "dead", "previous"}
  BY DEF Formed
<1> HIDE DEF x
<1>3. /\ DOMAIN y = DOMAIN x /\ y.at = a /\ y.id = x.id /\ y.folder = x.folder /\ y.dead = x.dead
      /\ y.previous = x.previous
  BY <1>2
<1>4. job'[c] = y
  BY <1>1 DEF x
<1> HIDE DEF y
<1>5. y # Idle
  BY <1>3 DEF Idle
<1> QED BY <1>1, <1>2, <1>3, <1>4, <1>5 DEF x, Formed

\* Crashes leave each document at most in its home.
LEMMA OneHome ==
    ASSUME NotesInv, Plain, Crashes, NEW i \in Id
    PROVE  /\ Here(i) \subseteq {Home[i]}
           /\ Cardinality(Explicit(file, i)) <= 1
<1>1. ASSUME NEW p \in Explicit(file, i) PROVE p = At(i, Home[i])
  <2>1. p \in Place /\ file[p] # NoNote /\ file[p].id = i /\ ColumnOK(p)
    BY <1>1 DEF Explicit, NotesInv
  <2>2. p[1] = Home[i] /\ p[2] = setting.safe[i] /\ p = <<p[1], p[2]>>
    BY <2>1, NotesAssumption DEF ColumnOK, Place
  <2> QED BY <2>2 DEF At
<1>2. ASSUME NEW d \in Here(i) PROVE d = Home[i]
  <2>1. At(i, d) \in Explicit(file, i)
    BY <1>2, SettingIs DEF Here, Explicit
  <2> QED BY <1>1, <2>1 DEF At
<1>3. Explicit(file, i) \in SUBSET {At(i, Home[i])}
  BY <1>1
<1>4. IsFiniteSet({At(i, Home[i])}) /\ Cardinality({At(i, Home[i])}) = 1
  BY FS_Singleton
<1>5. Cardinality(Explicit(file, i)) <= 1
  BY <1>3, <1>4, FS_Subset
<1> QED BY <1>2, <1>5

LEMMA WriteKeeps == ASSUME NotesInv, Plain, NEW c \in Client, Write(c) PROVE NotesInv'
<1>1. /\ job[c].at = "write" /\ job[c] # Idle /\ UNCHANGED <<setting, index, open, ops, faults, answer>>
      /\ file' = Written(c) /\ job' = [job EXCEPT ![c].at = IF Moving(c) THEN "clear" ELSE "index"]
  BY DEF Write, Idle
<1>2. PICK k \in setting.own[c] :
              /\ k = job[c].id /\ k \in Id /\ job[c].folder \in Folder \ {Top} /\ EntryOK(k)
              /\ Crashes => job[c].folder = Home[k]
              /\ job[c].dead \in BOOLEAN /\ Before(c, k) /\ job[c].previous = index[k] /\ Formed(c)
  BY <1>1, JobIs DEF Purging, Clearing, Indexing, Before
<1>3. PICK d \in Folder : d = job[c].folder /\ d # Top /\ (Crashes => d = Home[k])
  BY <1>2
<1>4. PICK x \in Note : x = [id |-> k, dead |-> job[c].dead]
  BY <1>2 DEF Note
<1>5. file' = [file EXCEPT ![<<d, setting.safe[k]>>] = x]
  BY <1>1, <1>2, <1>3, <1>4, StemIs DEF Written
<1>6. x # NoNote /\ x.id = k /\ x.dead = job[c].dead
  BY <1>4, NothingIsApart
<1>7. /\ file' \in [Place -> Note \cup {NoNote}] /\ \A p \in Place : ColumnOK(p)'
      /\ file'[At(k, d)] = x /\ \A e \in Folder \ {d} : file'[At(k, e)] = file[At(k, e)]
      /\ \A i \in Id \ {k}, e \in Folder : file'[At(i, e)] = file[At(i, e)]
  <2>1. k \in Id /\ setting' = setting /\ x \in Note \cup {NoNote} /\ x.id = k /\ d # Top /\ (Crashes => d = Home[k])
    BY <1>1, <1>2, <1>3, <1>6
  <2> QED BY <1>5, <2>1, OnePlace
<1>8. Here(k)' = Here(k) \cup {d} /\ Here(k) \subseteq Folder
  BY <1>1, <1>6, <1>7 DEF Here, At
<1>9. \A e \in Here(k) : e = d \/ (index[k] # NoEntry /\ e = index[k].folder)
  <2>0. ASSUME NEW e \in Here(k), Loose(k) PROVE e = d
    <3>1. Crashes
      BY <2>0 DEF Loose
    <3>2. Here(k) \subseteq {Home[k]}
      BY <1>2, <3>1, OneHome
    <3> QED BY <1>3, <2>0, <3>1, <3>2
  <2> SUFFICES ASSUME NEW e \in Here(k), ~Loose(k) PROVE index[k] # NoEntry /\ e = index[k].folder
    BY <2>0
  <2>1. index[k] = [folder |-> e, stem |-> ByRule, dead |-> file[At(k, e)].dead]
    BY <1>2 DEF Before, Follows, Loose, Crashes
  <2> QED BY <2>1, NothingIsApart
<1>10. PICK a \in {"clear", "index"} : a = IF Moving(c) THEN "clear" ELSE "index"
  OBVIOUS
<1>11. /\ job' = [e \in Client |-> job'[e]] /\ \A e \in Client \ {c} : job'[e] = job[e]
       /\ job'[c].at = a /\ job'[c] # Idle /\ job'[c].id = k /\ job'[c].folder = d
       /\ job'[c].dead = job[c].dead /\ job'[c].previous = index[k] /\ Formed(c)'
  <2>1. Formed(c) /\ a # "idle" /\ job' = [job EXCEPT ![c].at = a]
    BY <1>1, <1>2, <1>10
  <2>2. k = job[c].id /\ d = job[c].folder /\ index[k] = job[c].previous
    BY <1>2, <1>3
  <2>3. /\ job' = [e \in Client |-> job'[e]] /\ \A e \in Client \ {c} : job'[e] = job[e]
        /\ job'[c].at = a /\ job'[c] # Idle /\ job'[c].id = job[c].id /\ job'[c].folder = job[c].folder
        /\ job'[c].dead = job[c].dead /\ job'[c].previous = job[c].previous /\ Formed(c)'
    BY <2>1, Onward
  <2> QED BY <2>2, <2>3
<1>12. answer'[k] # "gone" /\ file'[At(k, d)].dead = job[c].dead
  BY <1>1, <1>2, <1>6, <1>7 DEF Before
<1>13. Clearing(c, k)' \/ Indexing(c, k)'
  <2>1. CASE Moving(c)
    <3>1. Moving(c)'
      BY <1>1, <1>2, <1>3, <1>11, <2>1 DEF Moving
    <3> QED BY <1>1, <1>8, <1>9, <1>10, <1>11, <1>12, <2>1, <3>1 DEF Clearing, At
  <2>2. CASE ~Moving(c)
    <3>1. Here(k)' = {d}
      BY <1>2, <1>3, <1>8, <1>9, <2>2 DEF Moving
    <3> QED BY <1>1, <1>10, <1>11, <1>12, <2>2, <3>1 DEF Indexing, At
  <2> QED BY <2>1, <2>2
<1>14. JobOK(c)'
  <2>1. /\ job'[c].id \in setting'.own[c] /\ job'[c].folder \in Folder \ {Top} /\ job'[c].dead \in BOOLEAN
        /\ (Crashes' => job'[c].folder = Home[k])
    BY <1>1, <1>2, <1>3, <1>11 DEF Crashes
  <2>2. PICK e : e = k
    OBVIOUS
  <2>3. job'[c].id = e /\ (Clearing(c, e)' \/ Indexing(c, e)')
    BY <1>11, <1>13, <2>2
  <2> QED BY <2>1, <2>2, <2>3 DEF JobOK, Clearing, Indexing, Here, At, Formed, Moving
<1>15. EntryOK(k)' /\ \A j \in Id \ {k} : Still(j)
  BY <1>1, <1>2, <1>7 DEF EntryOK, Crashes, Still
<1>16. /\ open' = open /\ setting' = setting /\ faults' \in Nat /\ faults' >= faults
       /\ index' = [i \in Id |-> index'[i]] /\ answer' = [i \in Id |-> answer'[i]]
  BY <1>1 DEF NotesInv
<1> QED BY <1>2, <1>7, <1>11, <1>14, <1>15, <1>16, ClientKeeps

LEMMA ClearKeeps == ASSUME NotesInv, Plain, NEW c \in Client, Clear(c) PROVE NotesInv'
<1>1. /\ job[c].at = "clear" /\ job[c] # Idle /\ UNCHANGED <<setting, index, open, ops, faults, answer>>
      /\ file' = Cleared(c) /\ job' = [job EXCEPT ![c].at = "index"]
  BY DEF Clear, Idle
<1>2. PICK k \in setting.own[c] :
              /\ k = job[c].id /\ k \in Id /\ job[c].folder \in Folder \ {Top} /\ EntryOK(k)
              /\ Crashes => job[c].folder = Home[k]
              /\ job[c].dead \in BOOLEAN /\ Clearing(c, k) /\ job[c].previous = index[k] /\ Formed(c)
  BY <1>1, JobIs DEF Purging, Clearing, Indexing, Before
<1>3. PICK d \in Folder : d = index[k].folder /\ d # job[c].folder
  BY <1>2 DEF Clearing, Moving, EntryOK
<1>4. file' = [file EXCEPT ![<<d, setting.safe[k]>>] = NoNote]
  BY <1>1, <1>2, <1>3, StemIs DEF Cleared
<1>5. /\ file' \in [Place -> Note \cup {NoNote}] /\ \A p \in Place : ColumnOK(p)'
      /\ file'[At(k, d)] = NoNote /\ \A e \in Folder \ {d} : file'[At(k, e)] = file[At(k, e)]
      /\ \A i \in Id \ {k}, e \in Folder : file'[At(i, e)] = file[At(i, e)]
  <2>1. k \in Id /\ setting' = setting /\ NoNote \in Note \cup {NoNote}
    BY <1>1, <1>2
  <2> QED BY <1>4, <2>1, OnePlace
<1>6. Here(k)' = Here(k) \ {d} /\ Here(k) \subseteq Folder
  BY <1>1, <1>5 DEF Here, At
<1>7. /\ job' = [e \in Client |-> job'[e]] /\ \A e \in Client \ {c} : job'[e] = job[e]
      /\ job'[c].at = "index" /\ job'[c] # Idle /\ job'[c].id = k /\ job'[c].folder = job[c].folder
      /\ job'[c].dead = job[c].dead /\ Formed(c)'
  BY <1>1, <1>2, Onward, ZenonT(40)
<1>8. Indexing(c, k)'
  <2>1. /\ job[c].folder \in Here(k) /\ Here(k) \subseteq {job[c].folder, d} /\ answer[k] # "gone"
        /\ file[At(k, job[c].folder)].dead = job[c].dead
    BY <1>2, <1>3 DEF Clearing
  <2>2. Here(k)' = {job'[c].folder}
    BY <1>3, <1>6, <1>7, <2>1
  <2>3. At(k, job[c].folder)' = At(k, job[c].folder) /\ answer'[k] # "gone"
    BY <1>1, <1>7, <2>1 DEF At
  <2>4. file'[At(k, job[c].folder)] = file[At(k, job[c].folder)]
    <3>1. job[c].folder \in Folder \ {d}
      BY <1>2, <1>3
    <3> QED BY <1>5, <3>1
  <2> QED BY <1>7, <2>1, <2>2, <2>3, <2>4 DEF Indexing
<1>9. JobOK(c)'
  <2>1. /\ job'[c].id \in setting'.own[c] /\ job'[c].folder \in Folder \ {Top} /\ job'[c].dead \in BOOLEAN
        /\ (Crashes' => job'[c].folder = Home[k])
    <3>1. setting' = setting /\ (Crashes => job[c].folder = Home[k])
      BY <1>1, <1>2
    <3>2. job'[c].id = k /\ job'[c].folder = job[c].folder /\ job'[c].dead = job[c].dead
      BY <1>7
    <3>3. k \in setting.own[c] /\ job[c].folder \in Folder \ {Top} /\ job[c].dead \in BOOLEAN
      BY <1>2
    <3> QED BY <3>1, <3>2, <3>3 DEF Crashes
  <2>2. PICK e : e = k
    OBVIOUS
  <2>3. job'[c].id = e /\ Indexing(c, e)' /\ (Crashes' => job'[c].folder = Home[e])
    BY <1>7, <1>8, <2>1, <2>2
  <2>4. job'[c].id \in setting'.own[c] /\ job'[c].folder \in Folder \ {Top} /\ job'[c].dead \in BOOLEAN
    BY <2>1
  <2> QED BY <2>3, <2>4 DEF JobOK, Indexing, Here, At, Formed
<1>10. EntryOK(k)' /\ \A j \in Id \ {k} : Still(j)
  BY <1>1, <1>2, <1>5 DEF EntryOK, Crashes, Still
<1>11. /\ open' = open /\ setting' = setting /\ faults' \in Nat /\ faults' >= faults
       /\ index' = [i \in Id |-> index'[i]] /\ answer' = [i \in Id |-> answer'[i]]
  BY <1>1 DEF NotesInv
<1> QED BY <1>2, <1>5, <1>7, <1>9, <1>10, <1>11, ClientKeeps

\* No document of these ids lies in the vault's own directory.
LEMMA NeverRefused == ASSUME NotesInv, Plain, NEW c \in Client PROVE ~ClearRefused(c)
<1> SUFFICES ASSUME ClearRefused(c) PROVE FALSE
  OBVIOUS
<1>1. job[c].at = "clear" /\ job[c] # Idle /\ job[c].previous.folder = Top
  BY DEF ClearRefused, Idle
<1> QED BY <1>1, JobIs DEF Purging, Clearing, Indexing, Before, Moving, EntryOK

\* A client becomes idle.
LEMMA IdleIs ==
    ASSUME NotesInv, NEW c \in Client, job' = [job EXCEPT ![c] = Idle]
    PROVE  Plain => /\ job' = [e \in Client |-> job'[e]] /\ \A e \in Client \ {c} : job'[e] = job[e]
                    /\ job'[c] = Idle /\ JobOK(c)'
  BY DEF NotesInv, JobOK

LEMMA IndexItKeeps == ASSUME NotesInv, Plain, NEW c \in Client, IndexIt(c) PROVE NotesInv'
<1>1. /\ job[c].at = "index" /\ job[c] # Idle /\ UNCHANGED <<setting, file, open, ops, faults>>
      /\ index' = [index EXCEPT ![job[c].id] = Indexed(c)] /\ answer' = [answer EXCEPT ![job[c].id] = "kept"]
      /\ job' = [job EXCEPT ![c] = Idle]
  BY DEF IndexIt, Idle
<1>2. PICK k \in setting.own[c] :
              /\ k = job[c].id /\ k \in Id /\ job[c].folder \in Folder \ {Top} /\ EntryOK(k)
              /\ Crashes => job[c].folder = Home[k]
              /\ Indexing(c, k)
  BY <1>1, JobIs DEF Purging, Clearing, Indexing, Before
<1> DEFINE x == [folder |-> job[c].folder, stem |-> ByRule, dead |-> job[c].dead]
<1>3. x.folder = job[c].folder /\ x.stem = ByRule /\ Indexed(c) = x
  BY DEF Indexed
<1>4. /\ index' = [j \in Id |-> index'[j]] /\ \A j \in Id \ {k} : index'[j] = index[j]
      /\ answer' = [j \in Id |-> answer'[j]] /\ \A j \in Id \ {k} : answer'[j] = answer[j]
  <2> HIDE DEF x
  <2> QED BY <1>1, <1>2, <1>3 DEF NotesInv
<1>40. index'[k] = x /\ answer'[k] = "kept"
  <2> HIDE DEF x
  <2> QED BY <1>1, <1>2, <1>3 DEF NotesInv
<1>5. Here(k)' = Here(k) /\ Here(k) = {job[c].folder}
  BY <1>1, <1>2 DEF Here, At, Indexing
<1>6. Follows(k)'
  BY <1>1, <1>2, <1>40, <1>5 DEF Follows, Indexing, At, Loose, Crashes
<1>7. EntryOK(k)' /\ Answered(k)'
  <2> HIDE DEF x
  <2> QED BY <1>1, <1>2, <1>3, <1>40, <1>5 DEF EntryOK, Answered, Crashes
<1> HIDE DEF x
<1>8. \A j \in Id \ {k} : Still(j)
  BY <1>1, <1>4 DEF Still
<1>9. \A p \in Place : ColumnOK(p)'
  BY <1>1 DEF ColumnOK, Crashes, NotesInv
<1>10. /\ open' = open /\ setting' = setting /\ faults' \in Nat /\ faults' >= faults
       /\ file' \in [Place -> Note \cup {NoNote}]
  BY <1>1 DEF NotesInv
<1> QED BY <1>1, <1>2, <1>4, <1>6, <1>7, <1>8, <1>9, <1>10, IdleIs, ClientKeeps

LEMMA PurgeFileKeeps == ASSUME NotesInv, Plain, NEW c \in Client, PurgeFile(c) PROVE NotesInv'
<1>1. /\ job[c].at = "purge" /\ job[c] # Idle /\ UNCHANGED <<setting, index, open, ops, faults>>
      /\ file' = Purged(c) /\ job' = [job EXCEPT ![c] = Idle]
      /\ answer' = [answer EXCEPT ![job[c].id] = IF job[c].folder = Top THEN @ ELSE "gone"]
  BY DEF PurgeFile, Idle
<1>2. PICK k \in setting.own[c] :
              /\ k = job[c].id /\ k \in Id /\ job[c].folder \in Folder \ {Top} /\ EntryOK(k)
              /\ Crashes => job[c].folder = Home[k]
              /\ Purging(c, k)
  BY <1>1, JobIs DEF Purging, Clearing, Indexing, Before
<1>3. PICK d \in Folder : d = job[c].folder /\ d # Top
  BY <1>2
<1>4. file' = [file EXCEPT ![<<d, setting.safe[k]>>] = NoNote]
  BY <1>1, <1>2, <1>3 DEF Purged
<1>5. /\ file' \in [Place -> Note \cup {NoNote}] /\ \A p \in Place : ColumnOK(p)'
      /\ file'[At(k, d)] = NoNote /\ \A e \in Folder \ {d} : file'[At(k, e)] = file[At(k, e)]
      /\ \A i \in Id \ {k}, e \in Folder : file'[At(i, e)] = file[At(i, e)]
  <2>1. k \in Id /\ setting' = setting /\ NoNote \in Note \cup {NoNote}
    BY <1>1, <1>2
  <2> QED BY <1>4, <2>1, OnePlace
<1>6. Here(k)' = {}
  BY <1>1, <1>2, <1>3, <1>5 DEF Here, At, Purging
<1>7. /\ answer' = [j \in Id |-> answer'[j]] /\ \A j \in Id \ {k} : answer'[j] = answer[j]
      /\ answer'[k] = "gone"
  BY <1>1, <1>2, <1>3 DEF NotesInv
<1>8. Follows(k)' /\ EntryOK(k)'
  BY <1>1, <1>2, <1>6 DEF Follows, EntryOK, Purging, Loose, Crashes
<1>9. Answered(k)'
  <2>1. Crashes' => file'[At(k, Home[k])] = NoNote
    BY <1>1, <1>2, <1>3, <1>5 DEF Crashes
  <2> QED BY <1>1, <1>2, <1>6, <1>7, <2>1 DEF Answered, Purging, At
<1>10. \A j \in Id \ {k} : Still(j)
  BY <1>1, <1>5, <1>7 DEF Still
<1>11. /\ open' = open /\ setting' = setting /\ faults' \in Nat /\ faults' >= faults
       /\ index' = [i \in Id |-> index'[i]]
  BY <1>1 DEF NotesInv
<1> QED BY <1>1, <1>2, <1>5, <1>7, <1>8, <1>9, <1>10, <1>11, IdleIs, ClientKeeps

\* A removal that fails leaves the note, and no promise.
LEMMA PurgeLeavesKeeps == ASSUME NotesInv, Plain, NEW c \in Client, PurgeLeaves(c) PROVE NotesInv'
<1>1. /\ job[c].at = "purge" /\ job[c] # Idle /\ UNCHANGED <<setting, file, index, open, ops>>
      /\ job' = [job EXCEPT ![c] = Idle] /\ answer' = [answer EXCEPT ![job[c].id] = "left"]
      /\ faults' = faults + 1 /\ faults < setting.faults
  BY DEF PurgeLeaves, Idle
<1>2. Crashes /\ faults' \in Nat /\ faults' >= faults /\ faults' > 0
  BY <1>1, SettingIs DEF Crashes, NotesInv, Setting
<1>3. PICK k \in setting.own[c] : k = job[c].id /\ k \in Id /\ EntryOK(k) /\ Purging(c, k)
  BY <1>1, JobIs DEF Clearing, Indexing, Before
<1>4. /\ answer' = [j \in Id |-> answer'[j]] /\ \A j \in Id \ {k} : answer'[j] = answer[j]
      /\ answer'[k] = "left"
  BY <1>1, <1>3 DEF NotesInv
<1>5. Follows(k)' /\ Answered(k)' /\ EntryOK(k)'
  BY <1>1, <1>2, <1>3, <1>4 DEF Follows, Loose, Answered, EntryOK, Purging, Crashes
<1>6. \A p \in Place : ColumnOK(p)'
  BY <1>1 DEF NotesInv, ColumnOK, Crashes
<1>7. \A j \in Id \ {k} : Still(j)
  BY <1>1, <1>4 DEF Still
<1>8. /\ open' = open /\ setting' = setting /\ index' = [i \in Id |-> index'[i]]
      /\ file' \in [Place -> Note \cup {NoNote}]
  BY <1>1 DEF NotesInv
<1> QED BY <1>1, <1>2, <1>3, <1>4, <1>5, <1>6, <1>7, <1>8, IdleIs, ClientKeeps

\* A failed write leaves everything as it was; beside faults nothing is cleared.
LEMMA FailsKeeps == ASSUME NotesInv, Plain, NEW c \in Client, StepFails(c) PROVE NotesInv'
<1>1. /\ job[c].at \in {"write", "clear"} /\ job[c] # Idle
      /\ UNCHANGED <<setting, file, index, open, ops, answer>>
      /\ job' = [job EXCEPT ![c] = Idle] /\ faults' = faults + 1 /\ faults < setting.faults
  BY DEF StepFails, Idle
<1>2. Crashes
  BY <1>1, SettingIs DEF Crashes, NotesInv, Setting
<1>3. PICK k \in setting.own[c] :
              /\ k = job[c].id /\ k \in Id /\ job[c].folder \in Folder \ {Top} /\ EntryOK(k)
              /\ job[c].folder = Home[k]
              /\ Before(c, k) \/ Clearing(c, k)
  BY <1>1, <1>2, JobIs DEF Purging, Clearing, Indexing, Before
<1>4. Before(c, k)
  BY <1>2, <1>3 DEF Clearing, Moving, EntryOK
<1>5. Here(k)' = Here(k) /\ Follows(k)' /\ Answered(k)' /\ EntryOK(k)' /\ \A p \in Place : ColumnOK(p)'
  <2>1. faults' > 0
    BY <1>1 DEF NotesInv
  <2>2. Here(k)' = Here(k) /\ EntryOK(k)' /\ \A p \in Place : ColumnOK(p)'
    BY <1>1, <1>3 DEF EntryOK, ColumnOK, Here, At, Crashes, NotesInv
  <2>3. Answered(k)'
    BY <1>1, <1>4, <2>2 DEF Before, Answered, At, Crashes
  <2>4. Follows(k)'
    BY <1>1, <1>4, <2>1, <2>2 DEF Before, Follows, Loose, At, Crashes
  <2> QED BY <2>2, <2>3, <2>4
<1>6. \A j \in Id \ {k} : Still(j)
  BY <1>1 DEF Still
<1>7. /\ open' = open /\ setting' = setting /\ faults' \in Nat /\ faults' >= faults
      /\ index' = [i \in Id |-> index'[i]] /\ answer' = [i \in Id |-> answer'[i]]
      /\ file' \in [Place -> Note \cup {NoNote}]
  BY <1>1 DEF NotesInv
<1> QED BY <1>1, <1>3, <1>5, <1>6, <1>7, IdleIs, ClientKeeps

----------------------------------------------------------------------------
(* A restart, and the start *)

\* What an index built from these files says of an id.
LEMMA BuiltIs ==
    ASSUME NotesInv, Plain, NEW i \in Id, NEW d \in Folder,
           Named(file, i) = {} => d = Top, Named(file, i) # {} => d \in Named(file, i),
           \A e1, e2 \in Here(i) : e1 = e2
    PROVE  /\ \A e \in Here(i) :
                 Built(file, i, d) = [folder |-> e, stem |-> ByRule, dead |-> file[At(i, e)].dead]
           /\ Here(i) = {} => \/ Built(file, i, d) = NoEntry
                              \/ /\ Built(file, i, d) = [folder |-> d, stem |-> i, dead |-> file[<<d, i>>].dead]
                                 /\ file[<<d, i>>] # NoNote /\ <<d, i>> \in setting.hand
<1>1. Explicit(file, i) = {At(i, e) : e \in Here(i)}
  <2>1. \A e \in Here(i) : At(i, e) \in Place /\ At(i, e) \in Explicit(file, i)
    BY SettingIs DEF Here, Explicit
  <2>2. ASSUME NEW p \in Explicit(file, i) PROVE \E e \in Here(i) : p = At(i, e)
    <3>1. p \in Place /\ file[p] # NoNote /\ file[p].id = i /\ ColumnOK(p)
      BY <2>2 DEF Explicit, NotesInv
    <3>2. p[2] = setting.safe[i] /\ p[1] \in Folder /\ p = <<p[1], p[2]>>
      BY <3>1, NotesAssumption DEF ColumnOK, Place
    <3> QED BY <3>1, <3>2 DEF Here, At
  <2> QED BY <2>1, <2>2
<1>2. ASSUME NEW e \in Here(i)
      PROVE  Built(file, i, d) = [folder |-> e, stem |-> ByRule, dead |-> file[At(i, e)].dead]
  <2>1. Explicit(file, i) = {At(i, e)}
    BY <1>1, <1>2
  <2>2. (CHOOSE p \in Explicit(file, i) : TRUE) = At(i, e) /\ Explicit(file, i) # {}
    BY <2>1
  <2>3. At(i, e)[1] = e
    BY DEF At
  <2> QED BY <2>2, <2>3 DEF Built
<1>3. ASSUME Here(i) = {}, Built(file, i, d) # NoEntry
      PROVE  /\ Built(file, i, d) = [folder |-> d, stem |-> i, dead |-> file[<<d, i>>].dead]
             /\ file[<<d, i>>] # NoNote /\ <<d, i>> \in setting.hand
  <2>1. Explicit(file, i) = {}
    BY <1>1, <1>3
  <2>2. /\ Built(file, i, d) = [folder |-> d, stem |-> i, dead |-> file[<<d, i>>].dead]
        /\ file[<<d, i>>] # NoNote /\ file[<<d, i>>].id = Unnamed
    BY <1>3, <2>1 DEF Built
  <2>3. <<d, i>> \in Place
    BY NotesAssumption DEF Place
  <2>4. ColumnOK(<<d, i>>)
    BY <2>3 DEF NotesInv
  <2> QED BY <2>2, <2>4, NotesAssumption DEF ColumnOK
<1> QED BY <1>2, <1>3

\* Whatever request is cut, what was answered can be told from the files.
LEMMA AnsweredAnyway ==
    ASSUME NotesInv, Plain, NEW i \in Id
    PROVE  /\ answer[i] = "kept" => Here(i) # {}
           /\ answer[i] = "gone" => Here(i) = {} /\ (Crashes => file[At(i, Home[i])] = NoNote)
<1>1. CASE ~Busy(i)
  BY <1>1 DEF NotesInv, Answered
<1>2. CASE Busy(i)
  <2>1. PICK c \in Client : job[c] # Idle /\ job[c].id = i
    BY <1>2 DEF Busy
  <2> QED BY <2>1, JobIs DEF Purging, Before, Clearing, Indexing, Answered
<1> QED BY <1>1, <1>2

LEMMA ReopenKeeps == ASSUME NotesInv, Plain, Reopen PROVE NotesInv'
<1>1. /\ job' = [c \in Client |-> Idle] /\ UNCHANGED <<setting, file, ops, answer>>
      /\ open' = ~Duplicates(file) /\ index' \in (IF Duplicates(file) THEN {index} ELSE Rebuilt(file))
      /\ faults' = faults + 1 /\ faults < setting.faults
  BY DEF Reopen
<1>2. Crashes
  BY <1>1, SettingIs DEF Crashes, NotesInv, Setting
<1>3. ~Duplicates(file)
  <2> SUFFICES ASSUME NEW i \in Id, Cardinality(Explicit(file, i)) > 1 PROVE FALSE
    BY DEF Duplicates
  <2>1. Explicit(file, i) \in SUBSET {At(i, Home[i])} => Cardinality(Explicit(file, i)) \in Nat
    BY FS_Singleton, FS_Subset, FS_CardinalityType
  <2>2. Cardinality(Explicit(file, i)) <= 1
    BY <1>2, OneHome
  <2>3. Explicit(file, i) \in SUBSET {At(i, Home[i])}
    <3> SUFFICES ASSUME NEW p \in Explicit(file, i) PROVE p = At(i, Home[i])
      OBVIOUS
    <3>1. p \in Place /\ file[p] # NoNote /\ file[p].id = i /\ ColumnOK(p)
      BY DEF Explicit, NotesInv
    <3>2. p[1] = Home[i] /\ p[2] = setting.safe[i] /\ p = <<p[1], p[2]>>
      BY <1>2, <3>1, NotesAssumption DEF ColumnOK, Place
    <3> QED BY <3>2 DEF At
  <2> QED BY <2>1, <2>2, <2>3
<1>4. PICK met \in [Id -> Folder] :
         /\ \A i \in Id : met[i] \in (IF Named(file, i) = {} THEN {Top} ELSE Named(file, i))
         /\ index' = [i \in Id |-> Built(file, i, met[i])]
  BY <1>1, <1>3 DEF Rebuilt
<1>5. ASSUME NEW i \in Id PROVE EntryOK(i)' /\ Follows(i)' /\ Answered(i)'
  <2>1. Here(i) \subseteq {Home[i]} /\ Here(i)' = Here(i)
    BY <1>1, <1>2, OneHome DEF Here, At
  <2>2. PICK d \in Folder : d = met[i] /\ index'[i] = Built(file, i, d)
    BY <1>4
  <2>3. (Named(file, i) = {} => d = Top) /\ (Named(file, i) # {} => d \in Named(file, i))
    BY <1>4, <2>2
  <2>4. /\ \A e \in Here(i) :
               Built(file, i, d) = [folder |-> e, stem |-> ByRule, dead |-> file[At(i, e)].dead]
        /\ Here(i) = {} => \/ Built(file, i, d) = NoEntry
                           \/ /\ Built(file, i, d) = [folder |-> d, stem |-> i, dead |-> file[<<d, i>>].dead]
                              /\ file[<<d, i>>] # NoNote /\ <<d, i>> \in setting.hand
    BY <2>1, <2>3, BuiltIs
  <2>5. Follows(i)'
    BY <1>1, <2>1, <2>2, <2>4 DEF Follows, At, Loose, Crashes
  <2>6. Home[i] \in Folder \ {Top}
    BY NotesAssumption
  <2>7. <<d, i>> \in setting.hand => d = Home[i] /\ d # Top /\ setting.safe[i] = i
    BY <1>2, SettingIs
  <2>8. EntryOK(i)'
    <3>1. CASE Here(i) = {}
      BY <1>1, <2>2, <2>4, <2>6, <2>7, <3>1 DEF EntryOK, Crashes
    <3>2. CASE Here(i) # {}
      <4>1. index'[i] = [folder |-> Home[i], stem |-> ByRule, dead |-> file[At(i, Home[i])].dead]
        BY <2>1, <2>2, <2>4, <3>2
      <4> QED BY <1>1, <2>6, <4>1 DEF EntryOK, Crashes
    <3> QED BY <3>1, <3>2
  <2>9. Answered(i)'
    <3>1. /\ answer[i] = "kept" => Here(i) # {}
          /\ answer[i] = "gone" => Here(i) = {} /\ file[At(i, Home[i])] = NoNote
      BY <1>2, AnsweredAnyway
    <3>2. answer[i] = "gone" => index'[i] = NoEntry
      BY <2>2, <2>4, <2>7, <3>1 DEF At
    <3> QED BY <1>1, <2>1, <3>1, <3>2 DEF Answered, At, Crashes
  <2> QED BY <2>5, <2>8, <2>9
<1>6. \A p \in Place : ColumnOK(p)'
  BY <1>1 DEF NotesInv, ColumnOK, Crashes
<1>7. /\ setting' = setting /\ file' \in [Place -> Note \cup {NoNote}] /\ answer' = [i \in Id |-> answer'[i]]
      /\ faults' \in Nat /\ faults' >= faults /\ setting' \in Settings
  BY <1>1 DEF NotesInv
<1> QED BY <1>1, <1>3, <1>4, <1>5, <1>6, <1>7 DEF NotesInv, JobOK

LEMMA NotesStart == Init => NotesInv
<1> SUFFICES ASSUME Init PROVE NotesInv
  OBVIOUS
<1>1. setting \in Settings /\ setting \in Setting /\ faults = 0
  BY NotesAssumption DEF Init
<1> SUFFICES ASSUME Plain PROVE
         /\ open = TRUE
         /\ file \in [Place -> Note \cup {NoNote}] /\ \A p \in Place : ColumnOK(p)
         /\ index = [i \in Id |-> index[i]] /\ \A i \in Id : EntryOK(i)
         /\ job = [c \in Client |-> job[c]] /\ \A c \in Client : JobOK(c)
         /\ answer = [i \in Id |-> answer[i]]
         /\ \A i \in Id : ~Busy(i) => Follows(i) /\ Answered(i)
  BY <1>1 DEF NotesInv
<1>2. PICK kept \in SUBSET setting.hand : file = [p \in Place |-> IF p \in kept THEN HandNote ELSE NoNote]
  BY DEF Init
<1>3. HandNote \in Note /\ HandNote.id = Unnamed
  BY DEF HandNote, Note
<1>4. file \in [Place -> Note \cup {NoNote}] /\ \A p \in Place : ColumnOK(p)
  BY <1>2, <1>3 DEF ColumnOK
<1>5. \A i \in Id : Here(i) = {}
  <2> SUFFICES ASSUME NEW i \in Id, NEW d \in Here(i) PROVE FALSE
    OBVIOUS
  <2>1. setting.safe[i] \in Name
    BY <1>1 DEF Setting
  <2>2. At(i, d) \in Place /\ file[At(i, d)] # NoNote /\ file[At(i, d)].id = i
    BY <2>1 DEF Here, At, Place
  <2> QED BY <1>2, <1>3, <2>2, NotesAssumption
<1>6. /\ \A p \in setting.hand : p[1] # Top /\ setting.safe[p[2]] = p[2]
      /\ setting.faults > 0 => \A p \in setting.hand : p[1] = Home[p[2]]
  BY <1>1, NotesApart DEF Plain
<1>7. PICK met \in [Id -> Folder] : index = [i \in Id |-> Built(file, i, met[i])]
  BY DEF Init, Rebuilt
<1>8. ASSUME NEW i \in Id PROVE EntryOK(i)
  <2>1. Explicit(file, i) = {}
    BY <1>2, <1>3, NotesAssumption DEF Explicit
  <2>2. PICK d \in Folder : index[i] = Built(file, i, d)
    BY <1>7
  <2>3. <<d, i>> \in Place
    BY NotesAssumption DEF Place
  <2>4. \/ index[i] = NoEntry
        \/ index[i] = [folder |-> d, stem |-> i, dead |-> file[<<d, i>>].dead] /\ file[<<d, i>>] # NoNote
    BY <2>1, <2>2 DEF Built
  <2>5. file[<<d, i>>] # NoNote => <<d, i>> \in setting.hand
    BY <1>2, <2>3
  <2>6. file[<<d, i>>] # NoNote => d # Top /\ setting.safe[i] = i /\ (Crashes => d = Home[i])
    BY <1>6, <2>5 DEF Crashes
  <2> QED BY <2>4, <2>6 DEF EntryOK
<1> QED BY <1>4, <1>5, <1>7, <1>8 DEF Init, Follows, Answered, JobOK, Loose, Crashes

----------------------------------------------------------------------------
(* Every step *)

LEMMA SettingStays == [Next]_vars => setting' = setting
<1>1. ASSUME NEW c \in Client, NEW i \in Id
      PROVE  /\ \A d \in Places(i) : Insert(c, i, d) \/ Replace(c, i, d) => setting' = setting
             /\ \A dead \in BOOLEAN : Edit(c, i, dead) => setting' = setting
             /\ Purge(c, i) => setting' = setting
  BY DEF Insert, Replace, Edit, Purge
<1>2. ASSUME NEW c \in Client, Step(c) \/ StepFails(c) \/ PurgeLeaves(c) PROVE setting' = setting
  BY <1>2 DEF Step, StepFails, PurgeLeaves, Look, Write, Clear, ClearRefused, IndexIt, PurgeFile
<1>3. Reopen \/ UNCHANGED vars => setting' = setting
  BY DEF Reopen, vars
<1> QED BY <1>1, <1>2, <1>3 DEF Next

LEMMA CountsStay == ASSUME NotesInv, [Next]_vars PROVE faults' \in Nat
<1>1. faults \in Nat
  BY DEF NotesInv
<1>2. ASSUME NEW c \in Client, StepFails(c) \/ PurgeLeaves(c) PROVE faults' = faults + 1
  BY <1>2 DEF StepFails, PurgeLeaves
<1>3. Reopen => faults' = faults + 1
  BY DEF Reopen
<1>4. ASSUME NEW c \in Client, NEW i \in Id
      PROVE  /\ \A d \in Places(i) : Insert(c, i, d) \/ Replace(c, i, d) => faults' = faults
             /\ \A dead \in BOOLEAN : Edit(c, i, dead) => faults' = faults
             /\ Purge(c, i) => faults' = faults
  BY DEF Insert, Replace, Edit, Purge
<1>5. ASSUME NEW c \in Client, Step(c) PROVE faults' = faults
  BY <1>5 DEF Step, Look, Write, Clear, ClearRefused, IndexIt, PurgeFile
<1>6. UNCHANGED vars => faults' = faults
  BY DEF vars
<1>7. faults' = faults \/ faults' = faults + 1
  BY <1>2, <1>3, <1>4, <1>5, <1>6 DEF Next
<1> QED BY <1>1, <1>7

LEMMA NotesSteps == NotesInv /\ [Next]_vars => NotesInv'
<1> SUFFICES ASSUME NotesInv, [Next]_vars PROVE NotesInv'
  OBVIOUS
<1>1. CASE ~Plain
  <2>1. setting' = setting /\ ~Plain'
    BY <1>1, SettingStays DEF Plain
  <2> QED BY <2>1, CountsStay DEF NotesInv
<1>2. CASE Plain /\ UNCHANGED vars
  <2>1. UNCHANGED <<setting, file, index, job, open, ops, faults, answer>>
    BY <1>2 DEF vars
  <2>2. \A i \in Id : Still(i) /\ (Busy(i)' = Busy(i))
    BY <2>1 DEF Still, Busy
  <2>3. \A i \in Id : EntryOK(i)' /\ (~Busy(i)' => Follows(i)' /\ Answered(i)')
    BY <1>2, <2>1, <2>2, StillIs DEF NotesInv
  <2>4. ASSUME NEW c \in Client PROVE JobOK(c)'
    <3>1. PICK i : i = job[c].id /\ i = job'[c].id
      BY <2>1
    <3>2. Here(i)' = Here(i)
      BY <2>1 DEF Here, At
    <3>3. /\ Purging(c, i) => Purging(c, i)'
          /\ Before(c, i) => Before(c, i)'
          /\ Clearing(c, i) => Clearing(c, i)'
          /\ Indexing(c, i) => Indexing(c, i)'
      BY <2>1, <3>2 DEF Purging, Before, Clearing, Indexing, Formed, Moving, Follows, Answered, At, Crashes, Loose
    <3>4. JobOK(c)
      BY <1>2 DEF NotesInv
    <3>5. CASE job[c] = Idle
      BY <2>1, <3>5 DEF JobOK
    <3>6. CASE job[c] # Idle
      <4>1. /\ i \in setting.own[c] /\ job[c].folder \in Folder \ {Top} /\ (Crashes => job[c].folder = Home[i])
            /\ \/ Purging(c, i)
               \/ job[c].dead \in BOOLEAN /\ (Before(c, i) \/ Clearing(c, i) \/ Indexing(c, i))
        BY <3>1, <3>4, <3>6 DEF JobOK
      <4>2. /\ i \in setting'.own[c] /\ job'[c].folder \in Folder \ {Top} /\ (Crashes' => job'[c].folder = Home[i])
            /\ \/ Purging(c, i)'
               \/ job'[c].dead \in BOOLEAN /\ (Before(c, i)' \/ Clearing(c, i)' \/ Indexing(c, i)')
        BY <2>1, <3>3, <4>1 DEF Crashes
      <4> QED BY <3>1, <4>2, ZenonT(40) DEF JobOK, Purging, Before, Clearing, Indexing, Follows, Answered, Here, At, Moving, Formed, Loose, Crashes
    <3> QED BY <3>5, <3>6
  <2>5. \A p \in Place : ColumnOK(p)'
    BY <1>2, <2>1 DEF NotesInv, ColumnOK, Crashes
  <2> QED BY <1>2, <2>1, <2>3, <2>4, <2>5 DEF NotesInv
<1>3. CASE Plain /\ Next
  <2>1. ASSUME NEW c \in Client, Step(c) \/ StepFails(c) \/ PurgeLeaves(c) PROVE NotesInv'
    BY <1>3, <2>1, LookKeeps, WriteKeeps, ClearKeeps, NeverRefused, IndexItKeeps, PurgeFileKeeps, PurgeLeavesKeeps, FailsKeeps DEF Step
  <2>2. ASSUME NEW c \in Client, NEW i \in Id,
               \/ \E d \in Places(i) : Insert(c, i, d) \/ Replace(c, i, d)
               \/ \E dead \in BOOLEAN : Edit(c, i, dead)
               \/ Purge(c, i)
        PROVE  NotesInv'
    BY <1>3, <2>2, RequestsKeep, PurgeKeeps
  <2>3. ASSUME Reopen PROVE NotesInv'
    BY <1>3, <2>3, ReopenKeeps
  <2> QED BY <1>3, <2>1, <2>2, <2>3 DEF Next
<1> QED BY <1>1, <1>2, <1>3

LEMMA NotesHold == Spec => []NotesInv
<1>1. Init => NotesInv
  BY NotesStart
<1>2. NotesInv /\ [Next]_vars => NotesInv'
  BY NotesSteps
<1> QED BY <1>1, <1>2, PTL DEF Spec

LEMMA InPlace ==
    ASSUME NotesInv, Plain, faults = 0, Settled
    PROVE  ~Duplicates(file) /\ \A i \in Id : Explicit(file, i) # {} => index[i] = Built(file, i, Top)
<1>1. ASSUME NEW i \in Id PROVE Follows(i)
  BY DEF Settled, Busy, NotesInv
<1>2. ASSUME NEW i \in Id, NEW p \in Explicit(file, i) PROVE p[1] \in Here(i) /\ p = At(i, p[1])
  <2>1. p \in Place /\ file[p] # NoNote /\ file[p].id = i /\ ColumnOK(p)
    BY <1>2 DEF Explicit, NotesInv
  <2>2. p[2] = setting.safe[i] /\ p[1] \in Folder /\ p = <<p[1], p[2]>>
    BY <2>1, NotesAssumption DEF ColumnOK, Place
  <2> QED BY <2>1, <2>2 DEF Here, At
<1>3. ASSUME NEW i \in Id, NEW p \in Explicit(file, i) PROVE Explicit(file, i) = {p} /\ index[i] = Built(file, i, Top)
  <2>1. PICK d : d = p[1] /\ d \in Here(i) /\ p = At(i, d)
    BY <1>2, <1>3
  <2>2. index[i] = [folder |-> d, stem |-> ByRule, dead |-> file[p].dead]
    BY <1>1, <2>1 DEF Follows, Loose, Crashes
  <2>3. ASSUME NEW e \in Here(i) PROVE e = d
    <3>1. index[i] = [folder |-> e, stem |-> ByRule, dead |-> file[At(i, e)].dead]
      BY <1>1, <2>3 DEF Follows, Loose, Crashes
    <3>2. index[i].folder = e
      BY <3>1
    <3>3. index[i].folder = d
      BY <2>2
    <3> QED BY <3>2, <3>3
  <2>4. Explicit(file, i) = {p}
    BY <1>2, <1>3, <2>1, <2>3
  <2>5. (CHOOSE q \in Explicit(file, i) : TRUE) = p
    BY <2>4
  <2>6. Built(file, i, Top) = [folder |-> p[1], stem |-> ByRule, dead |-> file[p].dead]
    BY <2>4, <2>5 DEF Built
  <2> QED BY <2>1, <2>2, <2>4, <2>6
<1>4. ASSUME NEW i \in Id, Cardinality(Explicit(file, i)) > 1 PROVE FALSE
  <2>1. CASE Explicit(file, i) = {}
    BY <1>4, <2>1, FS_EmptySet
  <2>2. CASE Explicit(file, i) # {}
    <3>1. PICK p \in Explicit(file, i) : TRUE
      BY <2>2
    <3>2. Explicit(file, i) = {p}
      BY <1>3
    <3>3. Cardinality({p}) = 1
      BY FS_Singleton
    <3> QED BY <1>4, <3>2, <3>3
  <2> QED BY <2>1, <2>2
<1> QED BY <1>3, <1>4 DEF Duplicates

\* Between requests no two notes carry one id, and each note that carries an id is in
\* the index where it lies: "leaving the old note behind creates duplicate IDs"
\* (obsidian.rs:850).  It holds however the steps of write_note and kb_purge for
\* different ids interleave, because they share no place.
THEOREM IndexFollows == Spec => []IndexFollowsFiles
<1>1. NotesInv => IndexFollowsFiles
  BY InPlace DEF IndexFollowsFiles
<1> QED BY <1>1, NotesHold, PTL

LEMMA AnswersAreTrue == NotesInv => AnswersHold
<1> SUFFICES ASSUME NotesInv, Plain, open, NEW i \in Id, ~Busy(i)
             PROVE  /\ answer[i] = "kept" => index[i] # NoEntry /\ CanRead(i) /\ IdRead(i) = i
                    /\ answer[i] = "gone" => index[i] = NoEntry /\ Explicit(file, i) = {}
  BY DEF AnswersHold
<1>1. Follows(i) /\ Answered(i)
  BY DEF NotesInv
<1>2. ASSUME answer[i] = "kept" PROVE index[i] # NoEntry /\ CanRead(i) /\ IdRead(i) = i
  <2>1. PICK d \in Here(i) : index[i] = [folder |-> d, stem |-> ByRule, dead |-> file[At(i, d)].dead]
    BY <1>1, <1>2 DEF Follows, Answered, Loose, Crashes
  <2>2. index[i] # NoEntry /\ index[i].folder = d
    BY <2>1, NothingIsApart
  <2>3. d # Top
    BY <2>2 DEF NotesInv, EntryOK
  <2>4. PlaceOf(i) = At(i, d)
    BY <2>2, StemIs DEF PlaceOf, At
  <2>5. file[PlaceOf(i)] # NoNote
    BY <2>4 DEF Here
  <2>6. CanRead(i)
    BY <2>2, <2>3, <2>5 DEF CanRead
  <2> QED BY <2>2, <2>6, ReadsItself
<1>3. ASSUME answer[i] = "gone" PROVE index[i] = NoEntry /\ Explicit(file, i) = {}
  <2>1. index[i] = NoEntry /\ Here(i) = {}
    BY <1>1, <1>3 DEF Answered
  <2>2. ASSUME NEW p \in Explicit(file, i) PROVE FALSE
    <3>1. p \in Place /\ file[p] # NoNote /\ file[p].id = i /\ ColumnOK(p)
      BY <2>2 DEF Explicit, NotesInv
    <3>2. p[2] = setting.safe[i] /\ p[1] \in Folder /\ p = <<p[1], p[2]>>
      BY <3>1, NotesAssumption DEF ColumnOK, Place
    <3> QED BY <2>1, <3>1, <3>2 DEF Here, At
  <2> QED BY <2>1, <2>2
<1> QED BY <1>2, <1>3

\* What requests were told stays true until the next request about the id, through
\* crashes and restarts that rebuild the index: a stored document is found
\* (kb_insert, kb_replace), a purged one is not (kb_purge, obsidian.rs).
THEOREM AnswersStayTrue == Spec => []AnswersHold
<1>1. NotesInv => AnswersHold
  BY AnswersAreTrue
<1> QED BY <1>1, NotesHold, PTL
=============================================================================
