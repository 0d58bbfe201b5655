------------------------- MODULE SdkPackages_proofs -------------------------
(***************************************************************************)
(* Theorems about SdkPackages, for any archives, handlers and limit.       *)
(***************************************************************************)
EXTENDS SdkPackages, FiniteSetTheorems, TLAPS

\* Where Put and Delete are when they hold the lock.
LockedSteps == PutSteps \cup {"check", "delete", "clean"}

\* The lock excludes.
LockInv == \A c \in Calls : calls[c].pc \in LockedSteps => writer = c

\* What a handler carries from one call to the next.
UploadInv(c) ==
  /\ calls[c].pc \in {"putLock", "check"} \cup PutSteps =>
       calls[c].data \in Packages /\ calls[c].name = Manifest(calls[c].data).name
  /\ calls[c].pc \in {"putLock", "check"} \cup PutSteps => calls[c].name \in Names
  /\ calls[c].pc \in PutSteps \cup {"clean"} => calls[c].dir \in Tmps

\* How far the directory is that Put fills.
ScratchInv(c) ==
  /\ calls[c].pc \in PutSteps => calls[c].dir \in DOMAIN disk
  /\ calls[c].pc \in {"meta", "metaOpen", "rename"} =>
       disk[calls[c].dir].archive = calls[c].data
  /\ calls[c].pc = "rename" => disk[calls[c].dir].meta = Describe(calls[c].data)

CallInv == \A c \in Calls : UploadInv(c) /\ ScratchInv(c)

\* What a listing still has to show was among the entries it read, and is stored.
ListInv ==
  \A c \in Calls :
    /\ calls[c].pc \in {"listLock", "list"} => sure[c] \subseteq calls[c].entries
    /\ \A n \in sure[c] : stored[n] # None

StoreInv == TypeOK /\ LockInv /\ CallInv /\ StoredIsWhole /\ ListInv

----------------------------------------------------------------------------
\* Archives.

LEMMA LastOne ==
  ASSUME NEW n \in Nat, NEW T \in SUBSET (1..n), T # {}
  PROVE  \E i \in T : \A j \in T : j <= i
<1> DEFINE Above(i) == {j \in T : j > i}
           All == {Above(i) : i \in T}
<1>1. \A i \in T : Above(i) \in FiniteSubsetsOf(1..n)
  <2> SUFFICES ASSUME NEW i \in T PROVE Above(i) \in FiniteSubsetsOf(1..n)
    OBVIOUS
  <2>1. Above(i) \subseteq 1..n
    OBVIOUS
  <2>2. IsFiniteSet(1..n)
    BY FS_Interval
  <2> QED BY <2>1, <2>2, FS_Subset DEF FiniteSubsetsOf
<1>2. PICK S \in All : \A U \in All : ~(<<U, S>> \in StrictSubsetOrdering(1..n))
  <2>1. All \subseteq FiniteSubsetsOf(1..n) /\ All # {}
    BY <1>1
  <2> HIDE DEF All
  <2> QED BY <2>1, WFMin, FS_StrictSubsetOrderingWellFounded
<1>3. PICK i \in T : S = Above(i)
  OBVIOUS
<1>4. SUFFICES ASSUME NEW j \in T, j > i PROVE FALSE
  OBVIOUS
<1>5. Above(j) \in All
  OBVIOUS
<1>6. Above(j) \subseteq Above(i) /\ j \in Above(i) /\ j \notin Above(j)
  <2>1. j \in Above(i) /\ j \notin Above(j)
    BY <1>4
  <2>2. ASSUME NEW k \in Above(j) PROVE k \in Above(i)
    <3>1. k \in T /\ k > j /\ k > i
      BY <1>4, <2>2
    <3> QED BY <3>1
  <2> QED BY <2>1, <2>2
<1>7. <<Above(j), S>> \in StrictSubsetOrdering(1..n)
  BY <1>3, <1>6 DEF StrictSubsetOrdering
<1> QED BY <1>2, <1>5, <1>7

\* An archive with a manifest has a last one.
LEMMA LastManifest ==
  ASSUME NEW a \in Archives, NEW k \in DOMAIN a.entries, IsManifest(a, k)
  PROVE  \E i \in DOMAIN a.entries : ManifestEntry(a, i)
<1>1. a.entries \in Seq(Entries)
  BY PackageConstants DEF Uploads
<1>2. DOMAIN a.entries = 1..Len(a.entries) /\ Len(a.entries) \in Nat
  BY <1>1
<1> DEFINE T == {i \in DOMAIN a.entries : IsManifest(a, i)}
<1>3. T \in SUBSET (1..Len(a.entries)) /\ T # {}
  BY <1>2
<1>4. PICK i \in T : \A j \in T : j <= i
  <2> HIDE DEF T
  <2> QED BY <1>2, <1>3, LastOne
<1>5. \A j \in DOMAIN a.entries : j > i => ~IsManifest(a, j)
  BY <1>2, <1>4
<1> QED BY <1>5 DEF ManifestEntry

\* The manifest of a package is the body of the last entry that counts, a file.
LEMMA PackageManifest ==
  ASSUME NEW a \in Packages
  PROVE  \E i \in DOMAIN a.entries :
           /\ ManifestEntry(a, i) /\ Manifest(a) = a.entries[i].body
           /\ a.entries[i].kind = "file" /\ Manifest(a) \in Manifests
<1>1. a \in Archives /\ a.entries \in Seq(Entries) /\ Acceptable(a)
  BY PackageConstants DEF Packages, Uploads
<1>2. PICK k \in DOMAIN a.entries : IsManifest(a, k)
  BY <1>1 DEF Acceptable
<1>3. PICK i \in DOMAIN a.entries : ManifestEntry(a, i) /\ Manifest(a) = a.entries[i].body
  BY <1>1, <1>2, LastManifest DEF Manifest
<1>4. a.entries[i] \in Entries
  BY <1>1
<1>5. Manifest(a) # None
  BY <1>1 DEF Acceptable, ValidManifest
<1>6. a.entries[i].kind = "file"
  BY <1>1, <1>3, <1>5, PackageConstants
<1>7. Manifest(a) \in Manifests
  BY <1>3, <1>4, <1>5 DEF Entries
<1> QED BY <1>3, <1>6, <1>7

LEMMA PackageName ==
  ASSUME NEW a \in Packages
  PROVE  Manifest(a).name \in Names
BY PackageManifest DEF Manifests

LEMMA PackagesKnown ==
  /\ None \notin Packages /\ Torn \notin Packages
  /\ None \notin Calls /\ None \notin Dirs /\ None # Torn
  /\ \A a \in Packages : Describe(a) \notin {Torn, None}
  /\ \A n \in Names : n \notin Tmps
  /\ Base \notin Dirs /\ Base # None
BY PackageConstants, DescriptionsDistinct DEF Packages, Dirs

----------------------------------------------------------------------------
\* What the steps have in common.

CallRecord == [pc : PCs, name : Names \cup {None}, data : Packages \cup {None},
               dir : Dirs \cup {Base, None}, entries : SUBSET Dirs]

LEMMA CallTypes ==
  ASSUME TypeOK
  PROVE  calls \in [Calls -> CallRecord]
BY DEF TypeOK, CallRecord

LEMMA IdleRecord == Idle \in CallRecord /\ Idle.pc = "idle" /\ Idle.dir = None
BY DEF Idle, CallRecord, PCs

\* Nobody but the handler itself is moved.
LEMMA Moves ==
  ASSUME TypeOK, NEW c \in Calls, NEW state \in CallRecord, Goto(c, state)
  PROVE  /\ calls' \in [Calls -> CallRecord]
         /\ calls'[c] = state
         /\ \A q \in Calls : q # c => calls'[q] = calls[q]
BY CallTypes DEF Goto

\* The same for a step that changes the pc only.
LEMMA MovesPc ==
  ASSUME TypeOK, NEW c \in Calls, NEW pc \in PCs, GotoPc(c, pc)
  PROVE  /\ calls' \in [Calls -> CallRecord]
         /\ calls'[c].pc = pc
         /\ calls'[c].name = calls[c].name
         /\ calls'[c].data = calls[c].data
         /\ calls'[c].dir = calls[c].dir
         /\ calls'[c].entries = calls[c].entries
         /\ \A q \in Calls : q # c => calls'[q] = calls[q]
<1> DEFINE state == [calls[c] EXCEPT !.pc = pc]
<1>1. calls[c] \in CallRecord
  BY CallTypes
<1>2. /\ state \in CallRecord /\ state.pc = pc /\ state.name = calls[c].name
      /\ state.data = calls[c].data /\ state.dir = calls[c].dir
      /\ state.entries = calls[c].entries
  BY <1>1 DEF CallRecord
<1>3. Goto(c, state)
  BY DEF GotoPc
<1> HIDE DEF state
<1> QED BY <1>2, <1>3, Moves

\* The lock and the disk are touched by a handler that holds the lock, or by one
\* that takes it while it is free.
LockRule(c) ==
  /\ disk' = disk \/ calls[c].pc \in LockedSteps
  /\ \/ UNCHANGED writer
     \/ writer = None /\ writer' = c
     \/ calls[c].pc \in LockedSteps /\ writer' = None

LEMMA OthersKeep ==
  ASSUME StoreInv, NEW c \in Calls, LockRule(c),
         \A q \in Calls : q # c => calls'[q] = calls[q],
         calls'[c].pc \in LockedSteps => writer' = c,
         UploadInv(c)', ScratchInv(c)'
  PROVE  LockInv' /\ CallInv'
<1>1. \A q \in Calls : calls[q].pc \in LockedSteps => writer = q
  BY DEF StoreInv, LockInv
<1>2. \A q \in Calls : q # None
  BY PackagesKnown
<1>3. LockInv'
  BY <1>1, <1>2 DEF LockRule, LockInv
<1>4. ASSUME NEW q \in Calls, q # c PROVE UploadInv(q)'
  BY <1>4 DEF StoreInv, CallInv, UploadInv
<1>5. ASSUME NEW q \in Calls, q # c PROVE ScratchInv(q)'
  <2>1. ScratchInv(q) /\ calls'[q] = calls[q]
    BY <1>5 DEF StoreInv, CallInv
  <2>2. CASE disk' = disk
    BY <2>1, <2>2 DEF ScratchInv
  <2>3. CASE calls[c].pc \in LockedSteps
    <3>1. calls[q].pc \notin LockedSteps
      BY <1>1, <1>5, <2>3
    <3> QED BY <2>1, <3>1 DEF ScratchInv, LockedSteps, PutSteps
  <2> QED BY <2>2, <2>3 DEF LockRule
<1> QED BY <1>3, <1>4, <1>5 DEF CallInv

\* A step that leaves the disk and the histories of packages and listings alone.
LEMMA QuietStep ==
  ASSUME StoreInv, NEW c \in Calls,
         UNCHANGED <<disk, stored, sure>>,
         LockRule(c), readers' \subseteq Calls, mishap' \in BOOLEAN,
         calls' \in [Calls -> CallRecord],
         \A q \in Calls : q # c => calls'[q] = calls[q],
         calls'[c].pc \in LockedSteps => writer' = c,
         calls'[c].pc \notin {"listLock", "list"},
         UploadInv(c)', ScratchInv(c)'
  PROVE  StoreInv'
<1>1. writer' \in Calls \cup {None}
  BY DEF LockRule, StoreInv, TypeOK
<1>2. TypeOK'
  BY <1>1 DEF StoreInv, TypeOK, CallRecord
<1>3. StoredIsWhole'
  BY DEF StoreInv, StoredIsWhole
<1>4. ListInv'
  BY DEF StoreInv, ListInv
<1> QED BY <1>2, <1>3, <1>4, OthersKeep DEF StoreInv

LEMMA UnlockStep ==
  ASSUME StoreInv, NEW c \in Calls, UNCHANGED <<disk, stored, sure, readers>>,
         mishap' \in BOOLEAN, calls[c].pc \in LockedSteps, Unlock(c)
  PROVE  StoreInv'
<1>1. Goto(c, Idle) /\ writer' = None
  BY DEF Unlock, Return
<1>2. /\ calls' \in [Calls -> CallRecord] /\ calls'[c] = Idle
      /\ \A q \in Calls : q # c => calls'[q] = calls[q]
  BY <1>1, IdleRecord, Moves DEF StoreInv
<1>3. UploadInv(c)' /\ ScratchInv(c)'
  BY <1>2, IdleRecord DEF UploadInv, ScratchInv, PutSteps
<1>4. LockRule(c) /\ calls'[c].pc = "idle"
  BY <1>1, <1>2, IdleRecord DEF LockRule
<1> QED BY <1>2, <1>3, <1>4, QuietStep DEF StoreInv, TypeOK, LockedSteps, PutSteps

----------------------------------------------------------------------------
\* The steps that write nothing.

LEMMA UploadStep ==
  ASSUME StoreInv, NEW c \in Calls, Upload(c)
  PROVE  StoreInv'
<1>1. PICK a \in Packages :
        Goto(c, [Idle EXCEPT !.pc = "putLock", !.name = Manifest(a).name, !.data = a])
  BY DEF Upload
<1> DEFINE state == [Idle EXCEPT !.pc = "putLock", !.name = Manifest(a).name, !.data = a]
<1>2. state \in CallRecord /\ state.pc = "putLock" /\ state.data = a /\ state.name = Manifest(a).name
  BY PackageName DEF Idle, CallRecord, PCs
<1> HIDE DEF state
<1>3. Goto(c, state)
  BY <1>1 DEF state
<1>4. /\ calls' \in [Calls -> CallRecord] /\ calls'[c] = state
      /\ \A q \in Calls : q # c => calls'[q] = calls[q]
  BY <1>2, <1>3, Moves DEF StoreInv
<1>5. UploadInv(c)' /\ ScratchInv(c)'
  BY <1>2, <1>4, PackageName DEF UploadInv, ScratchInv, PutSteps
<1> QED BY <1>2, <1>4, <1>5, QuietStep DEF Upload, LockRule, StoreInv, TypeOK, LockedSteps, PutSteps

LEMMA DeleteStep ==
  ASSUME StoreInv, NEW c \in Calls, Delete(c)
  PROVE  StoreInv'
<1>1. PICK d \in Dirs \cup {Base} : Goto(c, [Idle EXCEPT !.pc = "deleteLock", !.dir = d])
  BY DEF Delete
<1> DEFINE state == [Idle EXCEPT !.pc = "deleteLock", !.dir = d]
<1>2. state \in CallRecord /\ state.pc = "deleteLock"
  BY DEF Idle, CallRecord, PCs
<1> HIDE DEF state
<1>3. Goto(c, state)
  BY <1>1 DEF state
<1>4. /\ calls' \in [Calls -> CallRecord] /\ calls'[c] = state
      /\ \A q \in Calls : q # c => calls'[q] = calls[q]
  BY <1>2, <1>3, Moves DEF StoreInv
<1>5. UploadInv(c)' /\ ScratchInv(c)'
  BY <1>2, <1>4 DEF UploadInv, ScratchInv, PutSteps
<1> QED BY <1>2, <1>4, <1>5, QuietStep DEF Delete, LockRule, StoreInv, TypeOK, LockedSteps, PutSteps

LEMMA LockStep ==
  ASSUME StoreInv, NEW c \in Calls, Lock(c)
  PROVE  StoreInv'
<1> DEFINE pc == IF calls[c].pc = "putLock" THEN "check" ELSE "delete"
<1>1. pc \in PCs /\ GotoPc(c, pc)
  BY DEF Lock, PCs
<1>2. /\ calls' \in [Calls -> CallRecord] /\ calls'[c].pc = pc
      /\ calls'[c].name = calls[c].name /\ calls'[c].data = calls[c].data
      /\ calls'[c].dir = calls[c].dir
      /\ \A q \in Calls : q # c => calls'[q] = calls[q]
  BY <1>1, MovesPc DEF StoreInv
<1>3. UploadInv(c)
  BY DEF StoreInv, CallInv
<1>4. UploadInv(c)' /\ ScratchInv(c)'
  BY <1>2, <1>3 DEF UploadInv, ScratchInv, PutSteps, Lock
<1> QED BY <1>2, <1>4, QuietStep DEF Lock, LockRule, StoreInv, TypeOK

LEMMA PutFailsStep ==
  ASSUME StoreInv, NEW c \in Calls, PutFails(c)
  PROVE  StoreInv'
<1>1. "clean" \in PCs /\ GotoPc(c, "clean") /\ calls[c].pc \in PutSteps
  BY DEF PutFails, PCs
<1>2. /\ calls' \in [Calls -> CallRecord] /\ calls'[c].pc = "clean"
      /\ calls'[c].dir = calls[c].dir
      /\ \A q \in Calls : q # c => calls'[q] = calls[q]
  BY <1>1, MovesPc DEF StoreInv
<1>3. UploadInv(c) /\ writer = c
  BY <1>1 DEF StoreInv, CallInv, LockInv, LockedSteps
<1>4. UploadInv(c)' /\ ScratchInv(c)'
  BY <1>1, <1>2, <1>3 DEF UploadInv, ScratchInv, PutSteps
<1> QED BY <1>2, <1>3, <1>4, QuietStep DEF PutFails, LockRule, StoreInv, TypeOK

LEMMA RemoveFailsStep ==
  ASSUME StoreInv, NEW c \in Calls, RemoveFails(c)
  PROVE  StoreInv'
BY UnlockStep DEF RemoveFails, Removing, LockedSteps

----------------------------------------------------------------------------
\* The listing.

LEMMA ListReadDirStep ==
  ASSUME StoreInv, NEW c \in Calls, ListReadDir(c)
  PROVE  StoreInv'
<1> DEFINE state == [Idle EXCEPT !.pc = "listLock", !.entries = DOMAIN disk]
<1>1. state \in CallRecord /\ state.pc = "listLock" /\ state.entries = DOMAIN disk
  BY DEF Idle, CallRecord, PCs, StoreInv, TypeOK, IsTable
<1>2. Goto(c, state)
  BY DEF ListReadDir
<1> HIDE DEF state
<1>3. /\ calls' \in [Calls -> CallRecord] /\ calls'[c] = state
      /\ \A q \in Calls : q # c => calls'[q] = calls[q]
  BY <1>1, <1>2, Moves DEF StoreInv
<1>4. UploadInv(c)' /\ ScratchInv(c)'
  BY <1>1, <1>3 DEF UploadInv, ScratchInv, PutSteps
<1>5. LockInv' /\ CallInv'
  BY <1>1, <1>3, <1>4, OthersKeep DEF ListReadDir, LockRule, LockedSteps, PutSteps
<1>6. /\ sure' \in [Calls -> SUBSET Names]
      /\ sure'[c] = {n \in Names : stored[n] # None}
      /\ \A q \in Calls : q # c => sure'[q] = sure[q]
  BY DEF ListReadDir, StoreInv, TypeOK
<1>7. TypeOK'
  BY <1>3, <1>6 DEF ListReadDir, StoreInv, TypeOK, CallRecord
<1>8. StoredIsWhole'
  BY DEF ListReadDir, StoreInv, StoredIsWhole
<1>9. sure'[c] \subseteq calls'[c].entries /\ \A n \in sure'[c] : stored'[n] # None
  BY <1>1, <1>3, <1>6 DEF ListReadDir, StoreInv, StoredIsWhole
<1>10. ListInv'
  BY <1>3, <1>6, <1>9 DEF ListReadDir, StoreInv, ListInv
<1> QED BY <1>5, <1>7, <1>8, <1>10 DEF StoreInv

LEMMA ListLockStep ==
  ASSUME StoreInv, NEW c \in Calls, ListLock(c)
  PROVE  StoreInv'
<1>1. "list" \in PCs /\ GotoPc(c, "list") /\ calls[c].pc = "listLock"
  BY DEF ListLock, PCs
<1>2. /\ calls' \in [Calls -> CallRecord] /\ calls'[c].pc = "list"
      /\ calls'[c].entries = calls[c].entries
      /\ \A q \in Calls : q # c => calls'[q] = calls[q]
  BY <1>1, MovesPc DEF StoreInv
<1>3. UploadInv(c)' /\ ScratchInv(c)'
  BY <1>2 DEF UploadInv, ScratchInv, PutSteps
<1>4. LockInv' /\ CallInv'
  BY <1>2, <1>3, OthersKeep DEF ListLock, LockRule, LockedSteps, PutSteps
<1>5. TypeOK'
  BY <1>2 DEF ListLock, StoreInv, TypeOK, CallRecord
<1>6. StoredIsWhole'
  BY DEF ListLock, StoreInv, StoredIsWhole
<1>7. ListInv'
  BY <1>1, <1>2 DEF ListLock, StoreInv, ListInv
<1> QED BY <1>4, <1>5, <1>6, <1>7 DEF StoreInv

LEMMA ListAnswerStep ==
  ASSUME StoreInv, NEW c \in Calls, ListAnswer(c)
  PROVE  StoreInv'
<1>1. /\ calls' \in [Calls -> CallRecord] /\ calls'[c] = Idle
      /\ \A q \in Calls : q # c => calls'[q] = calls[q]
  BY IdleRecord, Moves DEF StoreInv, ListAnswer, Return
<1>2. UploadInv(c)' /\ ScratchInv(c)'
  BY <1>1, IdleRecord DEF UploadInv, ScratchInv, PutSteps
<1>3. LockInv' /\ CallInv'
  BY <1>1, <1>2, IdleRecord, OthersKeep DEF ListAnswer, LockRule, LockedSteps, PutSteps
<1>4. /\ sure' \in [Calls -> SUBSET Names] /\ sure'[c] = {}
      /\ \A q \in Calls : q # c => sure'[q] = sure[q]
  BY DEF ListAnswer, StoreInv, TypeOK
<1>5. TypeOK'
  BY <1>1, <1>4 DEF ListAnswer, StoreInv, TypeOK, CallRecord
<1>6. StoredIsWhole'
  BY DEF ListAnswer, StoreInv, StoredIsWhole
<1>7. ListInv'
  BY <1>1, <1>4 DEF ListAnswer, StoreInv, ListInv
<1> QED BY <1>3, <1>5, <1>6, <1>7 DEF StoreInv

----------------------------------------------------------------------------
\* The disk.

ArchiveFile == Packages \cup {Torn, None}
MetaFile    == {Describe(a) : a \in Packages} \cup {Torn, None}

\* One file of one directory.
FileChange(d, f, content) ==
  /\ DOMAIN disk' = DOMAIN disk
  /\ \A x \in DOMAIN disk : x # d => disk'[x] = disk[x]
  /\ disk'[d].archive = IF f = "archive" THEN content ELSE disk[d].archive
  /\ disk'[d].meta = IF f = "meta" THEN content ELSE disk[d].meta

LEMMA ChangeFile ==
  ASSUME IsTable(disk, Dirs, Files), NEW d \in DOMAIN disk, NEW f \in {"archive", "meta"},
         NEW content, content \in IF f = "archive" THEN ArchiveFile ELSE MetaFile,
         disk' = [disk EXCEPT ![d][f] = content]
  PROVE  IsTable(disk', Dirs, Files) /\ FileChange(d, f, content)
<1> DEFINE row == [disk[d] EXCEPT ![f] = content]
<1>1. disk[d] \in Files /\ disk \in [DOMAIN disk -> Files] /\ DOMAIN disk \subseteq Dirs
  BY DEF IsTable
<1>2. /\ row \in Files
      /\ row.archive = IF f = "archive" THEN content ELSE disk[d].archive
      /\ row.meta = IF f = "meta" THEN content ELSE disk[d].meta
  <2>1. CASE f = "archive"
    BY <1>1, <2>1 DEF Files, ArchiveFile
  <2>2. CASE f = "meta"
    BY <1>1, <2>2 DEF Files, MetaFile
  <2> QED BY <2>1, <2>2
<1>3. disk' = [disk EXCEPT ![d] = row]
  OBVIOUS
<1> HIDE DEF row
<1>4. /\ DOMAIN disk' = DOMAIN disk /\ disk' \in [DOMAIN disk -> Files] /\ disk'[d] = row
      /\ \A x \in DOMAIN disk : x # d => disk'[x] = disk[x]
  BY <1>1, <1>2, <1>3
<1> QED BY <1>1, <1>2, <1>4 DEF IsTable, FileChange

LEMMA PutRow ==
  ASSUME NEW t, IsTable(t, Dirs, Files), NEW d \in Dirs, NEW row \in Files
  PROVE  /\ IsTable(Put(t, d, row), Dirs, Files)
         /\ DOMAIN Put(t, d, row) = DOMAIN t \cup {d}
         /\ Put(t, d, row)[d] = row
         /\ \A x \in DOMAIN t : x # d => Put(t, d, row)[x] = t[x]
BY DEF IsTable, Put

LEMMA WithoutRows ==
  ASSUME NEW t, IsTable(t, Dirs, Files), NEW S
  PROVE  /\ IsTable(Without(t, S), Dirs, Files)
         /\ DOMAIN Without(t, S) = DOMAIN t \ S
         /\ \A x \in DOMAIN t \ S : Without(t, S)[x] = t[x]
BY DEF IsTable, Without

\* What StoredIsWhole says of a name.
Whole(n) ==
  /\ stored[n] # None =>
       n \in DOMAIN disk /\ disk[n] = [archive |-> stored[n], meta |-> Describe(stored[n])]
  /\ n \in DOMAIN disk => Torn \notin {disk[n].archive, disk[n].meta}

\* Names that a step does not touch stay whole.
LEMMA WholeKept ==
  ASSUME StoredIsWhole, NEW n \in Names, stored'[n] = stored[n],
         n \in DOMAIN disk <=> n \in DOMAIN disk', n \in DOMAIN disk => disk'[n] = disk[n]
  PROVE  Whole(n)'
BY DEF StoredIsWhole, Whole

LEMMA AllWhole ==
  ASSUME \A n \in Names : Whole(n)'
  PROVE  StoredIsWhole'
BY DEF StoredIsWhole, Whole

----------------------------------------------------------------------------
\* The steps of an upload that write.

LEMMA PutCheckStep ==
  ASSUME StoreInv, NEW c \in Calls, PutCheck(c)
  PROVE  StoreInv'
<1>1. calls[c].pc = "check" /\ writer = c /\ UploadInv(c) /\ calls[c] \in CallRecord
  BY CallTypes DEF PutCheck, StoreInv, LockInv, CallInv, LockedSteps
<1>2. CASE Refuse(c) /\ UNCHANGED disk
  <2>1. UNCHANGED <<disk, stored, sure, readers>> /\ mishap' \in BOOLEAN /\ Unlock(c)
    BY <1>2 DEF PutCheck, Refuse, StoreInv, TypeOK
  <2> QED BY <1>1, <2>1, UnlockStep DEF LockedSteps
<1>3. ASSUME NEW t \in Scratch(calls[c].name), disk' = Put(disk, t, EmptyDir),
             Goto(c, [calls[c] EXCEPT !.pc = "archive", !.dir = t]), UNCHANGED writer
      PROVE  StoreInv'
  <2> DEFINE state == [calls[c] EXCEPT !.pc = "archive", !.dir = t]
  <2>1. t \in Tmps /\ t \notin DOMAIN disk /\ t \in Dirs /\ t \notin Names
    BY PackagesKnown DEF Scratch, Dirs
  <2>2. /\ state \in CallRecord /\ state.pc = "archive" /\ state.dir = t
        /\ state.name = calls[c].name /\ state.data = calls[c].data
    BY <1>1, <2>1 DEF CallRecord, PCs, PutSteps
  <2>3. Goto(c, state)
    BY <1>3
  <2> HIDE DEF state
  <2>4. /\ calls' \in [Calls -> CallRecord] /\ calls'[c] = state
        /\ \A q \in Calls : q # c => calls'[q] = calls[q]
    BY <2>2, <2>3, Moves DEF StoreInv
  <2>5. EmptyDir \in Files /\ IsTable(disk, Dirs, Files)
    BY DEF EmptyDir, Files, StoreInv, TypeOK
  <2>6. /\ IsTable(disk', Dirs, Files) /\ DOMAIN disk' = DOMAIN disk \cup {t}
        /\ \A x \in DOMAIN disk : x # t => disk'[x] = disk[x]
    BY <1>3, <2>1, <2>5, PutRow
  <2>7. UploadInv(c)' /\ ScratchInv(c)'
    BY <1>1, <2>1, <2>2, <2>4, <2>6 DEF UploadInv, ScratchInv, PutSteps
  <2>8. LockInv' /\ CallInv'
    BY <1>1, <1>3, <2>2, <2>4, <2>7, OthersKeep DEF LockRule, LockedSteps
  <2>9. UNCHANGED <<readers, stored, sure, mishap>>
    BY DEF PutCheck
  <2>10. TypeOK'
    BY <1>3, <2>4, <2>6, <2>9 DEF StoreInv, TypeOK, CallRecord
  <2>11. StoredIsWhole'
    <3>1. ASSUME NEW n \in Names PROVE Whole(n)'
      <4>1. n # t
        BY <2>1
      <4> QED BY <2>6, <2>9, <4>1, WholeKept DEF StoreInv
    <3> QED BY <3>1, AllWhole
  <2>12. ListInv'
    BY <2>2, <2>4, <2>9 DEF StoreInv, ListInv
  <2> QED BY <2>8, <2>10, <2>11, <2>12 DEF StoreInv
<1> QED BY <1>2, <1>3 DEF PutCheck

\* A write goes to the temporary directory, where no package is.
LEMMA WritesScratch ==
  ASSUME StoreInv, NEW c \in Calls, NEW pc \in PutSteps, NEW next \in PutSteps,
         NEW f \in {"archive", "meta"}, NEW content,
         content \in IF f = "archive" THEN ArchiveFile ELSE MetaFile,
         WriteStep(c, pc, f, content, next),
         FileChange(calls[c].dir, f, content) /\ calls'[c].pc = next /\ UNCHANGED calls[c].data
           => ScratchInv(c)'
  PROVE  StoreInv'
<1>1. /\ calls[c].pc = pc /\ GotoPc(c, next)
      /\ disk' = [disk EXCEPT ![calls[c].dir][f] = content]
      /\ UNCHANGED <<writer, readers, stored, sure, mishap>>
  BY DEF WriteStep
<1>2. writer = c /\ UploadInv(c) /\ ScratchInv(c) /\ next \in PCs
  BY <1>1 DEF StoreInv, LockInv, CallInv, LockedSteps, PCs
<1>3. calls[c].dir \in Tmps /\ calls[c].dir \in DOMAIN disk /\ calls[c].dir \notin Names
  BY <1>1, <1>2, PackagesKnown DEF UploadInv, ScratchInv
<1>4. /\ calls' \in [Calls -> CallRecord] /\ calls'[c].pc = next
      /\ calls'[c].dir = calls[c].dir /\ calls'[c].name = calls[c].name
      /\ calls'[c].data = calls[c].data
      /\ \A q \in Calls : q # c => calls'[q] = calls[q]
  BY <1>1, <1>2, MovesPc DEF StoreInv
<1>5. IsTable(disk', Dirs, Files) /\ FileChange(calls[c].dir, f, content)
  BY <1>1, <1>3, ChangeFile DEF StoreInv, TypeOK
<1>6. ScratchInv(c)'
  BY <1>4, <1>5
<1>7. UploadInv(c)'
  BY <1>1, <1>2, <1>4 DEF UploadInv, PutSteps
<1>8. LockInv' /\ CallInv'
  BY <1>1, <1>2, <1>4, <1>6, <1>7, OthersKeep DEF LockRule, LockedSteps
<1>9. TypeOK'
  BY <1>1, <1>4, <1>5 DEF StoreInv, TypeOK, CallRecord
<1>10. StoredIsWhole'
  <2>1. ASSUME NEW n \in Names PROVE Whole(n)'
    <3>1. n # calls[c].dir
      BY <1>3
    <3> QED BY <1>1, <1>5, <3>1, WholeKept DEF StoreInv, FileChange
  <2> QED BY <2>1, AllWhole
<1>11. ListInv'
  BY <1>1, <1>4 DEF StoreInv, ListInv, PutSteps
<1> QED BY <1>8, <1>9, <1>10, <1>11 DEF StoreInv

LEMMA WriteArchiveStep ==
  ASSUME StoreInv, NEW c \in Calls, WriteArchive(c)
  PROVE  StoreInv'
<1>1. ScratchInv(c) /\ UploadInv(c)
  BY DEF StoreInv, CallInv
<1>2. CASE WriteStep(c, "archive", "archive", Torn, "archiveOpen")
  <2>1. calls[c].pc = "archive" /\ UNCHANGED calls[c].dir
    BY <1>2, MovesPc DEF WriteStep, PCs, PutSteps, StoreInv
  <2> QED BY <1>1, <1>2, <2>1, WritesScratch DEF PutSteps, ArchiveFile, ScratchInv, FileChange
<1>3. CASE WriteStep(c, "archiveOpen", "archive", calls[c].data, "meta")
  <2>1. calls[c].pc = "archiveOpen" /\ UNCHANGED calls[c].dir
    BY <1>3, MovesPc DEF WriteStep, PCs, PutSteps, StoreInv
  <2>2. calls[c].data \in ArchiveFile
    BY <1>1, <2>1 DEF UploadInv, PutSteps, ArchiveFile
  <2> QED BY <1>1, <1>3, <2>1, <2>2, WritesScratch DEF PutSteps, ScratchInv, FileChange
<1> QED BY <1>2, <1>3 DEF WriteArchive

LEMMA WriteMetaStep ==
  ASSUME StoreInv, NEW c \in Calls, WriteMeta(c)
  PROVE  StoreInv'
<1>1. ScratchInv(c) /\ UploadInv(c)
  BY DEF StoreInv, CallInv
<1>2. CASE WriteStep(c, "meta", "meta", Torn, "metaOpen")
  <2>1. calls[c].pc = "meta" /\ UNCHANGED calls[c].dir
    BY <1>2, MovesPc DEF WriteStep, PCs, PutSteps, StoreInv
  <2> QED BY <1>1, <1>2, <2>1, WritesScratch DEF PutSteps, MetaFile, ScratchInv, FileChange
<1>3. CASE WriteStep(c, "metaOpen", "meta", Describe(calls[c].data), "rename")
  <2>1. calls[c].pc = "metaOpen" /\ UNCHANGED calls[c].dir
    BY <1>3, MovesPc DEF WriteStep, PCs, PutSteps, StoreInv
  <2>2. Describe(calls[c].data) \in MetaFile
    BY <1>1, <2>1 DEF UploadInv, PutSteps, MetaFile
  <2> QED BY <1>1, <1>3, <2>1, <2>2, WritesScratch DEF PutSteps, ScratchInv, FileChange
<1> QED BY <1>2, <1>3 DEF WriteMeta

\* The directory that is renamed has what the upload brought, and the name was free.
LEMMA RenameStep ==
  ASSUME StoreInv, NEW c \in Calls, Rename(c)
  PROVE  StoreInv'
<1> DEFINE dir == calls[c].dir
           name == calls[c].name
           data == calls[c].data
           rest == Without(disk, {dir})
<1>1. /\ calls[c].pc = "rename" /\ name \notin DOMAIN disk
      /\ disk' = Put(rest, name, disk[dir])
      /\ stored' = [stored EXCEPT ![name] = data]
      /\ GotoPc(c, "clean")
      /\ UNCHANGED <<writer, readers, sure, mishap>>
  BY DEF Rename
<1>2. writer = c /\ UploadInv(c) /\ ScratchInv(c) /\ "clean" \in PCs
  BY <1>1 DEF StoreInv, LockInv, CallInv, LockedSteps, PCs, PutSteps
<1>3. /\ dir \in Tmps /\ dir \in DOMAIN disk /\ dir \notin Names
      /\ name \in Names /\ name \in Dirs /\ data \in Packages
      /\ disk[dir].archive = data /\ disk[dir].meta = Describe(data)
  BY <1>1, <1>2, PackagesKnown DEF UploadInv, ScratchInv, PutSteps, Dirs
<1>4. /\ calls' \in [Calls -> CallRecord] /\ calls'[c].pc = "clean"
      /\ calls'[c].dir = dir
      /\ \A q \in Calls : q # c => calls'[q] = calls[q]
  BY <1>1, <1>2, MovesPc DEF StoreInv
<1>5. IsTable(disk, Dirs, Files) /\ disk[dir] \in Files
  BY <1>3 DEF StoreInv, TypeOK, IsTable
<1>6. /\ IsTable(rest, Dirs, Files) /\ DOMAIN rest = DOMAIN disk \ {dir}
      /\ \A x \in DOMAIN disk \ {dir} : rest[x] = disk[x]
  BY <1>5, WithoutRows
<1>7. /\ IsTable(disk', Dirs, Files)
      /\ DOMAIN disk' = (DOMAIN disk \ {dir}) \cup {name}
      /\ disk'[name] = disk[dir]
      /\ \A x \in DOMAIN disk \ {dir} : x # name => disk'[x] = disk[x]
  <2> HIDE DEF rest, name, dir
  <2> QED BY <1>1, <1>3, <1>5, <1>6, PutRow
<1>8. stored' \in [Names -> Packages \cup {None}] /\ stored'[name] = data
  BY <1>1, <1>3 DEF StoreInv, TypeOK
<1>9. \A n \in Names : n # name => stored'[n] = stored[n]
  BY <1>1 DEF StoreInv, TypeOK
<1>10. stored[name] = None
  BY <1>1, <1>3 DEF StoreInv, StoredIsWhole
<1>11. UploadInv(c)' /\ ScratchInv(c)'
  BY <1>3, <1>4 DEF UploadInv, ScratchInv, PutSteps
<1>12. LockInv' /\ CallInv'
  BY <1>1, <1>2, <1>4, <1>11, OthersKeep DEF LockRule, LockedSteps, PutSteps
<1>13. TypeOK'
  BY <1>1, <1>4, <1>7, <1>8 DEF StoreInv, TypeOK, CallRecord
<1>14. StoredIsWhole'
  <2>1. disk'[name] = [archive |-> data, meta |-> Describe(data)]
    BY <1>3, <1>5, <1>7 DEF Files
  <2>2. ASSUME NEW n \in Names, n = name PROVE Whole(n)'
    <3> HIDE DEF name, data
    <3>1. n \in DOMAIN disk' /\ stored'[n] = data
      BY <1>7, <1>8, <2>2
    <3>2. disk'[n] = [archive |-> stored'[n], meta |-> Describe(stored'[n])]
      BY <2>1, <2>2, <3>1
    <3>3. Torn \notin {disk'[n].archive, disk'[n].meta}
      BY <1>3, <3>1, <3>2, PackagesKnown
    <3> QED BY <3>1, <3>2, <3>3 DEF Whole
  <2>3. ASSUME NEW n \in Names, n # name PROVE Whole(n)'
    <3>1. n # dir
      BY <1>3
    <3> HIDE DEF name, dir
    <3> QED BY <1>7, <1>9, <2>3, <3>1, WholeKept DEF StoreInv
  <2> QED BY <2>2, <2>3, AllWhole
<1>15. ListInv'
  <2>1. ASSUME NEW q \in Calls, NEW n \in sure'[q] PROVE stored'[n] # None
    <3>1. n \in Names /\ stored[n] # None
      BY <1>1, <2>1 DEF StoreInv, ListInv, TypeOK
    <3> QED BY <1>9, <1>10, <3>1
  <2>2. ASSUME NEW q \in Calls, calls'[q].pc \in {"listLock", "list"}
        PROVE  sure'[q] \subseteq calls'[q].entries
    BY <1>1, <1>4, <2>2 DEF StoreInv, ListInv
  <2> QED BY <2>1, <2>2 DEF ListInv
<1> QED BY <1>12, <1>13, <1>14, <1>15 DEF StoreInv

----------------------------------------------------------------------------
\* The steps of a removal.

\* The lock's holder takes from a package, which it forgets, or from a temporary
\* directory.
LEMMA RemovalTarget ==
  ASSUME StoreInv, NEW c \in Calls, Removing(c), NEW d \in Targets(calls[c]), Forget(c, d)
  PROVE  /\ writer = c
         /\ \A n \in Names : n = d => stored'[n] = None
         /\ \A n \in Names : n # d => stored'[n] = stored[n]
         /\ stored' \in [Names -> Packages \cup {None}]
         /\ sure' \in [Calls -> SUBSET Names]
         /\ \A q \in Calls : sure'[q] \subseteq sure[q] /\ d \notin sure'[q]
<1>1. writer = c /\ UploadInv(c)
  BY DEF Removing, StoreInv, LockInv, CallInv, LockedSteps
<1>2. stored \in [Names -> Packages \cup {None}] /\ sure \in [Calls -> SUBSET Names]
  BY DEF StoreInv, TypeOK
<1>3. CASE calls[c].pc = "delete"
  <2>1. /\ stored' = [n \in Names |-> IF n \in {d} THEN None ELSE stored[n]]
        /\ sure' = [q \in Calls |-> sure[q] \ {d}]
    BY <1>3 DEF Forget
  <2> QED BY <1>1, <1>2, <2>1
<1>4. CASE calls[c].pc = "clean"
  <2>1. calls[c].dir \in Tmps /\ calls[c].dir \notin Names /\ calls[c].dir # Base
    BY <1>1, <1>4, PackagesKnown DEF UploadInv, Dirs
  <2>2. d \notin Names
    BY <2>1 DEF Targets
  <2>3. stored' = [n \in Names |-> stored[n]] /\ sure' = [q \in Calls |-> sure[q]]
    BY <1>4 DEF Forget
  <2> QED BY <1>1, <1>2, <2>2, <2>3
<1> QED BY <1>3, <1>4 DEF Removing

LEMMA RemoveFileStep ==
  ASSUME StoreInv, NEW c \in Calls, RemoveFile(c)
  PROVE  StoreInv'
<1>1. PICK dir \in Targets(calls[c]) : \E f \in FilesIn(dir) :
        disk' = [disk EXCEPT ![dir][f] = None] /\ Forget(c, dir)
  BY DEF RemoveFile
<1>r. Removing(c) /\ UNCHANGED <<writer, readers, calls, mishap>>
  BY DEF RemoveFile
<1>2. /\ writer = c
      /\ \A n \in Names : n = dir => stored'[n] = None
      /\ \A n \in Names : n # dir => stored'[n] = stored[n]
      /\ stored' \in [Names -> Packages \cup {None}]
      /\ sure' \in [Calls -> SUBSET Names]
      /\ \A q \in Calls : sure'[q] \subseteq sure[q] /\ dir \notin sure'[q]
  BY <1>1, <1>r, RemovalTarget
<1>3. PICK f \in FilesIn(dir) : disk' = [disk EXCEPT ![dir][f] = None]
  BY <1>1
<1>4. dir \in DOMAIN disk /\ f \in {"archive", "meta"}
  BY <1>3 DEF FilesIn
<1>5. IsTable(disk', Dirs, Files) /\ FileChange(dir, f, None)
  BY <1>3, <1>4, ChangeFile DEF StoreInv, TypeOK, ArchiveFile, MetaFile
<1>6. TypeOK'
  BY <1>r, <1>2, <1>5 DEF StoreInv, TypeOK
<1>7. UploadInv(c)' /\ ScratchInv(c)'
  BY <1>r DEF StoreInv, CallInv, UploadInv, ScratchInv, Removing, PutSteps
<1>8. LockInv' /\ CallInv'
  <2>1. LockRule(c) /\ writer' = c
    BY <1>r, <1>2 DEF LockRule, Removing, LockedSteps
  <2> QED BY <1>r, <1>7, <2>1, OthersKeep
<1>9. StoredIsWhole'
  <2>1. ASSUME NEW n \in Names, n # dir PROVE Whole(n)'
    BY <1>2, <1>5, <2>1, WholeKept DEF StoreInv, FileChange
  <2>2. ASSUME NEW n \in Names, n = dir PROVE Whole(n)'
    <3>1. stored'[n] = None
      BY <1>2, <2>2
    <3>2. Torn \notin {disk[dir].archive, disk[dir].meta}
      BY <1>4, <2>2 DEF StoreInv, StoredIsWhole
    <3>3. Torn \notin {disk'[dir].archive, disk'[dir].meta}
      BY <1>5, <3>2, PackagesKnown DEF FileChange
    <3> QED BY <2>2, <3>1, <3>3 DEF Whole
  <2> QED BY <2>1, <2>2, AllWhole
<1>10. ListInv'
  <2>1. ASSUME NEW q \in Calls, NEW n \in sure'[q] PROVE stored'[n] # None
    <3>1. n \in Names /\ n # dir /\ stored[n] # None
      BY <1>2, <2>1 DEF StoreInv, ListInv
    <3> QED BY <1>2, <3>1
  <2> QED BY <1>r, <1>2, <2>1 DEF StoreInv, ListInv
<1> QED BY <1>6, <1>8, <1>9, <1>10 DEF StoreInv

LEMMA RemoveDirStep ==
  ASSUME StoreInv, NEW c \in Calls, RemoveDir(c)
  PROVE  StoreInv'
<1>1. PICK dir \in Targets(calls[c]) \cap DOMAIN disk :
        disk' = Without(disk, {dir}) /\ Forget(c, dir)
  BY DEF RemoveDir
<1>r. Removing(c) /\ UNCHANGED <<writer, readers, calls, mishap>>
  BY DEF RemoveDir
<1>2. /\ writer = c
      /\ \A n \in Names : n = dir => stored'[n] = None
      /\ \A n \in Names : n # dir => stored'[n] = stored[n]
      /\ stored' \in [Names -> Packages \cup {None}]
      /\ sure' \in [Calls -> SUBSET Names]
      /\ \A q \in Calls : sure'[q] \subseteq sure[q] /\ dir \notin sure'[q]
  BY <1>1, <1>r, RemovalTarget
<1>5. /\ IsTable(disk', Dirs, Files) /\ DOMAIN disk' = DOMAIN disk \ {dir}
      /\ \A x \in DOMAIN disk \ {dir} : disk'[x] = disk[x]
  BY <1>1, WithoutRows DEF StoreInv, TypeOK
<1>6. TypeOK'
  BY <1>r, <1>2, <1>5 DEF StoreInv, TypeOK
<1>7. UploadInv(c)' /\ ScratchInv(c)'
  BY <1>r DEF StoreInv, CallInv, UploadInv, ScratchInv, Removing, PutSteps
<1>8. LockInv' /\ CallInv'
  <2>1. LockRule(c) /\ writer' = c
    BY <1>r, <1>2 DEF LockRule, Removing, LockedSteps
  <2> QED BY <1>r, <1>7, <2>1, OthersKeep
<1>9. StoredIsWhole'
  <2>1. ASSUME NEW n \in Names, n # dir PROVE Whole(n)'
    BY <1>2, <1>5, <2>1, WholeKept DEF StoreInv
  <2>2. ASSUME NEW n \in Names, n = dir PROVE Whole(n)'
    BY <1>2, <1>5, <2>2 DEF Whole
  <2> QED BY <2>1, <2>2, AllWhole
<1>10. ListInv'
  <2>1. ASSUME NEW q \in Calls, NEW n \in sure'[q] PROVE stored'[n] # None
    <3>1. n \in Names /\ n # dir /\ stored[n] # None
      BY <1>2, <2>1 DEF StoreInv, ListInv
    <3> QED BY <1>2, <3>1
  <2> QED BY <1>r, <1>2, <2>1 DEF StoreInv, ListInv
<1> QED BY <1>6, <1>8, <1>9, <1>10 DEF StoreInv

LEMMA RemoveEndsStep ==
  ASSUME StoreInv, NEW c \in Calls, RemoveEnds(c)
  PROVE  StoreInv'
BY UnlockStep DEF RemoveEnds, Removing, LockedSteps, StoreInv, TypeOK

----------------------------------------------------------------------------
\* What is published stays whole.

LEMMA RestartStep ==
  ASSUME StoreInv, Restart
  PROVE  StoreInv'
<1>1. /\ calls' = [c \in Calls |-> Idle] /\ writer' = None /\ readers' = {}
      /\ sure' = [c \in Calls |-> {}] /\ mishap' = TRUE
      /\ UNCHANGED <<disk, stored>>
  BY DEF Restart
<1>2. calls' \in [Calls -> CallRecord] /\ \A c \in Calls : calls'[c].pc = "idle"
  BY <1>1, IdleRecord
<1>3. TypeOK'
  BY <1>1, <1>2 DEF StoreInv, TypeOK, CallRecord
<1>4. LockInv' /\ CallInv'
  BY <1>2 DEF LockInv, CallInv, UploadInv, ScratchInv, LockedSteps, PutSteps
<1>5. StoredIsWhole' /\ ListInv'
  BY <1>1, <1>2 DEF StoreInv, StoredIsWhole, ListInv
<1> QED BY <1>3, <1>4, <1>5 DEF StoreInv

LEMMA StoreStep == StoreInv /\ [Next]_vars => StoreInv'
<1> SUFFICES ASSUME StoreInv, [Next]_vars PROVE StoreInv'
  OBVIOUS
<1>1. ASSUME NEW c \in Calls, Upload(c) \/ Delete(c) \/ ListReadDir(c) \/ Lock(c) \/ ListLock(c)
      PROVE  StoreInv'
  BY <1>1, UploadStep, DeleteStep, ListReadDirStep, LockStep, ListLockStep
<1>2. ASSUME NEW c \in Calls, Proceed(c)
      PROVE  StoreInv'
  BY <1>2, PutCheckStep, WriteArchiveStep, WriteMetaStep, RenameStep, PutFailsStep,
     RemoveFileStep, RemoveDirStep, RemoveEndsStep, RemoveFailsStep, ListAnswerStep DEF Proceed
<1>3. CASE Restart
  BY <1>3, RestartStep
<1>4. CASE UNCHANGED vars
  BY <1>4 DEF vars, StoreInv, TypeOK, LockInv, CallInv, UploadInv, ScratchInv,
       StoredIsWhole, ListInv
<1> QED BY <1>1, <1>2, <1>3, <1>4 DEF Next

LEMMA StoreInit == Init => StoreInv
<1> SUFFICES ASSUME Init PROVE StoreInv
  OBVIOUS
<1>1. DOMAIN disk = {} /\ IsTable(disk, Dirs, Files)
  BY DEF Init, IsTable
<1>2. calls \in [Calls -> CallRecord] /\ \A c \in Calls : calls[c].pc = "idle"
  BY IdleRecord DEF Init
<1>3. TypeOK
  BY <1>1, <1>2 DEF Init, TypeOK, CallRecord
<1>4. LockInv /\ CallInv
  BY <1>2 DEF LockInv, CallInv, UploadInv, ScratchInv, LockedSteps, PutSteps
<1>5. StoredIsWhole /\ ListInv
  BY <1>1, <1>2 DEF Init, StoredIsWhole, ListInv
<1> QED BY <1>3, <1>4, <1>5 DEF StoreInv

\* The inductive invariant of the store: the types, who holds the lock and at which
\* steps, what an upload in progress has checked, that what stands under a final name
\* is whole, and that a listing has seen what was there all along (Put, Delete and
\* List in sdk_package_store.go).
THEOREM StoreCorrect == Spec => []StoreInv
BY StoreInit, StoreStep, PTL DEF Spec

\* The variables keep their types: in particular each directory below StorageDir has
\* a known name and no files but the two (Put, Delete in sdk_package_store.go).
THEOREM TypeCorrect == Spec => []TypeOK
<1>1. StoreInv => TypeOK
  BY DEF StoreInv
<1> QED BY <1>1, StoreCorrect, PTL

\* A published package stays whole until a DELETE of its name, or of one that joins to
\* the store's directory or its parent (Put renames a directory that is complete;
\* nobody but the lock's holder writes below StorageDir).
THEOREM StoredWhole == Spec => []StoredIsWhole
<1>1. StoreInv => StoredIsWhole
  BY DEF StoreInv
<1> QED BY <1>1, StoreCorrect, PTL

----------------------------------------------------------------------------
\* What is published, and under which name.

\* The name of a package is the one its manifest gives.
NamedInv == \A n \in Names : stored[n] # None => Manifest(stored[n]).name = n

LEMMA NamedStep == StoreInv /\ NamedInv /\ [Next]_vars => NamedInv'
<1> SUFFICES ASSUME StoreInv, NamedInv, [Next]_vars PROVE NamedInv'
  OBVIOUS
<1>1. ASSUME NEW c \in Calls, Rename(c) PROVE NamedInv'
  <2>1. calls[c].name = Manifest(calls[c].data).name
    BY <1>1 DEF Rename, StoreInv, CallInv, UploadInv, PutSteps
  <2>2. stored' = [stored EXCEPT ![calls[c].name] = calls[c].data] /\ stored \in [Names -> Packages \cup {None}]
    BY <1>1 DEF Rename, StoreInv, TypeOK
  <2> QED BY <2>1, <2>2 DEF NamedInv
<1>2. ASSUME NEW c \in Calls, RemoveFile(c) \/ RemoveDir(c) PROVE NamedInv'
  <2>1. \A n \in Names : stored'[n] \in {stored[n], None}
    BY <1>2 DEF RemoveFile, RemoveDir, Forget
  <2> QED BY <2>1 DEF NamedInv
<1>3. CASE UNCHANGED stored
  BY <1>3 DEF NamedInv
<1>4. ASSUME NEW c \in Calls,
             \/ Upload(c) \/ Delete(c) \/ ListReadDir(c) \/ Lock(c) \/ ListLock(c)
             \/ PutCheck(c) \/ WriteArchive(c) \/ WriteMeta(c) \/ PutFails(c)
             \/ RemoveEnds(c) \/ RemoveFails(c) \/ ListAnswer(c)
      PROVE  UNCHANGED stored
  BY <1>4 DEF Upload, Delete, ListReadDir, Lock, ListLock, PutCheck, WriteArchive, WriteMeta,
              WriteStep, PutFails, RemoveEnds, RemoveFails, ListAnswer
<1>5. CASE Restart \/ UNCHANGED vars
  BY <1>3, <1>5 DEF Restart, vars
<1> QED BY <1>1, <1>2, <1>3, <1>4, <1>5 DEF Next, Proceed

\* The manifest that the validation has read is the one an extraction leaves.
LEMMA ManifestExtracted ==
  ASSUME NEW a \in Packages
  PROVE  ExtractedManifest(a) = Manifest(a)
<1>1. DOMAIN a.entries \subseteq Int
  <2>1. a.entries \in Seq(Entries)
    BY PackageConstants DEF Packages, Uploads
  <2> QED BY <2>1
<1>2. PICK i \in DOMAIN a.entries :
        /\ ManifestEntry(a, i) /\ Manifest(a) = a.entries[i].body
        /\ a.entries[i].kind = "file"
  BY PackageManifest
<1> DEFINE written == {j \in DOMAIN a.entries : AtManifest(a.entries[j]) /\ a.entries[j].kind = "file"}
<1>3. \A j \in written : IsManifest(a, j)
  BY DEF IsManifest
<1>4. i \in written /\ \A j \in written : j <= i
  BY <1>1, <1>2, <1>3 DEF ManifestEntry, IsManifest
<1>5. \A k \in written : (\A j \in written : j <= k) => k = i
  BY <1>1, <1>4
<1>6. (CHOOSE k \in written : \A j \in written : j <= k) = i
  BY <1>4, <1>5
<1> QED BY <1>2, <1>6 DEF ExtractedManifest

\* A path without ".." stays below where it begins.
LEMMA SafePathStays ==
  ASSUME NEW e \in Entries, SafePath(e)
  PROVE  ~e.absolute /\ ~Climbs(e.path)
<1>1. e.path \in Seq(Segments)
  BY DEF Entries
<1>2. ASSUME NEW k \in DOMAIN e.path
      PROVE  ~(Cardinality({i \in 1..k : e.path[i] = ".."})
                 > Cardinality({i \in 1..k : e.path[i] \notin {".", ".."}}))
  <2>1. k \in Nat /\ 1..k \subseteq DOMAIN e.path
    BY <1>1, <1>2
  <2>2. {i \in 1..k : e.path[i] = ".."} = {}
    BY <2>1 DEF SafePath
  <2>3. IsFiniteSet({i \in 1..k : e.path[i] \notin {".", ".."}})
    <3>1. IsFiniteSet(1..k)
      BY <2>1, FS_Interval
    <3>2. {i \in 1..k : e.path[i] \notin {".", ".."}} \subseteq 1..k
      OBVIOUS
    <3> QED BY <3>1, <3>2, FS_Subset
  <2>4. Cardinality({i \in 1..k : e.path[i] \notin {".", ".."}}) \in Nat
    BY <2>3, FS_CardinalityType
  <2> QED BY <2>2, <2>4, FS_EmptySet
<1> QED BY <1>2 DEF SafePath, Climbs

\* The name and the description of a published package are those of its own
\* manifest, the paths of its entries stay inside it, and in a tar none leads through
\* a link (validateAndExtractManifest, buildMeta and Put).
THEOREM SelfContained == Spec => []PackageIsSelfContained
<1>1. StoreInv /\ NamedInv => PackageIsSelfContained
  <2> SUFFICES ASSUME StoreInv, NamedInv, NEW n \in Names, stored[n] # None
               PROVE  LET a == stored[n] IN
                      /\ ExtractedManifest(a).name = n
                      /\ disk[n].meta.manifest = ExtractedManifest(a)
                      /\ \A i \in DOMAIN a.entries :
                           /\ ~a.entries[i].absolute /\ ~Climbs(a.entries[i].path)
                           /\ a.format = "tar" => ~ThroughLink(a, i)
    BY DEF PackageIsSelfContained
  <2>1. PICK a \in Packages : a = stored[n]
    BY DEF StoreInv, TypeOK
  <2>2. ExtractedManifest(a) = Manifest(a)
    BY ManifestExtracted
  <2>3. Manifest(a).name = n
    BY <2>1 DEF NamedInv
  <2>4. disk[n].meta.manifest = Manifest(a)
    <3>1. disk[n] = [archive |-> a, meta |-> Describe(a)]
      BY <2>1 DEF StoreInv, StoredIsWhole
    <3>2. Describe(a).manifest = Manifest(a)
      BY DEF Describe
    <3> QED BY <3>1, <3>2
  <2>5. a.entries \in Seq(Entries) /\ Acceptable(a)
    BY PackageConstants DEF Packages, Uploads
  <2>6. \A i \in DOMAIN a.entries :
          /\ a.entries[i] \in Entries /\ SafePath(a.entries[i])
          /\ a.format = "tar" => a.entries[i].kind # "link"
    BY <2>5 DEF Acceptable
  <2>7. \A i \in DOMAIN a.entries : ~a.entries[i].absolute /\ ~Climbs(a.entries[i].path)
    BY <2>6, SafePathStays
  <2>8. a.format = "tar" => \A i \in DOMAIN a.entries : ~ThroughLink(a, i)
    BY <2>6 DEF ThroughLink
  <2> QED BY <2>1, <2>2, <2>3, <2>4, <2>7, <2>8
<1>2. Init => NamedInv
  BY DEF Init, NamedInv
<1> QED BY <1>1, <1>2, NamedStep, StoreCorrect, PTL DEF Spec

\* A listing shows the packages that were there all along (List skips what it
\* cannot read, and nothing else).
THEOREM ListingComplete == Spec => []ListShowsStored
<1>1. StoreInv => ListShowsStored
  <2> SUFFICES ASSUME StoreInv, NEW c \in Calls, calls[c].pc = "list", NEW n \in sure[c]
               PROVE  Describe(stored[n]) \in Listed(calls[c].entries)
    BY DEF ListShowsStored
  <2>1. n \in calls[c].entries /\ stored[n] # None /\ n \in Names /\ stored[n] \in Packages
    BY DEF StoreInv, ListInv, TypeOK
  <2>2. n \in DOMAIN disk /\ disk[n] = [archive |-> stored[n], meta |-> Describe(stored[n])]
    BY <2>1 DEF StoreInv, StoredIsWhole
  <2>3. Readable(n)
    BY <2>1, <2>2, PackagesKnown DEF Readable
  <2> QED BY <2>1, <2>2, <2>3 DEF Listed
<1> QED BY <1>1, StoreCorrect, PTL

----------------------------------------------------------------------------
\* The limit.

LEMMA DiskFinite == ASSUME TypeOK PROVE IsFiniteSet(DOMAIN disk) /\ Cardinality(DOMAIN disk) \in Nat
<1>1. IsFiniteSet(Dirs)
  BY PackageConstants, FS_Union DEF Dirs
<1>2. DOMAIN disk \in SUBSET Dirs
  BY DEF TypeOK, IsTable
<1> QED BY <1>1, <1>2, FS_Subset, FS_CardinalityType

\* Fewer directories, or the same.
LEMMA NoMore ==
  ASSUME TypeOK, LimitHolds, DOMAIN disk' \subseteq DOMAIN disk
  PROVE  LimitHolds'
<1>1. /\ Cardinality(DOMAIN disk') \in Nat
      /\ Cardinality(DOMAIN disk') <= Cardinality(DOMAIN disk)
  BY DiskFinite, FS_Subset, FS_CardinalityType
<1> QED BY <1>1, DiskFinite, PackageConstants DEF LimitHolds

LEMMA LimitStep == StoreInv /\ LimitHolds /\ [Next]_vars => LimitHolds'
<1> SUFFICES ASSUME StoreInv, LimitHolds, [Next]_vars PROVE LimitHolds'
  OBVIOUS
<1>t. TypeOK /\ IsTable(disk, Dirs, Files)
  BY DEF StoreInv, TypeOK
<1>1. ASSUME NEW c \in Calls, PutCheck(c), disk' # disk PROVE LimitHolds'
  <2>1. ~Full /\ \E t \in Scratch(calls[c].name) : disk' = Put(disk, t, EmptyDir)
    BY <1>1 DEF PutCheck
  <2>2. PICK t \in Scratch(calls[c].name) : DOMAIN disk' = DOMAIN disk \cup {t}
    BY <2>1 DEF Put
  <2>3. Cardinality(DOMAIN disk') = Cardinality(DOMAIN disk) + 1
    BY <1>t, <2>2, DiskFinite, FS_AddElement DEF Scratch
  <2> QED BY <1>t, <2>1, <2>3, DiskFinite, PackageConstants DEF LimitHolds, Full
<1>2. ASSUME NEW c \in Calls, Rename(c) PROVE LimitHolds'
  <2> DEFINE dir == calls[c].dir
             rest == Without(disk, {dir})
  <2>1. calls[c].pc = "rename" /\ calls[c].name \notin DOMAIN disk
    BY <1>2 DEF Rename
  <2>2. dir \in DOMAIN disk
    BY <2>1 DEF StoreInv, CallInv, ScratchInv, PutSteps
  <2>3. DOMAIN rest = DOMAIN disk \ {dir}
    BY <1>t, WithoutRows
  <2>4. DOMAIN disk' = (DOMAIN disk \ {dir}) \cup {calls[c].name}
    <3>1. disk' = Put(rest, calls[c].name, disk[dir])
      BY <1>2 DEF Rename
    <3> QED BY <2>3, <3>1 DEF Put
  <2>5. /\ IsFiniteSet(DOMAIN disk \ {dir})
        /\ Cardinality(DOMAIN disk \ {dir}) = Cardinality(DOMAIN disk) - 1
    BY <1>t, <2>2, DiskFinite, FS_RemoveElement
  <2>6. Cardinality(DOMAIN disk') = Cardinality(DOMAIN disk \ {dir}) + 1
    BY <2>1, <2>4, <2>5, FS_AddElement
  <2>7. Cardinality(DOMAIN disk') = Cardinality(DOMAIN disk)
    BY <1>t, <2>5, <2>6, DiskFinite
  <2> QED BY <2>7 DEF LimitHolds
<1>3. ASSUME NEW c \in Calls, RemoveDir(c) PROVE LimitHolds'
  <2>1. PICK d : disk' = Without(disk, {d})
    BY <1>3 DEF RemoveDir
  <2>2. DOMAIN disk' \subseteq DOMAIN disk
    BY <2>1 DEF Without
  <2> QED BY <1>t, <2>2, NoMore
<1>4. ASSUME NEW c \in Calls, NEW pc, NEW f, NEW content, NEW next,
             WriteStep(c, pc, f, content, next)
      PROVE  LimitHolds'
  BY <1>t, <1>4, NoMore DEF WriteStep
<1>5. ASSUME NEW c \in Calls, RemoveFile(c) PROVE LimitHolds'
  BY <1>t, <1>5, NoMore DEF RemoveFile
<1>6. CASE disk' = disk
  BY <1>6 DEF LimitHolds
<1>7. ASSUME NEW c \in Calls,
             Upload(c) \/ Delete(c) \/ ListReadDir(c) \/ Lock(c) \/ ListLock(c)
      PROVE  LimitHolds'
  BY <1>6, <1>7 DEF Upload, Delete, ListReadDir, Lock, ListLock
<1>8. ASSUME NEW c \in Calls, Proceed(c) PROVE LimitHolds'
  <2>1. CASE WriteArchive(c) \/ WriteMeta(c)
    BY <1>4, <2>1 DEF WriteArchive, WriteMeta
  <2>2. CASE PutFails(c) \/ RemoveEnds(c) \/ RemoveFails(c) \/ ListAnswer(c)
    BY <1>6, <2>2 DEF PutFails, RemoveEnds, RemoveFails, ListAnswer
  <2> QED BY <1>1, <1>2, <1>3, <1>5, <1>6, <1>8, <2>1, <2>2 DEF Proceed
<1> QED BY <1>6, <1>7, <1>8 DEF Next, Restart, vars

\* There are never more directories than packages are allowed, residue included (the
\* count, the check and MkdirAll in Put are under one lock).
THEOREM Limited == Spec => []LimitHolds
<1>1. Init => LimitHolds
  <2> SUFFICES ASSUME Init PROVE LimitHolds
    OBVIOUS
  <2>1. DOMAIN disk = {}
    BY DEF Init
  <2> QED BY <2>1, FS_EmptySet, PackageConstants DEF LimitHolds
<1> QED BY <1>1, LimitStep, StoreCorrect, PTL DEF Spec

----------------------------------------------------------------------------
\* Residue.

\* A handler that begins an upload has no directory yet, and the lock is held by
\* somebody who is at work.
ResidueInv ==
  /\ \A c \in Calls : writer = c => calls[c].pc \in LockedSteps
  /\ \A c \in Calls : calls[c].pc \in {"putLock", "check"} => calls[c].dir = None
  /\ NoResidue

\* A handler that does not hold the lock moves on, and touches neither the lock nor
\* the disk.
LEMMA AsideStep ==
  ASSUME TypeOK, ResidueInv, NEW c \in Calls, NEW state \in CallRecord, Goto(c, state),
         calls[c].pc \notin LockedSteps,
         state.pc = "putLock" => state.dir = None, state.pc # "check",
         UNCHANGED <<disk, writer, stored, mishap>>
  PROVE  ResidueInv'
<1>1. writer # c /\ writer \in Calls \cup {None}
  BY DEF ResidueInv, TypeOK
<1>2. calls'[c] = state /\ \A q \in Calls : q # c => calls'[q] = calls[q]
  BY Moves
<1>3. NoResidue'
  BY <1>1, <1>2 DEF ResidueInv, NoResidue
<1>4. \A q \in Calls : writer' = q => calls'[q].pc \in LockedSteps
  BY <1>1, <1>2 DEF ResidueInv
<1>5. \A q \in Calls : calls'[q].pc \in {"putLock", "check"} => calls'[q].dir = None
  BY <1>2 DEF ResidueInv
<1> QED BY <1>3, <1>4, <1>5 DEF ResidueInv

\* The lock's holder goes on with the directory it has, or with all there are.
LEMMA HolderStep ==
  ASSUME TypeOK, ResidueInv, NEW c \in Calls, writer = c, UNCHANGED writer,
         calls'[c].pc \in LockedSteps, calls'[c].pc # "check", calls'[c].dir = calls[c].dir,
         \A q \in Calls : q # c => calls'[q] = calls[q],
         ~mishap' => ~mishap,
         \A d \in DOMAIN disk' : calls[c].dir \notin {d, Base} =>
           \/ d \in DOMAIN disk /\ (d \in Names => stored'[d] = stored[d])
           \/ d \in Names /\ stored'[d] # None
  PROVE  ResidueInv'
<1>1. \A q \in Calls : writer' = q => calls'[q].pc \in LockedSteps
  OBVIOUS
<1>2. \A q \in Calls : calls'[q].pc \in {"putLock", "check"} => calls'[q].dir = None
  BY DEF ResidueInv, LockedSteps, PutSteps
<1>3. c # None
  BY PackagesKnown
<1>4. NoResidue'
  <2> SUFFICES ASSUME ~mishap', NEW d \in DOMAIN disk', calls[c].dir \notin {d, Base}
               PROVE  d \in Names /\ stored'[d] # None
    BY <1>3 DEF NoResidue
  <2> QED BY DEF ResidueInv, NoResidue
<1> QED BY <1>1, <1>2, <1>4 DEF ResidueInv

\* The lock's holder ends, and its directory is not there any more, or none is.
LEMMA ReleaseStep ==
  ASSUME TypeOK, ResidueInv, NEW c \in Calls, writer = c, Unlock(c), ~mishap' => ~mishap,
         ~mishap' => \A d \in DOMAIN disk' :
           d \in DOMAIN disk /\ calls[c].dir \notin {d, Base} /\ (d \in Names => stored'[d] = stored[d])
  PROVE  ResidueInv'
<1>1. writer' = None /\ c # None
  BY PackagesKnown DEF Unlock
<1>2. calls'[c] = Idle /\ \A q \in Calls : q # c => calls'[q] = calls[q]
  BY IdleRecord, Moves DEF Unlock, Return
<1>3. \A q \in Calls : calls'[q].pc \in {"putLock", "check"} => calls'[q].dir = None
  BY <1>2, IdleRecord DEF ResidueInv
<1>4. \A q \in Calls : writer' # q
  BY <1>1, PackagesKnown
<1>5. NoResidue'
  BY DEF ResidueInv, NoResidue
<1> QED BY <1>3, <1>4, <1>5 DEF ResidueInv

LEMMA ResidueAside ==
  ASSUME TypeOK, ResidueInv, NEW c \in Calls,
         Upload(c) \/ Delete(c) \/ ListReadDir(c) \/ ListLock(c) \/ ListAnswer(c)
  PROVE  ResidueInv'
<1>1. CASE Upload(c)
  <2>1. PICK a \in Packages :
          Goto(c, [Idle EXCEPT !.pc = "putLock", !.name = Manifest(a).name, !.data = a])
    BY <1>1 DEF Upload
  <2> DEFINE state == [Idle EXCEPT !.pc = "putLock", !.name = Manifest(a).name, !.data = a]
  <2>2. state \in CallRecord /\ state.pc = "putLock" /\ state.dir = None
    BY PackageName DEF Idle, CallRecord, PCs
  <2>3. Goto(c, state)
    BY <2>1
  <2> HIDE DEF state
  <2> QED BY <1>1, <2>2, <2>3, AsideStep DEF Upload, LockedSteps, PutSteps
<1>2. CASE Delete(c)
  <2>1. PICK d \in Dirs \cup {Base} : Goto(c, [Idle EXCEPT !.pc = "deleteLock", !.dir = d])
    BY <1>2 DEF Delete
  <2> DEFINE state == [Idle EXCEPT !.pc = "deleteLock", !.dir = d]
  <2>2. state \in CallRecord /\ state.pc = "deleteLock"
    BY DEF Idle, CallRecord, PCs
  <2>3. Goto(c, state)
    BY <2>1
  <2> HIDE DEF state
  <2> QED BY <1>2, <2>2, <2>3, AsideStep DEF Delete, LockedSteps, PutSteps
<1>3. CASE ListReadDir(c)
  <2> DEFINE state == [Idle EXCEPT !.pc = "listLock", !.entries = DOMAIN disk]
  <2>1. state \in CallRecord /\ state.pc = "listLock"
    BY DEF Idle, CallRecord, PCs, TypeOK, IsTable
  <2>2. Goto(c, state)
    BY <1>3 DEF ListReadDir
  <2> HIDE DEF state
  <2> QED BY <1>3, <2>1, <2>2, AsideStep DEF ListReadDir, LockedSteps, PutSteps
<1>4. CASE ListLock(c)
  <2> DEFINE state == [calls[c] EXCEPT !.pc = "list"]
  <2>1. state \in CallRecord /\ state.pc = "list"
    BY CallTypes DEF CallRecord, PCs
  <2>2. Goto(c, state)
    BY <1>4 DEF ListLock, GotoPc
  <2> HIDE DEF state
  <2> QED BY <1>4, <2>1, <2>2, AsideStep DEF ListLock, LockedSteps, PutSteps
<1>5. CASE ListAnswer(c)
  BY <1>5, IdleRecord, AsideStep DEF ListAnswer, Return, LockedSteps, PutSteps
<1> QED BY <1>1, <1>2, <1>3, <1>4, <1>5

LEMMA ResidueLock ==
  ASSUME TypeOK, ResidueInv, NEW c \in Calls, Lock(c)
  PROVE  ResidueInv'
<1> DEFINE pc == IF calls[c].pc = "putLock" THEN "check" ELSE "delete"
<1>1. pc \in PCs /\ GotoPc(c, pc)
  BY DEF Lock, PCs
<1>2. /\ calls'[c].pc = pc /\ calls'[c].dir = calls[c].dir
      /\ \A q \in Calls : q # c => calls'[q] = calls[q]
  BY <1>1, MovesPc
<1>3. \A q \in Calls : writer' = q => calls'[q].pc \in LockedSteps
  BY <1>2 DEF Lock, LockedSteps
<1>4. \A q \in Calls : calls'[q].pc \in {"putLock", "check"} => calls'[q].dir = None
  BY <1>2 DEF Lock, ResidueInv
<1>5. NoResidue'
  BY DEF Lock, ResidueInv, NoResidue
<1> QED BY <1>3, <1>4, <1>5 DEF ResidueInv

LEMMA ResiduePut ==
  ASSUME StoreInv, ResidueInv, NEW c \in Calls,
         PutCheck(c) \/ WriteArchive(c) \/ WriteMeta(c) \/ Rename(c) \/ PutFails(c)
  PROVE  ResidueInv'
<1>t. TypeOK /\ calls[c] \in CallRecord /\ IsTable(disk, Dirs, Files)
  BY CallTypes DEF StoreInv, TypeOK
<1>w. writer = c
  BY DEF PutCheck, WriteArchive, WriteMeta, WriteStep, Rename, PutFails,
         StoreInv, LockInv, LockedSteps, PutSteps
<1>1. CASE PutCheck(c)
  <2>0. calls[c].pc = "check" /\ calls[c].dir = None
    BY <1>1 DEF PutCheck, ResidueInv
  <2>1. CASE Refuse(c) /\ UNCHANGED disk
    <3>1. \A d \in DOMAIN disk : None \notin {d, Base}
      BY <1>t, PackagesKnown DEF IsTable
    <3> QED BY <1>1, <1>t, <1>w, <2>0, <2>1, <3>1, ReleaseStep DEF PutCheck, Refuse
  <2>2. ASSUME NEW t \in Scratch(calls[c].name), disk' = Put(disk, t, EmptyDir),
               Goto(c, [calls[c] EXCEPT !.pc = "archive", !.dir = t]), UNCHANGED writer
        PROVE  ResidueInv'
    <3> DEFINE state == [calls[c] EXCEPT !.pc = "archive", !.dir = t]
    <3>1. state \in CallRecord /\ state.pc = "archive" /\ state.dir = t
      BY <1>t DEF CallRecord, PCs, PutSteps, Scratch, Dirs
    <3>2. Goto(c, state)
      BY <2>2
    <3> HIDE DEF state
    <3>3. calls'[c] = state /\ \A q \in Calls : q # c => calls'[q] = calls[q]
      BY <1>t, <3>1, <3>2, Moves
    <3>4. DOMAIN disk' = DOMAIN disk \cup {t} /\ UNCHANGED <<stored, mishap>>
      BY <1>1, <2>2 DEF Put, PutCheck
    <3>5. writer' = c /\ c # None
      BY <1>w, <2>2, PackagesKnown
    <3>6. NoResidue'
      <4> SUFFICES ASSUME ~mishap', NEW d \in DOMAIN disk', d # t
                   PROVE  d \in Names /\ stored'[d] # None
        BY <3>1, <3>3, <3>5 DEF NoResidue
      <4>1. d \in DOMAIN disk /\ d # None
        BY <1>t, <3>4, PackagesKnown DEF IsTable
      <4> QED BY <1>w, <2>0, <3>4, <4>1, PackagesKnown DEF ResidueInv, NoResidue
    <3>7. \A q \in Calls : writer' = q => calls'[q].pc \in LockedSteps
      BY <3>1, <3>3, <3>5 DEF LockedSteps, PutSteps
    <3>8. \A q \in Calls : calls'[q].pc \in {"putLock", "check"} => calls'[q].dir = None
      BY <3>1, <3>3 DEF ResidueInv
    <3> QED BY <3>6, <3>7, <3>8 DEF ResidueInv
  <2> QED BY <1>1, <2>1, <2>2 DEF PutCheck
<1>2. ASSUME NEW pc \in PutSteps, NEW next \in PutSteps, NEW f, NEW content,
             WriteStep(c, pc, f, content, next)
      PROVE  ResidueInv'
  <2>1. GotoPc(c, next) /\ next \in PCs /\ next \in LockedSteps /\ next # "check"
    BY <1>2 DEF WriteStep, PCs, LockedSteps, PutSteps
  <2>2. /\ calls'[c].pc = next /\ calls'[c].dir = calls[c].dir
        /\ \A q \in Calls : q # c => calls'[q] = calls[q]
    BY <1>t, <2>1, MovesPc
  <2>3. DOMAIN disk' = DOMAIN disk /\ UNCHANGED <<writer, stored, mishap>>
    BY <1>2 DEF WriteStep
  <2> QED BY <1>t, <1>w, <2>1, <2>2, <2>3, HolderStep
<1>3. CASE WriteArchive(c) \/ WriteMeta(c)
  BY <1>2, <1>3 DEF WriteArchive, WriteMeta, PutSteps
<1>4. CASE Rename(c) \/ PutFails(c)
  <2>1. GotoPc(c, "clean") /\ "clean" \in PCs /\ "clean" \in LockedSteps
    BY <1>4 DEF Rename, PutFails, PCs, LockedSteps
  <2>2. /\ calls'[c].pc = "clean" /\ calls'[c].dir = calls[c].dir
        /\ \A q \in Calls : q # c => calls'[q] = calls[q]
    BY <1>t, <2>1, MovesPc
  <2>3. CASE PutFails(c)
    BY <1>t, <1>w, <2>1, <2>2, <2>3, HolderStep DEF PutFails
  <2>4. CASE Rename(c)
    <3> DEFINE name == calls[c].name
    <3>1. UploadInv(c) /\ calls[c].pc = "rename"
      BY <2>4 DEF Rename, StoreInv, CallInv
    <3>2. name \in Names /\ calls[c].data \in Packages
      BY <3>1 DEF UploadInv, PutSteps
    <3>3. DOMAIN disk' \subseteq DOMAIN disk \cup {name}
      BY <2>4 DEF Rename, Put, Without
    <3>4. stored' = [stored EXCEPT ![name] = calls[c].data] /\ UNCHANGED <<writer, mishap>>
      BY <2>4 DEF Rename
    <3>5. \A n \in Names : stored'[n] = IF n = name THEN calls[c].data ELSE stored[n]
      BY <1>t, <3>2, <3>4 DEF TypeOK
    <3>6. name \in Names /\ stored'[name] # None
      BY <3>2, <3>5, PackagesKnown
    <3> HIDE DEF name
    <3>7. \A d \in DOMAIN disk' :
            \/ d \in DOMAIN disk /\ (d \in Names => stored'[d] = stored[d])
            \/ d \in Names /\ stored'[d] # None
      BY <3>3, <3>5, <3>6
    <3> QED BY <1>t, <1>w, <2>1, <2>2, <3>4, <3>7, HolderStep
  <2> QED BY <1>4, <2>3, <2>4
<1> QED BY <1>1, <1>3, <1>4

LEMMA ResidueRemoval ==
  ASSUME StoreInv, ResidueInv, NEW c \in Calls,
         RemoveFile(c) \/ RemoveDir(c) \/ RemoveEnds(c) \/ RemoveFails(c)
  PROVE  ResidueInv'
<1>t. TypeOK /\ IsTable(disk, Dirs, Files) /\ Removing(c)
  BY DEF StoreInv, TypeOK, RemoveFile, RemoveDir, RemoveEnds, RemoveFails
<1>w. writer = c
  BY <1>t DEF Removing, StoreInv, LockInv, LockedSteps
<1>1. CASE RemoveFails(c)
  BY <1>1, <1>t, <1>w, ReleaseStep DEF RemoveFails
<1>2. CASE RemoveFile(c) \/ RemoveDir(c)
  <2>1. PICK dir \in Targets(calls[c]) : Forget(c, dir)
    BY <1>2 DEF RemoveFile, RemoveDir
  <2>2. UNCHANGED <<writer, calls, mishap>> /\ DOMAIN disk' \subseteq DOMAIN disk
    BY <1>2 DEF RemoveFile, RemoveDir, Without
  <2>3. \A n \in Names : n # dir => stored'[n] = stored[n]
    BY <1>t, <2>1, RemovalTarget
  <2>4. calls[c].dir # Base => dir = calls[c].dir
    BY <2>1 DEF Targets
  <2>5. calls[c].pc \in LockedSteps /\ calls[c].pc # "check"
    BY <1>t DEF Removing, LockedSteps
  <2> QED BY <1>t, <1>w, <2>2, <2>3, <2>4, <2>5, HolderStep
<1>3. CASE RemoveEnds(c)
  <2>1. Unlock(c) /\ UNCHANGED <<disk, stored, mishap>> /\ Targets(calls[c]) \cap DOMAIN disk = {}
    BY <1>3 DEF RemoveEnds
  <2>2. \A d \in DOMAIN disk : calls[c].dir \notin {d, Base}
    BY <2>1 DEF Targets
  <2> QED BY <1>t, <1>w, <2>1, <2>2, ReleaseStep
<1> QED BY <1>1, <1>2, <1>3

LEMMA ResidueStep == StoreInv /\ ResidueInv /\ [Next]_vars => ResidueInv'
<1> SUFFICES ASSUME StoreInv, ResidueInv, [Next]_vars PROVE ResidueInv'
  OBVIOUS
<1>t. TypeOK
  BY DEF StoreInv
<1>1. ASSUME NEW c \in Calls,
             Upload(c) \/ Delete(c) \/ ListReadDir(c) \/ Lock(c) \/ ListLock(c) \/ Proceed(c)
      PROVE  ResidueInv'
  BY <1>t, <1>1, ResidueAside, ResidueLock, ResiduePut, ResidueRemoval DEF Proceed
<1>2. CASE Restart
  <2>1. writer' = None /\ mishap' = TRUE /\ \A c \in Calls : calls'[c] = Idle
    BY <1>2 DEF Restart
  <2> QED BY <2>1, PackagesKnown, IdleRecord DEF ResidueInv, NoResidue
<1>3. CASE UNCHANGED vars
  BY <1>3 DEF vars, ResidueInv, NoResidue
<1> QED BY <1>1, <1>2, <1>3 DEF Next

\* Without a stop of the process or a failed removal, no directory is left over (the
\* deferred RemoveAll in Put).
THEOREM ResidueFree == Spec => []NoResidue
<1>1. Init => ResidueInv
  BY IdleRecord, PackagesKnown DEF Init, ResidueInv, NoResidue
<1>2. ResidueInv => NoResidue
  BY DEF ResidueInv
<1> QED BY <1>1, <1>2, ResidueStep, StoreCorrect, PTL DEF Spec

=============================================================================
