---------------------------- MODULE SdkPackages ----------------------------
(***************************************************************************)
(* The SDK package store: archives that are uploaded, validated, published *)
(* as directories below StorageDir, listed and deleted by concurrent       *)
(* handlers (controllers/sdk_package_controller.go, sdk_package_store.go). *)
(*                                                                         *)
(* The unit of atomicity is one system call.  Put and Delete hold the      *)
(* store's lock, but List reads the directory before it takes the lock,    *)
(* GetMeta and OpenArchive read without it, and the process may stop       *)
(* between any two calls and leave on disk what is there.                  *)
(*                                                                         *)
(* An archive stands for its bytes, its digest and its size; a package     *)
(* directory has two files, the archive and the description of it.  DELETE *)
(* checks no name, so it also takes temporary directories, and all there   *)
(* is when the name joins to the store's own directory or to its parent.   *)
(***************************************************************************)
EXTENDS Naturals, FiniteSets, Sequences

CONSTANTS
  Names,        \* package names
  Archives,     \* what clients upload
  Tmps,         \* names of temporary directories (<name>.tmp.<nanoseconds>)
  Base,         \* a name that joins to StorageDir or its parent: blank, "." or ".."
  Calls,        \* concurrent HTTP handlers
  MaxPackages,  \* sdk_packages.max_packages
  Torn,         \* the content of a file that was opened and not yet written
  None

\* An entry of an archive: its path, whether it is a file, a directory or a link,
\* whether its extension is allowed, and, for a manifest, the fields that the
\* validation and the description use.  The target of a link is no manifest.
Segments  == {".", "..", "manifest.json", "dir", "file"}
Manifests == [name : Names, routes : Seq(Nat), links : SUBSET Nat]
Entries   == [absolute : BOOLEAN, path : Seq(Segments), kind : {"file", "dir", "link"},
              allowed : BOOLEAN, body : Manifests \cup {None}]
Uploads   == [format : {"tar", "zip"}, entries : Seq(Entries)]

ASSUME PackageConstants ==
  /\ IsFiniteSet(Names) /\ IsFiniteSet(Tmps) /\ Names \cap Tmps = {}
  /\ Archives \subseteq Uploads
  /\ \A a \in Archives : \A i \in DOMAIN a.entries :
       a.entries[i].kind # "file" => a.entries[i].body = None
  /\ MaxPackages \in Nat /\ MaxPackages <= Cardinality(Tmps)
  /\ None \notin Names \cup Tmps \cup Calls \cup Archives \cup {Torn, Base}
  /\ Torn \notin Archives /\ Base \notin Names \cup Tmps

Dirs == Names \cup Tmps

VARIABLES
  disk,     \* the directories below StorageDir, with their two files
  writer,   \* the handler that holds the store's lock, or None
  readers,  \* the handlers that hold it for reading
  calls,    \* locals of the handlers in flight
  stored,   \* history: the archive published last under each name
  sure,     \* history: for a listing, the names published all along
  mishap    \* history: a process has stopped in a handler, or a removal failed

vars == <<disk, writer, readers, calls, stored, sure, mishap>>

Idle == [pc |-> "idle", name |-> None, data |-> None, dir |-> None, entries |-> {}]

----------------------------------------------------------------------------
\* What an archive says.  A definition named M_x is the definition x with a
\* plausible mistake; it is used only to show that the properties notice it.

\* sanitizeArchivePath: relative, and no ".." anywhere.
SafePath(e) == ~e.absolute /\ \A i \in DOMAIN e.path : e.path[i] # ".."

\* path.Clean of a path without "..".
Clean(path) == SelectSeq(path, LAMBDA seg : seg # ".")

\* The tar reader passes over directories before it looks at the path.
AtManifest(e)    == Clean(e.path) = <<"manifest.json">>
IsManifest(a, i) == AtManifest(a.entries[i]) /\ (a.format = "tar" => a.entries[i].kind # "dir")

\* The readers overwrite what they have when another entry has the same path: the
\* last manifest at the root of the archive is the one that counts.
M_ManifestEntry(a, i) == IsManifest(a, i) /\ \A j \in DOMAIN a.entries : j < i => ~IsManifest(a, j)
ManifestEntry(a, i)   == IsManifest(a, i) /\ \A j \in DOMAIN a.entries : j > i => ~IsManifest(a, j)

Manifest(a) == a.entries[CHOOSE i \in DOMAIN a.entries : ManifestEntry(a, i)].body

\* validateManifest: at least one route, no route twice, and every menu,
\* dashboard and critical operation entry refers to a route.
ValidManifest(m) ==
  /\ m # None
  /\ m.routes # <<>>
  /\ \A i, j \in DOMAIN m.routes : m.routes[i] = m.routes[j] => i = j
  /\ \A l \in m.links : \E i \in DOMAIN m.routes : m.routes[i] = l

\* validateAndExtractManifest.  Only the tar reader refuses links.
Acceptable(a) ==
  /\ \A i \in DOMAIN a.entries :
       LET e == a.entries[i] IN
       /\ a.format = "tar" => e.kind # "link"
       /\ SafePath(e)
       /\ e.kind = "dir" \/ AtManifest(e) \/ e.allowed
  /\ \E i \in DOMAIN a.entries : IsManifest(a, i)
  /\ ValidManifest(Manifest(a))

\* buildMeta: the description of an archive, with its digest.
Describe(a) == [digest |-> a, manifest |-> Manifest(a)]

----------------------------------------------------------------------------
Packages == {a \in Archives : Acceptable(a)}
Files == [archive : Packages \cup {Torn, None},
          meta : {Describe(a) : a \in Packages} \cup {Torn, None}]

\* The content of a file is told from no file and from a torn one.
ASSUME DescriptionsDistinct == \A a \in Packages : Describe(a) \notin {Torn, None}

EmptyDir == [archive |-> None, meta |-> None]

PutSteps == {"archive", "archiveOpen", "meta", "metaOpen", "rename"}
PCs == {"idle", "putLock", "check", "deleteLock", "delete", "clean", "listLock", "list"} \cup PutSteps

IsTable(t, Keys, Row) == DOMAIN t \subseteq Keys /\ t \in [DOMAIN t -> Row]

TypeOK ==
  /\ IsTable(disk, Dirs, Files)
  /\ writer \in Calls \cup {None}
  /\ readers \subseteq Calls
  /\ calls \in [Calls -> [pc : PCs, name : Names \cup {None}, data : Packages \cup {None},
                          dir : Dirs \cup {Base, None}, entries : SUBSET Dirs]]
  /\ stored \in [Names -> Packages \cup {None}]
  /\ sure \in [Calls -> SUBSET Names]
  /\ mishap \in BOOLEAN

Init ==
  /\ disk = [d \in {} |-> EmptyDir]
  /\ writer = None
  /\ readers = {}
  /\ calls = [c \in Calls |-> Idle]
  /\ stored = [n \in Names |-> None]
  /\ sure = [c \in Calls |-> {}]
  /\ mishap = FALSE

Put(t, k, row) == [x \in DOMAIN t \cup {k} |-> IF x = k THEN row ELSE t[x]]
Without(t, S)  == [x \in DOMAIN t \ S |-> t[x]]

Goto(c, state) == calls' = [calls EXCEPT ![c] = state]
GotoPc(c, pc)  == Goto(c, [calls[c] EXCEPT !.pc = pc])
Return(c)      == Goto(c, Idle)

\* The deferred Unlock, whichever way Put or Delete returns.
Unlock(c) == writer' = None /\ Return(c)

M_Refuse(c) == UNCHANGED writer /\ Return(c)
Refuse(c)   == Unlock(c)

\* The name is taken: the archive of a package is there.
Taken(n) == n \in DOMAIN disk /\ disk[n].archive # None

\* Count() >= MaxPackages: every directory counts.
M_Full == Cardinality(DOMAIN disk) > MaxPackages
Full   == Cardinality(DOMAIN disk) >= MaxPackages

\* The directory that Put fills before it renames it.
M_Scratch(n) == {n}
Scratch(n)   == Tmps \ DOMAIN disk

----------------------------------------------------------------------------
\* POST /services/sdk-packages: validation, before anything is stored.  An
\* archive that is not acceptable is answered with an error and changes nothing.
Upload(c) ==
  /\ calls[c].pc = "idle"
  /\ \E a \in Packages :
       Goto(c, [Idle EXCEPT !.pc = "putLock", !.name = Manifest(a).name, !.data = a])
  /\ UNCHANGED <<disk, writer, readers, stored, sure, mishap>>

\* s.mu.Lock() in Put and in Delete.
Lock(c) ==
  /\ calls[c].pc \in {"putLock", "deleteLock"}
  /\ writer = None /\ readers = {}
  /\ writer' = c
  /\ GotoPc(c, IF calls[c].pc = "putLock" THEN "check" ELSE "delete")
  /\ UNCHANGED <<disk, readers, stored, sure, mishap>>

\* The name is taken, or the store is full: an error.  Otherwise a temporary
\* directory is made.  (Nothing else can change the disk between these calls.)
PutCheck(c) ==
  LET call == calls[c] IN
  /\ call.pc = "check"
  /\ IF Taken(call.name) \/ Full
       THEN Refuse(c) /\ UNCHANGED disk
       ELSE /\ \E t \in Scratch(call.name) :
                 /\ disk' = Put(disk, t, EmptyDir)
                 /\ Goto(c, [call EXCEPT !.pc = "archive", !.dir = t])
            /\ UNCHANGED writer
  /\ UNCHANGED <<readers, stored, sure, mishap>>

\* os.WriteFile opens and truncates the file, then writes it.
WriteStep(c, pc, file, content, next) ==
  /\ calls[c].pc = pc
  /\ disk' = [disk EXCEPT ![calls[c].dir][file] = content]
  /\ GotoPc(c, next)
  /\ UNCHANGED <<writer, readers, stored, sure, mishap>>

WriteArchive(c) ==
  \/ WriteStep(c, "archive", "archive", Torn, "archiveOpen")
  \/ WriteStep(c, "archiveOpen", "archive", calls[c].data, "meta")

WriteMeta(c) ==
  \/ WriteStep(c, "meta", "meta", Torn, "metaOpen")
  \/ WriteStep(c, "metaOpen", "meta", Describe(calls[c].data), "rename")

\* os.Rename publishes the directory; it fails when the target directory exists,
\* which is so after a removal that stopped half-way.
Rename(c) ==
  LET call == calls[c] IN
  /\ call.pc = "rename"
  /\ call.name \notin DOMAIN disk
  /\ disk' = Put(Without(disk, {call.dir}), call.name, disk[call.dir])
  /\ stored' = [stored EXCEPT ![call.name] = call.data]
  /\ GotoPc(c, "clean")
  /\ UNCHANGED <<writer, readers, sure, mishap>>

\* A write or the rename fails: the error is returned.
PutFails(c) ==
  /\ calls[c].pc \in PutSteps
  /\ GotoPc(c, "clean")
  /\ UNCHANGED <<disk, writer, readers, stored, sure, mishap>>

\* DELETE /services/sdk-packages/:name, whatever the name is.
Delete(c) ==
  /\ calls[c].pc = "idle"
  /\ \E d \in Dirs \cup {Base} : Goto(c, [Idle EXCEPT !.pc = "deleteLock", !.dir = d])
  /\ UNCHANGED <<disk, writer, readers, stored, sure, mishap>>

\* os.RemoveAll: of what was named in Delete, and of the temporary directory when
\* Put returns (deferred).  It removes files before their directory, in any order; a
\* directory that is not there is no error.  StorageDir itself, when it is removed,
\* is made anew by whoever needs it next.
M_Targets(call) == IF call.pc = "clean" THEN {call.name} ELSE {call.dir}
Targets(call)   == IF call.dir = Base THEN DOMAIN disk ELSE {call.dir}

Removing(c) == calls[c].pc \in {"delete", "clean"}

FilesIn(d) == IF d \in DOMAIN disk THEN {f \in {"archive", "meta"} : disk[d][f] # None} ELSE {}

\* DELETE takes something of d away: a package of that name is no longer promised.
Forget(c, d) ==
  LET gone == IF calls[c].pc = "delete" THEN {d} ELSE {} IN
  /\ stored' = [n \in Names |-> IF n \in gone THEN None ELSE stored[n]]
  /\ sure' = [q \in Calls |-> sure[q] \ gone]

RemoveFile(c) ==
  /\ Removing(c)
  /\ \E d \in Targets(calls[c]) : \E f \in FilesIn(d) :
       disk' = [disk EXCEPT ![d][f] = None] /\ Forget(c, d)
  /\ UNCHANGED <<writer, readers, calls, mishap>>

RemoveDir(c) ==
  /\ Removing(c)
  /\ \E d \in Targets(calls[c]) \cap DOMAIN disk :
       FilesIn(d) = {} /\ disk' = Without(disk, {d}) /\ Forget(c, d)
  /\ UNCHANGED <<writer, readers, calls, mishap>>

RemoveEnds(c) ==
  /\ Removing(c)
  /\ Targets(calls[c]) \cap DOMAIN disk = {}
  /\ Unlock(c)
  /\ UNCHANGED <<disk, readers, stored, sure, mishap>>

\* A removal that fails leaves what it has not removed.
RemoveFails(c) ==
  /\ Removing(c)
  /\ mishap' = TRUE
  /\ Unlock(c)
  /\ UNCHANGED <<disk, readers, stored, sure>>

----------------------------------------------------------------------------
\* GET /services/sdk-packages: os.ReadDir, then the lock, then each description;
\* a directory whose description is missing or cannot be parsed is skipped.
ListReadDir(c) ==
  /\ calls[c].pc = "idle"
  /\ Goto(c, [Idle EXCEPT !.pc = "listLock", !.entries = DOMAIN disk])
  /\ sure' = [sure EXCEPT ![c] = {n \in Names : stored[n] # None}]
  /\ UNCHANGED <<disk, writer, readers, stored, mishap>>

ListLock(c) ==
  /\ calls[c].pc = "listLock"
  /\ writer = None
  /\ readers' = readers \cup {c}
  /\ GotoPc(c, "list")
  /\ UNCHANGED <<disk, writer, stored, sure, mishap>>

Readable(d) == d \in DOMAIN disk /\ disk[d].meta \notin {Torn, None}

\* The descriptions the answer holds.
M_Listed(entries) == IF \A d \in entries : Readable(d) THEN {disk[d].meta : d \in entries} ELSE {}
Listed(entries)   == {disk[d].meta : d \in {x \in entries : Readable(x)}}

ListAnswer(c) ==
  /\ calls[c].pc = "list"
  /\ readers' = readers \ {c}
  /\ Return(c)
  /\ sure' = [sure EXCEPT ![c] = {}]
  /\ UNCHANGED <<disk, writer, stored, mishap>>

----------------------------------------------------------------------------
\* The process stops while it serves requests, and starts again.
Restart ==
  /\ \E c \in Calls : calls[c] # Idle
  /\ calls' = [c \in Calls |-> Idle]
  /\ writer' = None
  /\ readers' = {}
  /\ sure' = [c \in Calls |-> {}]
  /\ mishap' = TRUE
  /\ UNCHANGED <<disk, stored>>

\* A handler that does not wait for the lock goes on.
Proceed(c) ==
  \/ PutCheck(c) \/ WriteArchive(c) \/ WriteMeta(c) \/ Rename(c) \/ PutFails(c)
  \/ RemoveFile(c) \/ RemoveDir(c) \/ RemoveEnds(c) \/ RemoveFails(c)
  \/ ListAnswer(c)

Next ==
  \/ \E c \in Calls :
       \/ Upload(c) \/ Delete(c) \/ ListReadDir(c)
       \/ Lock(c) \/ ListLock(c)
       \/ Proceed(c)
  \/ Restart

Spec == Init /\ [][Next]_vars

\* A handler that can go on does, and sync.RWMutex gives the lock to whoever waits
\* for it in the end.
Fairness ==
  \A c \in Calls : WF_vars(Proceed(c)) /\ SF_vars(Lock(c)) /\ SF_vars(ListLock(c))

FairSpec == Spec /\ Fairness

----------------------------------------------------------------------------
\* Safety.

\* A package that was published stays whole, its archive, its digest and its
\* description together, until a DELETE takes some of it away, of its own name or of
\* a name that joins to the store's directory or its parent, since no name is
\* checked: whatever other uploads and deletions, failed writes, failed removals and
\* stops of the process leave on disk.  The unlocked reads of GetMeta and OpenArchive
\* rest on this, and on the converse: a name that was never published shows no file
\* that is still being written.
StoredIsWhole ==
  \A n \in Names :
    /\ stored[n] # None =>
         n \in DOMAIN disk /\ disk[n] = [archive |-> stored[n], meta |-> Describe(stored[n])]
    /\ n \in DOMAIN disk => Torn \notin {disk[n].archive, disk[n].meta}

\* The name and the description under which a package is published are those of
\* the archive's own manifest, the one a plain extraction leaves at its root, and
\* extracting it writes nothing outside the package: the path of each entry,
\* walked segment by segment, never climbs above where it began, and in a tar no
\* entry is reached through a link.  A zip may hold links and entries below them,
\* since its reader does not look for links.
ExtractedManifest(a) ==
  LET written == {i \in DOMAIN a.entries : AtManifest(a.entries[i]) /\ a.entries[i].kind = "file"}
      last    == CHOOSE i \in written : \A j \in written : j <= i
  IN  a.entries[last].body

Climbs(path) ==
  \E k \in DOMAIN path :
    Cardinality({i \in 1..k : path[i] = ".."}) > Cardinality({i \in 1..k : path[i] \notin {".", ".."}})

ThroughLink(a, i) ==
  LET path == a.entries[i].path IN
  \E j \in DOMAIN a.entries, k \in 1..(Len(path) - 1) :
    a.entries[j].kind = "link" /\ Clean(SubSeq(path, 1, k)) = Clean(a.entries[j].path)

PackageIsSelfContained ==
  \A n \in {x \in Names : stored[x] # None} :
    LET a == stored[n] IN
      /\ ExtractedManifest(a).name = n
      /\ disk[n].meta.manifest = ExtractedManifest(a)
      /\ \A i \in DOMAIN a.entries :
           /\ ~a.entries[i].absolute /\ ~Climbs(a.entries[i].path)
           /\ a.format = "tar" => ~ThroughLink(a, i)

\* The store never has more directories than it may have packages, residue of
\* interrupted uploads included: the count, the check and the creation of the
\* directory are under one lock.
LimitHolds == Cardinality(DOMAIN disk) <= MaxPackages

\* As long as no process stopped in a handler and no removal failed, every
\* directory is a published package or the one the lock's holder works on: failed
\* uploads leave nothing that would count against the limit.
NoResidue ==
  ~mishap =>
    \A d \in DOMAIN disk :
      \/ d \in Names /\ stored[d] # None
      \/ writer # None /\ calls[writer].dir \in {d, Base}

\* A listing shows every package that was published before it read the
\* directory and has not been deleted since, although it waits for the lock in
\* between and residue of interrupted uploads lies among the entries.
ListShowsStored ==
  \A c \in Calls : calls[c].pc = "list" =>
    \A n \in sure[c] : Describe(stored[n]) \in Listed(calls[c].entries)

\* Liveness, under FairSpec: every handler answers, whichever way it goes.
EveryCallReturns == \A c \in Calls : calls[c].pc # "idle" ~> calls[c].pc = "idle"
=============================================================================
