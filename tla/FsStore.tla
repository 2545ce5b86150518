------------------------------ MODULE FsStore ------------------------------
(***************************************************************************)
(* The file store (internal/store): records in files that are replaced     *)
(* atomically and compared by revision, one process at a time, a schema    *)
(* version that moves forward at a start, and the archives that `backup`,  *)
(* a migration and `restore` write.                                        *)
(*                                                                         *)
(* A file has a content the kernel shows (vol) and the contents a power    *)
(* cut may leave (may): a rename adds to them and an fsync of the          *)
(* directory leaves one.  Each content carries n, the number of the change *)
(* that made it, which no file holds: it tells two records of equal        *)
(* revision apart.                                                         *)
(***************************************************************************)
EXTENDS Naturals, FiniteSets

CONSTANTS
    Keys,         \* records of one entity directory
    Writers,      \* goroutines that read a record and write it back
    Procs,        \* processes on one data directory: servers and commands
    NoProc,
    Target,       \* CurrentVersion of this binary
    MaxArchives,  \* archives written
    MaxChanges,   \* changes of one record
    MaxCrashes    \* processes killed and power cuts

ASSUME StoreAssumption ==
    /\ Keys # {}
    /\ NoProc \notin Procs
    /\ Target \in Nat \ {0}
    /\ MaxArchives \in Nat /\ MaxChanges \in Nat /\ MaxCrashes \in Nat

Slots == 1 .. MaxArchives
None == 0
VersionFile == "VERSION"   \* the file, in an archive's list of files
Missing == 0               \* no VERSION file
Unreadable == Target + 1   \* VERSION is no version, or one of a newer binary

VARIABLES
    lock,      \* the holder of the flock
    proc,      \* [Procs -> phase]
    vol, may,  \* [Keys -> content], [Keys -> contents a power cut may leave]
    temps,     \* writers whose temporary file is on the disk
    version,   \* the VERSION file
    layout,    \* schema versions whose directories exist
    wr,        \* [Writers -> the local state of a read-modify-write]
    at,        \* [Procs -> the version read, and the one its migration has reached]
    arch,      \* [Slots -> archive]
    out, src,  \* [Procs -> the archive written], [Procs -> the one restored]
    todo,      \* [Procs -> files a restore has yet to write]
    open       \* [Procs -> files it has truncated and not yet written]

VARIABLES
    seq,       \* [Keys -> changes made so far]
    acked,     \* [Keys -> the last change whose caller was told it is done]
    deletes,   \* [Keys -> records deleted]
    restored,  \* a restore has written into the directory
    half,      \* a restore found its archive broken after it had written
    fresh,     \* the directory began empty
    crashes

disk == <<vol, may, temps, version, layout>>
archives == <<arch, out, src, todo, open>>
ghosts == <<seq, acked, deletes, restored, half, fresh>>
vars == <<lock, proc, vol, may, temps, version, layout, wr, at, arch, out, src, todo,
          open, seq, acked, deletes, restored, half, fresh, crashes>>

Record(rev, n) == [kind |-> "ok", rev |-> rev, n |-> n]
Absent(n) == [kind |-> "absent", rev |-> 0, n |-> n]
Torn(n) == [kind |-> "torn", rev |-> 0, n |-> n]
NoFile == Absent(0)

IdleWriter == [pc |-> "idle", proc |-> NoProc, key |-> VersionFile, rev |-> 0, n |-> 0,
               del |-> 0]
NoArchive == [pc |-> "none", version |-> Missing, layout |-> {}, recs |-> [k \in {} |-> NoFile]]

\* A fresh directory, or one an old release left behind, with or without a
\* VERSION file.
Init ==
    /\ lock = NoProc
    /\ proc = [p \in Procs |-> "down"]
    /\ \E empty \in BOOLEAN :
         /\ fresh = empty
         /\ vol = [k \in Keys |-> IF empty THEN NoFile ELSE Record(1, 0)]
         /\ version \in IF empty THEN {Missing} ELSE {Missing, 1}
    /\ may = [k \in Keys |-> {vol[k]}]
    /\ temps = {}
    /\ layout = {}
    /\ wr = [w \in Writers |-> IdleWriter]
    /\ at = [p \in Procs |-> 0]
    /\ arch = [s \in Slots |-> NoArchive]
    /\ out = [p \in Procs |-> None]
    /\ src = [p \in Procs |-> None]
    /\ todo = [p \in Procs |-> {}]
    /\ open = [p \in Procs |-> {}]
    /\ seq = [k \in Keys |-> 0]
    /\ acked = [k \in Keys |-> 0]
    /\ deletes = [k \in Keys |-> 0]
    /\ restored = FALSE
    /\ half = FALSE
    /\ crashes = 0
----------------------------------------------------------------------------
(***************************************************************************)
(* Open: the flock, the sweep, the migration, the directories.             *)
(***************************************************************************)
\* Mutant: a second process is not refused.
OpenLockShared(p) ==
    /\ proc[p] = "down"
    /\ lock' = p
    /\ proc' = [proc EXCEPT ![p] = "locked"]
    /\ UNCHANGED <<disk, wr, at, archives, ghosts, crashes>>

OpenLock(p) ==
    /\ proc[p] = "down"
    /\ lock = NoProc
    /\ lock' = p
    /\ proc' = [proc EXCEPT ![p] = "locked"]
    /\ UNCHANGED <<disk, wr, at, archives, ghosts, crashes>>

SweepTempFiles(p) ==
    /\ proc[p] = "locked"
    /\ temps' = {}
    /\ proc' = [proc EXCEPT ![p] = "swept"]
    /\ UNCHANGED <<lock, vol, may, version, layout, wr, at, archives, ghosts, crashes>>

\* isEmpty: no record, whatever directories there are.
IsEmpty == \A k \in Keys : vol[k].kind = "absent"

\* readVersion; a missing VERSION file is written: an empty directory is
\* current, any other is from before the file existed.
ReadVersion(p) ==
    /\ proc[p] = "swept"
    /\ version' = IF version # Missing THEN version ELSE IF IsEmpty THEN Target ELSE 1
    /\ version' # Unreadable
    /\ at' = [at EXCEPT ![p] = version']
    /\ proc' = [proc EXCEPT ![p] = "read"]
    /\ UNCHANGED <<lock, vol, may, temps, layout, wr, archives, ghosts, crashes>>

\* The entity directories, and the store is open.
Opened(p) ==
    /\ layout' = layout \cup 2 .. Target
    /\ proc' = [proc EXCEPT ![p] = "serving"]

OpenCurrent(p) ==
    /\ proc[p] = "read"
    /\ at[p] = Target
    /\ Opened(p)
    /\ at' = [at EXCEPT ![p] = 0]
    /\ UNCHANGED <<lock, vol, may, temps, version, wr, archives, ghosts, crashes>>

\* writeArchive creates its file and the first entries, in the order of names:
\* VERSION, then the records.
ArchiveBegin(p, s, phase) ==
    /\ arch[s].pc = "none"
    /\ arch' = [arch EXCEPT ![s] = [NoArchive EXCEPT !.pc = "open", !.version = version,
                                                     !.layout = layout]]
    /\ out' = [out EXCEPT ![p] = s]
    /\ proc' = [proc EXCEPT ![p] = phase]

\* Mutant: the backup is left for later.
MigrateUnsaved(p, s) ==
    /\ proc[p] = "read"
    /\ at[p] < Target
    /\ arch[s].pc = "none"
    /\ proc' = [proc EXCEPT ![p] = "migrating"]
    /\ UNCHANGED <<lock, disk, wr, at, archives, ghosts, crashes>>

\* An older version: the archive comes before the first change.
MigrateBackup(p, s) ==
    /\ proc[p] = "read"
    /\ at[p] < Target
    /\ ArchiveBegin(p, s, "premigration")
    /\ UNCHANGED <<lock, disk, wr, at, src, todo, open, ghosts, crashes>>

MigrateApply(p) ==
    /\ proc[p] = "migrating"
    /\ at[p] < Target
    /\ layout' = layout \cup {at[p] + 1}
    /\ at' = [at EXCEPT ![p] = @ + 1]
    /\ UNCHANGED <<lock, proc, vol, may, temps, version, wr, archives, ghosts, crashes>>

\* VERSION last.  Open then goes on as with a current directory.
MigrateStamp(p) ==
    /\ proc[p] = "migrating"
    /\ at[p] = Target
    /\ version' = Target
    /\ proc' = [proc EXCEPT ![p] = "read"]
    /\ UNCHANGED <<lock, vol, may, temps, layout, wr, at, archives, ghosts, crashes>>

\* A failed guard, sweep or migration, a version that cannot be read or is too
\* new: Open returns an error and lets go of the flock.
OpenFails(p) ==
    /\ proc[p] \in {"locked", "swept", "read", "migrating"}
    /\ lock' = NoProc
    /\ proc' = [proc EXCEPT ![p] = "down"]
    /\ at' = [at EXCEPT ![p] = 0]
    /\ UNCHANGED <<disk, wr, archives, ghosts, crashes>>

\* Close, once the listener and the job engine have stopped.  A server ends
\* here; `restore` has only opened the store to see that nobody else has it.
CloseStore(p) ==
    /\ proc[p] = "serving"
    /\ \A w \in Writers : wr[w].proc # p
    /\ lock' = NoProc
    /\ \E next \in {"down", "checked"} : proc' = [proc EXCEPT ![p] = next]
    /\ UNCHANGED <<disk, wr, at, archives, ghosts, crashes>>
----------------------------------------------------------------------------
(***************************************************************************)
(* Records.  The entity lock of a record is held from the comparison of    *)
(* revisions to the return; it belongs to one process.                     *)
(***************************************************************************)
Busy(p, k) ==
    \E w \in Writers : wr[w].proc = p /\ wr[w].key = k /\ wr[w].pc \in {"temp", "sync"}

Get(w, p, k) ==
    /\ proc[p] = "serving"
    /\ wr[w].pc = "idle"
    /\ vol[k].kind # "torn"
    /\ wr' = [wr EXCEPT ![w] = [pc |-> "got", proc |-> p, key |-> k, rev |-> vol[k].rev,
                                n |-> vol[k].n, del |-> deletes[k]]]
    /\ UNCHANGED <<lock, proc, disk, at, archives, ghosts, crashes>>

Return(w) == wr' = [wr EXCEPT ![w] = IdleWriter]

\* The lock, the comparison, the temporary file.  A missing record is at 0.
PutCheck(w) ==
    LET k == wr[w].key IN
    /\ wr[w].pc = "got"
    /\ ~Busy(wr[w].proc, k)
    /\ seq[k] < MaxChanges
    /\ vol[k].kind # "torn" /\ vol[k].rev = wr[w].rev
    /\ temps' = temps \cup {w}
    /\ wr' = [wr EXCEPT ![w].pc = "temp"]
    /\ UNCHANGED <<lock, proc, vol, may, version, layout, at, archives, ghosts, crashes>>

\* ErrConflict, a record that does not decode, or a caller that gives up.
PutRefused(w) ==
    /\ wr[w].pc = "got"
    /\ ~Busy(wr[w].proc, wr[w].key)
    /\ Return(w)
    /\ UNCHANGED <<lock, proc, disk, at, archives, ghosts, crashes>>

Change(k, c) ==
    /\ vol' = [vol EXCEPT ![k] = c]
    /\ may' = [may EXCEPT ![k] = @ \cup {c}]
    /\ seq' = [seq EXCEPT ![k] = @ + 1]

PutRename(w) ==
    /\ wr[w].pc = "temp"
    /\ w \in temps
    /\ Change(wr[w].key, Record(wr[w].rev + 1, seq[wr[w].key] + 1))
    /\ temps' = temps \ {w}
    /\ wr' = [wr EXCEPT ![w].pc = "sync"]
    /\ UNCHANGED <<lock, proc, version, layout, at, archives, acked, deletes, restored,
                   half, fresh, crashes>>

\* The temporary cannot be written or renamed; it is removed.
PutFails(w) ==
    /\ wr[w].pc = "temp"
    /\ temps' = temps \ {w}
    /\ Return(w)
    /\ UNCHANGED <<lock, proc, vol, may, version, layout, at, archives, ghosts, crashes>>

Delete(w) ==
    LET k == wr[w].key IN
    /\ wr[w].pc = "got"
    /\ ~Busy(wr[w].proc, k)
    /\ vol[k].kind # "absent"
    /\ seq[k] < MaxChanges
    /\ Change(k, Absent(seq[k] + 1))
    /\ deletes' = [deletes EXCEPT ![k] = @ + 1]
    /\ wr' = [wr EXCEPT ![w].pc = "sync"]
    /\ UNCHANGED <<lock, proc, temps, version, layout, at, archives, acked, restored, half,
                   fresh, crashes>>

\* Mutant: the caller is told before the directory is flushed.
SyncSkipped(w) ==
    /\ wr[w].pc = "sync"
    /\ acked' = [acked EXCEPT ![wr[w].key] = vol[wr[w].key].n]
    /\ Return(w)
    /\ UNCHANGED <<lock, proc, disk, at, archives, seq, deletes, restored, half, fresh, crashes>>

\* fsync of the directory makes every name in it durable; then the caller is
\* told.
Sync(w) ==
    /\ wr[w].pc = "sync"
    /\ may' = [k \in Keys |-> {vol[k]}]
    /\ acked' = [acked EXCEPT ![wr[w].key] = vol[wr[w].key].n]
    /\ Return(w)
    /\ UNCHANGED <<lock, proc, vol, temps, version, layout, at, archives, seq, deletes,
                   restored, half, fresh, crashes>>

\* The directory cannot be flushed: an error, although the change is there.
SyncFails(w) ==
    /\ wr[w].pc = "sync"
    /\ Return(w)
    /\ UNCHANGED <<lock, proc, disk, at, archives, ghosts, crashes>>
----------------------------------------------------------------------------
(***************************************************************************)
(* Archives, and restore.                                                  *)
(***************************************************************************)
Archiving == {"premigration", "manual", "safety"}

\* cmdBackup: no lock is taken.
Backup(p, s) ==
    /\ proc[p] = "down"
    /\ ArchiveBegin(p, s, "manual")
    /\ UNCHANGED <<lock, disk, wr, at, src, todo, open, ghosts, crashes>>

\* One record is copied.  Its file is replaced and never written to, so the copy
\* is whole unless a restore is writing it.
ArchiveRecord(p, k) ==
    LET a == arch[out[p]] IN
    /\ proc[p] \in Archiving
    /\ k \notin DOMAIN a.recs
    /\ arch' = [arch EXCEPT ![out[p]].recs =
                  [x \in DOMAIN a.recs \cup {k} |-> IF x = k THEN vol[k] ELSE a.recs[x]]]
    /\ UNCHANGED <<lock, proc, disk, wr, at, out, src, todo, open, ghosts, crashes>>

\* What Restore will write: the files the archive holds.
Files(a) ==
    {k \in DOMAIN a.recs : a.recs[k].kind # "absent"}
        \cup IF a.version = Missing THEN {} ELSE {VersionFile}

ArchiveDone(p) ==
    /\ proc[p] \in Archiving
    /\ DOMAIN arch[out[p]].recs = Keys
    /\ arch' = [arch EXCEPT ![out[p]].pc = "done"]
    /\ out' = [out EXCEPT ![p] = None]
    /\ proc' = [proc EXCEPT ![p] = CASE @ = "premigration" -> "migrating"
                                     [] @ = "manual" -> "down"
                                     [] @ = "safety" -> "restoring"]
    /\ todo' = [todo EXCEPT ![p] = IF proc[p] = "safety" THEN Files(arch[src[p]]) ELSE {}]
    /\ UNCHANGED <<lock, disk, wr, at, src, open, ghosts, crashes>>

\* writeArchive fails: the partial file is removed and the command, the start
\* or the restore is given up.
ArchiveFails(p) ==
    /\ proc[p] \in Archiving
    /\ arch' = [arch EXCEPT ![out[p]] = NoArchive]
    /\ out' = [out EXCEPT ![p] = None]
    /\ src' = [src EXCEPT ![p] = None]
    /\ lock' = IF lock = p THEN NoProc ELSE lock
    /\ proc' = [proc EXCEPT ![p] = "down"]
    /\ at' = [at EXCEPT ![p] = 0]
    /\ UNCHANGED <<disk, wr, todo, open, ghosts, crashes>>

\* Restore: what is there now is saved first.  The directory is not locked any
\* more.
RestoreBegin(p, from, s) ==
    /\ proc[p] = "checked"
    /\ arch[from].pc # "none"
    /\ \A q \in Procs : out[q] # from
    /\ ArchiveBegin(p, s, "safety")
    /\ src' = [src EXCEPT ![p] = from]
    /\ UNCHANGED <<lock, disk, wr, at, todo, open, ghosts, crashes>>

\* writeFile truncates the file in place ...
RestoreTruncate(p, f) ==
    /\ proc[p] = "restoring"
    /\ open[p] = {}
    /\ f \in todo[p]
    /\ f = VersionFile \/ VersionFile \notin todo[p]
    /\ open' = [open EXCEPT ![p] = {f}]
    /\ restored' = TRUE
    /\ IF f = VersionFile
         THEN version' = Unreadable /\ UNCHANGED <<vol, may, seq>>
         ELSE Change(f, Torn(seq[f] + 1)) /\ UNCHANGED version
    /\ UNCHANGED <<lock, proc, temps, layout, wr, at, arch, out, src, todo, acked, deletes,
                   half, fresh, crashes>>

\* ... and then writes and syncs it.
RestoreWrite(p, f) ==
    LET a == arch[src[p]] IN
    /\ open[p] = {f}
    /\ open' = [open EXCEPT ![p] = {}]
    /\ todo' = [todo EXCEPT ![p] = @ \ {f}]
    /\ IF f = VersionFile
         THEN version' = a.version /\ layout' = layout \cup a.layout
              /\ UNCHANGED <<vol, may, seq>>
         ELSE Change(f, [a.recs[f] EXCEPT !.n = seq[f] + 1]) /\ UNCHANGED <<version, layout>>
    /\ UNCHANGED <<lock, proc, temps, wr, at, arch, out, src, acked, deletes, restored, half,
                   fresh, crashes>>

\* The end of the archive, or the place where it breaks off.
RestoreEnd(p) ==
    /\ proc[p] = "restoring"
    /\ todo[p] = {}
    /\ half' = (half \/ (arch[src[p]].pc # "done" /\ Files(arch[src[p]]) # {}))
    /\ proc' = [proc EXCEPT ![p] = "down"]
    /\ src' = [src EXCEPT ![p] = None]
    /\ UNCHANGED <<lock, disk, wr, at, arch, out, todo, open, seq, acked, deletes, restored,
                   fresh, crashes>>

\* A file cannot be written: the restore is given up where it stands.
RestoreFails(p) ==
    /\ proc[p] = "restoring"
    /\ proc' = [proc EXCEPT ![p] = "down"]
    /\ src' = [src EXCEPT ![p] = None]
    /\ todo' = [todo EXCEPT ![p] = {}]
    /\ open' = [open EXCEPT ![p] = {}]
    /\ UNCHANGED <<lock, disk, wr, at, arch, out, ghosts, crashes>>
----------------------------------------------------------------------------
\* Everything a process holds goes with it; its files stay.
Gone(P) ==
    /\ crashes < MaxCrashes
    /\ crashes' = crashes + 1
    /\ lock' = IF lock \in P THEN NoProc ELSE lock
    /\ proc' = [p \in Procs |-> IF p \in P THEN "down" ELSE proc[p]]
    /\ at' = [p \in Procs |-> IF p \in P THEN 0 ELSE at[p]]
    /\ wr' = [w \in Writers |-> IF wr[w].proc \in P THEN IdleWriter ELSE wr[w]]
    /\ out' = [p \in Procs |-> IF p \in P THEN None ELSE out[p]]
    /\ src' = [p \in Procs |-> IF p \in P THEN None ELSE src[p]]
    /\ todo' = [p \in Procs |-> IF p \in P THEN {} ELSE todo[p]]
    /\ open' = [p \in Procs |-> IF p \in P THEN {} ELSE open[p]]
    /\ UNCHANGED <<temps, version, arch, seq, acked, deletes, restored, half, fresh>>

Kill(p) ==
    /\ proc[p] # "down"
    /\ Gone({p})
    /\ UNCHANGED <<vol, may, layout>>

\* Directories made since VERSION was last flushed may be lost as well.
PowerCut ==
    /\ Gone(Procs)
    /\ \E left \in [Keys -> UNION {may[k] : k \in Keys}] :
         /\ \A k \in Keys : left[k] \in may[k]
         /\ vol' = left
         /\ may' = [k \in Keys |-> {left[k]}]
    /\ layout' \in {layout, layout \cap 2 .. version}
----------------------------------------------------------------------------
OpenSteps(p) ==
    \/ OpenLock(p) \/ SweepTempFiles(p) \/ ReadVersion(p) \/ OpenCurrent(p)
    \/ \E s \in Slots : MigrateBackup(p, s)
    \/ MigrateApply(p) \/ MigrateStamp(p) \/ OpenFails(p) \/ CloseStore(p)

RecordSteps(w) ==
    \/ \E p \in Procs : \E k \in Keys : Get(w, p, k)
    \/ PutCheck(w) \/ PutRefused(w) \/ PutRename(w) \/ PutFails(w) \/ Delete(w)
    \/ Sync(w) \/ SyncFails(w)

ArchiveSteps(p) ==
    \/ \E s \in Slots : Backup(p, s) \/ \E from \in Slots : RestoreBegin(p, from, s)
    \/ \E k \in Keys : ArchiveRecord(p, k)
    \/ ArchiveDone(p) \/ ArchiveFails(p) \/ RestoreEnd(p) \/ RestoreFails(p)
    \/ \E f \in {VersionFile} \cup Keys : RestoreTruncate(p, f) \/ RestoreWrite(p, f)

Next ==
    \/ \E p \in Procs : OpenSteps(p) \/ ArchiveSteps(p) \/ Kill(p)
    \/ \E w \in Writers : RecordSteps(w)
    \/ PowerCut

Spec == Init /\ [][Next]_vars
----------------------------------------------------------------------------
Phases == {"down", "locked", "swept", "read", "migrating", "serving", "checked", "restoring"}
            \cup Archiving
Content == [kind : {"ok", "absent", "torn"}, rev : Nat, n : Nat]
ArchiveType(S) == [pc : {"none", "open", "done"}, version : 0 .. Target + 1,
                   layout : SUBSET (2 .. Target), recs : [S -> Content]]
WriterType == [pc : {"idle", "got", "temp", "sync"}, proc : Procs \cup {NoProc},
               key : Keys \cup {VersionFile}, rev : Nat, n : Nat, del : Nat]

DiskType ==
    /\ vol \in [Keys -> Content]
    /\ may \in [Keys -> SUBSET Content]
    /\ temps \subseteq Writers
    /\ version \in 0 .. Target + 1
    /\ layout \subseteq 2 .. Target

ProcType ==
    /\ lock \in Procs \cup {NoProc}
    /\ proc \in [Procs -> Phases]
    /\ wr \in [Writers -> WriterType]
    /\ at \in [Procs -> 0 .. Target]

ArchType ==
    /\ DOMAIN arch = Slots
    /\ \A s \in Slots : \E S \in SUBSET Keys : arch[s] \in ArchiveType(S)
    /\ out \in [Procs -> {None} \cup Slots] /\ src \in [Procs -> {None} \cup Slots]
    /\ todo \in [Procs -> SUBSET ({VersionFile} \cup Keys)]
    /\ open \in [Procs -> SUBSET ({VersionFile} \cup Keys)]

GhostType ==
    /\ seq \in [Keys -> Nat] /\ acked \in [Keys -> Nat] /\ deletes \in [Keys -> Nat]
    /\ restored \in BOOLEAN /\ half \in BOOLEAN /\ fresh \in BOOLEAN
    /\ crashes \in 0 .. MaxCrashes

\* Every variable keeps its type: no migration goes past this binary's version
\* and no restore writes what is no record.
TypeOK == DiskType /\ ProcType /\ ArchType /\ GhostType

\* A change its caller was told of outlives every later kill and power cut, and
\* no crash leaves half a record: what a power cut may leave is never older than
\* the last acknowledged change (unless an operator restored an archive over it).
AckedSurvives ==
    ~restored => \A k \in Keys : \A c \in may[k] \cup {vol[k]} :
        c.kind # "torn" /\ c.n >= acked[k]

\* A Put replaces exactly the record its caller read: neither two goroutines nor
\* two processes overwrite each other's change.  A record deleted and made again
\* in between starts again at revision 1 and is exempt.
NoLostUpdate ==
    [][\A w \in Writers : LET k == wr[w].key IN
          (wr[w].pc = "temp" /\ wr'[w].pc = "sync" /\ ~restored)
              => (wr[w].n = vol[k].n \/ deletes[k] > wr[w].del)]_vars

\* While a store is open every temporary file on the disk is one a live Put is
\* about to rename: what a crash left was swept before anything was read, and
\* the sweep took nobody's file away.
TempsAreLive ==
    (\E p \in Procs : proc[p] = "serving") =>
        temps = {w \in Writers : wr[w].pc = "temp"}

\* A directory that a migration has begun to change, and perhaps never finished,
\* has a complete archive of what it was before.
BackupFirst ==
    (~restored /\ version \in 1 .. Target - 1 /\ layout # {}) =>
        \E s \in Slots : /\ arch[s].pc = "done"
                         /\ arch[s].version = version
                         /\ arch[s].layout = {}

\* VERSION never claims a step that has not been applied, wherever a migration
\* was interrupted.
VersionHonest ==
    (~restored /\ ~fresh /\ version \in 1 .. Target) => 2 .. version \subseteq layout

============================================================================
