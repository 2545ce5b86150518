--------------------------- MODULE FsStoreProofs ---------------------------
(***************************************************************************)
(* What holds of the data directory: FsStore's safety properties, for      *)
(* every number of processes, writers, keys, archives and migrations, the  *)
(* chain of the audit log and the truth of the charts.  StoreInv is        *)
(* preserved part by part, one lemma for each part and in it one step for  *)
(* each action that can disturb it.                                        *)
(***************************************************************************)
EXTENDS FsStore, AuditLog, History, FiniteSetTheorems, SequenceTheorems,
        WellFoundedInduction, TLAPS

(***************************************************************************)
(* What has to hold of the store for its safety properties to be           *)
(* inductive.  Most of it is about a directory no restore has written      *)
(* into.                                                                   *)
(***************************************************************************)

\* An archive that is being written has one writer, one that is being restored
\* has none, and a restore has only to write what its archive holds.
ArchiveInv ==
    /\ \A p \in Procs : proc[p] \in Archiving =>
           /\ out[p] \in Slots
           /\ arch[out[p]].pc = "open"
           /\ \A q \in Procs : q # p /\ proc[q] \in Archiving => out[q] # out[p]
    /\ \A p \in Procs : proc[p] = "safety" => src[p] \in Slots
    /\ \A p \in Procs : src[p] # None =>
           /\ arch[src[p]].pc # "none"
           /\ \A q \in Procs : proc[q] \in Archiving => out[q] # src[p]
    /\ \A p \in Procs : todo[p] # {} =>
           /\ proc[p] = "restoring"
           /\ src[p] # None
           /\ todo[p] \subseteq Files(arch[src[p]])
    /\ \A p \in Procs : open[p] \subseteq todo[p]
    /\ ~restored => \A p \in Procs : open[p] = {}

Opening == {"read", "premigration", "migrating"}
Locking == Opening \cup {"locked", "swept", "serving"}

\* A process past the flock holds it, and whoever is in the middle of a change
\* belongs to the process that serves.
LockInv ==
    /\ \A p \in Procs : proc[p] \in Locking => lock = p
    /\ \A p \in Procs : proc[p] \in Opening => at[p] > 0
    /\ \A w \in Writers :
           IF wr[w].pc = "idle" THEN wr[w].proc = NoProc
           ELSE /\ wr[w].proc \in Procs
                /\ proc[wr[w].proc] = "serving"
                /\ wr[w].key \in Keys
    /\ \A v, w \in Writers :
           v # w /\ wr[v].pc \in {"temp", "sync"} /\ wr[w].pc \in {"temp", "sync"} =>
               wr[v].key # wr[w].key

\* The part that holds of every directory, restored or not.
CoreInv == TypeOK /\ ArchiveInv /\ LockInv

\* From the sweep on the temporaries are those of the writers.
TempInv ==
    (\E p \in Procs : proc[p] \in Locking \ {"locked"}) =>
        temps = {w \in Writers : wr[w].pc = "temp"}

\* Whatever a power cut may leave lies between the last acknowledged change and
\* the last change made.
NumberInv ==
    ~restored => \A k \in Keys :
        /\ vol[k] \in may[k]
        /\ acked[k] <= seq[k]
        /\ \A c \in may[k] : c.kind # "torn" /\ acked[k] <= c.n /\ c.n <= seq[k]

\* Revisions only grow between two deletions, so an equal revision is the very
\* record that was read.
ReadInv(w, k) ==
    /\ wr[w].del <= deletes[k]
    /\ wr[w].del = deletes[k] =>
           /\ wr[w].rev <= vol[k].rev
           /\ wr[w].rev = vol[k].rev => wr[w].n = vol[k].n

WriteInv ==
    ~restored => \A w \in Writers : \A k \in Keys : wr[w].key = k =>
        /\ wr[w].pc = "got" => ReadInv(w, k)
        /\ wr[w].pc = "temp" =>
               /\ wr[w].rev = vol[k].rev
               /\ wr[w].n = vol[k].n \/ wr[w].del < deletes[k]

\* What a migration that was interrupted anywhere has done, and that only a
\* fresh directory is taken for a current one without a migration.
MigrateInv ==
    ~restored =>
        /\ version = Missing =>
               /\ layout = {}
               /\ ~fresh => \A k \in Keys : \A c \in may[k] : c.kind = "ok"
        /\ \A p \in Procs : proc[p] = "serving" => version = Target
        /\ \A p \in Procs : proc[p] \in {"read", "premigration"} => at[p] = version
        /\ \A p \in Procs : proc[p] \in {"premigration", "migrating"} =>
               version \in 1 .. Target - 1
        /\ \A p \in Procs : proc[p] = "migrating" /\ ~fresh => 2 .. at[p] \subseteq layout
        /\ VersionHonest

\* The archive of what was there before is complete before the first change.
Saved(s) == arch[s].pc = "done" /\ arch[s].version = version /\ arch[s].layout = {}

BackupInv ==
    ~restored =>
        /\ \A p \in Procs : proc[p] = "premigration" =>
               arch[out[p]].version = version /\ arch[out[p]].layout = layout
        /\ \A p \in Procs : proc[p] = "migrating" => \E s \in Slots : Saved(s)
        /\ BackupFirst

----------------------------------------------------------------------------
(***************************************************************************)
(* The lemmas and theorems.                                                *)
(***************************************************************************)
\* What a rename, a removal and a truncation (writeAtomic, removeAndSync and
\* restore's writeFile) leave in a file is a content.
LEMMA ContentTypes ==
  ASSUME NEW n \in Nat
  PROVE  /\ Absent(n) \in Content /\ Torn(n) \in Content
         /\ \A r \in Nat : Record(r + 1, n) \in Content
         /\ \A c \in Content : [c EXCEPT !.n = n] \in Content
  BY DEF Record, Absent, Torn, Content

\* An archive writeArchive has opened, and one it has closed, are archives.
LEMMA ArchiveTypes ==
  /\ NoArchive \in ArchiveType({})
  /\ \A S \in SUBSET Keys : \A a \in ArchiveType(S) :
        \A v \in 0 .. Target + 1 : \A l \in SUBSET (2 .. Target) :
           [a EXCEPT !.pc = "open", !.version = v, !.layout = l] \in ArchiveType(S)
  /\ \A S \in SUBSET Keys : \A a \in ArchiveType(S) : [a EXCEPT !.pc = "done"] \in ArchiveType(S)
  <1>1. [k \in {} |-> NoFile] \in [{} -> Content]
    OBVIOUS
  <1>2. Missing \in 0 .. Target + 1 /\ {} \in SUBSET (2 .. Target)
    BY StoreAssumption DEF Missing
  <1>3. NoArchive \in ArchiveType({})
    BY <1>1, <1>2 DEF NoArchive, ArchiveType
  <1>4. ASSUME NEW S \in SUBSET Keys, NEW a \in ArchiveType(S),
               NEW v \in 0 .. Target + 1, NEW l \in SUBSET (2 .. Target)
        PROVE  [a EXCEPT !.pc = "open", !.version = v, !.layout = l] \in ArchiveType(S)
    BY DEF ArchiveType
  <1>5. ASSUME NEW S \in SUBSET Keys, NEW a \in ArchiveType(S)
        PROVE  [a EXCEPT !.pc = "done"] \in ArchiveType(S)
    BY DEF ArchiveType
  <1>6. QED BY <1>3, <1>4, <1>5

\* Copying one more record into an archive (writeTree) keeps it an archive.
LEMMA CopyTypes ==
  ASSUME NEW S \in SUBSET Keys, NEW a \in ArchiveType(S), NEW k \in Keys, NEW c \in Content
  PROVE  [a EXCEPT !.recs = [x \in DOMAIN a.recs \cup {k} |-> IF x = k THEN c ELSE a.recs[x]]]
            \in ArchiveType(S \cup {k})
  <1>1. a.recs \in [S -> Content] /\ DOMAIN a.recs = S
    BY DEF ArchiveType
  <1>2. [x \in DOMAIN a.recs \cup {k} |-> IF x = k THEN c ELSE a.recs[x]]
            \in [S \cup {k} -> Content]
    BY <1>1
  <1>3. QED BY <1>2 DEF ArchiveType

\* Every step of Open, of the record stores, of backup and of restore leaves
\* a directory of the right type.
LEMMA DiskTypeNext == CoreInv /\ [Next]_vars => DiskType'
  <1> SUFFICES ASSUME CoreInv, [Next]_vars PROVE DiskType'
    OBVIOUS
  <1>1. CASE UNCHANGED <<vol, may, temps, version, layout>>
    BY <1>1 DEF CoreInv, TypeOK, DiskType
  <1>2. ASSUME NEW p \in Procs, SweepTempFiles(p) PROVE DiskType'
    BY <1>2, StoreAssumption
    DEF SweepTempFiles, ghosts, CoreInv, TypeOK, DiskType, ProcType, GhostType, Content,
        WriterType, Record, Absent, Torn, Missing, Unreadable
  <1>3. ASSUME NEW p \in Procs, ReadVersion(p) PROVE DiskType'
    BY <1>3, StoreAssumption
    DEF ReadVersion, ghosts, CoreInv, TypeOK, DiskType, ProcType, GhostType, Content,
        WriterType, Record, Absent, Torn, Missing, Unreadable
  <1>4. ASSUME NEW p \in Procs, OpenCurrent(p) PROVE DiskType'
    BY <1>4, StoreAssumption
    DEF OpenCurrent, Opened, ghosts, CoreInv, TypeOK, DiskType, ProcType, GhostType, Content,
        WriterType, Record, Absent, Torn, Missing, Unreadable
  <1>5. ASSUME NEW p \in Procs, MigrateApply(p) PROVE DiskType'
    <2>1. at[p] + 1 \in 2 .. Target
      BY <1>5, StoreAssumption DEF MigrateApply, CoreInv, TypeOK, ProcType, LockInv, Opening
    <2>2. QED
      BY <1>5, <2>1 DEF MigrateApply, CoreInv, TypeOK, DiskType
  <1>6. ASSUME NEW p \in Procs, MigrateStamp(p) PROVE DiskType'
    BY <1>6, StoreAssumption
    DEF MigrateStamp, ghosts, CoreInv, TypeOK, DiskType, ProcType, GhostType, Content,
        WriterType, Record, Absent, Torn, Missing, Unreadable
  <1>7. ASSUME NEW w \in Writers, PutCheck(w) PROVE DiskType'
    BY <1>7, StoreAssumption
    DEF PutCheck, ghosts, CoreInv, TypeOK, DiskType, ProcType, GhostType, Content, WriterType,
        Record, Absent, Torn, Missing, Unreadable
  <1>8. ASSUME NEW w \in Writers, PutRename(w) PROVE DiskType'
    <2>1. wr[w].key \in Keys /\ seq[wr[w].key] + 1 \in Nat
      BY <1>8 DEF PutRename, CoreInv, TypeOK, LockInv, GhostType
    <2>2. QED
      BY <1>8, <2>1 DEF PutRename, Change, disk, archives, ghosts, CoreInv, TypeOK, DiskType, ProcType, GhostType, Content, WriterType, Record, Absent, Torn, Missing, Unreadable
  <1>9. ASSUME NEW w \in Writers, PutFails(w) PROVE DiskType'
    BY <1>9, StoreAssumption
    DEF PutFails, Return, ghosts, CoreInv, TypeOK, DiskType, ProcType, GhostType, Content,
        WriterType, Record, Absent, Torn, Missing, Unreadable
  <1>10. ASSUME NEW w \in Writers, Delete(w) PROVE DiskType'
    <2>1. wr[w].key \in Keys /\ seq[wr[w].key] + 1 \in Nat
      BY <1>10 DEF Delete, CoreInv, TypeOK, LockInv, GhostType
    <2>2. QED
      BY <1>10, <2>1 DEF Delete, Change, disk, archives, ghosts, CoreInv, TypeOK, DiskType, ProcType, GhostType, Content, WriterType, Record, Absent, Torn, Missing, Unreadable
  <1>11. ASSUME NEW w \in Writers, Sync(w) PROVE DiskType'
    BY <1>11, StoreAssumption
    DEF Sync, Return, CoreInv, TypeOK, DiskType, ProcType, GhostType, Content, WriterType,
        Record, Absent, Torn, Missing, Unreadable
  <1>12. ASSUME NEW p \in Procs, NEW f \in {VersionFile} \cup Keys, RestoreTruncate(p, f) PROVE DiskType'
    <2>1. CASE f = VersionFile
      BY <1>12, <2>1, StoreAssumption DEF RestoreTruncate, CoreInv, TypeOK, DiskType, Unreadable
    <2>2. CASE f # VersionFile
      <3>1. f \in Keys /\ Torn(seq[f] + 1) \in Content
        BY <2>2, ContentTypes DEF CoreInv, TypeOK, GhostType
      <3>2. QED
        BY <1>12, <2>2, <3>1 DEF RestoreTruncate, Change, CoreInv, TypeOK, DiskType
    <2>3. QED BY <2>1, <2>2
  <1>13. ASSUME NEW p \in Procs, NEW f \in {VersionFile} \cup Keys, RestoreWrite(p, f) PROVE DiskType'
    <2>1. src[p] \in Slots /\ f \in Files(arch[src[p]]) /\ arch[src[p]].pc # "none"
      BY <1>13 DEF RestoreWrite, CoreInv, TypeOK, ArchType, ArchiveInv, None
    <2>2. PICK S \in SUBSET Keys : arch[src[p]] \in ArchiveType(S)
      BY <2>1 DEF CoreInv, TypeOK, ArchType
    <2>3. CASE f = VersionFile
      BY <1>13, <2>2, <2>3 DEF RestoreWrite, CoreInv, TypeOK, DiskType, ArchiveType
    <2>4. CASE f # VersionFile
      <3>1. f \in Keys /\ f \in DOMAIN arch[src[p]].recs
        BY <2>1, <2>4 DEF Files
      <3>2. arch[src[p]].recs[f] \in Content
        BY <2>2, <3>1 DEF ArchiveType
      <3>3. seq[f] + 1 \in Nat
        BY <3>1 DEF CoreInv, TypeOK, GhostType
      <3>4. [arch[src[p]].recs[f] EXCEPT !.n = seq[f] + 1] \in Content
        BY <3>2, <3>3, ContentTypes
      <3>5. QED
        BY <1>13, <2>4, <3>1, <3>4 DEF RestoreWrite, Change, CoreInv, TypeOK, DiskType
    <2>5. QED BY <2>3, <2>4
  <1>14. ASSUME PowerCut PROVE DiskType'
    BY <1>14, StoreAssumption
    DEF PowerCut, Gone, CoreInv, TypeOK, DiskType, ProcType, GhostType, Content, WriterType,
        Record, Absent, Torn, Missing, Unreadable
  <1>15. QED
    BY ZenonT(60), <1>1, <1>2, <1>3, <1>4, <1>5, <1>6, <1>7, <1>8, <1>9, <1>10, <1>11, <1>12, <1>13, <1>14
    DEF Next, OpenSteps, RecordSteps, ArchiveSteps, vars, OpenLock, MigrateBackup, OpenFails,
        CloseStore, Get, PutRefused, SyncFails, Backup, RestoreBegin, ArchiveRecord,
        ArchiveDone, ArchiveFails, RestoreEnd, RestoreFails, Kill, ArchiveBegin, Return, Gone,
        archives, disk, ghosts

\* The processes and the writers keep their type: the version readVersion
\* returned and run migrates from stays between Missing and Target + 1.
LEMMA ProcTypeNext == CoreInv /\ [Next]_vars => ProcType'
  <1> SUFFICES ASSUME CoreInv, [Next]_vars PROVE ProcType'
    OBVIOUS
  <1>1. CASE UNCHANGED <<lock, proc, wr, at>>
    BY <1>1 DEF CoreInv, TypeOK, ProcType
  <1>2. ASSUME NEW p \in Procs, OpenLock(p) PROVE ProcType'
    BY <1>2, StoreAssumption
    DEF OpenLock, ghosts, CoreInv, TypeOK, DiskType, ProcType, WriterType, Phases, Archiving,
        IdleWriter, Unreadable, Missing
  <1>3. ASSUME NEW p \in Procs, SweepTempFiles(p) PROVE ProcType'
    BY <1>3, StoreAssumption
    DEF SweepTempFiles, ghosts, CoreInv, TypeOK, DiskType, ProcType, WriterType, Phases,
        Archiving, IdleWriter, Unreadable, Missing
  <1>4. ASSUME NEW p \in Procs, ReadVersion(p) PROVE ProcType'
    BY <1>4, StoreAssumption
    DEF ReadVersion, ghosts, CoreInv, TypeOK, DiskType, ProcType, WriterType, Phases, Archiving,
        IdleWriter, Unreadable, Missing
  <1>5. ASSUME NEW p \in Procs, OpenCurrent(p) PROVE ProcType'
    BY <1>5, StoreAssumption
    DEF OpenCurrent, Opened, ghosts, CoreInv, TypeOK, DiskType, ProcType, WriterType, Phases,
        Archiving, IdleWriter, Unreadable, Missing
  <1>6. ASSUME NEW p \in Procs, NEW s \in Slots, MigrateBackup(p, s) PROVE ProcType'
    BY <1>6, StoreAssumption
    DEF MigrateBackup, ArchiveBegin, ghosts, CoreInv, TypeOK, DiskType, ProcType, WriterType,
        Phases, Archiving, IdleWriter, Unreadable, Missing
  <1>7. ASSUME NEW p \in Procs, MigrateApply(p) PROVE ProcType'
    BY <1>7, StoreAssumption
    DEF MigrateApply, ghosts, CoreInv, TypeOK, DiskType, ProcType, WriterType, Phases,
        Archiving, IdleWriter, Unreadable, Missing
  <1>8. ASSUME NEW p \in Procs, MigrateStamp(p) PROVE ProcType'
    BY <1>8, StoreAssumption
    DEF MigrateStamp, ghosts, CoreInv, TypeOK, DiskType, ProcType, WriterType, Phases,
        Archiving, IdleWriter, Unreadable, Missing
  <1>9. ASSUME NEW p \in Procs, OpenFails(p) PROVE ProcType'
    BY <1>9, StoreAssumption
    DEF OpenFails, ghosts, CoreInv, TypeOK, DiskType, ProcType, WriterType, Phases, Archiving,
        IdleWriter, Unreadable, Missing
  <1>10. ASSUME NEW p \in Procs, CloseStore(p) PROVE ProcType'
    BY <1>10, StoreAssumption
    DEF CloseStore, ghosts, CoreInv, TypeOK, DiskType, ProcType, WriterType, Phases, Archiving,
        IdleWriter, Unreadable, Missing
  <1>11. ASSUME NEW w \in Writers, NEW p \in Procs, NEW k \in Keys, Get(w, p, k) PROVE ProcType'
    BY <1>11
    DEF Get, CoreInv, TypeOK, DiskType, Content, GhostType, ProcType, WriterType
  <1>12. ASSUME NEW w \in Writers, PutCheck(w) PROVE ProcType'
    BY <1>12
    DEF PutCheck, CoreInv, TypeOK, ProcType, WriterType, IdleWriter
  <1>13. ASSUME NEW w \in Writers, PutRefused(w) PROVE ProcType'
    BY <1>13
    DEF PutRefused, Return, CoreInv, TypeOK, ProcType, WriterType, IdleWriter
  <1>14. ASSUME NEW w \in Writers, PutRename(w) PROVE ProcType'
    BY <1>14
    DEF PutRename, Return, CoreInv, TypeOK, ProcType, WriterType, IdleWriter
  <1>15. ASSUME NEW w \in Writers, PutFails(w) PROVE ProcType'
    BY <1>15
    DEF PutFails, Return, CoreInv, TypeOK, ProcType, WriterType, IdleWriter
  <1>16. ASSUME NEW w \in Writers, Delete(w) PROVE ProcType'
    BY <1>16
    DEF Delete, CoreInv, TypeOK, ProcType, WriterType, IdleWriter
  <1>17. ASSUME NEW w \in Writers, Sync(w) PROVE ProcType'
    BY <1>17
    DEF Sync, Return, CoreInv, TypeOK, ProcType, WriterType, IdleWriter
  <1>18. ASSUME NEW w \in Writers, SyncFails(w) PROVE ProcType'
    BY <1>18
    DEF SyncFails, Return, CoreInv, TypeOK, ProcType, WriterType, IdleWriter
  <1>19. ASSUME NEW p \in Procs, NEW s \in Slots, Backup(p, s) PROVE ProcType'
    BY <1>19, StoreAssumption
    DEF Backup, ArchiveBegin, ghosts, CoreInv, TypeOK, DiskType, ProcType, WriterType, Phases,
        Archiving, IdleWriter, Unreadable, Missing
  <1>20. ASSUME NEW p \in Procs, NEW from \in Slots, NEW s \in Slots, RestoreBegin(p, from, s) PROVE ProcType'
    BY <1>20, StoreAssumption
    DEF RestoreBegin, ArchiveBegin, ghosts, CoreInv, TypeOK, DiskType, ProcType, WriterType,
        Phases, Archiving, IdleWriter, Unreadable, Missing
  <1>21. ASSUME NEW p \in Procs, ArchiveDone(p) PROVE ProcType'
    BY <1>21, StoreAssumption
    DEF ArchiveDone, ghosts, CoreInv, TypeOK, DiskType, ProcType, WriterType, Phases, Archiving,
        IdleWriter, Unreadable, Missing
  <1>22. ASSUME NEW p \in Procs, ArchiveFails(p) PROVE ProcType'
    BY <1>22, StoreAssumption
    DEF ArchiveFails, ghosts, CoreInv, TypeOK, DiskType, ProcType, WriterType, Phases,
        Archiving, IdleWriter, Unreadable, Missing
  <1>23. ASSUME NEW p \in Procs, RestoreEnd(p) PROVE ProcType'
    BY <1>23, StoreAssumption
    DEF RestoreEnd, CoreInv, TypeOK, DiskType, ProcType, WriterType, Phases, Archiving,
        IdleWriter, Unreadable, Missing
  <1>24. ASSUME NEW p \in Procs, RestoreFails(p) PROVE ProcType'
    BY <1>24, StoreAssumption
    DEF RestoreFails, ghosts, CoreInv, TypeOK, DiskType, ProcType, WriterType, Phases,
        Archiving, IdleWriter, Unreadable, Missing
  <1>25. ASSUME NEW p \in Procs, Kill(p) PROVE ProcType'
    BY <1>25, StoreAssumption
    DEF Kill, Gone, CoreInv, TypeOK, DiskType, ProcType, WriterType, Phases, Archiving,
        IdleWriter, Unreadable, Missing
  <1>26. ASSUME PowerCut PROVE ProcType'
    BY <1>26, StoreAssumption
    DEF PowerCut, Gone, CoreInv, TypeOK, DiskType, ProcType, WriterType, Phases, Archiving,
        IdleWriter, Unreadable, Missing
  <1>27. QED
    BY <1>1, <1>2, <1>3, <1>4, <1>5, <1>6, <1>7, <1>8, <1>9, <1>10, <1>11, <1>12, <1>13, <1>14,
       <1>15, <1>16, <1>17, <1>18, <1>19, <1>20, <1>21, <1>22, <1>23, <1>24, <1>25, <1>26
    DEF Next, OpenSteps, RecordSteps, ArchiveSteps, vars, ArchiveRecord, RestoreTruncate,
        RestoreWrite, Change, disk, ghosts

\* The archives, and what a restore has still to write, keep their type.
LEMMA ArchTypeNext == CoreInv /\ [Next]_vars => ArchType'
  <1> SUFFICES ASSUME CoreInv, [Next]_vars PROVE ArchType'
    OBVIOUS
  <1>1. CASE UNCHANGED <<arch, out, src, todo, open>>
    BY <1>1 DEF CoreInv, TypeOK, ArchType
  <1>2. ASSUME NEW p \in Procs, NEW s \in Slots, MigrateBackup(p, s) PROVE ArchType'
    <2>1. [NoArchive EXCEPT !.pc = "open", !.version = version, !.layout = layout] \in ArchiveType({})
      BY ArchiveTypes DEF CoreInv, TypeOK, DiskType
    <2>2. QED
      BY <1>2, <2>1 DEF MigrateBackup, ArchiveBegin, CoreInv, TypeOK, ArchType
  <1>3. ASSUME NEW p \in Procs, NEW s \in Slots, Backup(p, s) PROVE ArchType'
    <2>1. [NoArchive EXCEPT !.pc = "open", !.version = version, !.layout = layout] \in ArchiveType({})
      BY ArchiveTypes DEF CoreInv, TypeOK, DiskType
    <2>2. QED
      BY <1>3, <2>1 DEF Backup, ArchiveBegin, CoreInv, TypeOK, ArchType
  <1>4. ASSUME NEW p \in Procs, NEW from \in Slots, NEW s \in Slots, RestoreBegin(p, from, s) PROVE ArchType'
    <2>1. [NoArchive EXCEPT !.pc = "open", !.version = version, !.layout = layout] \in ArchiveType({})
      BY ArchiveTypes DEF CoreInv, TypeOK, DiskType
    <2>2. QED
      BY <1>4, <2>1 DEF RestoreBegin, ArchiveBegin, CoreInv, TypeOK, ArchType
  <1>5. ASSUME NEW p \in Procs, NEW k \in Keys, ArchiveRecord(p, k) PROVE ArchType'
    <2>1. PICK S \in SUBSET Keys : arch[out[p]] \in ArchiveType(S)
      BY <1>5 DEF ArchiveRecord, CoreInv, TypeOK, ArchType, ArchiveInv
    <2>2. [arch[out[p]] EXCEPT !.recs = [x \in DOMAIN arch[out[p]].recs \cup {k} |->
              IF x = k THEN vol[k] ELSE arch[out[p]].recs[x]]] \in ArchiveType(S \cup {k})
      BY <2>1, CopyTypes DEF CoreInv, TypeOK, DiskType
    <2>3. QED
      BY <1>5, <2>2 DEF ArchiveRecord, CoreInv, TypeOK, ArchType
  <1>6. ASSUME NEW p \in Procs, ArchiveDone(p) PROVE ArchType'
    <2>1. PICK S \in SUBSET Keys : arch[out[p]] \in ArchiveType(S)
      BY <1>6 DEF ArchiveDone, CoreInv, TypeOK, ArchType, ArchiveInv
    <2>2. [arch[out[p]] EXCEPT !.pc = "done"] \in ArchiveType(S)
      BY <2>1, ArchiveTypes
    <2>3. arch' = [arch EXCEPT ![out[p]] = [arch[out[p]] EXCEPT !.pc = "done"]]
      BY <1>6 DEF ArchiveDone
    <2>4. DOMAIN arch' = Slots /\ \A s \in Slots : \E T \in SUBSET Keys : arch'[s] \in ArchiveType(T)
      BY <2>2, <2>3 DEF CoreInv, TypeOK, ArchType
    <2>5. todo' \in [Procs -> SUBSET ({VersionFile} \cup Keys)]
      <3>1. proc[p] = "safety" => Files(arch[src[p]]) \subseteq {VersionFile} \cup Keys
        <4>1. SUFFICES ASSUME proc[p] = "safety" PROVE Files(arch[src[p]]) \subseteq {VersionFile} \cup Keys
          OBVIOUS
        <4>2. PICK T \in SUBSET Keys : arch[src[p]] \in ArchiveType(T)
          BY <4>1 DEF CoreInv, TypeOK, ArchType, ArchiveInv
        <4>3. QED BY <4>2 DEF Files, ArchiveType
      <3>2. QED BY <1>6, <3>1 DEF ArchiveDone, CoreInv, TypeOK, ArchType
    <2>6. QED
      BY <1>6, <2>4, <2>5 DEF ArchiveDone, CoreInv, TypeOK, ArchType
  <1>7. ASSUME NEW p \in Procs, ArchiveFails(p) PROVE ArchType'
    BY <1>7, ArchiveTypes DEF ArchiveFails, CoreInv, TypeOK, ArchType
  <1>8. ASSUME NEW p \in Procs, RestoreEnd(p) PROVE ArchType'
    BY <1>8, StoreAssumption DEF RestoreEnd, CoreInv, TypeOK, ArchType, DiskType, Slots, None
  <1>9. ASSUME NEW p \in Procs, RestoreFails(p) PROVE ArchType'
    BY <1>9, StoreAssumption
    DEF RestoreFails, ghosts, CoreInv, TypeOK, ArchType, DiskType, Slots, None
  <1>10. ASSUME NEW p \in Procs, NEW f \in {VersionFile} \cup Keys, RestoreTruncate(p, f) PROVE ArchType'
    BY <1>10, StoreAssumption
    DEF RestoreTruncate, Change, CoreInv, TypeOK, ArchType, DiskType, Slots, None
  <1>11. ASSUME NEW p \in Procs, NEW f \in {VersionFile} \cup Keys, RestoreWrite(p, f) PROVE ArchType'
    BY <1>11, StoreAssumption
    DEF RestoreWrite, Change, CoreInv, TypeOK, ArchType, DiskType, Slots, None
  <1>12. ASSUME NEW p \in Procs, Kill(p) PROVE ArchType'
    BY <1>12, StoreAssumption DEF Kill, Gone, CoreInv, TypeOK, ArchType, DiskType, Slots, None
  <1>13. ASSUME PowerCut PROVE ArchType'
    BY <1>13, StoreAssumption
    DEF PowerCut, Gone, CoreInv, TypeOK, ArchType, DiskType, Slots, None
  <1>14. QED
    BY <1>1, <1>2, <1>3, <1>4, <1>5, <1>6, <1>7, <1>8, <1>9, <1>10, <1>11, <1>12, <1>13
    DEF Next, OpenSteps, RecordSteps, ArchiveSteps, vars, OpenLock, SweepTempFiles,
        ReadVersion, OpenCurrent, MigrateApply, MigrateStamp, OpenFails, CloseStore, Get,
        PutCheck, PutRefused, PutRename, PutFails, Delete, Sync, SyncFails, Opened, Return,
        Change, archives, disk, ghosts

\* The history the properties are stated with keeps its type.
LEMMA GhostTypeNext == CoreInv /\ [Next]_vars => GhostType'
  <1> SUFFICES ASSUME CoreInv, [Next]_vars PROVE GhostType'
    OBVIOUS
  <1>1. CASE UNCHANGED <<seq, acked, deletes, restored, half, fresh, crashes>>
    BY <1>1 DEF CoreInv, TypeOK, GhostType
  <1>2. ASSUME NEW w \in Writers, PutRename(w) PROVE GhostType'
    <2>1. wr[w].key \in Keys /\ seq[wr[w].key] + 1 \in Nat
      BY <1>2 DEF PutRename, CoreInv, TypeOK, LockInv, GhostType
    <2>2. QED
      BY <1>2, <2>1 DEF PutRename, Change, disk, archives, ghosts, CoreInv, TypeOK, DiskType, ProcType, GhostType
  <1>3. ASSUME NEW w \in Writers, Delete(w) PROVE GhostType'
    <2>1. wr[w].key \in Keys /\ seq[wr[w].key] + 1 \in Nat
      BY <1>3 DEF Delete, CoreInv, TypeOK, LockInv, GhostType
    <2>2. QED
      BY <1>3, <2>1 DEF Delete, Change, disk, archives, ghosts, CoreInv, TypeOK, DiskType, ProcType, GhostType
  <1>4. ASSUME NEW w \in Writers, Sync(w) PROVE GhostType'
    <2>1. wr[w].key \in Keys
      BY <1>4 DEF Sync, CoreInv, LockInv
    <2>2. vol[wr[w].key].n \in Nat
      BY <2>1 DEF CoreInv, TypeOK, DiskType, Content
    <2>3. QED
      BY <1>4, <2>2 DEF Sync, CoreInv, TypeOK, GhostType
  <1>5. ASSUME NEW p \in Procs, RestoreEnd(p) PROVE GhostType'
    BY <1>5, StoreAssumption DEF RestoreEnd, CoreInv, TypeOK, DiskType, ProcType, GhostType
  <1>6. ASSUME NEW p \in Procs, NEW f \in {VersionFile} \cup Keys, RestoreTruncate(p, f) PROVE GhostType'
    BY <1>6, StoreAssumption
    DEF RestoreTruncate, Change, CoreInv, TypeOK, DiskType, ProcType, GhostType
  <1>7. ASSUME NEW p \in Procs, NEW f \in {VersionFile} \cup Keys, RestoreWrite(p, f) PROVE GhostType'
    BY <1>7, StoreAssumption
    DEF RestoreWrite, Change, CoreInv, TypeOK, DiskType, ProcType, GhostType
  <1>8. ASSUME NEW p \in Procs, Kill(p) PROVE GhostType'
    BY <1>8, StoreAssumption DEF Kill, Gone, CoreInv, TypeOK, DiskType, ProcType, GhostType
  <1>9. ASSUME PowerCut PROVE GhostType'
    BY <1>9, StoreAssumption DEF PowerCut, Gone, CoreInv, TypeOK, DiskType, ProcType, GhostType
  <1>10. QED
    BY ZenonT(60), <1>1, <1>2, <1>3, <1>4, <1>5, <1>6, <1>7, <1>8, <1>9
    DEF Next, OpenSteps, RecordSteps, ArchiveSteps, vars, OpenLock, SweepTempFiles,
        ReadVersion, OpenCurrent, MigrateBackup, MigrateApply, MigrateStamp, OpenFails,
        CloseStore, Get, PutCheck, PutRefused, PutFails, SyncFails, Backup, RestoreBegin,
        ArchiveRecord, ArchiveDone, ArchiveFails, RestoreFails, Opened, ArchiveBegin, Return,
        archives, disk, ghosts

\* writeArchive's file has one writer until it is closed, Restore reads files
\* that nobody writes, and it writes only what its archive holds.
LEMMA ArchiveInvNext == CoreInv /\ [Next]_vars => ArchiveInv'
  <1> SUFFICES ASSUME CoreInv, [Next]_vars PROVE ArchiveInv'
    OBVIOUS
  <1>1. CASE UNCHANGED <<proc, arch, out, src, todo, open, restored>>
    BY <1>1 DEF CoreInv, ArchiveInv
  <1>2. ASSUME NEW p \in Procs, OpenLock(p) PROVE ArchiveInv'
    BY <1>2, StoreAssumption
    DEF OpenLock, archives, ghosts, CoreInv, TypeOK, ProcType, ArchType, ArchiveInv, Archiving,
        Slots, None
  <1>3. ASSUME NEW p \in Procs, SweepTempFiles(p) PROVE ArchiveInv'
    BY <1>3, StoreAssumption
    DEF SweepTempFiles, archives, ghosts, CoreInv, TypeOK, ProcType, ArchType, ArchiveInv,
        Archiving, Slots, None
  <1>4. ASSUME NEW p \in Procs, ReadVersion(p) PROVE ArchiveInv'
    BY <1>4, StoreAssumption
    DEF ReadVersion, archives, ghosts, CoreInv, TypeOK, ProcType, ArchType, ArchiveInv,
        Archiving, Slots, None
  <1>5. ASSUME NEW p \in Procs, OpenCurrent(p) PROVE ArchiveInv'
    BY <1>5, StoreAssumption
    DEF OpenCurrent, Opened, archives, ghosts, CoreInv, TypeOK, ProcType, ArchType, ArchiveInv,
        Archiving, Slots, None
  <1>6. ASSUME NEW p \in Procs, NEW s \in Slots, MigrateBackup(p, s) PROVE ArchiveInv'
    BY <1>6, StoreAssumption
    DEF MigrateBackup, ArchiveBegin, ghosts, CoreInv, TypeOK, ProcType, ArchType, ArchiveInv,
        Archiving, Slots, None
  <1>7. ASSUME NEW p \in Procs, MigrateStamp(p) PROVE ArchiveInv'
    BY <1>7, StoreAssumption
    DEF MigrateStamp, archives, ghosts, CoreInv, TypeOK, ProcType, ArchType, ArchiveInv,
        Archiving, Slots, None
  <1>8. ASSUME NEW p \in Procs, OpenFails(p) PROVE ArchiveInv'
    BY <1>8, StoreAssumption
    DEF OpenFails, archives, ghosts, CoreInv, TypeOK, ProcType, ArchType, ArchiveInv,
        Archiving, Slots, None
  <1>9. ASSUME NEW p \in Procs, CloseStore(p) PROVE ArchiveInv'
    BY <1>9, StoreAssumption
    DEF CloseStore, archives, ghosts, CoreInv, TypeOK, ProcType, ArchType, ArchiveInv,
        Archiving, Slots, None
  <1>10. ASSUME NEW p \in Procs, NEW s \in Slots, Backup(p, s) PROVE ArchiveInv'
    BY <1>10, StoreAssumption
    DEF Backup, ArchiveBegin, ghosts, CoreInv, TypeOK, ProcType, ArchType, ArchiveInv,
        Archiving, Slots, None
  <1>11. ASSUME NEW p \in Procs, NEW from \in Slots, NEW s \in Slots, RestoreBegin(p, from, s) PROVE ArchiveInv'
    BY <1>11, StoreAssumption
    DEF RestoreBegin, ArchiveBegin, ghosts, CoreInv, TypeOK, ProcType, ArchType, ArchiveInv,
        Archiving, Slots, None
  <1>12. ASSUME NEW p \in Procs, NEW k \in Keys, ArchiveRecord(p, k) PROVE ArchiveInv'
    BY <1>12, StoreAssumption
    DEF ArchiveRecord, ghosts, CoreInv, TypeOK, ProcType, ArchType, ArchiveInv, Archiving,
        Slots, None
  <1>13. ASSUME NEW p \in Procs, ArchiveDone(p) PROVE ArchiveInv'
    <2> DEFINE o == out[p]
    <2>1. /\ o \in Slots /\ arch[o].pc = "open"
          /\ \A s \in Slots : s # o => arch'[s] = arch[s]
          /\ arch'[o].pc = "done"
      <3>1. PICK S \in SUBSET Keys : arch[o] \in ArchiveType(S)
        BY <1>13 DEF ArchiveDone, CoreInv, TypeOK, ArchType, ArchiveInv
      <3>2. QED
        BY <1>13, <3>1 DEF ArchiveDone, CoreInv, TypeOK, ArchType, ArchiveInv, ArchiveType
    <2>2. \A q \in Procs : src[q] # None => src[q] \in Slots /\ src[q] # o
      BY <1>13 DEF ArchiveDone, CoreInv, TypeOK, ArchType, ArchiveInv
    <2>3. /\ \A q \in Procs \ {p} : proc'[q] = proc[q] /\ out'[q] = out[q] /\ todo'[q] = todo[q]
          /\ proc'[p] \in {"migrating", "down", "restoring"}
          /\ proc[p] = "safety" => proc'[p] = "restoring" /\ todo'[p] = Files(arch[src[p]])
          /\ proc[p] # "safety" => todo'[p] = {}
          /\ src' = src /\ open' = open /\ restored' = restored
      BY <1>13 DEF ArchiveDone, CoreInv, TypeOK, ProcType, ArchType, Archiving, ghosts
    <2>4. open[p] = {}
      BY <1>13 DEF ArchiveDone, CoreInv, TypeOK, ArchType, ArchiveInv, Archiving
    <2>5. \A q \in Procs : proc'[q] \in Archiving => q # p /\ proc[q] \in Archiving /\ out[q] # o
      BY <1>13, <2>3 DEF ArchiveDone, CoreInv, ArchiveInv, Archiving
    <2>6. \A q \in Procs : src[q] # None => arch'[src[q]] = arch[src[q]]
      BY <2>1, <2>2
    <2>7. \A q \in Procs : proc'[q] \in Archiving =>
              /\ out'[q] \in Slots
              /\ arch'[out'[q]].pc = "open"
              /\ \A r \in Procs : r # q /\ proc'[r] \in Archiving => out'[r] # out'[q]
      BY <2>1, <2>3, <2>5 DEF CoreInv, ArchiveInv
    <2>8. \A q \in Procs : proc'[q] = "safety" => src'[q] \in Slots
      BY <2>3 DEF CoreInv, ArchiveInv
    <2>9. \A q \in Procs : src'[q] # None =>
              /\ arch'[src'[q]].pc # "none"
              /\ \A r \in Procs : proc'[r] \in Archiving => out'[r] # src'[q]
      BY <2>3, <2>5, <2>6 DEF CoreInv, ArchiveInv
    <2>10. \A q \in Procs : todo'[q] # {} =>
              /\ proc'[q] = "restoring"
              /\ src'[q] # None
              /\ todo'[q] \subseteq Files(arch'[src'[q]])
      <3>1. proc[p] = "safety" => src[p] # None
        BY DEF CoreInv, ArchiveInv, Slots, None
      <3>2. \A q \in Procs : src[q] # None => Files(arch'[src[q]]) = Files(arch[src[q]])
        BY <2>6
      <3>3. QED
        BY <2>3, <3>1, <3>2 DEF CoreInv, ArchiveInv
    <2>11. \A q \in Procs : open'[q] \subseteq todo'[q]
      BY <2>3, <2>4 DEF CoreInv, ArchiveInv
    <2>12. ~restored' => \A q \in Procs : open'[q] = {}
      BY <2>3 DEF CoreInv, ArchiveInv
    <2>13. QED
      BY <2>7, <2>8, <2>9, <2>10, <2>11, <2>12 DEF ArchiveInv
  <1>14. ASSUME NEW p \in Procs, ArchiveFails(p) PROVE ArchiveInv'
    BY <1>14, StoreAssumption
    DEF ArchiveFails, ghosts, CoreInv, TypeOK, ProcType, ArchType, ArchiveInv, Archiving,
        Slots, None
  <1>15. ASSUME NEW p \in Procs, RestoreEnd(p) PROVE ArchiveInv'
    BY <1>15, StoreAssumption
    DEF RestoreEnd, CoreInv, TypeOK, ProcType, ArchType, ArchiveInv, Archiving, Slots, None
  <1>16. ASSUME NEW p \in Procs, RestoreFails(p) PROVE ArchiveInv'
    BY <1>16, StoreAssumption
    DEF RestoreFails, ghosts, CoreInv, TypeOK, ProcType, ArchType, ArchiveInv, Archiving,
        Slots, None
  <1>17. ASSUME NEW p \in Procs, NEW f \in {VersionFile} \cup Keys, RestoreTruncate(p, f) PROVE ArchiveInv'
    BY <1>17, StoreAssumption
    DEF RestoreTruncate, Change, CoreInv, TypeOK, ProcType, ArchType, ArchiveInv, Archiving,
        Slots, None
  <1>18. ASSUME NEW p \in Procs, NEW f \in {VersionFile} \cup Keys, RestoreWrite(p, f) PROVE ArchiveInv'
    BY <1>18, StoreAssumption
    DEF RestoreWrite, Change, CoreInv, TypeOK, ProcType, ArchType, ArchiveInv, Archiving,
        Slots, None
  <1>19. ASSUME NEW p \in Procs, Kill(p) PROVE ArchiveInv'
    BY <1>19, StoreAssumption
    DEF Kill, Gone, CoreInv, TypeOK, ProcType, ArchType, ArchiveInv, Archiving, Slots, None
  <1>20. ASSUME PowerCut PROVE ArchiveInv'
    BY <1>20, StoreAssumption
    DEF PowerCut, Gone, CoreInv, TypeOK, ProcType, ArchType, ArchiveInv, Archiving, Slots, None
  <1>21. QED
    BY <1>1, <1>2, <1>3, <1>4, <1>5, <1>6, <1>7, <1>8, <1>9, <1>10, <1>11, <1>12, <1>13, <1>14,
       <1>15, <1>16, <1>17, <1>18, <1>19, <1>20
    DEF Next, OpenSteps, RecordSteps, ArchiveSteps, vars, MigrateApply, Get, PutCheck,
        PutRefused, PutRename, PutFails, Delete, Sync, SyncFails, Return, Change, archives,
        disk, ghosts

\* AcquireProcessLock lets one process past, and LockEntity one writer of a
\* record between the check of its revision and the fsync of the directory.
LEMMA LockInvNext == CoreInv /\ [Next]_vars => LockInv'
  <1> SUFFICES ASSUME CoreInv, [Next]_vars PROVE LockInv'
    OBVIOUS
  <1>1. CASE UNCHANGED <<proc, lock, at, wr>>
    BY <1>1 DEF CoreInv, LockInv
  <1>2. ASSUME NEW p \in Procs, OpenLock(p) PROVE LockInv'
    BY <1>2, StoreAssumption
    DEF OpenLock, ghosts, CoreInv, TypeOK, ProcType, LockInv, Locking, Opening, Archiving,
        WriterType, IdleWriter, Busy
  <1>3. ASSUME NEW p \in Procs, SweepTempFiles(p) PROVE LockInv'
    BY <1>3, StoreAssumption
    DEF SweepTempFiles, ghosts, CoreInv, TypeOK, ProcType, LockInv, Locking, Opening,
        Archiving, WriterType, IdleWriter, Busy
  <1>4. ASSUME NEW p \in Procs, ReadVersion(p) PROVE LockInv'
    <2>1. version' \in 1 .. Target /\ (version # Missing => version' = version)
      BY <1>4, StoreAssumption DEF ReadVersion, CoreInv, TypeOK, DiskType, Missing, Unreadable
    <2>2. QED
      BY <1>4, <2>1 DEF ReadVersion, CoreInv, TypeOK, ProcType, LockInv, Locking, Opening
  <1>5. ASSUME NEW p \in Procs, OpenCurrent(p) PROVE LockInv'
    BY <1>5, StoreAssumption
    DEF OpenCurrent, Opened, ghosts, CoreInv, TypeOK, ProcType, LockInv, Locking, Opening,
        Archiving, WriterType, IdleWriter, Busy
  <1>6. ASSUME NEW p \in Procs, NEW s \in Slots, MigrateBackup(p, s) PROVE LockInv'
    BY <1>6, StoreAssumption
    DEF MigrateBackup, ArchiveBegin, ghosts, CoreInv, TypeOK, ProcType, LockInv, Locking,
        Opening, Archiving, WriterType, IdleWriter, Busy
  <1>7. ASSUME NEW p \in Procs, MigrateApply(p) PROVE LockInv'
    BY <1>7, StoreAssumption
    DEF MigrateApply, ghosts, CoreInv, TypeOK, ProcType, LockInv, Locking, Opening, Archiving,
        WriterType, IdleWriter, Busy
  <1>8. ASSUME NEW p \in Procs, MigrateStamp(p) PROVE LockInv'
    BY <1>8, StoreAssumption
    DEF MigrateStamp, ghosts, CoreInv, TypeOK, ProcType, LockInv, Locking, Opening, Archiving,
        WriterType, IdleWriter, Busy
  <1>9. ASSUME NEW p \in Procs, OpenFails(p) PROVE LockInv'
    BY <1>9, StoreAssumption
    DEF OpenFails, ghosts, CoreInv, TypeOK, ProcType, LockInv, Locking, Opening, Archiving,
        WriterType, IdleWriter, Busy
  <1>10. ASSUME NEW p \in Procs, CloseStore(p) PROVE LockInv'
    BY <1>10, StoreAssumption
    DEF CloseStore, ghosts, CoreInv, TypeOK, ProcType, LockInv, Locking, Opening, Archiving,
        WriterType, IdleWriter, Busy
  <1>11. ASSUME NEW w \in Writers, NEW p \in Procs, NEW k \in Keys, Get(w, p, k) PROVE LockInv'
    BY <1>11, StoreAssumption
    DEF Get, ghosts, CoreInv, TypeOK, ProcType, LockInv, Locking, Opening, Archiving,
        WriterType, IdleWriter, Busy
  <1>12. ASSUME NEW w \in Writers, PutCheck(w) PROVE LockInv'
    BY <1>12, StoreAssumption
    DEF PutCheck, ghosts, CoreInv, TypeOK, ProcType, LockInv, Locking, Opening, Archiving,
        WriterType, IdleWriter, Busy
  <1>13. ASSUME NEW w \in Writers, PutRefused(w) PROVE LockInv'
    BY <1>13, StoreAssumption
    DEF PutRefused, Return, ghosts, CoreInv, TypeOK, ProcType, LockInv, Locking, Opening,
        Archiving, WriterType, IdleWriter, Busy
  <1>14. ASSUME NEW w \in Writers, PutRename(w) PROVE LockInv'
    BY <1>14, StoreAssumption
    DEF PutRename, Change, Return, CoreInv, TypeOK, ProcType, LockInv, Locking, Opening,
        Archiving, WriterType, IdleWriter, Busy
  <1>15. ASSUME NEW w \in Writers, PutFails(w) PROVE LockInv'
    BY <1>15, StoreAssumption
    DEF PutFails, Return, ghosts, CoreInv, TypeOK, ProcType, LockInv, Locking, Opening,
        Archiving, WriterType, IdleWriter, Busy
  <1>16. ASSUME NEW w \in Writers, Delete(w) PROVE LockInv'
    BY <1>16, StoreAssumption
    DEF Delete, Change, CoreInv, TypeOK, ProcType, LockInv, Locking, Opening, Archiving,
        WriterType, IdleWriter, Busy
  <1>17. ASSUME NEW w \in Writers, Sync(w) PROVE LockInv'
    BY <1>17, StoreAssumption
    DEF Sync, Return, CoreInv, TypeOK, ProcType, LockInv, Locking, Opening, Archiving,
        WriterType, IdleWriter, Busy
  <1>18. ASSUME NEW w \in Writers, SyncFails(w) PROVE LockInv'
    BY <1>18, StoreAssumption
    DEF SyncFails, Return, ghosts, CoreInv, TypeOK, ProcType, LockInv, Locking, Opening,
        Archiving, WriterType, IdleWriter, Busy
  <1>19. ASSUME NEW p \in Procs, NEW s \in Slots, Backup(p, s) PROVE LockInv'
    BY <1>19, StoreAssumption
    DEF Backup, ArchiveBegin, ghosts, CoreInv, TypeOK, ProcType, LockInv, Locking, Opening,
        Archiving, WriterType, IdleWriter, Busy
  <1>20. ASSUME NEW p \in Procs, NEW from \in Slots, NEW s \in Slots, RestoreBegin(p, from, s) PROVE LockInv'
    BY <1>20, StoreAssumption
    DEF RestoreBegin, ArchiveBegin, ghosts, CoreInv, TypeOK, ProcType, LockInv, Locking,
        Opening, Archiving, WriterType, IdleWriter, Busy
  <1>21. ASSUME NEW p \in Procs, ArchiveDone(p) PROVE LockInv'
    BY <1>21, StoreAssumption
    DEF ArchiveDone, ghosts, CoreInv, TypeOK, ProcType, LockInv, Locking, Opening, Archiving,
        WriterType, IdleWriter, Busy
  <1>22. ASSUME NEW p \in Procs, ArchiveFails(p) PROVE LockInv'
    BY <1>22, StoreAssumption
    DEF ArchiveFails, ghosts, CoreInv, TypeOK, ProcType, LockInv, Locking, Opening, Archiving,
        WriterType, IdleWriter, Busy
  <1>23. ASSUME NEW p \in Procs, RestoreEnd(p) PROVE LockInv'
    BY <1>23, StoreAssumption
    DEF RestoreEnd, CoreInv, TypeOK, ProcType, LockInv, Locking, Opening, Archiving,
        WriterType, IdleWriter, Busy
  <1>24. ASSUME NEW p \in Procs, RestoreFails(p) PROVE LockInv'
    BY <1>24, StoreAssumption
    DEF RestoreFails, ghosts, CoreInv, TypeOK, ProcType, LockInv, Locking, Opening, Archiving,
        WriterType, IdleWriter, Busy
  <1>25. ASSUME NEW p \in Procs, Kill(p) PROVE LockInv'
    BY <1>25, StoreAssumption
    DEF Kill, Gone, CoreInv, TypeOK, ProcType, LockInv, Locking, Opening, Archiving,
        WriterType, IdleWriter, Busy
  <1>26. ASSUME PowerCut PROVE LockInv'
    BY <1>26, StoreAssumption
    DEF PowerCut, Gone, CoreInv, TypeOK, ProcType, LockInv, Locking, Opening, Archiving,
        WriterType, IdleWriter, Busy
  <1>27. QED
    BY <1>1, <1>2, <1>3, <1>4, <1>5, <1>6, <1>7, <1>8, <1>9, <1>10, <1>11, <1>12, <1>13, <1>14,
       <1>15, <1>16, <1>17, <1>18, <1>19, <1>20, <1>21, <1>22, <1>23, <1>24, <1>25, <1>26
    DEF Next, OpenSteps, RecordSteps, ArchiveSteps, vars, ArchiveRecord, RestoreTruncate,
        RestoreWrite, Change, disk, ghosts

\* Once sweepTempFiles has run, the temporaries are those of writers that are
\* still between writing the file and renaming it.
LEMMA TempInvNext == CoreInv /\ TempInv /\ [Next]_vars => TempInv'
  <1> SUFFICES ASSUME CoreInv /\ TempInv, [Next]_vars PROVE TempInv'
    OBVIOUS
  <1>1. CASE UNCHANGED <<proc, temps, wr>>
    BY <1>1 DEF TempInv
  <1>2. ASSUME NEW p \in Procs, OpenLock(p) PROVE TempInv'
    BY <1>2, StoreAssumption
    DEF OpenLock, disk, ghosts, CoreInv, TypeOK, ProcType, DiskType, LockInv, TempInv, Locking,
        Opening, Archiving, WriterType, IdleWriter
  <1>3. ASSUME NEW p \in Procs, SweepTempFiles(p) PROVE TempInv'
    BY <1>3, StoreAssumption
    DEF SweepTempFiles, ghosts, CoreInv, TypeOK, ProcType, DiskType, LockInv, TempInv, Locking,
        Opening, Archiving, WriterType, IdleWriter
  <1>4. ASSUME NEW p \in Procs, ReadVersion(p) PROVE TempInv'
    BY <1>4, StoreAssumption
    DEF ReadVersion, ghosts, CoreInv, TypeOK, ProcType, DiskType, LockInv, TempInv, Locking,
        Opening, Archiving, WriterType, IdleWriter
  <1>5. ASSUME NEW p \in Procs, OpenCurrent(p) PROVE TempInv'
    BY <1>5, StoreAssumption
    DEF OpenCurrent, Opened, ghosts, CoreInv, TypeOK, ProcType, DiskType, LockInv, TempInv,
        Locking, Opening, Archiving, WriterType, IdleWriter
  <1>6. ASSUME NEW p \in Procs, NEW s \in Slots, MigrateBackup(p, s) PROVE TempInv'
    BY <1>6, StoreAssumption
    DEF MigrateBackup, ArchiveBegin, disk, ghosts, CoreInv, TypeOK, ProcType, DiskType,
        LockInv, TempInv, Locking, Opening, Archiving, WriterType, IdleWriter
  <1>7. ASSUME NEW p \in Procs, MigrateStamp(p) PROVE TempInv'
    BY <1>7, StoreAssumption
    DEF MigrateStamp, ghosts, CoreInv, TypeOK, ProcType, DiskType, LockInv, TempInv, Locking,
        Opening, Archiving, WriterType, IdleWriter
  <1>8. ASSUME NEW p \in Procs, OpenFails(p) PROVE TempInv'
    BY <1>8, StoreAssumption
    DEF OpenFails, disk, ghosts, CoreInv, TypeOK, ProcType, DiskType, LockInv, TempInv,
        Locking, Opening, Archiving, WriterType, IdleWriter
  <1>9. ASSUME NEW p \in Procs, CloseStore(p) PROVE TempInv'
    BY <1>9, StoreAssumption
    DEF CloseStore, disk, ghosts, CoreInv, TypeOK, ProcType, DiskType, LockInv, TempInv,
        Locking, Opening, Archiving, WriterType, IdleWriter
  <1>10. ASSUME NEW w \in Writers, NEW p \in Procs, NEW k \in Keys, Get(w, p, k) PROVE TempInv'
    BY <1>10, StoreAssumption
    DEF Get, disk, ghosts, CoreInv, TypeOK, ProcType, DiskType, LockInv, TempInv, Locking,
        Opening, Archiving, WriterType, IdleWriter
  <1>11. ASSUME NEW w \in Writers, PutCheck(w) PROVE TempInv'
    BY <1>11, StoreAssumption
    DEF PutCheck, ghosts, CoreInv, TypeOK, ProcType, DiskType, LockInv, TempInv, Locking,
        Opening, Archiving, WriterType, IdleWriter
  <1>12. ASSUME NEW w \in Writers, PutRefused(w) PROVE TempInv'
    BY <1>12, StoreAssumption
    DEF PutRefused, Return, disk, ghosts, CoreInv, TypeOK, ProcType, DiskType, LockInv,
        TempInv, Locking, Opening, Archiving, WriterType, IdleWriter
  <1>13. ASSUME NEW w \in Writers, PutRename(w) PROVE TempInv'
    BY <1>13, StoreAssumption
    DEF PutRename, Change, Return, CoreInv, TypeOK, ProcType, DiskType, LockInv, TempInv,
        Locking, Opening, Archiving, WriterType, IdleWriter
  <1>14. ASSUME NEW w \in Writers, PutFails(w) PROVE TempInv'
    BY <1>14, StoreAssumption
    DEF PutFails, Return, ghosts, CoreInv, TypeOK, ProcType, DiskType, LockInv, TempInv,
        Locking, Opening, Archiving, WriterType, IdleWriter
  <1>15. ASSUME NEW w \in Writers, Delete(w) PROVE TempInv'
    BY <1>15, StoreAssumption
    DEF Delete, Change, CoreInv, TypeOK, ProcType, DiskType, LockInv, TempInv, Locking,
        Opening, Archiving, WriterType, IdleWriter
  <1>16. ASSUME NEW w \in Writers, Sync(w) PROVE TempInv'
    BY <1>16, StoreAssumption
    DEF Sync, Return, CoreInv, TypeOK, ProcType, DiskType, LockInv, TempInv, Locking, Opening,
        Archiving, WriterType, IdleWriter
  <1>17. ASSUME NEW w \in Writers, SyncFails(w) PROVE TempInv'
    BY <1>17, StoreAssumption
    DEF SyncFails, Return, disk, ghosts, CoreInv, TypeOK, ProcType, DiskType, LockInv, TempInv,
        Locking, Opening, Archiving, WriterType, IdleWriter
  <1>18. ASSUME NEW p \in Procs, NEW s \in Slots, Backup(p, s) PROVE TempInv'
    BY <1>18, StoreAssumption
    DEF Backup, ArchiveBegin, disk, ghosts, CoreInv, TypeOK, ProcType, DiskType, LockInv,
        TempInv, Locking, Opening, Archiving, WriterType, IdleWriter
  <1>19. ASSUME NEW p \in Procs, NEW from \in Slots, NEW s \in Slots, RestoreBegin(p, from, s) PROVE TempInv'
    BY <1>19, StoreAssumption
    DEF RestoreBegin, ArchiveBegin, disk, ghosts, CoreInv, TypeOK, ProcType, DiskType, LockInv,
        TempInv, Locking, Opening, Archiving, WriterType, IdleWriter
  <1>20. ASSUME NEW p \in Procs, ArchiveDone(p) PROVE TempInv'
    BY <1>20, StoreAssumption
    DEF ArchiveDone, disk, ghosts, CoreInv, TypeOK, ProcType, DiskType, LockInv, TempInv,
        Locking, Opening, Archiving, WriterType, IdleWriter
  <1>21. ASSUME NEW p \in Procs, ArchiveFails(p) PROVE TempInv'
    BY <1>21, StoreAssumption
    DEF ArchiveFails, disk, ghosts, CoreInv, TypeOK, ProcType, DiskType, LockInv, TempInv,
        Locking, Opening, Archiving, WriterType, IdleWriter
  <1>22. ASSUME NEW p \in Procs, RestoreEnd(p) PROVE TempInv'
    BY <1>22, StoreAssumption
    DEF RestoreEnd, disk, CoreInv, TypeOK, ProcType, DiskType, LockInv, TempInv, Locking,
        Opening, Archiving, WriterType, IdleWriter
  <1>23. ASSUME NEW p \in Procs, RestoreFails(p) PROVE TempInv'
    BY <1>23, StoreAssumption
    DEF RestoreFails, disk, ghosts, CoreInv, TypeOK, ProcType, DiskType, LockInv, TempInv,
        Locking, Opening, Archiving, WriterType, IdleWriter
  <1>24. ASSUME NEW p \in Procs, Kill(p) PROVE TempInv'
    BY <1>24, StoreAssumption
    DEF Kill, Gone, CoreInv, TypeOK, ProcType, DiskType, LockInv, TempInv, Locking, Opening,
        Archiving, WriterType, IdleWriter
  <1>25. ASSUME PowerCut PROVE TempInv'
    BY <1>25, StoreAssumption
    DEF PowerCut, Gone, CoreInv, TypeOK, ProcType, DiskType, LockInv, TempInv, Locking,
        Opening, Archiving, WriterType, IdleWriter
  <1>26. QED
    BY ZenonT(60), <1>1, <1>2, <1>3, <1>4, <1>5, <1>6, <1>7, <1>8, <1>9, <1>10, <1>11, <1>12, <1>13, <1>14,
       <1>15, <1>16, <1>17, <1>18, <1>19, <1>20, <1>21, <1>22, <1>23, <1>24, <1>25
    DEF Next, OpenSteps, RecordSteps, ArchiveSteps, vars, MigrateApply, ArchiveRecord,
        RestoreTruncate, RestoreWrite, Change, archives, disk, ghosts

\* What a power cut may leave of a record lies between the last change that was
\* acknowledged and the last one made: writeAtomic returns after fsyncDir.
LEMMA NumberInvNext == CoreInv /\ NumberInv /\ [Next]_vars => NumberInv'
  <1> SUFFICES ASSUME CoreInv /\ NumberInv, [Next]_vars PROVE NumberInv'
    OBVIOUS
  <1>1. CASE UNCHANGED <<restored, vol, may, acked, seq>>
    BY <1>1 DEF NumberInv
  <1>2. ASSUME NEW w \in Writers, PutRename(w) PROVE NumberInv'
    BY <1>2
    DEF PutRename, Change, Return, CoreInv, TypeOK, ProcType, DiskType, GhostType, LockInv,
        ArchiveInv, NumberInv, WriterType, Content, Record, Absent
  <1>3. ASSUME NEW w \in Writers, Delete(w) PROVE NumberInv'
    BY <1>3
    DEF Delete, Change, CoreInv, TypeOK, ProcType, DiskType, GhostType, LockInv, ArchiveInv,
        NumberInv, WriterType, Content, Record, Absent
  <1>4. ASSUME NEW w \in Writers, Sync(w) PROVE NumberInv'
    BY <1>4
    DEF Sync, Return, CoreInv, TypeOK, ProcType, DiskType, GhostType, LockInv, ArchiveInv,
        NumberInv, WriterType, Content, Record, Absent
  <1>5. ASSUME NEW p \in Procs, NEW f \in {VersionFile} \cup Keys, RestoreTruncate(p, f) PROVE NumberInv'
    BY <1>5
    DEF RestoreTruncate, Change, CoreInv, TypeOK, ProcType, DiskType, GhostType, LockInv,
        ArchiveInv, NumberInv, WriterType, Content, Record, Absent
  <1>6. ASSUME NEW p \in Procs, NEW f \in {VersionFile} \cup Keys, RestoreWrite(p, f) PROVE NumberInv'
    BY <1>6
    DEF RestoreWrite, Change, CoreInv, TypeOK, ProcType, DiskType, GhostType, LockInv,
        ArchiveInv, NumberInv, WriterType, Content, Record, Absent
  <1>7. ASSUME PowerCut PROVE NumberInv'
    BY <1>7
    DEF PowerCut, Gone, CoreInv, TypeOK, ProcType, DiskType, GhostType, LockInv, ArchiveInv,
        NumberInv, WriterType, Content, Record, Absent
  <1>8. ASSUME NEW p \in Procs, OpenSteps(p) PROVE UNCHANGED <<restored, vol, may, acked, seq>>
    BY <1>8
    DEF OpenSteps, OpenLock, SweepTempFiles, ReadVersion, OpenCurrent, MigrateBackup,
        MigrateApply, MigrateStamp, OpenFails, CloseStore, Opened, ArchiveBegin, disk,
        archives, ghosts
  <1>9. QED
    BY ZenonT(60), <1>1, <1>2, <1>3, <1>4, <1>5, <1>6, <1>7, <1>8
    DEF Next, RecordSteps, ArchiveSteps, vars, Get, PutCheck, PutRefused, PutFails, SyncFails,
        Backup, RestoreBegin, ArchiveRecord, ArchiveDone, ArchiveFails, RestoreEnd,
        RestoreFails, Kill, Return, ArchiveBegin, Gone, archives, disk, ghosts

\* Put compares revisions under the entity lock, and a revision only grows until
\* the record is deleted, so what Put replaces is what its caller read.
LEMMA WriteInvNext == CoreInv /\ WriteInv /\ [Next]_vars => WriteInv'
  <1> SUFFICES ASSUME CoreInv /\ WriteInv, [Next]_vars PROVE WriteInv'
    OBVIOUS
  <1>1. CASE UNCHANGED <<restored, wr, deletes, vol>>
    BY <1>1 DEF WriteInv, ReadInv
  <1>2. ASSUME NEW w \in Writers, NEW p \in Procs, NEW k \in Keys, Get(w, p, k) PROVE WriteInv'
    BY <1>2
    DEF Get, disk, ghosts, CoreInv, TypeOK, ProcType, DiskType, GhostType, LockInv, ArchiveInv,
        WriteInv, ReadInv, WriterType, Content, Record, Absent, IdleWriter, Busy, Locking
  <1>3. ASSUME NEW w \in Writers, PutCheck(w) PROVE WriteInv'
    BY <1>3
    DEF PutCheck, ghosts, CoreInv, TypeOK, ProcType, DiskType, GhostType, LockInv, ArchiveInv,
        WriteInv, ReadInv, WriterType, Content, Record, Absent, IdleWriter, Busy, Locking
  <1>4. ASSUME NEW w \in Writers, PutRefused(w) PROVE WriteInv'
    BY <1>4
    DEF PutRefused, Return, disk, ghosts, CoreInv, TypeOK, ProcType, DiskType, GhostType,
        LockInv, ArchiveInv, WriteInv, ReadInv, WriterType, Content, Record, Absent,
        IdleWriter, Busy, Locking
  <1>5. ASSUME NEW w \in Writers, PutRename(w) PROVE WriteInv'
    BY <1>5
    DEF PutRename, Change, Return, CoreInv, TypeOK, ProcType, DiskType, GhostType, LockInv,
        ArchiveInv, WriteInv, ReadInv, WriterType, Content, Record, Absent, IdleWriter, Busy,
        Locking
  <1>6. ASSUME NEW w \in Writers, PutFails(w) PROVE WriteInv'
    BY <1>6
    DEF PutFails, Return, ghosts, CoreInv, TypeOK, ProcType, DiskType, GhostType, LockInv,
        ArchiveInv, WriteInv, ReadInv, WriterType, Content, Record, Absent, IdleWriter, Busy,
        Locking
  <1>7. ASSUME NEW w \in Writers, Delete(w) PROVE WriteInv'
    BY <1>7
    DEF Delete, Change, CoreInv, TypeOK, ProcType, DiskType, GhostType, LockInv, ArchiveInv,
        WriteInv, ReadInv, WriterType, Content, Record, Absent, IdleWriter, Busy, Locking
  <1>8. ASSUME NEW w \in Writers, Sync(w) PROVE WriteInv'
    BY <1>8
    DEF Sync, Return, CoreInv, TypeOK, ProcType, DiskType, GhostType, LockInv, ArchiveInv,
        WriteInv, ReadInv, WriterType, Content, Record, Absent, IdleWriter, Busy, Locking
  <1>9. ASSUME NEW w \in Writers, SyncFails(w) PROVE WriteInv'
    BY <1>9
    DEF SyncFails, Return, disk, ghosts, CoreInv, TypeOK, ProcType, DiskType, GhostType,
        LockInv, ArchiveInv, WriteInv, ReadInv, WriterType, Content, Record, Absent,
        IdleWriter, Busy, Locking
  <1>10. ASSUME NEW p \in Procs, NEW f \in {VersionFile} \cup Keys, RestoreTruncate(p, f) PROVE WriteInv'
    BY <1>10
    DEF RestoreTruncate, Change, CoreInv, TypeOK, ProcType, DiskType, GhostType, LockInv,
        ArchiveInv, WriteInv, ReadInv, WriterType, Content, Record, Absent, IdleWriter, Busy,
        Locking
  <1>11. ASSUME NEW p \in Procs, NEW f \in {VersionFile} \cup Keys, RestoreWrite(p, f) PROVE WriteInv'
    BY <1>11
    DEF RestoreWrite, Change, CoreInv, TypeOK, ProcType, DiskType, GhostType, LockInv,
        ArchiveInv, WriteInv, ReadInv, WriterType, Content, Record, Absent, IdleWriter, Busy,
        Locking
  <1>12. ASSUME NEW p \in Procs, Kill(p) PROVE WriteInv'
    BY SMTT(30), <1>12
    DEF Kill, Gone, CoreInv, TypeOK, ProcType, DiskType, GhostType, LockInv, ArchiveInv,
        WriteInv, ReadInv, WriterType, Content, Record, Absent, IdleWriter, Busy, Locking
  <1>13. ASSUME PowerCut PROVE WriteInv'
    BY <1>13
    DEF PowerCut, Gone, CoreInv, TypeOK, ProcType, DiskType, GhostType, LockInv, ArchiveInv,
        WriteInv, ReadInv, WriterType, Content, Record, Absent, IdleWriter, Busy, Locking
  <1>14. QED
    BY ZenonT(60), <1>1, <1>2, <1>3, <1>4, <1>5, <1>6, <1>7, <1>8, <1>9, <1>10, <1>11, <1>12, <1>13
    DEF Next, OpenSteps, RecordSteps, ArchiveSteps, vars, OpenLock, SweepTempFiles,
        ReadVersion, OpenCurrent, MigrateBackup, MigrateApply, MigrateStamp, OpenFails,
        CloseStore, Backup, RestoreBegin, ArchiveRecord, ArchiveDone, ArchiveFails, RestoreEnd,
        RestoreFails, Opened, ArchiveBegin, archives, disk, ghosts

\* run applies the migrations before it stamps VERSION, and can be killed between
\* any two of those steps and run again.
LEMMA MigrateInvNext == CoreInv /\ NumberInv /\ MigrateInv /\ [Next]_vars => MigrateInv'
  <1> SUFFICES ASSUME CoreInv /\ NumberInv /\ MigrateInv, [Next]_vars PROVE MigrateInv'
    OBVIOUS
  <1>1. CASE UNCHANGED <<restored, version, layout, may, fresh, proc, at>>
    BY <1>1 DEF MigrateInv, VersionHonest
  <1>2. ASSUME NEW p \in Procs, OpenLock(p) PROVE MigrateInv'
    BY <1>2, StoreAssumption
    DEF OpenLock, disk, ghosts, CoreInv, TypeOK, ProcType, DiskType, LockInv, ArchiveInv,
        NumberInv, MigrateInv, VersionHonest, Missing, Unreadable, Locking, Opening, Archiving
  <1>3. ASSUME NEW p \in Procs, SweepTempFiles(p) PROVE MigrateInv'
    BY <1>3, StoreAssumption
    DEF SweepTempFiles, ghosts, CoreInv, TypeOK, ProcType, DiskType, LockInv, ArchiveInv,
        NumberInv, MigrateInv, VersionHonest, Missing, Unreadable, Locking, Opening, Archiving
  <1>4. ASSUME NEW p \in Procs, ReadVersion(p) PROVE MigrateInv'
    <2> SUFFICES ASSUME ~restored PROVE MigrateInv'
      BY <1>4 DEF ReadVersion, ghosts, MigrateInv
    <2>1. version' \in 1 .. Target /\ (version # Missing => version' = version)
      BY <1>4, StoreAssumption DEF ReadVersion, CoreInv, TypeOK, DiskType, Missing, Unreadable
    <2>2. CASE version # Missing
      BY <1>4, <2>1, <2>2 DEF ReadVersion, ghosts, CoreInv, TypeOK, ProcType, LockInv, Locking, Opening, MigrateInv, VersionHonest
    <2>3. CASE version = Missing
      <3>1. ~fresh => ~IsEmpty
        BY <2>3, StoreAssumption DEF MigrateInv, NumberInv, IsEmpty
      <3>2. ~fresh => version' = 1
        BY <1>4, <2>3, <3>1 DEF ReadVersion
      <3>3. VersionHonest'
        BY <1>4, <3>2 DEF ReadVersion, ghosts, VersionHonest
      <3>4. \A q \in Procs : q # p => proc'[q] \notin Locking
        BY <1>4 DEF ReadVersion, CoreInv, TypeOK, ProcType, LockInv, Locking
      <3>5. QED
        BY <1>4, <2>1, <3>3, <3>4, StoreAssumption DEF ReadVersion, CoreInv, TypeOK, ProcType, Locking, Opening, MigrateInv, Missing
    <2>4. QED BY <2>2, <2>3
  <1>5. ASSUME NEW p \in Procs, OpenCurrent(p) PROVE MigrateInv'
    BY <1>5, StoreAssumption
    DEF OpenCurrent, Opened, ghosts, CoreInv, TypeOK, ProcType, DiskType, LockInv, ArchiveInv,
        NumberInv, MigrateInv, VersionHonest, Missing, Unreadable, Locking, Opening, Archiving
  <1>6. ASSUME NEW p \in Procs, NEW s \in Slots, MigrateBackup(p, s) PROVE MigrateInv'
    BY <1>6, StoreAssumption
    DEF MigrateBackup, ArchiveBegin, disk, ghosts, CoreInv, TypeOK, ProcType, DiskType,
        LockInv, ArchiveInv, NumberInv, MigrateInv, VersionHonest, Missing, Unreadable,
        Locking, Opening, Archiving
  <1>7. ASSUME NEW p \in Procs, MigrateApply(p) PROVE MigrateInv'
    <2>1. at[p] \in 1 .. Target - 1 /\ at'[p] = at[p] + 1
      BY <1>7, StoreAssumption DEF MigrateApply, CoreInv, TypeOK, ProcType, LockInv, Opening
    <2>2. 2 .. at[p] + 1 = 2 .. at[p] \cup {at[p] + 1}
      BY <2>1
    <2>3. \A q \in Procs : q # p => proc[q] \notin Locking
      BY <1>7 DEF MigrateApply, CoreInv, LockInv, Locking, Opening
    <2>4. ~restored => version \in 1 .. Target - 1 /\ (~fresh => 2 .. at[p] \subseteq layout)
      BY <1>7 DEF MigrateApply, MigrateInv
    <2>5. QED
      BY <1>7, <2>1, <2>2, <2>3, <2>4, StoreAssumption DEF MigrateApply, ghosts, CoreInv, Locking, Opening, MigrateInv, VersionHonest, Missing
  <1>8. ASSUME NEW p \in Procs, MigrateStamp(p) PROVE MigrateInv'
    BY <1>8, StoreAssumption
    DEF MigrateStamp, ghosts, CoreInv, TypeOK, ProcType, DiskType, LockInv, ArchiveInv,
        NumberInv, MigrateInv, VersionHonest, Missing, Unreadable, Locking, Opening, Archiving
  <1>9. ASSUME NEW p \in Procs, OpenFails(p) PROVE MigrateInv'
    BY <1>9, StoreAssumption
    DEF OpenFails, disk, ghosts, CoreInv, TypeOK, ProcType, DiskType, LockInv, ArchiveInv,
        NumberInv, MigrateInv, VersionHonest, Missing, Unreadable, Locking, Opening, Archiving
  <1>10. ASSUME NEW p \in Procs, CloseStore(p) PROVE MigrateInv'
    BY <1>10, StoreAssumption
    DEF CloseStore, disk, ghosts, CoreInv, TypeOK, ProcType, DiskType, LockInv, ArchiveInv,
        NumberInv, MigrateInv, VersionHonest, Missing, Unreadable, Locking, Opening, Archiving
  <1>11. ASSUME NEW w \in Writers, PutRename(w) PROVE MigrateInv'
    BY <1>11, StoreAssumption
    DEF PutRename, Change, Return, CoreInv, TypeOK, ProcType, DiskType, LockInv, ArchiveInv,
        NumberInv, MigrateInv, VersionHonest, Missing, Unreadable, Locking, Opening, Archiving
  <1>12. ASSUME NEW w \in Writers, Delete(w) PROVE MigrateInv'
    BY <1>12, StoreAssumption
    DEF Delete, Change, CoreInv, TypeOK, ProcType, DiskType, LockInv, ArchiveInv, NumberInv,
        MigrateInv, VersionHonest, Missing, Unreadable, Locking, Opening, Archiving
  <1>13. ASSUME NEW w \in Writers, Sync(w) PROVE MigrateInv'
    BY <1>13, StoreAssumption
    DEF Sync, Return, CoreInv, TypeOK, ProcType, DiskType, LockInv, ArchiveInv, NumberInv,
        MigrateInv, VersionHonest, Missing, Unreadable, Locking, Opening, Archiving
  <1>14. ASSUME NEW p \in Procs, NEW s \in Slots, Backup(p, s) PROVE MigrateInv'
    BY <1>14, StoreAssumption
    DEF Backup, ArchiveBegin, disk, ghosts, CoreInv, TypeOK, ProcType, DiskType, LockInv,
        ArchiveInv, NumberInv, MigrateInv, VersionHonest, Missing, Unreadable, Locking,
        Opening, Archiving
  <1>15. ASSUME NEW p \in Procs, NEW from \in Slots, NEW s \in Slots, RestoreBegin(p, from, s) PROVE MigrateInv'
    BY <1>15, StoreAssumption
    DEF RestoreBegin, ArchiveBegin, disk, ghosts, CoreInv, TypeOK, ProcType, DiskType, LockInv,
        ArchiveInv, NumberInv, MigrateInv, VersionHonest, Missing, Unreadable, Locking,
        Opening, Archiving
  <1>16. ASSUME NEW p \in Procs, ArchiveDone(p) PROVE MigrateInv'
    BY <1>16, StoreAssumption
    DEF ArchiveDone, disk, ghosts, CoreInv, TypeOK, ProcType, DiskType, LockInv, ArchiveInv,
        NumberInv, MigrateInv, VersionHonest, Missing, Unreadable, Locking, Opening, Archiving
  <1>17. ASSUME NEW p \in Procs, ArchiveFails(p) PROVE MigrateInv'
    BY <1>17, StoreAssumption
    DEF ArchiveFails, disk, ghosts, CoreInv, TypeOK, ProcType, DiskType, LockInv, ArchiveInv,
        NumberInv, MigrateInv, VersionHonest, Missing, Unreadable, Locking, Opening, Archiving
  <1>18. ASSUME NEW p \in Procs, RestoreEnd(p) PROVE MigrateInv'
    BY <1>18, StoreAssumption
    DEF RestoreEnd, disk, CoreInv, TypeOK, ProcType, DiskType, LockInv, ArchiveInv, NumberInv,
        MigrateInv, VersionHonest, Missing, Unreadable, Locking, Opening, Archiving
  <1>19. ASSUME NEW p \in Procs, RestoreFails(p) PROVE MigrateInv'
    BY <1>19, StoreAssumption
    DEF RestoreFails, disk, ghosts, CoreInv, TypeOK, ProcType, DiskType, LockInv, ArchiveInv,
        NumberInv, MigrateInv, VersionHonest, Missing, Unreadable, Locking, Opening, Archiving
  <1>20. ASSUME NEW p \in Procs, NEW f \in {VersionFile} \cup Keys, RestoreTruncate(p, f) PROVE MigrateInv'
    BY <1>20, StoreAssumption
    DEF RestoreTruncate, Change, CoreInv, TypeOK, ProcType, DiskType, LockInv, ArchiveInv,
        NumberInv, MigrateInv, VersionHonest, Missing, Unreadable, Locking, Opening, Archiving
  <1>21. ASSUME NEW p \in Procs, NEW f \in {VersionFile} \cup Keys, RestoreWrite(p, f) PROVE MigrateInv'
    BY <1>21, StoreAssumption
    DEF RestoreWrite, Change, CoreInv, TypeOK, ProcType, DiskType, LockInv, ArchiveInv,
        NumberInv, MigrateInv, VersionHonest, Missing, Unreadable, Locking, Opening, Archiving
  <1>22. ASSUME NEW p \in Procs, Kill(p) PROVE MigrateInv'
    BY <1>22, StoreAssumption
    DEF Kill, Gone, CoreInv, TypeOK, ProcType, DiskType, LockInv, ArchiveInv, NumberInv,
        MigrateInv, VersionHonest, Missing, Unreadable, Locking, Opening, Archiving
  <1>23. ASSUME PowerCut PROVE MigrateInv'
    BY <1>23, StoreAssumption
    DEF PowerCut, Gone, CoreInv, TypeOK, ProcType, DiskType, LockInv, ArchiveInv, NumberInv,
        MigrateInv, VersionHonest, Missing, Unreadable, Locking, Opening, Archiving
  <1>24. QED
    BY <1>1, <1>2, <1>3, <1>4, <1>5, <1>6, <1>7, <1>8, <1>9, <1>10, <1>11, <1>12, <1>13, <1>14,
       <1>15, <1>16, <1>17, <1>18, <1>19, <1>20, <1>21, <1>22, <1>23
    DEF Next, OpenSteps, RecordSteps, ArchiveSteps, vars, Get, PutCheck, PutRefused, PutFails,
        SyncFails, ArchiveRecord, Return, archives, disk, ghosts

\* run closes the archive of the old directory before the first migration writes.
LEMMA BackupInvNext == CoreInv /\ MigrateInv /\ BackupInv /\ [Next]_vars => BackupInv'
  <1> SUFFICES ASSUME CoreInv /\ MigrateInv /\ BackupInv, [Next]_vars PROVE BackupInv'
    OBVIOUS
  <1>1. CASE UNCHANGED <<restored, version, layout, arch, out, proc>>
    BY <1>1 DEF BackupInv, BackupFirst, Saved
  <1>2. ASSUME NEW p \in Procs, OpenLock(p) PROVE BackupInv'
    BY <1>2, StoreAssumption
    DEF OpenLock, disk, archives, ghosts, CoreInv, TypeOK, ProcType, ArchType, DiskType,
        LockInv, ArchiveInv, MigrateInv, BackupInv, BackupFirst, Saved, Missing, Locking,
        Opening, Archiving
  <1>3. ASSUME NEW p \in Procs, SweepTempFiles(p) PROVE BackupInv'
    BY <1>3, StoreAssumption
    DEF SweepTempFiles, archives, ghosts, CoreInv, TypeOK, ProcType, ArchType, DiskType,
        LockInv, ArchiveInv, MigrateInv, BackupInv, BackupFirst, Saved, Missing, Locking,
        Opening, Archiving
  <1>4. ASSUME NEW p \in Procs, ReadVersion(p) PROVE BackupInv'
    <2> SUFFICES ASSUME ~restored PROVE BackupInv'
      BY <1>4 DEF ReadVersion, ghosts, BackupInv
    <2>1. version' \in 1 .. Target /\ (version # Missing => version' = version)
      BY <1>4, StoreAssumption DEF ReadVersion, CoreInv, TypeOK, DiskType, Missing, Unreadable
    <2>2. \A q \in Procs : proc'[q] \notin {"premigration", "migrating"}
      BY <1>4 DEF ReadVersion, CoreInv, TypeOK, ProcType, LockInv, Locking, Opening
    <2>3. BackupFirst'
      <3>1. CASE version # Missing
        BY <1>4, <2>1, <3>1 DEF ReadVersion, archives, ghosts, BackupInv, BackupFirst
      <3>2. CASE version = Missing
        BY <1>4, <3>2 DEF ReadVersion, MigrateInv, BackupFirst
      <3>3. QED BY <3>1, <3>2
    <2>4. QED BY <2>2, <2>3 DEF BackupInv
  <1>5. ASSUME NEW p \in Procs, OpenCurrent(p) PROVE BackupInv'
    BY <1>5, StoreAssumption
    DEF OpenCurrent, Opened, archives, ghosts, CoreInv, TypeOK, ProcType, ArchType, DiskType,
        LockInv, ArchiveInv, MigrateInv, BackupInv, BackupFirst, Saved, Missing, Locking,
        Opening, Archiving
  <1>6. ASSUME NEW p \in Procs, NEW s \in Slots, MigrateBackup(p, s) PROVE BackupInv'
    BY <1>6, StoreAssumption
    DEF MigrateBackup, ArchiveBegin, disk, ghosts, CoreInv, TypeOK, ProcType, ArchType,
        DiskType, LockInv, ArchiveInv, MigrateInv, BackupInv, BackupFirst, Saved, Missing,
        Locking, Opening, Archiving
  <1>7. ASSUME NEW p \in Procs, MigrateApply(p) PROVE BackupInv'
    BY <1>7, StoreAssumption
    DEF MigrateApply, archives, ghosts, CoreInv, TypeOK, ProcType, ArchType, DiskType, LockInv,
        ArchiveInv, MigrateInv, BackupInv, BackupFirst, Saved, Missing, Locking, Opening,
        Archiving
  <1>8. ASSUME NEW p \in Procs, MigrateStamp(p) PROVE BackupInv'
    BY <1>8, StoreAssumption
    DEF MigrateStamp, archives, ghosts, CoreInv, TypeOK, ProcType, ArchType, DiskType, LockInv,
        ArchiveInv, MigrateInv, BackupInv, BackupFirst, Saved, Missing, Locking, Opening,
        Archiving
  <1>9. ASSUME NEW p \in Procs, OpenFails(p) PROVE BackupInv'
    BY <1>9, StoreAssumption
    DEF OpenFails, disk, archives, ghosts, CoreInv, TypeOK, ProcType, ArchType, DiskType,
        LockInv, ArchiveInv, MigrateInv, BackupInv, BackupFirst, Saved, Missing, Locking,
        Opening, Archiving
  <1>10. ASSUME NEW p \in Procs, CloseStore(p) PROVE BackupInv'
    BY <1>10, StoreAssumption
    DEF CloseStore, disk, archives, ghosts, CoreInv, TypeOK, ProcType, ArchType, DiskType,
        LockInv, ArchiveInv, MigrateInv, BackupInv, BackupFirst, Saved, Missing, Locking,
        Opening, Archiving
  <1>11. ASSUME NEW p \in Procs, NEW s \in Slots, Backup(p, s) PROVE BackupInv'
    BY <1>11, StoreAssumption
    DEF Backup, ArchiveBegin, disk, ghosts, CoreInv, TypeOK, ProcType, ArchType, DiskType,
        LockInv, ArchiveInv, MigrateInv, BackupInv, BackupFirst, Saved, Missing, Locking,
        Opening, Archiving
  <1>12. ASSUME NEW p \in Procs, NEW from \in Slots, NEW s \in Slots, RestoreBegin(p, from, s) PROVE BackupInv'
    <2>1. /\ UNCHANGED <<version, layout, restored>> /\ arch[s].pc = "none"
          /\ proc'[p] = "safety" /\ out'[p] = s
          /\ \A q \in Procs \ {p} : proc'[q] = proc[q] /\ out'[q] = out[q]
          /\ \A x \in Slots \ {s} : arch'[x] = arch[x]
      BY <1>12 DEF RestoreBegin, ArchiveBegin, disk, ghosts, CoreInv, TypeOK, ProcType, ArchType
    <2>2. \A x \in Slots : Saved(x) => Saved(x)'
      BY <2>1 DEF Saved
    <2>3. ASSUME NEW q \in Procs, proc'[q] = "premigration"
          PROVE  proc[q] = "premigration" /\ arch'[out'[q]] = arch[out[q]]
      BY <2>1, <2>3 DEF CoreInv, ArchiveInv, Archiving, TypeOK, ArchType
    <2>4. QED BY <2>1, <2>2, <2>3 DEF BackupInv, BackupFirst, Saved
  <1>13. ASSUME NEW p \in Procs, NEW k \in Keys, ArchiveRecord(p, k) PROVE BackupInv'
    BY <1>13, StoreAssumption
    DEF ArchiveRecord, disk, ghosts, CoreInv, TypeOK, ProcType, ArchType, DiskType, LockInv,
        ArchiveInv, MigrateInv, BackupInv, BackupFirst, Saved, Missing, Locking, Opening,
        Archiving
  <1>14. ASSUME NEW p \in Procs, ArchiveDone(p) PROVE BackupInv'
    <2> DEFINE s == out[p]
    <2>1. proc[p] \in Archiving /\ s \in Slots /\ arch[s].pc = "open"
      BY <1>14 DEF ArchiveDone, CoreInv, ArchiveInv, TypeOK, ArchType
    <2>2. /\ UNCHANGED <<version, layout, restored>>
          /\ arch'[s].pc = "done" /\ arch'[s].version = arch[s].version
          /\ arch'[s].layout = arch[s].layout
          /\ \A x \in Slots \ {s} : arch'[x] = arch[x]
      BY <1>14, <2>1 DEF ArchiveDone, disk, ghosts, CoreInv, TypeOK, ArchType, ArchiveType
    <2>3. /\ \A q \in Procs \ {p} : proc'[q] = proc[q] /\ out'[q] = out[q]
          /\ proc'[p] # "premigration"
          /\ proc'[p] = "migrating" => proc[p] = "premigration"
      BY <1>14, <2>1 DEF ArchiveDone, Archiving, CoreInv, TypeOK, ProcType, ArchType
    <2>4. \A x \in Slots : Saved(x) => Saved(x)'
      BY <2>1, <2>2 DEF Saved
    <2>5. ASSUME NEW q \in Procs, proc'[q] = "premigration"
          PROVE  proc[q] = "premigration" /\ arch'[out'[q]] = arch[out[q]]
      BY <2>1, <2>2, <2>3, <2>5 DEF CoreInv, ArchiveInv, Archiving, TypeOK, ArchType
    <2> SUFFICES ASSUME ~restored PROVE BackupInv'
      BY <2>2 DEF BackupInv
    <2>6. BackupFirst'
      BY <2>2, <2>4 DEF BackupInv, BackupFirst, Saved
    <2>7. ASSUME proc[p] = "premigration" PROVE \E x \in Slots : Saved(x)'
      <3>1. arch[s].version = version /\ arch[s].layout = layout /\ version \in 1 .. Target - 1
        BY <2>7 DEF BackupInv, MigrateInv
      <3>2. CASE layout = {}
        BY <2>1, <2>2, <3>1, <3>2 DEF Saved
      <3>3. CASE layout # {}
        BY <2>4, <3>1, <3>3 DEF BackupInv, BackupFirst, Saved
      <3>4. QED BY <3>2, <3>3
    <2>8. QED BY <2>2, <2>3, <2>4, <2>5, <2>6, <2>7 DEF BackupInv
  <1>15. ASSUME NEW p \in Procs, ArchiveFails(p) PROVE BackupInv'
    BY <1>15, StoreAssumption
    DEF ArchiveFails, disk, ghosts, CoreInv, TypeOK, ProcType, ArchType, DiskType, LockInv,
        ArchiveInv, MigrateInv, BackupInv, BackupFirst, Saved, Missing, Locking, Opening,
        Archiving
  <1>16. ASSUME NEW p \in Procs, RestoreEnd(p) PROVE BackupInv'
    BY <1>16, StoreAssumption
    DEF RestoreEnd, disk, CoreInv, TypeOK, ProcType, ArchType, DiskType, LockInv, ArchiveInv,
        MigrateInv, BackupInv, BackupFirst, Saved, Missing, Locking, Opening, Archiving
  <1>17. ASSUME NEW p \in Procs, RestoreFails(p) PROVE BackupInv'
    BY <1>17, StoreAssumption
    DEF RestoreFails, disk, ghosts, CoreInv, TypeOK, ProcType, ArchType, DiskType, LockInv,
        ArchiveInv, MigrateInv, BackupInv, BackupFirst, Saved, Missing, Locking, Opening,
        Archiving
  <1>18. ASSUME NEW p \in Procs, NEW f \in {VersionFile} \cup Keys, RestoreTruncate(p, f) PROVE BackupInv'
    BY <1>18, StoreAssumption
    DEF RestoreTruncate, Change, CoreInv, TypeOK, ProcType, ArchType, DiskType, LockInv,
        ArchiveInv, MigrateInv, BackupInv, BackupFirst, Saved, Missing, Locking, Opening,
        Archiving
  <1>19. ASSUME NEW p \in Procs, NEW f \in {VersionFile} \cup Keys, RestoreWrite(p, f) PROVE BackupInv'
    BY <1>19, StoreAssumption
    DEF RestoreWrite, Change, CoreInv, TypeOK, ProcType, ArchType, DiskType, LockInv,
        ArchiveInv, MigrateInv, BackupInv, BackupFirst, Saved, Missing, Locking, Opening,
        Archiving
  <1>20. ASSUME NEW p \in Procs, Kill(p) PROVE BackupInv'
    BY <1>20, StoreAssumption
    DEF Kill, Gone, CoreInv, TypeOK, ProcType, ArchType, DiskType, LockInv, ArchiveInv,
        MigrateInv, BackupInv, BackupFirst, Saved, Missing, Locking, Opening, Archiving
  <1>21. ASSUME PowerCut PROVE BackupInv'
    BY <1>21, StoreAssumption
    DEF PowerCut, Gone, CoreInv, TypeOK, ProcType, ArchType, DiskType, LockInv, ArchiveInv,
        MigrateInv, BackupInv, BackupFirst, Saved, Missing, Locking, Opening, Archiving
  <1>22. QED
    BY <1>1, <1>2, <1>3, <1>4, <1>5, <1>6, <1>7, <1>8, <1>9, <1>10, <1>11, <1>12, <1>13, <1>14,
       <1>15, <1>16, <1>17, <1>18, <1>19, <1>20, <1>21
    DEF Next, OpenSteps, RecordSteps, ArchiveSteps, vars, Get, PutCheck, PutRefused, PutRename,
        PutFails, Delete, Sync, SyncFails, Return, Change, archives, disk, ghosts

\* The inductive invariant.
StoreInv ==
    CoreInv /\ TempInv /\ NumberInv /\ WriteInv /\ MigrateInv /\ BackupInv

\* A directory nobody has opened, new or of an earlier release, satisfies the
\* invariant.
LEMMA StoreInit == Init => StoreInv
  <1> SUFFICES ASSUME Init PROVE StoreInv
    OBVIOUS
  <1>1. NoFile \in Content /\ Record(1, 0) \in Content
    BY DEF NoFile, Absent, Record, Content
  <1>2. DiskType
    BY <1>1, StoreAssumption DEF Init, DiskType, Missing
  <1>3. ProcType
    BY StoreAssumption DEF Init, ProcType, Phases, WriterType, IdleWriter
  <1>4. ArchType
    BY ArchiveTypes DEF Init, ArchType
  <1>5. GhostType
    <2>1. fresh \in BOOLEAN
      BY DEF Init
    <2>2. restored \in BOOLEAN /\ half \in BOOLEAN
      BY Zenon DEF Init
    <2>3. crashes \in 0 .. MaxCrashes
      BY StoreAssumption DEF Init
    <2>4. QED
      BY <2>1, <2>2, <2>3 DEF Init, GhostType
  <1>6. ArchiveInv
    BY DEF Init, ArchiveInv, Archiving
  <1>7. LockInv
    BY DEF Init, LockInv, Locking, Opening, IdleWriter
  <1>8. TempInv
    BY DEF Init, TempInv, Locking, Opening
  <1>9. NumberInv
    BY DEF Init, NumberInv, NoFile, Absent, Record
  <1>10. WriteInv
    BY DEF Init, WriteInv, IdleWriter
  <1>11. MigrateInv
    BY StoreAssumption DEF Init, MigrateInv, VersionHonest, Record, Missing
  <1>12. BackupInv
    BY DEF Init, BackupInv, BackupFirst
  <1>13. QED
    BY <1>2, <1>3, <1>4, <1>5, <1>6, <1>7, <1>8, <1>9, <1>10, <1>11, <1>12
    DEF StoreInv, CoreInv, TypeOK

\* Every step preserves the invariant, part by part.
LEMMA StoreNext == StoreInv /\ [Next]_vars => StoreInv'
  BY DiskTypeNext, ProcTypeNext, ArchTypeNext, GhostTypeNext, ArchiveInvNext, LockInvNext,
     TempInvNext, NumberInvNext, WriteInvNext, MigrateInvNext, BackupInvNext
  DEF StoreInv, CoreInv, TypeOK

\* The invariant holds whatever the processes do and whenever they are stopped.
LEMMA StoreInvariant == Spec => []StoreInv
  BY StoreInit, StoreNext, PTL DEF Spec

\* Every variable keeps its type; in particular migrate.run never goes past the
\* version this binary knows.
THEOREM StoreTypeCorrect == Spec => []TypeOK
  <1>1. StoreInv => TypeOK
    BY DEF StoreInv, CoreInv
  <1>2. QED BY <1>1, StoreInvariant, PTL

\* A change that Put or Delete has acknowledged survives every kill and every
\* power cut, and no such cut leaves a torn record (writeAtomic, removeAndSync).
THEOREM AcknowledgedSurvives == Spec => []AckedSurvives
  <1>1. StoreInv => AckedSurvives
    <2> SUFFICES ASSUME StoreInv, ~restored, NEW k \in Keys, NEW c \in may[k] \cup {vol[k]}
                 PROVE  c.kind # "torn" /\ c.n >= acked[k]
      BY DEF AckedSurvives
    <2>1. c \in may[k] /\ c \in Content /\ acked[k] \in Nat
      BY DEF StoreInv, NumberInv, CoreInv, TypeOK, DiskType, GhostType
    <2>2. QED
      BY <2>1 DEF StoreInv, NumberInv, Content
  <1>2. QED BY <1>1, StoreInvariant, PTL

\* While a store is served, every temporary in its directory belongs to a Put
\* that is under way: Open sweeps what a crash left before anything else.
THEOREM TemporariesAreLive == Spec => []TempsAreLive
  <1>1. StoreInv => TempsAreLive
    BY DEF StoreInv, TempInv, TempsAreLive, Locking
  <1>2. QED BY <1>1, StoreInvariant, PTL

\* No migration has changed a directory before a complete archive of what it
\* was exists (migrate.run).
THEOREM MigrationBackedUp == Spec => []BackupFirst
  <1>1. StoreInv => BackupFirst
    BY DEF StoreInv, BackupInv, BackupFirst
  <1>2. QED BY <1>1, StoreInvariant, PTL

\* VERSION never claims a migration that has not been applied, wherever the
\* migration was interrupted (migrate.run).
THEOREM VersionIsHonest == Spec => []VersionHonest
  <1>1. StoreInv => VersionHonest
    BY DEF StoreInv, MigrateInv, VersionHonest
  <1>2. QED BY <1>1, StoreInvariant, PTL

\* A Put that goes through replaces the very change its caller had read, or the
\* record was deleted in between: no update of another writer is overwritten
\* unseen (recordStore.Put, under LockEntity and the flock).
THEOREM UpdatesAreNotLost == Spec => NoLostUpdate
  <1> DEFINE Kept == \A w \in Writers : LET k == wr[w].key IN
          (wr[w].pc = "temp" /\ wr'[w].pc = "sync" /\ ~restored)
              => (wr[w].n = vol[k].n \/ deletes[k] > wr[w].del)
  <1>1. StoreInv /\ [Next]_vars => [Kept]_vars
    <2> SUFFICES ASSUME StoreInv, NEW w \in Writers, wr[w].pc = "temp", ~restored
                 PROVE  LET k == wr[w].key IN wr[w].n = vol[k].n \/ deletes[k] > wr[w].del
      OBVIOUS
    <2>1. wr[w].key \in Keys /\ deletes[wr[w].key] \in Nat /\ wr[w].del \in Nat
      BY DEF StoreInv, CoreInv, LockInv, TypeOK, ProcType, GhostType, WriterType
    <2>2. QED
      BY <2>1 DEF StoreInv, WriteInv
  <1>2. QED BY <1>1, StoreInvariant, PTL DEF Spec, NoLostUpdate

----------------------------------------------------------------------------
(***************************************************************************)
(* What FlattenSeq makes of a list of lists.                               *)
(***************************************************************************)

\* Every set of numbers that is not empty has a least one.
LEMMA LeastNatural ==
  ASSUME NEW T, T \subseteq Nat, T # {}
  PROVE  \E x \in T : \A y \in T : x <= y
<1> DEFINE R == OpToRel(<, Nat)
<1>1. IsWellFoundedOn(R, Nat)
  BY NatLessThanWellFounded
<1>2. \A x, y \in Nat : y < x => <<y, x>> \in R
  BY DEF OpToRel
<1> HIDE DEF R
<1>3. \E x \in T : \A y \in T : ~(<<y, x>> \in R)
  BY <1>1, WFMin
<1>4. PICK x \in T : \A y \in T : ~(<<y, x>> \in R)
  BY <1>3
<1>5. ASSUME NEW y \in T PROVE x <= y
  <2>1. x \in Nat /\ y \in Nat /\ ~(y < x)
    BY <1>2, <1>4
  <2> QED
    BY <2>1
<1> QED
  BY <1>4, <1>5

\* Induction up to N over a set of numbers.
LEMMA CountUp ==
  ASSUME NEW N \in Nat, NEW T, 0 \in T, \A n \in 1 .. N : n - 1 \in T => n \in T
  PROVE  \A n \in 0 .. N : n \in T
<1> SUFFICES ASSUME NEW n \in 0 .. N, n \notin T PROVE FALSE
  OBVIOUS
<1> DEFINE Bad == {m \in 0 .. N : m \notin T}
<1>1. PICK m \in Bad : \A y \in Bad : m <= y
  <2>1. Bad \subseteq Nat /\ Bad # {}
    OBVIOUS
  <2> HIDE DEF Bad
  <2> QED
    BY <2>1, LeastNatural
<1>2. m \in 1 .. N /\ m - 1 \in 0 .. N
  OBVIOUS
<1>3. m - 1 \notin Bad
  BY <1>1, <1>2
<1> QED
  BY <1>2, <1>3

\* What FlattenSeq makes of a list of lists, one list after another.
Joins(g, ss, X) ==
    /\ g \in [1 .. Len(ss) -> Seq(X)] /\ g[1] = ss[1]
    /\ \A i \in 2 .. Len(ss) : g[i] = g[i - 1] \o ss[i]

LEMMA JoinsExists ==
  ASSUME NEW X, NEW ss \in Seq(Seq(X)), Len(ss) >= 1
  PROVE  \E g : Joins(g, ss, X)
<1> DEFINE N == Len(ss)
           Good(m, g) == g[1] = ss[1] /\ \A i \in 2 .. m : g[i] = g[i - 1] \o ss[i]
           T == {m \in 0 .. N - 1 : \E g \in [1 .. m + 1 -> Seq(X)] : Good(m + 1, g)}
<1>1. N \in Nat /\ N - 1 \in Nat /\ \A i \in 1 .. N : ss[i] \in Seq(X)
  OBVIOUS
<1>2. 0 \in T
  <2>1. [i \in 1 .. 0 + 1 |-> ss[1]] \in [1 .. 0 + 1 -> Seq(X)]
    BY <1>1
  <2>2. Good(0 + 1, [i \in 1 .. 0 + 1 |-> ss[1]])
    OBVIOUS
  <2> HIDE DEF Good
  <2>3. \E g \in [1 .. 0 + 1 -> Seq(X)] : Good(0 + 1, g)
    BY <2>1, <2>2
  <2> QED
    BY <1>1, <2>3
<1>3. ASSUME NEW m \in 1 .. N - 1, m - 1 \in T PROVE m \in T
  <2>1. PICK g \in [1 .. m -> Seq(X)] : Good(m, g)
    <3>1. (m - 1) + 1 = m
      BY <1>1
    <3> QED
      BY <1>3, <3>1
  <2> DEFINE h == [i \in 1 .. m + 1 |-> IF i = m + 1 THEN g[m] \o ss[m + 1] ELSE g[i]]
  <2>2. g[m] \in Seq(X) /\ ss[m + 1] \in Seq(X) /\ m \in Nat /\ m >= 1
    BY <1>1
  <2>3. g[m] \o ss[m + 1] \in Seq(X)
    BY <2>2
  <2>4. h \in [1 .. m + 1 -> Seq(X)]
    BY <2>2, <2>3
  <2>5. h[1] = ss[1]
    BY <2>1, <2>2
  <2>6. ASSUME NEW i \in 2 .. m + 1 PROVE h[i] = h[i - 1] \o ss[i]
    <3>1. i - 1 \in 1 .. m /\ h[i - 1] = g[i - 1]
      BY <2>2
    <3>2. CASE i = m + 1
      <4>1. i - 1 = m /\ h[m + 1] = g[m] \o ss[m + 1]
        BY <2>2, <3>2
      <4> HIDE DEF h
      <4> QED
        BY <3>1, <3>2, <4>1
    <3>3. CASE i # m + 1
      <4>1. i \in 2 .. m /\ h[i] = g[i]
        BY <2>2, <3>3
      <4> QED
        BY <2>1, <3>1, <4>1
    <3> QED
      BY <3>2, <3>3
  <2> HIDE DEF h
  <2>7. Good(m + 1, h)
    BY <2>5, <2>6
  <2> HIDE DEF Good
  <2> QED
    BY <2>4, <2>7
<1> HIDE DEF T
<1>4. \A n \in 1 .. N - 1 : n - 1 \in T => n \in T
  BY <1>3
<1>5. N - 1 \in T
  <2> HIDE DEF N
  <2>1. \A n \in 0 .. N - 1 : n \in T
    BY <1>1, <1>2, <1>4, CountUp
  <2> QED
    BY <1>1, <2>1
<1>6. (N - 1) + 1 = N
  BY <1>1
<1> QED
  BY <1>5, <1>6 DEF T, Joins

LEMMA Flattened ==
  ASSUME NEW X, NEW ss \in Seq(Seq(X)), Len(ss) >= 1
  PROVE  \E g : Joins(g, ss, X) /\ FlattenSeq(ss) = g[Len(ss)]
<1> DEFINE N == Len(ss)
           Rule(f) == [i \in 1 .. N |-> IF i = 1 THEN ss[i] ELSE f[i - 1] \o ss[i]]
           G == CHOOSE f : f = Rule(f)
<1>1. N \in Nat /\ N >= 1 /\ N - 1 \in Nat /\ \A i \in 1 .. N : ss[i] \in Seq(X)
  OBVIOUS
<1>2. FlattenSeq(ss) = G[N]
  BY <1>1 DEF FlattenSeq
<1>3. PICK g : Joins(g, ss, X)
  BY JoinsExists
<1>4. g = Rule(g)
  <2>1. g \in [1 .. N -> Seq(X)]
    BY <1>3 DEF Joins
  <2>2. ASSUME NEW i \in 1 .. N PROVE g[i] = IF i = 1 THEN ss[i] ELSE g[i - 1] \o ss[i]
    <3>1. CASE i = 1
      BY <1>3, <3>1 DEF Joins
    <3>2. CASE i # 1
      <4>1. i \in 2 .. Len(ss)
        BY <3>2
      <4> QED
        BY <1>3, <3>2, <4>1 DEF Joins
    <3> QED
      BY <3>1, <3>2
  <2> QED
    BY <2>1, <2>2
<1>5. G = Rule(G)
  BY <1>4
<1> HIDE DEF G
<1>6. DOMAIN G = 1 .. N /\ G[1] = ss[1]
  BY <1>1, <1>5
<1>7. ASSUME NEW i \in 2 .. N PROVE G[i] = G[i - 1] \o ss[i]
  <2>1. i \in 1 .. N /\ i # 1
    BY <1>1
  <2>2. G[i] = Rule(G)[i]
    BY <1>5
  <2> QED
    BY <2>1, <2>2
<1>8. \A i \in 1 .. N : G[i] = g[i]
  <2> DEFINE T == {m \in 0 .. N - 1 : G[m + 1] = g[m + 1]}
  <2>1. 0 \in T
    BY <1>1, <1>3, <1>6 DEF Joins
  <2>2. ASSUME NEW m \in 1 .. N - 1, m - 1 \in T PROVE m \in T
    <3>1. m + 1 \in 2 .. N /\ (m - 1) + 1 = m /\ (m + 1) - 1 = m
      BY <1>1
    <3>2. G[m] = g[m]
      BY <2>2, <3>1
    <3>3. G[m + 1] = G[m] \o ss[m + 1] /\ g[m + 1] = g[m] \o ss[m + 1]
      BY <1>3, <1>7, <3>1 DEF Joins
    <3>4. G[m + 1] = g[m + 1] /\ m \in 0 .. N - 1
      BY <1>1, <3>2, <3>3
    <3> QED
      BY <3>4
  <2> HIDE DEF T
  <2>3. \A n \in 1 .. N - 1 : n - 1 \in T => n \in T
    BY <2>2
  <2>4. \A n \in 0 .. N - 1 : n \in T
    <3> HIDE DEF N
    <3> QED
      BY <1>1, <2>1, <2>3, CountUp
  <2>5. ASSUME NEW i \in 1 .. N PROVE G[i] = g[i]
    <3>1. i - 1 \in 0 .. N - 1 /\ (i - 1) + 1 = i
      BY <1>1
    <3>2. i - 1 \in T
      BY <2>4, <3>1
    <3> QED
      BY <3>1, <3>2 DEF T
  <2> QED
    BY <2>5
<1>9. N \in 1 .. N
  BY <1>1
<1> QED
  BY <1>2, <1>3, <1>8, <1>9

\* Two lists of lists that agree but for the last list that is not empty: what the one
\* has more there is what its flattening has more at the end.
Longer(g, h, ss, tt, N, d, u, X) ==
    /\ N \in Nat /\ N >= 1 /\ d \in 1 .. N /\ u \in Seq(X)
    /\ \A i \in 1 .. N : ss[i] \in Seq(X) /\ g[i] \in Seq(X)
    /\ g[1] = ss[1] /\ \A i \in 2 .. N : g[i] = g[i - 1] \o ss[i]
    /\ h[1] = tt[1] /\ \A i \in 2 .. N : h[i] = h[i - 1] \o tt[i]
    /\ tt[d] = ss[d] \o u
    /\ \A e \in 1 .. N : e # d => tt[e] = ss[e]
    /\ \A e \in 1 .. N : e > d => ss[e] = <<>>

LEMMA JoinsGrow ==
  ASSUME NEW X, NEW N, NEW d, NEW u, NEW ss, NEW tt, NEW g, NEW h,
         Longer(g, h, ss, tt, N, d, u, X)
  PROVE  h[N] = g[N] \o u
<1> USE DEF Longer
<1> DEFINE T == {m \in 0 .. N - 1 : h[m + 1] = IF m + 1 < d THEN g[m + 1] ELSE g[m + 1] \o u}
<1>1. 0 \in T
  <2>1. CASE d = 1
    <3>1. h[1] = g[1] \o u /\ ~(1 < d)
      BY <2>1
    <3>2. 0 \in 0 .. N - 1 /\ 0 + 1 = 1
      OBVIOUS
    <3> QED
      BY <3>1, <3>2
  <2>2. CASE d # 1
    BY <2>2
  <2> QED
    BY <2>1, <2>2
<1>2. ASSUME NEW m \in 1 .. N - 1, m - 1 \in T PROVE m \in T
  <2>1. m + 1 \in 2 .. N /\ m + 1 \in 1 .. N /\ m \in 1 .. N /\ m \in 0 .. N - 1
    OBVIOUS
  <2>2. (m - 1) + 1 = m /\ (m + 1) - 1 = m
    OBVIOUS
  <2>3. h[m] = IF m < d THEN g[m] ELSE g[m] \o u
    BY <1>2, <2>2
  <2>4. g[m + 1] = g[m] \o ss[m + 1] /\ h[m + 1] = h[m] \o tt[m + 1]
    BY <2>1, <2>2
  <2>5. g[m] \in Seq(X) /\ ss[m + 1] \in Seq(X)
    BY <2>1
  <2>6. CASE m + 1 < d
    <3>1. m < d /\ m + 1 # d
      BY <2>1, <2>6
    <3>2. h[m] = g[m] /\ tt[m + 1] = ss[m + 1]
      BY <2>1, <2>3, <3>1
    <3>3. h[m + 1] = g[m + 1]
      BY <2>4, <3>2
    <3> QED
      BY <2>1, <2>6, <3>3
  <2>7. CASE m + 1 = d
    <3>1. m < d
      BY <2>1, <2>7
    <3>2. h[m] = g[m] /\ tt[m + 1] = ss[m + 1] \o u
      BY <2>3, <2>7, <3>1
    <3>3. (g[m] \o ss[m + 1]) \o u = g[m] \o (ss[m + 1] \o u)
      <4> DEFINE a == g[m]
                 b == ss[m + 1]
      <4>1. a \in Seq(X) /\ b \in Seq(X) /\ u \in Seq(X)
        BY <2>5
      <4> HIDE DEF a, b, Longer
      <4>2. (a \o b) \o u = a \o (b \o u)
        BY ONLY <4>1, ConcatAssociative
      <4> QED
        BY <4>2 DEF a, b
    <3>4. h[m + 1] = g[m + 1] \o u
      BY <2>4, <3>2, <3>3, Zenon
    <3>5. ~(m + 1 < d)
      BY <2>7
    <3> QED
      BY <2>1, <3>4, <3>5
  <2>8. CASE m + 1 > d
    <3>1. ~(m < d) /\ ~(m + 1 < d) /\ m + 1 # d
      BY <2>1, <2>8
    <3>2. h[m] = g[m] \o u
      BY <2>3, <3>1
    <3>3. tt[m + 1] = <<>> /\ ss[m + 1] = <<>>
      BY <2>1, <2>8, <3>1
    <3>4. g[m] \o u \in Seq(X)
      BY <2>5
    <3>5. h[m + 1] = g[m] \o u /\ g[m + 1] = g[m]
      BY <2>4, <2>5, <3>2, <3>3, <3>4, ConcatEmptySeq
    <3> QED
      BY <2>1, <3>1, <3>5
  <2> QED
    BY <2>1, <2>6, <2>7, <2>8
<1>3. \A n \in 1 .. N - 1 : n - 1 \in T => n \in T
  BY <1>2
<1>4. N - 1 \in T
  <2> HIDE DEF T
  <2>1. N - 1 \in Nat /\ N - 1 \in 0 .. N - 1
    OBVIOUS
  <2>2. \A n \in 0 .. N - 1 : n \in T
    BY <1>1, <1>3, <2>1, CountUp
  <2> QED
    BY <2>1, <2>2
<1>5. (N - 1) + 1 = N /\ ~(N < d)
  OBVIOUS
<1> QED
  BY <1>4, <1>5

LEMMA FlattenGrows ==
  ASSUME NEW X, NEW ss \in Seq(Seq(X)), NEW tt \in Seq(Seq(X)),
         NEW N \in Nat, N >= 1, Len(ss) = N, Len(tt) = N,
         NEW d \in 1 .. N, NEW u \in Seq(X),
         tt[d] = ss[d] \o u,
         \A e \in 1 .. N : e # d => tt[e] = ss[e],
         \A e \in 1 .. N : e > d => ss[e] = <<>>
  PROVE  FlattenSeq(tt) = FlattenSeq(ss) \o u
<1>1. PICK g : Joins(g, ss, X) /\ FlattenSeq(ss) = g[N]
  BY Flattened
<1>2. PICK h : Joins(h, tt, X) /\ FlattenSeq(tt) = h[N]
  BY Flattened
<1>3. \A i \in 1 .. N : ss[i] \in Seq(X) /\ g[i] \in Seq(X)
  BY <1>1 DEF Joins
<1>4. g[1] = ss[1] /\ \A i \in 2 .. N : g[i] = g[i - 1] \o ss[i]
  BY <1>1 DEF Joins
<1>5. h[1] = tt[1] /\ \A i \in 2 .. N : h[i] = h[i - 1] \o tt[i]
  BY <1>2 DEF Joins
<1>6. Longer(g, h, ss, tt, N, d, u, X)
  BY <1>3, <1>4, <1>5 DEF Longer
<1>7. h[N] = g[N] \o u
  BY <1>6, JoinsGrow
<1> QED
  BY <1>1, <1>2, <1>7

LEMMA FlattenType ==
  ASSUME NEW X, NEW ss \in Seq(Seq(X)), Len(ss) >= 1
  PROVE  FlattenSeq(ss) \in Seq(X)
<1>1. PICK g : Joins(g, ss, X) /\ FlattenSeq(ss) = g[Len(ss)]
  BY Flattened
<1>2. Len(ss) \in 1 .. Len(ss)
  OBVIOUS
<1> QED
  BY <1>1, <1>2 DEF Joins

----------------------------------------------------------------------------
(***************************************************************************)
(* The audit log: its archive is one chain.                                *)
(***************************************************************************)

AuditLine == [seq : Nat, prev : Nat, hash : Nat, of : Nat]

AuditShape ==
    /\ up \in BOOLEAN /\ today \in Days /\ unsynced \in BOOLEAN /\ faults \in Nat
    /\ lastSeq \in Nat /\ lastHash \in Nat /\ lines \in Nat
    /\ plain \in [Days -> Seq(AuditLine) \cup {NoDayFile}]
    /\ gz \in [Days -> Seq(AuditLine) \cup {NoDayFile}]
    /\ item.of \in Nat
    /\ reqs \in [Requests -> [at : {"new", "acting", "refused", "over"}, seq : Nat]]

\* The newest file is the plain one of the logger's day, and a compressed file is
\* older than some plain one: no line is added to a day that has been compressed.
FilesInv ==
    /\ \A d \in PlainFiles : d <= today
    /\ \A d \in Days : gz[d] # NoDayFile => \E e \in PlainFiles : e > d
    /\ \A d \in PlainFiles : gz[d] # NoDayFile => gz[d] = plain[d]
    /\ up => day \in PlainFiles /\ \A d \in PlainFiles : d <= day
    /\ ~up => pc = "free"
    /\ pc = "renamed" => \A d \in Old : (\A e \in Old : d <= e) => gz[d] # NoDayFile

HashOf(recs) == IF recs = <<>> THEN Genesis ELSE Last(recs).hash

\* The logger knows the end of the chain, but for the line it is about to sync.
TipInv ==
    /\ VerifyContext(Archive)
    /\ pc # "failed"
    /\ up /\ pc # "sync" => lastHash = HashOf(Archive)
    /\ pc = "sync" => HashOf(Archive) = lines /\ plain[day] # <<>>
    /\ unsynced => pc = "sync"

AuditInv == AuditShape /\ FilesInv /\ (faults = 0 => TipInv)

\* The archive of a typed directory.
LEMMA ArchiveShape ==
  ASSUME AuditShape
  PROVE  /\ allFiles \in Seq(Seq(AuditLine)) /\ Len(allFiles) = MaxDays
         /\ \A d \in Days : allFiles[d] = readFile(d) /\ readFile(d) \in Seq(AuditLine)
         /\ Archive \in Seq(AuditLine)
<1>1. MaxDays \in Nat /\ MaxDays >= 1 /\ Days = 1 .. MaxDays
  BY AuditAssumption DEF Days
<1>2. ASSUME NEW d \in Days PROVE readFile(d) \in Seq(AuditLine)
  <2>1. /\ plain[d] \in Seq(AuditLine) \/ plain[d] = NoDayFile
        /\ gz[d] \in Seq(AuditLine) \/ gz[d] = NoDayFile
    BY DEF AuditShape
  <2> QED
    BY <2>1 DEF readFile, dedupeByDay
<1>3. allFiles \in [1 .. MaxDays -> Seq(AuditLine)]
  BY <1>1, <1>2 DEF allFiles
<1>4. allFiles \in Seq(Seq(AuditLine)) /\ Len(allFiles) = MaxDays
  BY <1>1, <1>3
<1>5. FlattenSeq(allFiles) \in Seq(AuditLine)
  BY <1>1, <1>4, FlattenType
<1>6. \A d \in Days : allFiles[d] = readFile(d)
  BY DEF allFiles
<1> QED
  BY <1>2, <1>4, <1>5, <1>6 DEF Archive

LEMMA ArchiveShapeNext ==
  ASSUME AuditShape'
  PROVE  /\ allFiles' \in Seq(Seq(AuditLine)) /\ Len(allFiles') = MaxDays
         /\ \A d \in Days : allFiles'[d] = readFile(d)' /\ readFile(d)' \in Seq(AuditLine)
         /\ Archive' \in Seq(AuditLine)
<1>1. MaxDays \in Nat /\ MaxDays >= 1 /\ Days = 1 .. MaxDays
  BY AuditAssumption DEF Days
<1>2. ASSUME NEW d \in Days PROVE readFile(d)' \in Seq(AuditLine)
  <2>1. /\ plain'[d] \in Seq(AuditLine) \/ plain'[d] = NoDayFile
        /\ gz'[d] \in Seq(AuditLine) \/ gz'[d] = NoDayFile
    BY DEF AuditShape, Days
  <2> QED
    BY <2>1 DEF readFile, dedupeByDay
<1>3. allFiles' \in [1 .. MaxDays -> Seq(AuditLine)]
  BY <1>1, <1>2 DEF allFiles, Days
<1>4. allFiles' \in Seq(Seq(AuditLine)) /\ Len(allFiles') = MaxDays
  BY <1>1, <1>3
<1>5. FlattenSeq(allFiles') \in Seq(AuditLine)
  BY <1>1, <1>4, FlattenType
<1>6. \A d \in Days : allFiles'[d] = readFile(d)'
  BY DEF allFiles, Days
<1> QED
  BY <1>2, <1>4, <1>5, <1>6 DEF Archive

\* A step after which each day reads as before it leaves the archive alone.
LEMMA ArchiveStays ==
  ASSUME \A d \in Days : readFile(d)' = readFile(d)
  PROVE  Archive' = Archive
<1>1. allFiles' = allFiles
  BY DEF allFiles, Days
<1> QED
  BY <1>1 DEF Archive

\* A step that adds to, or takes from, the newest file does the same to the archive.
LEMMA ArchiveGrows ==
  ASSUME AuditShape, AuditShape', NEW d \in Days, NEW u \in Seq(AuditLine),
         \A e \in Days : e # d => readFile(e)' = readFile(e),
         \A e \in Days : e > d => readFile(e) = <<>>,
         readFile(d)' = readFile(d) \o u
  PROVE  Archive' = Archive \o u
<1>1. MaxDays \in Nat /\ MaxDays >= 1 /\ Days = 1 .. MaxDays
  BY AuditAssumption DEF Days
<1> DEFINE ss == allFiles
           tt == allFiles'
<1>2. /\ ss \in Seq(Seq(AuditLine)) /\ Len(ss) = MaxDays
      /\ tt \in Seq(Seq(AuditLine)) /\ Len(tt) = MaxDays
      /\ \A e \in 1 .. MaxDays : ss[e] = readFile(e) /\ tt[e] = readFile(e)'
  BY <1>1, ArchiveShape, ArchiveShapeNext
<1>3. /\ tt[d] = ss[d] \o u
      /\ \A e \in 1 .. MaxDays : e # d => tt[e] = ss[e]
      /\ \A e \in 1 .. MaxDays : e > d => ss[e] = <<>>
  BY <1>1, <1>2
<1> HIDE DEF ss, tt
<1>4. FlattenSeq(tt) = FlattenSeq(ss) \o u
  BY <1>1, <1>2, <1>3, FlattenGrows
<1> QED
  BY <1>4 DEF Archive, ss, tt

LEMMA ArchiveShrinks ==
  ASSUME AuditShape, AuditShape', NEW d \in Days, NEW u \in Seq(AuditLine),
         \A e \in Days : e # d => readFile(e)' = readFile(e),
         \A e \in Days : e > d => readFile(e) = <<>>,
         readFile(d) = readFile(d)' \o u
  PROVE  Archive = Archive' \o u
<1>1. MaxDays \in Nat /\ MaxDays >= 1 /\ Days = 1 .. MaxDays
  BY AuditAssumption DEF Days
<1> DEFINE ss == allFiles'
           tt == allFiles
<1>2. /\ ss \in Seq(Seq(AuditLine)) /\ Len(ss) = MaxDays
      /\ tt \in Seq(Seq(AuditLine)) /\ Len(tt) = MaxDays
      /\ \A e \in 1 .. MaxDays : tt[e] = readFile(e) /\ ss[e] = readFile(e)'
  BY <1>1, ArchiveShape, ArchiveShapeNext
<1>3. /\ tt[d] = ss[d] \o u
      /\ \A e \in 1 .. MaxDays : e # d => tt[e] = ss[e]
      /\ \A e \in 1 .. MaxDays : e > d => ss[e] = <<>>
  <2>1. tt[d] = ss[d] \o u
    BY <1>1, <1>2
  <2>2. \A e \in 1 .. MaxDays : e # d => tt[e] = ss[e]
    BY <1>1, <1>2
  <2>3. ASSUME NEW e \in 1 .. MaxDays, e > d PROVE ss[e] = <<>>
    <3>1. e # d /\ tt[e] = <<>>
      BY <1>1, <1>2, <2>3
    <3> QED
      BY <2>2, <3>1
  <2> QED
    BY <2>1, <2>2, <2>3
<1> HIDE DEF ss, tt
<1>4. FlattenSeq(tt) = FlattenSeq(ss) \o u
  BY <1>1, <1>2, <1>3, FlattenGrows
<1> QED
  BY <1>4 DEF Archive, ss, tt

\* The chain, one line longer and one line shorter.
LEMMA ChainGrows ==
  ASSUME NEW a \in Seq(AuditLine), NEW r \in AuditLine
  PROVE  LET b == a \o <<r>> IN
         /\ b # <<>> /\ Last(b) = r /\ HashOf(b) = r.hash
         /\ VerifyContext(b) <=> VerifyContext(a) /\ (a # <<>> \/ r.seq = 1 => r.prev = HashOf(a))
<1> DEFINE b == a \o <<r>>
<1>1. /\ b \in Seq(AuditLine) /\ Len(b) = Len(a) + 1 /\ Len(a) \in Nat /\ b[Len(a) + 1] = r
      /\ \A i \in 1 .. Len(a) : b[i] = a[i]
  OBVIOUS
<1>2. DOMAIN b = 1 .. Len(a) + 1 /\ DOMAIN a = 1 .. Len(a) /\ (a = <<>> <=> Len(a) = 0)
  OBVIOUS
<1> HIDE DEF b
<1>3. b # <<>> /\ Last(b) = r /\ HashOf(b) = r.hash
  BY <1>1 DEF Last, HashOf
<1>4. ASSUME VerifyContext(b)
      PROVE  VerifyContext(a) /\ (a # <<>> \/ r.seq = 1 => r.prev = HashOf(a))
  <2>1. VerifyContext(a)
    <3> SUFFICES ASSUME NEW i \in 1 .. Len(a)
                 PROVE  /\ i = 1 /\ a[i].seq = 1 => a[i].prev = Genesis
                        /\ i > 1 => a[i].prev = a[i - 1].hash
      BY <1>2 DEF VerifyContext
    <3>1. i \in DOMAIN b /\ b[i] = a[i] /\ (i > 1 => i - 1 \in 1 .. Len(a))
      BY <1>1, <1>2
    <3>2. i > 1 => b[i - 1] = a[i - 1]
      BY <1>1, <3>1
    <3> QED
      BY <1>4, <3>1, <3>2 DEF VerifyContext
  <2>2. Len(a) + 1 \in DOMAIN b
    BY <1>1, <1>2
  <2>3. CASE a = <<>>
    <3>1. Len(a) + 1 = 1
      BY <1>1, <1>2, <2>3
    <3> QED
      BY <1>1, <1>4, <2>1, <2>2, <2>3, <3>1 DEF VerifyContext, HashOf
  <2>4. CASE a # <<>>
    <3>1. Len(a) + 1 > 1 /\ (Len(a) + 1) - 1 = Len(a) /\ Len(a) \in 1 .. Len(a)
      BY <1>1, <1>2, <2>4
    <3>2. b[Len(a) + 1].prev = b[(Len(a) + 1) - 1].hash
      BY <1>4, <2>2, <3>1 DEF VerifyContext
    <3>3. b[(Len(a) + 1) - 1] = a[Len(a)]
      BY <1>1, <3>1
    <3> QED
      BY <1>1, <2>1, <2>4, <3>2, <3>3 DEF HashOf, Last
  <2> QED
    BY <2>3, <2>4
<1>5. ASSUME VerifyContext(a), a # <<>> \/ r.seq = 1 => r.prev = HashOf(a)
      PROVE  VerifyContext(b)
  <2> SUFFICES ASSUME NEW i \in 1 .. Len(a) + 1
               PROVE  /\ i = 1 /\ b[i].seq = 1 => b[i].prev = Genesis
                      /\ i > 1 => b[i].prev = b[i - 1].hash
    BY <1>2 DEF VerifyContext
  <2>1. CASE i \in 1 .. Len(a)
    <3>1. b[i] = a[i] /\ (i > 1 => i - 1 \in 1 .. Len(a)) /\ i \in DOMAIN a
      BY <1>1, <1>2, <2>1
    <3>2. i > 1 => b[i - 1] = a[i - 1]
      BY <1>1, <3>1
    <3> QED
      BY <1>5, <3>1, <3>2 DEF VerifyContext
  <2>2. CASE i = Len(a) + 1
    <3>1. b[i] = r
      BY <1>1, <2>2
    <3>2. CASE a = <<>>
      <4>1. i = 1
        BY <1>1, <1>2, <2>2, <3>2
      <4> QED
        BY <1>5, <3>1, <3>2, <4>1 DEF HashOf
    <3>3. CASE a # <<>>
      <4>1. i > 1 /\ i - 1 = Len(a) /\ Len(a) \in 1 .. Len(a)
        BY <1>1, <1>2, <2>2, <3>3
      <4>2. b[i - 1] = a[Len(a)]
        BY <1>1, <4>1
      <4> QED
        BY <1>5, <3>1, <3>3, <4>1, <4>2 DEF HashOf, Last
    <3> QED
      BY <3>2, <3>3
  <2> QED
    BY <1>1, <2>1, <2>2
<1> QED
  BY <1>3, <1>4, <1>5 DEF b

LEMMA AuditTyped ==
  ASSUME AuditInv, [AuditNext]_auditVars
  PROVE  AuditShape'
<1> USE DEF AuditShape
<1>0. AuditShape
  BY DEF AuditInv
<1>a. Genesis \in Nat /\ NoItem.of \in Nat
  BY DEF Genesis, NoItem
<1>b. ASSUME NEW d \in Days PROVE OpenedDay(d) \in [Days -> Seq(AuditLine) \cup {NoDayFile}]
  BY <1>0 DEF OpenedDay
<1>1. CASE OpenLog
  <2>1. Archive \in Seq(AuditLine)
    BY <1>0, ArchiveShape
  <2>2. Archive # <<>> => Last(Archive) \in AuditLine
    BY <2>1 DEF Last
  <2>3. Archive # <<>> => Last(Archive).seq \in Nat /\ Last(Archive).hash \in Nat
    BY <2>2 DEF AuditLine
  <2>4. lastSeq' \in Nat /\ lastHash' \in Nat
    BY <1>1, <1>a, <2>3 DEF OpenLog, resume
  <2> QED
    BY <1>0, <1>1, <1>a, <1>b, <2>4 DEF OpenLog, Days
<1>2. CASE openDay
  BY <1>0, <1>2, <1>b DEF openDay, Days
<1>3. CASE compressFile
  BY <1>0, <1>3 DEF compressFile, Days, Old, PlainFiles
<1>4. CASE removePlain
  BY <1>0, <1>4 DEF removePlain, Days
<1>5. CASE CompressOlderThan
  BY <1>0, <1>5 DEF CompressOlderThan, Days
<1>6. CASE WriteLine
  <2>1. day \in Days /\ plain[day] \in Seq(AuditLine)
    BY <1>0, <1>6 DEF AuditInv, FilesInv, WriteLine, PlainFiles
  <2>2. ASSUME NEW r \in AuditLine
        PROVE  [plain EXCEPT ![day] = Append(@, r)] \in [Days -> Seq(AuditLine) \cup {NoDayFile}]
    BY <1>0, <2>1
  <2>3. /\ AuditRecord(lastSeq + 1, lastHash, lines + 1, item.of) \in AuditLine
        /\ TornLine \in AuditLine
    BY <1>0 DEF AuditRecord, TornLine, AuditLine
  <2>4. plain' \in [Days -> Seq(AuditLine) \cup {NoDayFile}]
    BY <1>6, <2>2, <2>3 DEF WriteLine
  <2>5. faults' \in Nat /\ lines' \in Nat
    BY <1>0, <1>6 DEF WriteLine
  <2>7. unsynced' \in BOOLEAN
    BY <1>6, Zenon DEF WriteLine
  <2>6. UNCHANGED <<up, today, gz, lastSeq, lastHash, item, reqs>>
    BY <1>6 DEF WriteLine
  <2> QED
    BY <1>0, <2>4, <2>5, <2>6, <2>7 DEF Days
<1>7. CASE SyncLine
  <2>1. unsynced' \in BOOLEAN
    BY <1>0, <1>7 DEF SyncLine
  <2>2. faults' \in Nat /\ lastSeq' \in Nat /\ lastHash' \in Nat
    BY <1>0, <1>7 DEF SyncLine
  <2>3. UNCHANGED <<up, today, plain, gz, item, reqs, lines>>
    BY <1>7 DEF SyncLine
  <2> QED
    BY <1>0, <2>1, <2>2, <2>3 DEF Days
<1>8. CASE Outcomed \/ QueryFirst \/ QueryNext
  BY <1>0, <1>8, <1>a DEF Outcomed, QueryFirst, QueryNext, Days
<1>9. CASE Midnight
  BY <1>0, <1>9, AuditAssumption DEF Midnight, Days
<1>10. CASE Crash
  <2>1. day \in Days /\ plain[day] \in Seq(AuditLine)
    BY <1>0, <1>10 DEF AuditInv, FilesInv, Crash, PlainFiles
  <2>2. Front(plain[day]) \in Seq(AuditLine)
    BY <2>1 DEF Front
  <2>3. plain' \in [Days -> Seq(AuditLine) \cup {NoDayFile}]
    BY <1>0, <1>10, <2>1, <2>2 DEF Crash
  <2>4. reqs' \in [Requests -> [at : {"new", "acting", "refused", "over"}, seq : Nat]]
    BY <1>0, <1>10 DEF Crash
  <2> QED
    BY <1>0, <1>10, <1>a, <2>3, <2>4 DEF Crash, Days
<1>11. ASSUME NEW c \in Requests, Attempt(c) \/ Attempted(c) PROVE AuditShape'
  <2>1. CASE Attempt(c)
    <3>1. item'.of \in Nat
      BY <2>1 DEF Attempt
    <3> QED
      BY <1>0, <2>1, <3>1 DEF Attempt, Days
  <2>2. CASE Attempted(c)
    <3> DEFINE R == [at : {"new", "acting", "refused", "over"}, seq : Nat]
    <3>3. [at |-> "acting", seq |-> lastSeq] \in R /\ [reqs[c] EXCEPT !.at = "refused"] \in R
      BY <1>0
    <3>4. PICK q \in R : reqs' = [reqs EXCEPT ![c] = q]
      <4>1. \/ reqs' = [reqs EXCEPT ![c] = [at |-> "acting", seq |-> lastSeq]]
            \/ reqs' = [reqs EXCEPT ![c] = [reqs[c] EXCEPT !.at = "refused"]]
        BY <2>2 DEF Attempted
      <4> HIDE DEF R
      <4> QED
        BY <3>3, <4>1
    <3>1. reqs' \in [Requests -> R]
      BY <1>0, <3>4
    <3>2. item'.of \in Nat
      BY <1>a, <2>2 DEF Attempted
    <3> QED
      BY <1>0, <2>2, <3>1, <3>2 DEF Attempted, Days
  <2> QED
    BY <1>11, <2>1, <2>2
<1>12. ASSUME NEW c \in Requests, Outcome(c) \/ Panic(c) PROVE AuditShape'
  BY <1>0, <1>12 DEF Outcome, Panic, Days
<1>13. ASSUME NEW s \in pending, evictStalePending(s) PROVE AuditShape'
  BY <1>0, <1>13 DEF evictStalePending, Days
<1>14. CASE UNCHANGED auditVars
  BY <1>0, <1>14 DEF auditVars, Days
<1> QED
  BY <1>1, <1>2, <1>3, <1>4, <1>5, <1>6, <1>7, <1>8, <1>9, <1>10, <1>11, <1>12, <1>13, <1>14
     DEF AuditNext

\* A file that others are newer than is not the only one.
LEMMA OldHasNewer ==
  ASSUME NEW d \in Old
  PROVE  d \in PlainFiles /\ \E e \in PlainFiles : e > d
<1> DEFINE newer == {e \in PlainFiles : e > d}
<1>1. d \in PlainFiles /\ Cardinality(newer) >= keepPlain
  BY DEF Old
<1>2. newer # {}
  <2> SUFFICES ASSUME newer = {} PROVE FALSE
    OBVIOUS
  <2>1. Cardinality({}) = 0
    BY FS_EmptySet
  <2> QED
    BY <1>1, <2>1 DEF keepPlain
<1> QED
  BY <1>1, <1>2

LEMMA AuditFiles ==
  ASSUME AuditInv, [AuditNext]_auditVars
  PROVE  FilesInv'
<1>0. AuditShape /\ FilesInv
  BY DEF AuditInv
<1>a. Days \subseteq Int /\ Days = Days' /\ today \in Days
  BY <1>0 DEF Days, AuditShape
<1>e. \A d \in PlainFiles : d \in Int
  BY <1>a DEF PlainFiles
<1>b. ASSUME plain' = plain, gz' = gz PROVE PlainFiles' = PlainFiles /\ Old' = Old
  <2>1. PlainFiles' = PlainFiles
    BY <1>b DEF PlainFiles, Days
  <2> QED
    BY <2>1 DEF Old, keepPlain
<1>c. ASSUME plain' = OpenedDay(today), gz' = gz, day' = today, pc' # "renamed",
             up', today' = today
      PROVE  FilesInv'
  <2>1. PlainFiles' = PlainFiles \cup {today}
    <3>1. <<>> \in Seq(AuditLine) /\ NoDayFile \notin Seq(AuditLine)
      BY AuditAssumption DEF AuditLine
    <3> QED
      BY <1>0, <1>a, <1>c, <3>1 DEF PlainFiles, OpenedDay, AuditShape, Days
  <2>2. ASSUME NEW d \in Days, gz[d] # NoDayFile PROVE d < today
    <3>1. PICK e \in PlainFiles : e > d
      BY <1>0, <2>2 DEF FilesInv
    <3>2. e <= today /\ e \in Int /\ d \in Int /\ today \in Int
      BY <1>0, <1>a, <1>e DEF FilesInv
    <3> QED
      BY <3>1, <3>2
  <2>3. \A d \in PlainFiles' : gz'[d] # NoDayFile => gz'[d] = plain'[d]
    <3> SUFFICES ASSUME NEW d \in PlainFiles', gz'[d] # NoDayFile PROVE gz'[d] = plain'[d]
      OBVIOUS
    <3>1. d \in Days /\ d # today
      BY <1>a, <1>c, <2>1, <2>2 DEF PlainFiles
    <3>2. plain'[d] = plain[d] /\ d \in PlainFiles
      BY <1>0, <1>a, <1>c, <2>1, <3>1 DEF OpenedDay, AuditShape
    <3> QED
      BY <1>0, <1>c, <3>2 DEF FilesInv
  <2>4. \A d \in PlainFiles' : d <= today
    BY <1>0, <1>a, <2>1 DEF FilesInv
  <2>5. \A d \in Days : gz'[d] # NoDayFile => \E e \in PlainFiles' : e > d
    BY <1>0, <1>c, <2>1 DEF FilesInv
  <2>6. today \in PlainFiles'
    BY <2>1
  <2> QED
    BY <1>a, <1>c, <2>3, <2>4, <2>5, <2>6 DEF FilesInv
<1>d. ASSUME NEW f \in Seq(AuditLine), up, plain' = [plain EXCEPT ![day] = f], gz' = gz,
             pc' # "renamed", today' = today,
             up' => day' = day, ~up' => pc' = "free"
      PROVE  FilesInv'
  <2>1. f # NoDayFile /\ day \in PlainFiles /\ \A d \in PlainFiles : d <= day
    BY <1>0, <1>d, AuditAssumption DEF AuditLine, FilesInv
  <2>2. PlainFiles' = PlainFiles
    BY <1>0, <1>a, <1>d, <2>1 DEF PlainFiles, AuditShape
  <2>3. gz[day] = NoDayFile
    <3> SUFFICES ASSUME gz[day] # NoDayFile PROVE FALSE
      OBVIOUS
    <3>1. day \in Days
      BY <2>1 DEF PlainFiles
    <3>2. PICK e \in PlainFiles : e > day
      BY <1>0, <3>1 DEF FilesInv
    <3>3. e <= day /\ e \in Int /\ day \in Int
      BY <1>e, <2>1
    <3> QED
      BY <3>2, <3>3
  <2>4. ASSUME NEW d \in PlainFiles, gz[d] # NoDayFile PROVE gz[d] = plain'[d]
    <3>1. d # day /\ d \in Days
      BY <2>3, <2>4 DEF PlainFiles
    <3> QED
      BY <1>0, <1>d, <2>4, <3>1 DEF FilesInv, AuditShape
  <2> QED
    BY <1>0, <1>a, <1>d, <2>1, <2>2, <2>4 DEF FilesInv
<1>1. CASE OpenLog
  BY <1>1, <1>c DEF OpenLog
<1>2. CASE openDay
  BY <1>0, <1>2, <1>c DEF openDay, FilesInv, AuditShape
<1>3. CASE compressFile
  <2>1. PICK d \in Old : /\ \A e \in Old : d <= e
                         /\ gz' = [gz EXCEPT ![d] = plain[d]]
    BY <1>3 DEF compressFile
  <2>2. d \in PlainFiles /\ d \in Days /\ \E e \in PlainFiles : e > d
    BY <2>1, OldHasNewer DEF PlainFiles
  <2>3. plain' = plain /\ today' = today /\ up' = up /\ day' = day /\ pc' = "renamed" /\ pc = "compress"
    BY <1>3 DEF compressFile
  <2>4. PlainFiles' = PlainFiles
    BY <2>3 DEF PlainFiles, Days
  <2>5. Old' = Old
    BY <2>4 DEF Old, keepPlain
  <2>6. \A e \in Days : gz'[e] = IF e = d THEN plain[d] ELSE gz[e]
    BY <1>0, <2>1 DEF AuditShape
  <2>7. plain[d] # NoDayFile
    BY <2>2 DEF PlainFiles
  <2>8. \A x \in Old : (\A e \in Old : x <= e) => x = d
    <3>1. Old \subseteq Int
      BY <1>a DEF Old, PlainFiles
    <3> QED
      BY <2>1, <3>1
  <2>9. up
    BY <1>0, <2>3 DEF FilesInv
  <2>10. \A x \in PlainFiles : x \in Days
    BY DEF PlainFiles
  <2>11. \A x \in PlainFiles : gz'[x] # NoDayFile => gz'[x] = plain'[x]
    BY <1>0, <2>3, <2>6, <2>10 DEF FilesInv
  <2>12. \A x \in Days : gz'[x] # NoDayFile => \E e \in PlainFiles : e > x
    BY <1>0, <2>2, <2>6 DEF FilesInv
  <2>13. gz'[d] # NoDayFile
    BY <2>2, <2>6, <2>7
  <2> QED
    BY <1>0, <1>a, <2>3, <2>4, <2>5, <2>8, <2>9, <2>11, <2>12, <2>13 DEF FilesInv
<1>4. CASE removePlain
  <2>1. PICK d \in Old : /\ \A e \in Old : d <= e
                         /\ plain' = [plain EXCEPT ![d] = NoDayFile]
    BY <1>4 DEF removePlain
  <2>2. PICK n \in PlainFiles : n > d
    BY <2>1, OldHasNewer
  <2>3. gz' = gz /\ today' = today /\ up' = up /\ day' = day /\ pc' = "compress" /\ pc = "renamed"
    BY <1>4 DEF removePlain
  <2>4. d \in PlainFiles /\ PlainFiles' = PlainFiles \ {d}
    BY <1>0, <2>1 DEF Old, PlainFiles, AuditShape, Days
  <2>5. \A x \in Days : x # d => plain'[x] = plain[x]
    BY <1>0, <2>1 DEF AuditShape
  <2>7. \A x \in PlainFiles : x \in Days /\ x \in Int
    BY <1>a DEF PlainFiles
  <2>10. up /\ day \in PlainFiles /\ n <= day
    BY <1>0, <2>2, <2>3 DEF FilesInv
  <2>6. up /\ day \in PlainFiles /\ day # d
    BY <2>2, <2>4, <2>7, <2>10
  <2>8. ASSUME NEW x \in Days, gz[x] # NoDayFile PROVE \E e \in PlainFiles \ {d} : e > x
    <3>1. PICK e \in PlainFiles : e > x
      BY <1>0, <2>8 DEF FilesInv
    <3>2. CASE e = d
      <4>1. n \in PlainFiles \ {d} /\ n > x
        BY <1>a, <2>2, <2>4, <2>7, <3>1, <3>2
      <4> QED
        BY <4>1
    <3>3. CASE e # d
      BY <3>1, <3>3
    <3> QED
      BY <3>2, <3>3
  <2>9. \A x \in PlainFiles' : gz'[x] # NoDayFile => gz'[x] = plain'[x]
    BY <1>0, <2>3, <2>4, <2>5, <2>7 DEF FilesInv
  <2> QED
    BY <1>0, <1>a, <2>3, <2>4, <2>6, <2>8, <2>9 DEF FilesInv
<1>5. CASE CompressOlderThan
  <2>1. plain' = plain /\ gz' = gz /\ today' = today /\ up' = up /\ day' = day
    BY <1>5 DEF CompressOlderThan
  <2>2. pc' # "renamed" /\ up
    BY <1>0, <1>5 DEF CompressOlderThan, FilesInv
  <2> QED
    BY <1>0, <1>a, <1>b, <2>1, <2>2 DEF FilesInv
<1>6. CASE WriteLine
  <2>1. up /\ up' = up /\ day' = day /\ gz' = gz /\ today' = today /\ pc' # "renamed"
    BY <1>0, <1>6 DEF WriteLine, FilesInv
  <2>2. plain[day] \in Seq(AuditLine) /\ day \in Days
    BY <1>0, <2>1 DEF FilesInv, PlainFiles, AuditShape
  <2>3. /\ AuditRecord(lastSeq + 1, lastHash, lines + 1, item.of) \in AuditLine
        /\ TornLine \in AuditLine
    BY <1>0 DEF AuditRecord, TornLine, AuditLine, AuditShape
  <2>4. PICK r \in AuditLine : plain' = [plain EXCEPT ![day] = Append(@, r)]
    BY <1>6, <2>3 DEF WriteLine
  <2>5. plain' = [plain EXCEPT ![day] = Append(plain[day], r)]
    BY <1>0, <2>2, <2>4 DEF AuditShape
  <2>6. Append(plain[day], r) \in Seq(AuditLine)
    BY <2>2
  <2> QED
    BY <2>1, <2>5, <2>6, <1>d
<1>7. CASE Crash
  <2>1. up /\ ~up' /\ pc' = "free" /\ gz' = gz /\ today' = today
    BY <1>7 DEF Crash
  <2>2. plain[day] \in Seq(AuditLine) /\ day \in Days
    BY <1>0, <2>1 DEF FilesInv, PlainFiles, AuditShape
  <2>3. PICK f \in {plain[day], Front(plain[day])} : plain' = [plain EXCEPT ![day] = f]
    BY <1>0, <1>7 DEF Crash, AuditShape
  <2>4. f \in Seq(AuditLine)
    BY <2>2, <2>3 DEF Front
  <2> QED
    BY <2>1, <2>3, <2>4, <1>d
<1>8. CASE Midnight
  <2>1. plain' = plain /\ gz' = gz /\ up' = up /\ day' = day /\ pc' = pc /\ today' = today + 1
    BY <1>8 DEF Midnight
  <2>2. \A d \in PlainFiles : d <= today'
    BY <1>0, <1>a, <2>1 DEF FilesInv, PlainFiles
  <2> QED
    BY <1>0, <1>a, <1>b, <2>1, <2>2 DEF FilesInv
<1>9. ASSUME UNCHANGED <<up, today, plain, gz, day>>, pc' = pc \/ (up /\ pc' # "renamed")
      PROVE  FilesInv'
  BY <1>0, <1>9, <1>a, <1>b DEF FilesInv
<1>10. CASE SyncLine \/ Outcomed \/ QueryFirst \/ QueryNext
  BY <1>0, <1>9, <1>10 DEF SyncLine, Outcomed, QueryFirst, QueryNext, FilesInv
<1>11. ASSUME NEW c \in Requests, Attempt(c) \/ Attempted(c) \/ Outcome(c) \/ Panic(c)
       PROVE  FilesInv'
  BY <1>0, <1>9, <1>11 DEF Attempt, Attempted, Outcome, Panic, FilesInv
<1>12. ASSUME NEW s \in pending, evictStalePending(s) PROVE FilesInv'
  BY <1>9, <1>12 DEF evictStalePending
<1>13. CASE UNCHANGED auditVars
  BY <1>9, <1>13 DEF auditVars
<1> QED
  BY <1>1, <1>2, <1>3, <1>4, <1>5, <1>6, <1>7, <1>8, <1>10, <1>11, <1>12, <1>13 DEF AuditNext

\* The newest file is the last one that is read, and it is read as it is.
LEMMA NewestIsLast ==
  ASSUME AuditShape, FilesInv, up
  PROVE  /\ day \in Days /\ plain[day] \in Seq(AuditLine) /\ gz[day] = NoDayFile
         /\ readFile(day) = plain[day]
         /\ \A e \in Days : e > day => readFile(e) = <<>>
<1>1. Days \subseteq Int
  BY DEF Days
<1>2. day \in PlainFiles /\ \A d \in PlainFiles : d <= day
  BY DEF FilesInv
<1>3. day \in Days /\ plain[day] # NoDayFile /\ plain[day] \in Seq(AuditLine)
  BY <1>2 DEF PlainFiles, AuditShape
<1>4. \A x \in PlainFiles : x \in Int
  BY <1>1 DEF PlainFiles
<1>5. ASSUME NEW d \in Days, d >= day PROVE gz[d] = NoDayFile
  <2> SUFFICES ASSUME gz[d] # NoDayFile PROVE FALSE
    OBVIOUS
  <2>1. PICK e \in PlainFiles : e > d
    BY DEF FilesInv
  <2>2. e <= day /\ e \in Int /\ d \in Int /\ day \in Int
    BY <1>1, <1>2, <1>3, <1>4
  <2> QED
    BY <1>5, <2>1, <2>2
<1>6. gz[day] = NoDayFile
  BY <1>1, <1>3, <1>5
<1>7. ASSUME NEW e \in Days, e > day PROVE readFile(e) = <<>>
  <2>1. gz[e] = NoDayFile
    BY <1>1, <1>3, <1>5, <1>7
  <2>2. e \notin PlainFiles
    BY <1>1, <1>2, <1>3, <1>7
  <2> QED
    BY <2>1, <2>2 DEF readFile, dedupeByDay, PlainFiles
<1> QED
  BY <1>3, <1>6, <1>7 DEF readFile, dedupeByDay

LEMMA AuditTip ==
  ASSUME AuditInv, [AuditNext]_auditVars, AuditShape', faults' = 0
  PROVE  TipInv'
<1>0. AuditShape /\ FilesInv
  BY DEF AuditInv
<1>1. faults = 0 /\ TipInv
  <2>1. faults \in Nat
    BY <1>0 DEF AuditShape
  <2>2. faults' = faults \/ faults' = faults + 1
    BY DEF AuditNext, auditVars, OpenLog, openDay, compressFile, removePlain, CompressOlderThan,
           WriteLine, SyncLine, Outcomed, Midnight, Crash, QueryFirst, QueryNext, Attempt,
           Attempted, Outcome, Panic, evictStalePending
  <2> QED
    BY <2>1, <2>2 DEF AuditInv
<1>2. faults' = faults
  BY <1>1
<1>a. ASSUME plain' = OpenedDay(today), gz' = gz PROVE Archive' = Archive
  <2>1. ASSUME NEW d \in Days PROVE readFile(d)' = readFile(d)
    <3>1. plain'[d] = IF d = today /\ plain[d] = NoDayFile THEN <<>> ELSE plain[d]
      BY <1>0, <1>a DEF OpenedDay, AuditShape
    <3>2. gz'[d] = gz[d]
      BY <1>a
    <3> QED
      BY <3>1, <3>2 DEF readFile, dedupeByDay
  <2> QED
    BY <2>1, ArchiveStays
<1>b. ASSUME plain' = plain, gz' = gz PROVE Archive' = Archive
  BY <1>b DEF Archive, allFiles, readFile, dedupeByDay, Days
<1>c. ASSUME Archive' = Archive, pc' \notin {"sync", "failed"}, unsynced' = unsynced,
             up', pc # "sync" /\ up /\ lastHash' = lastHash
      PROVE  TipInv'
  BY <1>1, <1>c DEF TipInv, VerifyContext, HashOf, Genesis
<1>3. CASE OpenLog
  <2>1. Archive' = Archive /\ pc' = "compress" /\ pc = "free" /\ unsynced' = unsynced
    BY <1>0, <1>3, <1>a DEF OpenLog, FilesInv
  <2>2. lastHash' = HashOf(Archive)
    BY <1>3 DEF OpenLog, resume, HashOf
  <2> QED
    BY <1>1, <2>1, <2>2 DEF TipInv, VerifyContext, HashOf, Genesis
<1>4. CASE openDay
  <2>1. /\ Archive' = Archive /\ pc' \notin {"sync", "failed"} /\ unsynced' = unsynced
        /\ pc # "sync" /\ up /\ up' /\ lastHash' = lastHash
    BY <1>0, <1>4, <1>a DEF openDay, FilesInv
  <2> QED
    BY <2>1, <1>c
<1>5. CASE compressFile
  <2>1. PICK d \in Old : gz' = [gz EXCEPT ![d] = plain[d]]
    BY <1>5 DEF compressFile
  <2>2. /\ plain' = plain /\ pc' = "renamed" /\ unsynced' = unsynced
        /\ pc # "sync" /\ up /\ up' /\ lastHash' = lastHash
    BY <1>0, <1>5 DEF compressFile, FilesInv
  <2>3. d \in Days /\ plain[d] # NoDayFile /\ (gz[d] # NoDayFile => gz[d] = plain[d])
    BY <1>0, <2>1 DEF Old, PlainFiles, FilesInv
  <2>4. ASSUME NEW e \in Days PROVE readFile(e)' = readFile(e)
    <3>1. gz'[e] = IF e = d THEN plain[d] ELSE gz[e]
      BY <1>0, <2>1 DEF AuditShape
    <3> QED
      BY <2>2, <2>3, <3>1 DEF readFile, dedupeByDay
  <2>5. Archive' = Archive
    BY <2>4, ArchiveStays
  <2> QED
    BY <2>2, <2>5, <1>c
<1>6. CASE removePlain
  <2>1. PICK d \in Old : /\ \A e \in Old : d <= e
                         /\ plain' = [plain EXCEPT ![d] = NoDayFile]
    BY <1>6 DEF removePlain
  <2>2. /\ gz' = gz /\ pc' = "compress" /\ unsynced' = unsynced /\ pc = "renamed"
        /\ up /\ up' /\ lastHash' = lastHash
    BY <1>0, <1>6 DEF removePlain, FilesInv
  <2>3. gz[d] # NoDayFile
    BY <1>0, <2>1, <2>2 DEF FilesInv
  <2>4. ASSUME NEW e \in Days PROVE readFile(e)' = readFile(e)
    <3>1. plain'[e] = IF e = d THEN NoDayFile ELSE plain[e]
      BY <1>0, <2>1 DEF AuditShape
    <3> QED
      BY <2>2, <2>3, <3>1 DEF readFile, dedupeByDay
  <2>5. Archive' = Archive
    BY <2>4, ArchiveStays
  <2> QED
    BY <2>2, <2>5, <1>c
<1>7. CASE WriteLine
  <2> DEFINE rec == AuditRecord(lastSeq + 1, lastHash, lines + 1, item.of)
  <2>1. /\ plain' = [plain EXCEPT ![day] = Append(@, rec)]
        /\ pc' = "sync" /\ lines' = lines + 1 /\ gz' = gz /\ day' = day
    BY <1>0, <1>2, <1>7 DEF WriteLine, AuditShape
  <2>2. rec \in AuditLine /\ rec.prev = lastHash /\ rec.hash = lines + 1
    BY <1>0 DEF AuditRecord, AuditLine, AuditShape
  <2> HIDE DEF rec
  <2>3. up /\ pc # "sync"
    BY <1>0, <1>7 DEF WriteLine, FilesInv
  <2>4. /\ day \in Days /\ plain[day] \in Seq(AuditLine) /\ gz[day] = NoDayFile
        /\ readFile(day) = plain[day]
        /\ \A e \in Days : e > day => readFile(e) = <<>>
    BY <1>0, <2>3, NewestIsLast
  <2>5. plain'[day] = plain[day] \o <<rec>> /\ \A e \in Days : e # day => plain'[e] = plain[e]
    BY <1>0, <2>1, <2>2, <2>4, AppendIsConcat DEF AuditShape
  <2>6. plain[day] \o <<rec>> # NoDayFile /\ plain[day] \o <<rec>> # <<>> /\ <<rec>> \in Seq(AuditLine)
    <3>1. plain[day] \o <<rec>> \in Seq(AuditLine) /\ Len(plain[day] \o <<rec>>) = Len(plain[day]) + 1
      BY <2>2, <2>4
    <3>2. <<rec>> \in Seq(AuditLine)
      BY <2>2
    <3>3. NoDayFile \notin Seq(AuditLine)
      BY AuditAssumption DEF AuditLine
    <3>4. Len(plain[day]) \in Nat
      BY <2>4
    <3>5. plain[day] \o <<rec>> # <<>>
      BY <3>1, <3>4
    <3> QED
      BY <3>1, <3>2, <3>3, <3>5
  <2>14. PICK d \in Days : d = day
    BY <2>4
  <2>7. readFile(d)' = readFile(d) \o <<rec>>
    BY <2>1, <2>4, <2>5, <2>6, <2>14 DEF readFile, dedupeByDay
  <2>8. \A e \in Days : e # day => readFile(e)' = readFile(e)
    BY <2>1, <2>5 DEF readFile, dedupeByDay
  <2>9. Archive' = Archive \o <<rec>>
    <3> DEFINE u == <<rec>>
    <3>1. u \in Seq(AuditLine) /\ readFile(d)' = readFile(d) \o u
      BY <2>6, <2>7
    <3>3. /\ \A e \in Days : e # d => readFile(e)' = readFile(e)
          /\ \A e \in Days : e > d => readFile(e) = <<>>
      BY <2>4, <2>8, <2>14
    <3> HIDE DEF u
    <3>2. Archive' = Archive \o u
      BY <1>0, <3>1, <3>3, ArchiveGrows
    <3> QED
      BY <3>2 DEF u
  <2>10. Archive \in Seq(AuditLine)
    BY <1>0, ArchiveShape
  <2>11. VerifyContext(Archive) /\ lastHash = HashOf(Archive)
    BY <1>1, <2>3 DEF TipInv
  <2>12. VerifyContext(Archive \o <<rec>>) /\ HashOf(Archive \o <<rec>>) = rec.hash
    BY <2>2, <2>10, <2>11, ChainGrows
  <2>13. VerifyContext(Archive)' /\ HashOf(Archive)' = rec.hash
    BY <2>9, <2>12 DEF VerifyContext, HashOf, Genesis
  <2> QED
    BY <2>1, <2>2, <2>5, <2>6, <2>13 DEF TipInv
<1>8. CASE SyncLine
  <2>1. /\ pc = "sync" /\ pc' = "done" /\ unsynced' = FALSE /\ lastHash' = lines
        /\ plain' = plain /\ gz' = gz /\ up' = up
    BY <1>0, <1>2, <1>8 DEF SyncLine, AuditShape
  <2>2. Archive' = Archive
    BY <1>b, <2>1
  <2> QED
    BY <1>1, <2>1, <2>2 DEF TipInv, VerifyContext, HashOf, Genesis
<1>9. CASE Crash
  <2>1. up /\ ~up' /\ pc' = "free" /\ unsynced' = FALSE /\ gz' = gz
    BY <1>9 DEF Crash
  <2>2. CASE plain' = plain
    <3>1. Archive' = Archive
      BY <1>b, <2>1, <2>2
    <3> QED
      BY <1>1, <2>1, <3>1 DEF TipInv, VerifyContext, HashOf, Genesis
  <2>3. CASE unsynced /\ plain' = [plain EXCEPT ![day] = Front(@)]
    <3>1. /\ day \in Days /\ plain[day] \in Seq(AuditLine) /\ gz[day] = NoDayFile
          /\ readFile(day) = plain[day]
          /\ \A e \in Days : e > day => readFile(e) = <<>>
      BY <1>0, <2>1, NewestIsLast
    <3>2. plain[day] # <<>>
      BY <1>1, <2>3 DEF TipInv
    <3> DEFINE f == Front(plain[day])
               r == Last(plain[day])
    <3>3. f \in Seq(AuditLine) /\ r \in AuditLine /\ plain[day] = f \o <<r>>
      <4> DEFINE p == plain[day]
      <4>1. p \in Seq(AuditLine) /\ p # <<>>
        BY <3>1, <3>2
      <4>2. Len(p) \in Nat /\ Len(p) >= 1
        BY <4>1
      <4>3. f \in Seq(AuditLine) /\ Len(f) = Len(p) - 1 /\ \A i \in 1 .. Len(p) - 1 : f[i] = p[i]
        BY <4>1, <4>2 DEF Front
      <4>4. r \in AuditLine /\ r = p[Len(p)]
        BY <4>1, <4>2 DEF Last
      <4> HIDE DEF p, f, r
      <4>5. p = f \o <<r>>
        BY <4>1, <4>2, <4>3, <4>4
      <4> QED
        BY <4>3, <4>4, <4>5 DEF p
    <3>4. plain'[day] = f /\ \A e \in Days : e # day => plain'[e] = plain[e]
      BY <1>0, <2>3, <3>1 DEF AuditShape
    <3> HIDE DEF f, r
    <3>5. f # NoDayFile
      BY <3>3, AuditAssumption DEF AuditLine
    <3>13. PICK d \in Days : d = day
      BY <3>1
    <3>6. readFile(d)' = f
      BY <2>1, <3>1, <3>4, <3>5, <3>13 DEF readFile, dedupeByDay
    <3>7. \A e \in Days : e # day => readFile(e)' = readFile(e)
      BY <2>1, <3>4 DEF readFile, dedupeByDay
    <3> DEFINE u == <<r>>
    <3>8. u \in Seq(AuditLine) /\ readFile(d) = f \o u
      BY <3>1, <3>3, <3>13
    <3>14. /\ \A e \in Days : e # d => readFile(e)' = readFile(e)
           /\ \A e \in Days : e > d => readFile(e) = <<>>
           /\ readFile(d) = readFile(d)' \o u
      BY <3>1, <3>6, <3>7, <3>8, <3>13
    <3> HIDE DEF u
    <3>9. Archive = Archive' \o u
      BY <1>0, <3>8, <3>14, ArchiveShrinks
    <3>10. Archive' \in Seq(AuditLine) /\ VerifyContext(Archive)
      BY <1>1, ArchiveShapeNext DEF TipInv
    <3>11. VerifyContext(Archive' \o <<r>>) => VerifyContext(Archive')
      <4> DEFINE a == Archive'
      <4>1. a \in Seq(AuditLine)
        BY <3>10
      <4> HIDE DEF a
      <4>2. VerifyContext(a \o <<r>>) => VerifyContext(a)
        BY <3>3, <4>1, ChainGrows
      <4> QED
        BY <4>2 DEF a
    <3>12. VerifyContext(Archive)'
      BY <3>9, <3>10, <3>11 DEF u, VerifyContext, Genesis
    <3> QED
      BY <2>1, <3>12 DEF TipInv
  <2> QED
    BY <1>9, <2>2, <2>3 DEF Crash
<1>10. ASSUME UNCHANGED <<plain, gz, lastHash, unsynced, up, day, lines>>,
              pc' = pc \/ (pc \notin {"sync", "failed"} /\ pc' \notin {"sync", "failed"})
       PROVE  TipInv'
  <2>1. Archive' = Archive
    BY <1>b, <1>10
  <2> QED
    BY <1>1, <1>10, <2>1 DEF TipInv, VerifyContext, HashOf, Genesis
<1>11. CASE CompressOlderThan \/ Outcomed \/ Midnight \/ QueryFirst \/ QueryNext
  BY <1>1, <1>10, <1>11 DEF CompressOlderThan, Outcomed, Midnight, QueryFirst, QueryNext, TipInv
<1>12. ASSUME NEW c \in Requests, Attempt(c) \/ Attempted(c) \/ Outcome(c) \/ Panic(c)
       PROVE  TipInv'
  BY <1>1, <1>10, <1>12 DEF Attempt, Attempted, Outcome, Panic, TipInv
<1>13. ASSUME NEW s \in pending, evictStalePending(s) PROVE TipInv'
  BY <1>10, <1>13 DEF evictStalePending
<1>14. CASE UNCHANGED auditVars
  BY <1>10, <1>14 DEF auditVars
<1> QED
  BY <1>3, <1>4, <1>5, <1>6, <1>7, <1>8, <1>9, <1>11, <1>12, <1>13, <1>14 DEF AuditNext

\* As long as no write and no fsync has failed, the archive is one chain: for any number
\* of requests, days, crashes and power cuts, over the turn of a day, the compression of
\* a file and a restart (internal/audit audit.go append and resume, rotate.go CompressOlderThan).
THEOREM AuditChain == AuditSpec => []ChainHolds
<1>1. AuditInit => AuditInv
  <2> SUFFICES ASSUME AuditInit PROVE AuditInv
    OBVIOUS
  <2>1. AuditShape
    <3>1. 1 \in Days
      BY AuditAssumption DEF Days
    <3>2. /\ plain \in [Days -> Seq(AuditLine) \cup {NoDayFile}]
          /\ gz \in [Days -> Seq(AuditLine) \cup {NoDayFile}]
      BY DEF AuditInit
    <3>3. reqs \in [Requests -> [at : {"new", "acting", "refused", "over"}, seq : Nat]]
      BY DEF AuditInit
    <3>4. item.of \in Nat /\ lastHash \in Nat
      BY DEF AuditInit, NoItem, Genesis
    <3> QED
      BY <3>1, <3>2, <3>3, <3>4 DEF AuditInit, AuditShape
  <2>2. PlainFiles = {} /\ \A d \in Days : gz[d] = NoDayFile /\ readFile(d) = <<>>
    BY DEF AuditInit, PlainFiles, readFile, dedupeByDay
  <2>3. FilesInv
    BY <2>2 DEF AuditInit, FilesInv
  <2>4. Archive = <<>>
    <3> DEFINE ss == allFiles
    <3>1. ss \in Seq(Seq({})) /\ Len(ss) >= 1
      <4>1. ss \in [1 .. MaxDays -> Seq({})]
        <5>1. <<>> \in Seq({})
          OBVIOUS
        <5>2. ss = [d \in 1 .. MaxDays |-> <<>>]
          BY <2>2 DEF allFiles, Days
        <5> QED
          BY <5>1, <5>2
      <4> QED
        BY <4>1, AuditAssumption
    <3> HIDE DEF ss
    <3>2. FlattenSeq(ss) \in Seq({})
      BY <3>1, FlattenType
    <3>3. \A s \in Seq({}) : s = <<>>
      OBVIOUS
    <3> QED
      BY <3>2, <3>3 DEF Archive, ss
  <2>5. TipInv
    BY <2>4 DEF AuditInit, TipInv, VerifyContext, HashOf, Genesis
  <2> QED
    BY <2>1, <2>3, <2>5 DEF AuditInv
<1>2. AuditInv /\ [AuditNext]_auditVars => AuditInv'
  <2> SUFFICES ASSUME AuditInv, [AuditNext]_auditVars PROVE AuditInv'
    OBVIOUS
  <2>1. AuditShape' /\ FilesInv'
    BY AuditTyped, AuditFiles
  <2>2. faults' = 0 => TipInv'
    BY <2>1, AuditTip
  <2> QED
    BY <2>1, <2>2 DEF AuditInv
<1>3. AuditInv => ChainHolds
  BY DEF AuditInv, TipInv, ChainHolds
<1> QED
  BY <1>1, <1>2, <1>3, PTL DEF AuditSpec

----------------------------------------------------------------------------
(***************************************************************************)
(* The history behind the charts.                                          *)
(***************************************************************************)

\* What the readings taken in the slots T make of each slot, and of each minute.
FineOwed(T) == [x \in Int |-> Mean(T \cap {x})]
CoarseOwed(T) == [x \in Int |-> Mean(T \cap FineOf(x))]

\* A ring of n slots that holds what is owed in the window that ends now.
RingShows(r, n, now, W) ==
    /\ DOMAIN r = {"vals", "head"} /\ DOMAIN r.vals = 0 .. n - 1
    /\ r.head \in Nat /\ r.head <= now
    /\ \A x \in Int : x > now - n => valueAt(r, x) = W[x]

\* What a file says of a ring, in the window that ends now.
EntriesShow(E, n, now, W) ==
    /\ \A e \in E : e = <<e[1], e[2]>> /\ e[1] \in Int /\ e[1] <= now
    /\ \A x \in Int : x > now - n => \A v : <<x, v>> \in E <=> v = W[x] /\ v # NaN
    /\ \A x \in Int : x > now => W[x] = NaN

SeriesShow(sub, T, now) ==
    IF sub = NoSubject THEN T = {}
    ELSE /\ DOMAIN sub = {"fine", "coarse", "seen"}
         /\ RingShows(sub.fine, FineSlots, now, FineOwed(T))
         /\ RingShows(sub.coarse, CoarseSlots, MinuteOf(now), CoarseOwed(T))

RawShow(raw, T, now) ==
    IF raw = NoSubject THEN T = {}
    ELSE /\ DOMAIN raw = {"fine", "coarse", "seen"}
         /\ EntriesShow(raw.fine, FineSlots, now, FineOwed(T))
         /\ EntriesShow(raw.coarse, CoarseSlots, MinuteOf(now), CoarseOwed(T))

\* The clock stands still within a pass.
PassInv ==
    /\ hnow \in Nat /\ hnow >= FirstSlot
    /\ {"at", "stop"} \subseteq DOMAIN sampler
    /\ sampler.at \in {"list", "sample"} => "slot" \in DOMAIN sampler /\ sampler.slot = hnow

\* The memory, and the file, each hold all that their windows have room for.
MemoryInv ==
    /\ taken \in [SeriesKeys -> SUBSET (0 .. hnow)]
    /\ DOMAIN subjects = SeriesKeys
    /\ \A k \in SeriesKeys : SeriesShow(subjects[k], taken[k], hnow)

DiskInv ==
    /\ takenOnDisk \in [SeriesKeys -> SUBSET (0 .. hnow)]
    /\ Readable => \A k \in SeriesKeys : RawShow(file.subjects[k], takenOnDisk[k], hnow)

HistoryInv == PassInv /\ MemoryInv /\ DiskInv

\* The mean of one reading.
LEMMA MeanOne ==
  ASSUME NEW s \in Int
  PROVE  Mean({s}) = [sum |-> s, n |-> 1]
<1> DEFINE D == SUBSET {s}
           Pick(S) == CHOOSE x \in S : TRUE
           Rule(f) == [S \in D |-> IF S = {} THEN 0 ELSE Pick(S) + f[S \ {Pick(S)}]]
           G == CHOOSE f : f = Rule(f)
           h == [S \in D |-> IF S = {} THEN 0 ELSE s]
<1>1. D = {{}, {s}}
  OBVIOUS
<1>2. h = Rule(h)
  <2>1. ASSUME NEW S \in D PROVE h[S] = Rule(h)[S]
    <3>1. CASE S = {}
      BY <3>1
    <3>2. CASE S = {s}
      <4>1. Pick(S) = s
        BY <3>2
      <4>2. S \ {s} = {} /\ {} \in D /\ h[{}] = 0
        BY <3>2
      <4> QED
        BY <3>2, <4>1, <4>2
    <3> QED
      BY <1>1, <3>1, <3>2
  <2> QED
    BY <2>1
<1>3. G = Rule(G)
  BY <1>2
<1>4. FoldSet(LAMBDA x, y : x + y, 0, {s}) = G[{s}]
  BY DEF FoldSet, MapThenFoldSet
<1> HIDE DEF G
<1>5. G[{}] = 0
  BY <1>3
<1>6. G[{s}] = s + G[{}]
  <2>1. Pick({s}) = s
    OBVIOUS
  <2>2. {s} \in D /\ {s} # {} /\ {s} \ {s} = {}
    OBVIOUS
  <2> QED
    BY <1>3, <2>1, <2>2
<1>7. G[{s}] = s
  BY <1>5, <1>6
<1>8. Cardinality({s}) = 1
  BY FS_Singleton
<1> QED
  BY <1>4, <1>7, <1>8 DEF Mean

\* Remainders and quotients.
LEMMA ModIn ==
  ASSUME NEW n \in Int, n > 0, NEW a \in Int
  PROVE  a % n \in 0 .. n - 1
OBVIOUS

LEMMA ModApart ==
  ASSUME NEW n \in Int, n > 0, NEW a \in Int, NEW b \in Int, a % n = b % n, a <= b, b < a + n
  PROVE  a = b
<1> DEFINE p == a \div n
           q == b \div n
<1>1. a = p * n + (a % n) /\ b = q * n + (b % n)
  BY Z3
<1>2. p \in Int /\ q \in Int /\ a % n \in Int
  OBVIOUS
<1> HIDE DEF p, q
<1>3. b - a = (q - p) * n
  BY <1>1, <1>2
<1>4. q - p < 1 /\ q - p >= 0
  BY <1>2, <1>3
<1>5. q = p
  BY <1>2, <1>4
<1> QED
  BY <1>2, <1>3, <1>5

LEMMA DivIn ==
  ASSUME NEW n \in Int, n > 0, NEW s \in Int, NEW m \in Int
  PROVE  s \in m * n .. (m + 1) * n - 1 <=> m = s \div n
<1> DEFINE p == s \div n
<1>1. p \in Int /\ p * n <= s /\ s < (p + 1) * n
  OBVIOUS
<1> HIDE DEF p
<1>2. ASSUME s \in m * n .. (m + 1) * n - 1 PROVE m = p
  <2>1. m * n <= s /\ s < (m + 1) * n
    BY <1>2
  <2>2. m < p + 1
    BY <1>1, <2>1
  <2>3. p < m + 1
    BY <1>1, <2>1
  <2> QED
    BY <1>1, <2>2, <2>3
<1>3. ASSUME m = p PROVE s \in m * n .. (m + 1) * n - 1
  <2>1. m * n \in Int /\ (m + 1) * n \in Int
    OBVIOUS
  <2> QED
    BY <1>1, <1>3, <2>1
<1> QED
  BY <1>2, <1>3 DEF p

LEMMA DivMono ==
  ASSUME NEW n \in Int, n > 0, NEW s \in Int, NEW t \in Int, s <= t
  PROVE  s \div n <= t \div n
<1> DEFINE p == s \div n
           q == t \div n
<1>1. p \in Int /\ p * n <= s /\ s < (p + 1) * n
  OBVIOUS
<1>2. q \in Int /\ q * n <= t /\ t < (q + 1) * n
  OBVIOUS
<1> HIDE DEF p, q
<1>3. p * n < (q + 1) * n
  BY <1>1, <1>2
<1>4. p < q + 1
  BY <1>1, <1>2, <1>3
<1> QED
  BY <1>1, <1>2, <1>4 DEF p, q

\* Slots less than a lap apart are kept in different places.
LEMMA LapApart ==
  ASSUME NEW n \in Nat \ {0}, NEW a \in Int, NEW b \in Int, a % n = b % n, b < a + n, a < b + n
  PROVE  a = b
<1>1. CASE a <= b
  BY <1>1, ModApart
<1>2. CASE b <= a
  BY <1>2, ModApart
<1> QED
  BY <1>1, <1>2

LEMMA MeanIsNaN ==
  ASSUME NEW S, IsFiniteSet(S)
  PROVE  Mean(S) = NaN <=> S = {}
<1>1. Cardinality({}) = 0 /\ (Cardinality(S) = 0 <=> S = {})
  BY FS_EmptySet
<1>2. Mean(S).n = Cardinality(S) /\ NaN.n = 0
  BY <1>1 DEF NaN, Mean
<1>3. S = {} => Mean(S) = NaN
  BY DEF NaN
<1> QED
  BY <1>1, <1>2, <1>3

\* What is owed in a slot and in a minute.
LEMMA Owed ==
  ASSUME NEW N \in Nat, NEW T \in SUBSET (0 .. N), NEW x \in Int
  PROVE  /\ FineOwed(T)[x] = IF x \in T THEN Mean({x}) ELSE NaN
         /\ FineOwed(T)[x] # NaN <=> x \in T
         /\ CoarseOwed(T)[x] = Mean(T \cap FineOf(x))
         /\ CoarseOwed(T)[x] # NaN <=> T \cap FineOf(x) # {}
<1>1. IsFiniteSet(T)
  <2>1. IsFiniteSet(0 .. N)
    BY FS_Interval
  <2> QED
    BY <2>1, FS_Subset
<1>2. IsFiniteSet(T \cap FineOf(x))
  BY <1>1, FS_Subset
<1>3. IsFiniteSet({x}) /\ {x} # {}
  BY FS_Singleton
<1>4. Mean({x}) # NaN
  BY <1>3, MeanIsNaN
<1>5. FineOwed(T)[x] = Mean(T \cap {x})
  BY DEF FineOwed
<1>6. CASE x \in T
  <2>1. T \cap {x} = {x}
    BY <1>6
  <2> QED
    BY <1>2, <1>4, <1>5, <1>6, <2>1, MeanIsNaN DEF CoarseOwed
<1>7. CASE x \notin T
  <2>1. T \cap {x} = {}
    BY <1>7
  <2> QED
    BY <1>2, <1>5, <1>7, <2>1, MeanIsNaN DEF CoarseOwed, NaN
<1> QED
  BY <1>6, <1>7

LEMMA RingHasSlots ==
  ASSUME NEW n \in Nat \ {0}, NEW r, DOMAIN r.vals = 0 .. n - 1
  PROVE  RingSlots(r) = n /\ \A s : index(r, s) = s % n
<1>1. Cardinality(0 .. n - 1) = n
  BY FS_Interval
<1> QED
  BY <1>1 DEF RingSlots, index

\* put, at the slot that is now.
LEMMA PutShows ==
  ASSUME NEW n \in Nat \ {0}, NEW now \in Nat, NEW r, NEW W, NEW V, NEW v,
         RingShows(r, n, now, W),
         \A x \in Int : V[x] = IF x = now THEN v ELSE W[x]
  PROVE  RingShows(put(r, now, v), n, now, V)
<1> DEFINE h == r.head
           place == now % n
           skipped == {index(r, s) : s \in Max2(h + 1, now - n + 1) .. now}
           cleared == [i \in 0 .. n - 1 |-> IF i \in skipped THEN NaN ELSE r.vals[i]]
           moved == IF now > h THEN [vals |-> cleared, head |-> now] ELSE r
           p == put(r, now, v)
<1>1. /\ DOMAIN r = {"vals", "head"} /\ DOMAIN r.vals = 0 .. n - 1
      /\ h \in Nat /\ h <= now /\ \A x \in Int : x > now - n => valueAt(r, x) = W[x]
  BY DEF RingShows
<1>2. RingSlots(r) = n /\ \A s : index(r, s) = s % n
  BY <1>1, RingHasSlots
<1>3. DOMAIN moved = {"vals", "head"} /\ DOMAIN moved.vals = 0 .. n - 1 /\ moved.head = now
  BY <1>1
<1>4. p = [moved EXCEPT !.vals[place] = v]
  <2>1. ~(now <= moved.head - n)
    BY <1>3
  <2> QED
    BY <1>1, <1>2, <2>1 DEF put
<1>5. place \in 0 .. n - 1
  BY ModIn
<1> HIDE DEF moved, p, place
<1>6. /\ DOMAIN p = {"vals", "head"} /\ DOMAIN p.vals = 0 .. n - 1 /\ p.head = now
      /\ \A i \in 0 .. n - 1 : p.vals[i] = IF i = place THEN v ELSE moved.vals[i]
  BY <1>3, <1>4, <1>5
<1>7. RingSlots(p) = n /\ \A s : index(p, s) = s % n
  BY <1>6, RingHasSlots
<1>8. ASSUME NEW x \in Int, x > now - n PROVE valueAt(p, x) = V[x]
  <2>1. valueAt(r, x) = W[x]
    BY <1>1, <1>8
  <2>2. CASE x > now
    <3>1. valueAt(p, x) = NaN
      BY <1>6, <2>2 DEF valueAt
    <3>2. x > h /\ x # now
      BY <1>1, <2>2
    <3>3. valueAt(r, x) = NaN
      BY <3>2 DEF valueAt
    <3> QED
      BY <2>1, <3>1, <3>2, <3>3
  <2>3. CASE x = now
    <3>1. valueAt(p, x) = p.vals[place]
      BY <1>6, <1>7, <2>3 DEF valueAt, place
    <3> QED
      BY <1>5, <1>6, <2>3, <3>1
  <2>4. CASE x < now
    <3>1. x % n \in 0 .. n - 1
      BY ModIn
    <3>2. x % n # place
      <4> SUFFICES ASSUME x % n = now % n PROVE FALSE
        BY DEF place
      <4>1. now < x + n /\ x < now + n /\ now \in Int /\ x # now
        BY <1>8, <2>4
      <4> QED
        BY <4>1, LapApart
    <3>3. ~(x > p.head \/ x <= p.head - RingSlots(p))
      BY <1>6, <1>7, <1>8, <2>4
    <3>4. valueAt(p, x) = moved.vals[x % n]
      BY <1>6, <1>7, <3>1, <3>2, <3>3 DEF valueAt
    <3>5. V[x] = W[x]
      BY <2>4
    <3>6. CASE x > h
      <4>1. valueAt(r, x) = NaN
        BY <3>6 DEF valueAt
      <4>2. now > h
        BY <1>1, <2>4, <3>6
      <4>3. x \in Max2(h + 1, now - n + 1) .. now
        BY <1>1, <1>8, <2>4, <3>6 DEF Max2
      <4>4. x % n \in skipped
        BY <1>2, <4>3
      <4>5. moved.vals[x % n] = NaN
        BY <3>1, <4>2, <4>4 DEF moved
      <4> QED
        BY <2>1, <3>4, <3>5, <4>1, <4>5
    <3>7. CASE x <= h
      <4>1. x % n \notin skipped
        <5> SUFFICES ASSUME NEW s \in Max2(h + 1, now - n + 1) .. now, x % n = index(r, s)
                     PROVE  FALSE
          OBVIOUS
        <5>1. s \in Int /\ s > x /\ s < x + n
          BY <1>1, <1>8, <3>7 DEF Max2
        <5>2. x % n = s % n
          BY <1>2
        <5> QED
          BY <5>1, <5>2, ModApart
      <4>2. moved.vals[x % n] = r.vals[x % n]
        BY <3>1, <4>1 DEF moved
      <4>3. ~(x > h \/ x <= h - n)
        BY <1>1, <1>8, <3>7
      <4>4. valueAt(r, x) = r.vals[x % n]
        BY <1>2, <4>3 DEF valueAt
      <4> QED
        BY <2>1, <3>4, <3>5, <4>2, <4>4
    <3> QED
      BY <1>1, <3>6, <3>7
  <2> QED
    BY <2>2, <2>3, <2>4
<1>9. RingShows(p, n, now, V)
  BY <1>6, <1>8 DEF RingShows
<1> QED
  BY <1>9 DEF p

LEMMA FreshShows ==
  ASSUME NEW n \in Nat \ {0}, NEW now \in Nat, NEW W, \A x \in Int : W[x] = NaN
  PROVE  RingShows(newRing(n), n, now, W)
<1> DEFINE r == newRing(n)
<1>1. /\ DOMAIN r = {"vals", "head"} /\ DOMAIN r.vals = 0 .. n - 1 /\ r.head = 0
      /\ \A i \in 0 .. n - 1 : r.vals[i] = NaN
  BY DEF newRing
<1> HIDE DEF r
<1>2. RingSlots(r) = n /\ \A s : index(r, s) = s % n
  BY <1>1, RingHasSlots
<1>3. \A x \in Int : valueAt(r, x) = NaN
  <2> TAKE x \in Int
  <2>1. x % n \in 0 .. n - 1
    BY ModIn
  <2> QED
    BY <1>1, <1>2, <2>1 DEF valueAt
<1>4. RingShows(r, n, now, W)
  BY <1>1, <1>3 DEF RingShows
<1> QED
  BY <1>4 DEF r

\* appendRing writes what the window holds.
LEMMA AppendShows ==
  ASSUME NEW n \in Nat \ {0}, NEW now \in Nat, NEW r, NEW W, RingShows(r, n, now, W)
  PROVE  EntriesShow(appendRing(r, now), n, now, W)
<1> DEFINE h == r.head
           E == appendRing(r, now)
<1>1. /\ DOMAIN r.vals = 0 .. n - 1 /\ h \in Nat /\ h <= now
      /\ \A x \in Int : x > now - n => valueAt(r, x) = W[x]
  BY DEF RingShows
<1>2. RingSlots(r) = n
  BY <1>1, RingHasSlots
<1>3. Max2(h, now) = now /\ Min2(h, now) = h
  BY <1>1 DEF Max2, Min2
<1>4. E = {<<s, valueAt(r, s)>> : s \in {x \in now - n + 1 .. h : valueAt(r, x) # NaN}}
  BY <1>2, <1>3 DEF appendRing
<1> HIDE DEF E
<1>5. ASSUME NEW e \in E PROVE e = <<e[1], e[2]>> /\ e[1] \in Int /\ e[1] <= now
  <2>1. PICK s \in now - n + 1 .. h : e = <<s, valueAt(r, s)>>
    BY <1>4
  <2> QED
    BY <1>1, <2>1
<1>6. ASSUME NEW x \in Int, x > now - n, NEW v
      PROVE  <<x, v>> \in E <=> v = W[x] /\ v # NaN
  <2>1. valueAt(r, x) = W[x]
    BY <1>1, <1>6
  <2>2. x > h => valueAt(r, x) = NaN
    BY DEF valueAt
  <2>3. ASSUME v = W[x], v # NaN PROVE <<x, v>> \in E
    <3>1. x \in now - n + 1 .. h
      BY <1>1, <1>6, <2>1, <2>2, <2>3
    <3> QED
      BY <1>4, <2>1, <2>3, <3>1
  <2>4. ASSUME <<x, v>> \in E PROVE v = W[x] /\ v # NaN
    <3>1. PICK s \in now - n + 1 .. h : valueAt(r, s) # NaN /\ <<x, v>> = <<s, valueAt(r, s)>>
      BY <1>4, <2>4
    <3> QED
      BY <2>1, <3>1
  <2> QED
    BY <2>3, <2>4
<1>7. ASSUME NEW x \in Int, x > now PROVE W[x] = NaN
  <2>1. x > h /\ x > now - n
    BY <1>1, <1>7
  <2> QED
    BY <1>1, <2>1 DEF valueAt
<1>8. EntriesShow(E, n, now, W)
  BY <1>5, <1>6, <1>7 DEF EntriesShow
<1> QED
  BY <1>8 DEF E

\* The greatest of some numbers none of which is above N.
LEMMA GreatestUpTo ==
  ASSUME NEW N \in Nat, NEW S, S # {}, S \subseteq 0 .. N
  PROVE  \E m \in S : \A y \in S : y <= m
<1> DEFINE D == {N - y : y \in S}
<1>1. D \subseteq Nat /\ D # {}
  <2>1. \A y \in S : N - y \in Nat
    OBVIOUS
  <2>2. PICK y : y \in S
    OBVIOUS
  <2>3. N - y \in D
    BY <2>2
  <2> QED
    BY <2>1, <2>3
<1> HIDE DEF D
<1>2. PICK d \in D : \A y \in D : d <= y
  BY <1>1, LeastNatural
<1>3. PICK m \in S : d = N - m
  BY DEF D
<1>4. ASSUME NEW y \in S PROVE y <= m
  <2>1. N - y \in D
    BY DEF D
  <2>2. N - m <= N - y
    BY <1>2, <1>3, <2>1
  <2> QED
    BY <2>2
<1> QED
  BY <1>4

\* readRing puts back what the window has room for.
LEMMA ReadShows ==
  ASSUME NEW n \in Nat \ {0}, NEW now \in Nat, now >= n, NEW E, NEW W, EntriesShow(E, n, now, W)
  PROVE  /\ RingShows(readRing(n, E, now), n, now, W)
         /\ readRing(n, E, now).head = 0 => \A x \in Int : x > now - n => W[x] = NaN
<1> DEFINE kept == {e \in E : e[1] >= now - n + 1 /\ e[1] <= now}
           heads == {e[1] : e \in kept}
           top == IF kept = {} THEN 0 ELSE CHOOSE h \in heads : \A e \in kept : e[1] <= h
           held == [i \in 0 .. n - 1 |->
                      IF \E e \in kept : e[1] % n = i THEN (CHOOSE e \in kept : e[1] % n = i)[2] ELSE NaN]
           r == readRing(n, E, now)
<1>1. r = [head |-> top, vals |-> held]
  BY DEF readRing
<1>2. ASSUME NEW e \in kept
      PROVE  /\ e[1] \in Int /\ e[1] > now - n /\ e[1] <= now /\ e[1] \in 0 .. now
             /\ e[2] = W[e[1]] /\ e[2] # NaN
  <2>1. e = <<e[1], e[2]>> /\ e[1] \in Int /\ e[1] >= now - n + 1 /\ e[1] <= now /\ e \in E
    BY DEF EntriesShow
  <2>2. e[1] > now - n
    BY <2>1
  <2>3. <<e[1], e[2]>> \in E
    BY <2>1
  <2>4. e[2] = W[e[1]] /\ e[2] # NaN
    BY <2>1, <2>2, <2>3 DEF EntriesShow
  <2> QED
    BY <2>1, <2>2, <2>4
<1>3. ASSUME NEW x \in Int, x > now - n, W[x] # NaN PROVE <<x, W[x]>> \in kept /\ x <= now
  <2>1. <<x, W[x]>> \in E
    BY <1>3 DEF EntriesShow
  <2>2. x <= now
    BY <1>3 DEF EntriesShow
  <2>3. x >= now - n + 1
    BY <1>3
  <2> QED
    BY <2>1, <2>2, <2>3
<1> HIDE DEF kept
<1>4. /\ top \in Nat /\ top <= now /\ \A e \in kept : e[1] <= top
      /\ top = 0 => kept = {}
  <2>1. CASE kept = {}
    BY <2>1
  <2>2. CASE kept # {}
    <3>1. heads # {} /\ heads \subseteq 0 .. now /\ \A e \in kept : e[1] \in heads
      BY <1>2, <2>2
    <3>2. \E h \in heads : \A y \in heads : y <= h
      <4> HIDE DEF heads
      <4> QED
        BY <3>1, GreatestUpTo
    <3>3. \E h \in heads : \A e \in kept : e[1] <= h
      BY <3>1, <3>2
    <3>4. top \in heads /\ \A e \in kept : e[1] <= top
      BY <2>2, <3>3
    <3>5. PICK e \in kept : top = e[1]
      BY <3>4
    <3>6. top > 0
      BY <1>2, <3>5
    <3>7. top \in 0 .. now
      BY <3>1, <3>4
    <3> HIDE DEF top
    <3> QED
      BY <3>4, <3>6, <3>7
  <2> QED
    BY <2>1, <2>2
<1> HIDE DEF top, r, heads
<1>5. /\ DOMAIN r = {"vals", "head"} /\ DOMAIN r.vals = 0 .. n - 1 /\ r.head = top
      /\ r.vals = held
  BY <1>1
<1>6. RingSlots(r) = n /\ \A s : index(r, s) = s % n
  BY <1>5, RingHasSlots
<1>7. ASSUME NEW x \in Int, x > now - n PROVE valueAt(r, x) = W[x]
  <2>1. CASE x > top
    <3>1. valueAt(r, x) = NaN
      BY <1>5, <2>1 DEF valueAt
    <3>2. W[x] = NaN
      <4> SUFFICES ASSUME W[x] # NaN PROVE FALSE
        OBVIOUS
      <4> DEFINE e == <<x, W[x]>>
      <4>1. e \in kept /\ e[1] = x
        BY <1>3, <1>7
      <4> HIDE DEF e
      <4> QED
        BY <1>4, <2>1, <4>1
    <3> QED
      BY <3>1, <3>2
  <2>2. CASE x <= top
    <3>1. ~(x > top \/ x <= top - n) /\ x % n \in 0 .. n - 1
      BY <1>4, <1>7, <2>2, ModIn
    <3>2. valueAt(r, x) = held[x % n]
      BY <1>5, <1>6, <3>1 DEF valueAt
    <3> DEFINE mine == {e \in kept : e[1] % n = x % n}
    <3>3. held[x % n] = IF \E e \in kept : e[1] % n = x % n
                        THEN (CHOOSE e \in kept : e[1] % n = x % n)[2] ELSE NaN
      BY <3>1
    <3>4. ASSUME NEW e \in kept, e[1] % n = x % n PROVE e[1] = x /\ e[2] = W[x] /\ W[x] # NaN
      <4>1. e[1] \in Int /\ e[1] > now - n /\ e[1] <= now /\ e[2] = W[e[1]] /\ e[2] # NaN
        BY <1>2
      <4>2. e[1] < x + n /\ x < e[1] + n
        BY <1>4, <1>7, <2>2, <4>1
      <4>3. e[1] = x
        BY <3>4, <4>1, <4>2, LapApart
      <4> QED
        BY <4>1, <4>3
    <3>5. CASE \E e \in kept : e[1] % n = x % n
      <4>1. PICK c : c = CHOOSE e \in kept : e[1] % n = x % n
        OBVIOUS
      <4>2. c \in kept /\ c[1] % n = x % n
        BY <3>5, <4>1
      <4>3. c[2] = W[x]
        BY <3>4, <4>2
      <4> QED
        BY <3>2, <3>3, <3>5, <4>1, <4>3
    <3>6. CASE ~ \E e \in kept : e[1] % n = x % n
      <4>1. W[x] = NaN
        <5> SUFFICES ASSUME W[x] # NaN PROVE FALSE
          OBVIOUS
        <5> DEFINE e == <<x, W[x]>>
        <5>1. e \in kept /\ e[1] = x
          BY <1>3, <1>7
        <5> HIDE DEF e
        <5> QED
          BY <3>6, <5>1
      <4> QED
        BY <3>2, <3>3, <3>6, <4>1
    <3> QED
      BY <3>5, <3>6
  <2> QED
    BY <1>4, <2>1, <2>2
<1>8. RingShows(r, n, now, W)
  BY <1>4, <1>5, <1>7 DEF RingShows
<1>9. r.head = 0 => \A x \in Int : x > now - n => W[x] = NaN
  BY <1>3, <1>4, <1>5
<1> QED
  BY <1>8, <1>9 DEF r

\* The slots of a minute.
LEMMA SlotOfMinute ==
  ASSUME NEW s \in Int, NEW mn \in Int
  PROVE  s \in FineOf(mn) <=> mn = MinuteOf(s)
BY HistoryAssumption, DivIn DEF FineOf, MinuteOf

LEMMA MinutesRun ==
  ASSUME NEW s \in Nat, NEW t \in Nat, s <= t
  PROVE  /\ MinuteOf(s) \in Nat /\ MinuteOf(t) \in Nat /\ MinuteOf(s) <= MinuteOf(t)
<1>1. finePerCoarse \in Int /\ finePerCoarse > 0
  BY HistoryAssumption
<1>2. MinuteOf(s) <= MinuteOf(t)
  BY <1>1, DivMono DEF MinuteOf
<1>3. \A x \in Nat : x \div finePerCoarse \in Nat
  BY <1>1
<1> QED
  BY <1>2, <1>3 DEF MinuteOf

\* The fine ring has room for a minute.
LEMMA MinuteFits ==
  ASSUME NEW now \in Nat, NEW s \in FineOf(MinuteOf(now))
  PROVE  s \in Int /\ s > now - FineSlots
<1> DEFINE f == finePerCoarse
           m == MinuteOf(now)
           q == FineSlots \div f
<1>1. f \in Int /\ f > 0 /\ FineSlots \in Int /\ FineSlots > 0 /\ FineSlots % f = 0
  BY HistoryAssumption
<1>2. m \in Int
  BY MinutesRun
<1>3. q \in Int /\ FineSlots = q * f + (FineSlots % f)
  BY <1>1, Z3
<1> HIDE DEF q
<1>4. FineSlots = q * f
  BY <1>1, <1>3
<1>5. q > 0
  BY <1>1, <1>3, <1>4
<1>6. FineSlots >= f
  BY <1>1, <1>3, <1>4, <1>5
<1>7. now \in FineOf(m)
  BY <1>2, SlotOfMinute
<1> HIDE DEF m, f
<1>8. s \in m * f .. (m + 1) * f - 1 /\ now \in m * f .. (m + 1) * f - 1
  BY <1>7 DEF FineOf, m, f
<1>9. m * f \in Int /\ (m + 1) * f = m * f + f
  BY <1>1, <1>2
<1>10. s \in Int /\ s >= m * f /\ now < m * f + f
  BY <1>1, <1>8, <1>9
<1> QED
  BY <1>1, <1>6, <1>9, <1>10

\* minuteAverage is the mean of the readings taken in the minute.
LEMMA MinuteIsMean ==
  ASSUME NEW now \in Nat, NEW T \in SUBSET (0 .. now), NEW r,
         RingShows(r, FineSlots, now, FineOwed(T))
  PROVE  minuteAverage(r, MinuteOf(now)) = Mean(T \cap FineOf(MinuteOf(now)))
<1> DEFINE F == FineOf(MinuteOf(now))
           some == {x \in F : valueAt(r, x) # NaN}
<1>1. ASSUME NEW x \in F
      PROVE  /\ valueAt(r, x) # NaN <=> x \in T
             /\ x \in T => valueAt(r, x).sum = x
  <2>1. x \in Int /\ x > now - FineSlots
    BY MinuteFits
  <2>2. valueAt(r, x) = FineOwed(T)[x]
    BY <2>1 DEF RingShows
  <2>3. /\ FineOwed(T)[x] = IF x \in T THEN Mean({x}) ELSE NaN
        /\ FineOwed(T)[x] # NaN <=> x \in T
    BY <2>1, Owed
  <2>4. Mean({x}).sum = x
    <3>1. Mean({x}) = [sum |-> x, n |-> 1]
      BY <2>1, MeanOne
    <3> QED
      BY <3>1
  <2> QED
    BY <2>2, <2>3, <2>4
<1>2. some = T \cap F
  BY <1>1
<1>3. {valueAt(r, s).sum : s \in some} = T \cap F
  <2> HIDE DEF some
  <2>1. \A s \in some : valueAt(r, s).sum = s
    BY <1>1, <1>2
  <2> QED
    BY <1>2, <2>1
<1> QED
  BY <1>3 DEF minuteAverage

\* What one more reading makes of what is owed.
LEMMA OwedNext ==
  ASSUME NEW now \in Nat, NEW T \in SUBSET (0 .. now), NEW x \in Int
  PROVE  /\ FineOwed(T \cup {now})[x] = IF x = now THEN Mean({now}) ELSE FineOwed(T)[x]
         /\ CoarseOwed(T \cup {now})[x] =
              IF x = MinuteOf(now) THEN Mean((T \cup {now}) \cap FineOf(MinuteOf(now)))
              ELSE CoarseOwed(T)[x]
<1>1. T \cup {now} \in SUBSET (0 .. now)
  OBVIOUS
<1> DEFINE U == T \cup {now}
<1>2. x \in U <=> x = now \/ x \in T
  OBVIOUS
<1>3. FineOwed(U)[x] = IF x = now THEN Mean({now}) ELSE FineOwed(T)[x]
  <2>1. FineOwed(U)[x] = IF x \in U THEN Mean({x}) ELSE NaN
    <3> HIDE DEF U
    <3> QED
      BY <1>1, Owed DEF U
  <2>2. FineOwed(T)[x] = IF x \in T THEN Mean({x}) ELSE NaN
    BY Owed
  <2> HIDE DEF U
  <2> QED
    BY <1>2, <2>1, <2>2
<1>4. CoarseOwed(U)[x] = Mean(U \cap FineOf(x)) /\ CoarseOwed(T)[x] = Mean(T \cap FineOf(x))
  BY DEF CoarseOwed
<1>5. CASE x = MinuteOf(now)
  BY <1>3, <1>4, <1>5
<1>6. CASE x # MinuteOf(now)
  <2>1. now \notin FineOf(x)
    BY <1>6, SlotOfMinute
  <2>2. U \cap FineOf(x) = T \cap FineOf(x)
    BY <2>1
  <2> QED
    BY <1>3, <1>4, <1>6, <2>2
<1> QED
  BY <1>5, <1>6

\* The clock takes nothing from a window but its oldest slots.
LEMMA LaterShows ==
  ASSUME NEW now \in Nat, NEW later \in Nat, now <= later, NEW T, NEW X
  PROVE  /\ SeriesShow(X, T, now) => SeriesShow(X, T, later)
         /\ RawShow(X, T, now) => RawShow(X, T, later)
<1>1. MinuteOf(now) \in Nat /\ MinuteOf(later) \in Nat /\ MinuteOf(now) <= MinuteOf(later)
  BY MinutesRun
<1>2. ASSUME NEW n \in Nat \ {0}, NEW a \in Nat, NEW b \in Nat, a <= b, NEW r, NEW W
      PROVE  /\ RingShows(r, n, a, W) => RingShows(r, n, b, W)
             /\ EntriesShow(r, n, a, W) => EntriesShow(r, n, b, W)
  <2>1. \A x \in Int : (x > b - n => x > a - n) /\ (x > b => x > a) /\ (x <= a => x <= b)
    BY <1>2
  <2>2. RingShows(r, n, a, W) => RingShows(r, n, b, W)
    BY <1>2, <2>1 DEF RingShows
  <2>3. EntriesShow(r, n, a, W) => EntriesShow(r, n, b, W)
    BY <1>2, <2>1 DEF EntriesShow
  <2> QED
    BY <2>2, <2>3
<1>3. FineSlots \in Nat \ {0} /\ CoarseSlots \in Nat \ {0}
  BY HistoryAssumption
<1> QED
  BY <1>1, <1>2, <1>3 DEF SeriesShow, RawShow

\* A reading is filed: put into the fine ring, and the minute's mean into the coarse one.
LEMMA FiledShows ==
  ASSUME NEW now \in Nat, NEW T \in SUBSET (0 .. now), NEW old,
         DOMAIN old = {"fine", "coarse", "seen"},
         RingShows(old.fine, FineSlots, now, FineOwed(T)),
         RingShows(old.coarse, CoarseSlots, MinuteOf(now), CoarseOwed(T)),
         NEW fine, fine = put(old.fine, now, Mean({now})),
         NEW avg, avg = minuteAverage(fine, MinuteOf(now))
  PROVE  /\ avg # NaN
         /\ RingShows(fine, FineSlots, now, FineOwed(T \cup {now}))
         /\ RingShows(put(old.coarse, MinuteOf(now), avg), CoarseSlots, MinuteOf(now),
                      CoarseOwed(T \cup {now}))
<1> DEFINE U == T \cup {now}
           m == MinuteOf(now)
           W == FineOwed(T)
           V == FineOwed(U)
           Wc == CoarseOwed(T)
           Vc == CoarseOwed(U)
<1>1. FineSlots \in Nat \ {0} /\ CoarseSlots \in Nat \ {0} /\ m \in Nat /\ U \in SUBSET (0 .. now)
  BY HistoryAssumption, MinutesRun
<1>2. \A x \in Int : V[x] = IF x = now THEN Mean({now}) ELSE W[x]
  BY OwedNext
<1>3. \A x \in Int : Vc[x] = IF x = m THEN Mean(U \cap FineOf(m)) ELSE Wc[x]
  BY OwedNext
<1> HIDE DEF U, m, W, V, Wc, Vc
<1>4. RingShows(fine, FineSlots, now, V)
  BY <1>1, <1>2, PutShows DEF W
<1>5. avg = Mean(U \cap FineOf(m))
  BY <1>1, <1>4, MinuteIsMean DEF V, m
<1>6. RingShows(put(old.coarse, m, avg), CoarseSlots, m, Vc)
  BY <1>1, <1>3, <1>5, PutShows DEF Wc, m
<1>7. avg # NaN
  <2>1. now \in U \cap FineOf(m)
    BY <1>1, SlotOfMinute DEF U, m
  <2>2. CoarseOwed(U)[m] = Mean(U \cap FineOf(m)) /\ (CoarseOwed(U)[m] # NaN <=> U \cap FineOf(m) # {})
    <3>1. m \in Int /\ now \in Nat
      BY <1>1
    <3> QED
      BY <1>1, <3>1, Owed
  <2> QED
    BY <1>5, <2>1, <2>2
<1> QED
  BY <1>4, <1>6, <1>7 DEF U, V, Vc, m

LEMMA NothingOwed ==
  /\ \A x \in Int : FineOwed({})[x] = NaN
  /\ \A x \in Int : CoarseOwed({})[x] = NaN
<1>1. ASSUME NEW S PROVE {} \cap S = {}
  OBVIOUS
<1> QED
  BY <1>1 DEF FineOwed, CoarseOwed, NaN

LEMMA SampleShows ==
  ASSUME HistoryInv, NEW key \in SeriesKeys, RecordSample(key, hnow)
  PROVE  /\ taken' \in [SeriesKeys -> SUBSET (0 .. hnow)]
         /\ DOMAIN subjects' = SeriesKeys
         /\ \A k \in SeriesKeys : SeriesShow(subjects'[k], taken'[k], hnow)
<1> DEFINE T == taken[key]
           old == IF subjects[key] = NoSubject THEN newSeries ELSE subjects[key]
           fine == put(old.fine, hnow, Mean({hnow}))
           avg == minuteAverage(fine, MinuteOf(hnow))
           next == [fine |-> fine, seen |-> Max2(old.seen, hnow),
                    coarse |-> IF avg = NaN THEN old.coarse ELSE put(old.coarse, MinuteOf(hnow), avg)]
<1>1. /\ hnow \in Nat /\ taken \in [SeriesKeys -> SUBSET (0 .. hnow)] /\ DOMAIN subjects = SeriesKeys
      /\ \A k \in SeriesKeys : SeriesShow(subjects[k], taken[k], hnow)
  BY DEF HistoryInv, PassInv, MemoryInv
<1>2. /\ subjects' = [subjects EXCEPT ![key] = next]
      /\ taken' = [taken EXCEPT ![key] = @ \cup {hnow}]
  BY DEF RecordSample
<1>3. T \in SUBSET (0 .. hnow) /\ MinuteOf(hnow) \in Nat
  BY <1>1, MinutesRun
<1>4. /\ DOMAIN old = {"fine", "coarse", "seen"}
      /\ RingShows(old.fine, FineSlots, hnow, FineOwed(T))
      /\ RingShows(old.coarse, CoarseSlots, MinuteOf(hnow), CoarseOwed(T))
  <2>1. CASE subjects[key] = NoSubject
    <3>1. T = {}
      BY <1>1, <2>1 DEF SeriesShow
    <3>2. FineSlots \in Nat \ {0} /\ CoarseSlots \in Nat \ {0}
      BY HistoryAssumption
    <3>3. /\ RingShows(newRing(FineSlots), FineSlots, hnow, FineOwed({}))
          /\ RingShows(newRing(CoarseSlots), CoarseSlots, MinuteOf(hnow), CoarseOwed({}))
      BY <1>1, <1>3, <3>2, NothingOwed, FreshShows
    <3>4. old = [fine |-> newRing(FineSlots), coarse |-> newRing(CoarseSlots), seen |-> 0]
      BY <2>1 DEF newSeries
    <3> HIDE DEF old, T
    <3> QED
      BY <3>1, <3>3, <3>4
  <2>2. CASE subjects[key] # NoSubject
    BY <1>1, <2>2 DEF SeriesShow
  <2> QED
    BY <2>1, <2>2
<1> HIDE DEF old, T, fine, avg
<1>5. /\ avg # NaN
      /\ RingShows(fine, FineSlots, hnow, FineOwed(T \cup {hnow}))
      /\ RingShows(put(old.coarse, MinuteOf(hnow), avg), CoarseSlots, MinuteOf(hnow),
                   CoarseOwed(T \cup {hnow}))
  BY <1>1, <1>3, <1>4, FiledShows DEF fine, avg
<1>6. SeriesShow(next, T \cup {hnow}, hnow)
  <2>1. next # NoSubject
    <3>1. DOMAIN next = {"fine", "seen", "coarse"} /\ DOMAIN NoSubject = {"seen"}
      BY DEF NoSubject
    <3> QED
      BY <3>1
  <2>2. /\ DOMAIN next = {"fine", "coarse", "seen"} /\ next.fine = fine
        /\ next.coarse = put(old.coarse, MinuteOf(hnow), avg)
    BY <1>5
  <2> HIDE DEF next
  <2> QED
    BY <1>5, <2>1, <2>2 DEF SeriesShow
<1> HIDE DEF next
<1>7. /\ DOMAIN subjects' = SeriesKeys /\ subjects'[key] = next
      /\ \A k \in SeriesKeys : k # key => subjects'[k] = subjects[k]
  BY <1>1, <1>2
<1>8. /\ taken' \in [SeriesKeys -> SUBSET (0 .. hnow)] /\ taken'[key] = T \cup {hnow}
      /\ \A k \in SeriesKeys : k # key => taken'[k] = taken[k]
  BY <1>1, <1>2 DEF T
<1>9. ASSUME NEW k \in SeriesKeys PROVE SeriesShow(subjects'[k], taken'[k], hnow)
  <2>1. CASE k = key
    BY <1>6, <1>7, <1>8, <2>1
  <2>2. CASE k # key
    BY <1>1, <1>7, <1>8, <2>2
  <2> QED
    BY <2>1, <2>2
<1> QED
  BY <1>7, <1>8, <1>9

LEMMA WindowsArePast ==
  ASSUME PassInv
  PROVE  hnow \in Nat /\ hnow >= FineSlots /\ MinuteOf(hnow) \in Nat /\ MinuteOf(hnow) >= CoarseSlots
<1> DEFINE f == finePerCoarse
           p == MinuteOf(hnow)
<1>1. /\ f \in Int /\ f > 0 /\ CoarseSlots \in Int /\ FineSlots \in Int /\ FineSlots > 0
      /\ CoarseSlots > 0 /\ FirstSlot \in Int /\ FirstSlot > FineSlots + CoarseSlots * f
  BY HistoryAssumption
<1>2. hnow \in Nat /\ hnow >= FirstSlot /\ p \in Nat
  BY MinutesRun DEF PassInv
<1>3. CoarseSlots * f \in Int /\ CoarseSlots * f > 0
  BY <1>1
<1>4. hnow >= FineSlots /\ hnow > CoarseSlots * f
  BY <1>1, <1>2, <1>3
<1>5. hnow < (p + 1) * f
  <2>1. hnow \in FineOf(p)
    BY <1>2, SlotOfMinute
  <2>2. (p + 1) * f \in Int /\ p * f \in Int
    BY <1>1, <1>2
  <2> QED
    BY <1>2, <2>1, <2>2 DEF FineOf
<1> HIDE DEF p, f
<1>6. CoarseSlots * f < (p + 1) * f
  BY <1>1, <1>2, <1>3, <1>4, <1>5
<1>7. CoarseSlots < p + 1
  BY <1>1, <1>2, <1>6
<1> QED
  BY <1>1, <1>2, <1>4, <1>7 DEF p

\* The file as Flush leaves it.
LEMMA FlushShows ==
  ASSUME HistoryInv, Flush
  PROVE  /\ takenOnDisk' \in [SeriesKeys -> SUBSET (0 .. hnow)]
         /\ file'.is = "written" =>
              \A k \in SeriesKeys : RawShow(file'.subjects[k], takenOnDisk'[k], hnow)
<1>1. CASE file' = file /\ takenOnDisk' = takenOnDisk
  BY <1>1 DEF HistoryInv, DiskInv, Readable
<1>2. CASE /\ file' = [is |-> "written", subjects |-> encodeLocked(hnow)]
           /\ takenOnDisk' = Upto(taken, hnow)
  <2>1. /\ hnow \in Nat /\ MinuteOf(hnow) \in Nat
        /\ FineSlots \in Nat \ {0} /\ CoarseSlots \in Nat \ {0}
    BY WindowsArePast, HistoryAssumption DEF HistoryInv
  <2>2. takenOnDisk' = taken
    <3>1. \A k \in SeriesKeys : {s \in taken[k] : s <= hnow} = taken[k]
      BY <2>1 DEF HistoryInv, MemoryInv
    <3> QED
      BY <1>2, <3>1 DEF Upto, HistoryInv, MemoryInv
  <2>3. ASSUME NEW k \in SeriesKeys PROVE RawShow(encodeLocked(hnow)[k], taken[k], hnow)
    <3> DEFINE sub == subjects[k]
               raw == encodeLocked(hnow)[k]
    <3>1. SeriesShow(sub, taken[k], hnow)
      BY DEF HistoryInv, MemoryInv
    <3>2. CASE sub = NoSubject
      BY <3>1, <3>2 DEF encodeLocked, SeriesShow, RawShow
    <3>3. CASE sub # NoSubject
      <4>1. raw = [fine |-> appendRing(sub.fine, hnow),
                   coarse |-> appendRing(sub.coarse, MinuteOf(hnow)), seen |-> sub.seen]
        BY <3>3 DEF encodeLocked
      <4> HIDE DEF raw
      <4>2. /\ DOMAIN raw = {"fine", "coarse", "seen"} /\ raw.fine = appendRing(sub.fine, hnow)
            /\ raw.coarse = appendRing(sub.coarse, MinuteOf(hnow))
        BY <4>1
      <4>3. raw # NoSubject
        <5>1. DOMAIN NoSubject = {"seen"}
          BY DEF NoSubject
        <5> QED
          BY <4>2, <5>1
      <4>4. /\ RingShows(sub.fine, FineSlots, hnow, FineOwed(taken[k]))
            /\ RingShows(sub.coarse, CoarseSlots, MinuteOf(hnow), CoarseOwed(taken[k]))
        BY <3>1, <3>3 DEF SeriesShow
      <4>5. /\ EntriesShow(raw.fine, FineSlots, hnow, FineOwed(taken[k]))
            /\ EntriesShow(raw.coarse, CoarseSlots, MinuteOf(hnow), CoarseOwed(taken[k]))
        BY <2>1, <4>2, <4>4, AppendShows
      <4>6. RawShow(raw, taken[k], hnow)
        BY <4>2, <4>3, <4>5 DEF RawShow
      <4> QED
        BY <4>6 DEF raw
    <3> QED
      BY <3>2, <3>3
  <2>4. file'.subjects = encodeLocked(hnow)
    BY <1>2
  <2> QED
    BY <2>2, <2>3, <2>4 DEF HistoryInv, MemoryInv
<1> QED
  BY <1>1, <1>2 DEF Flush

\* The memory as Open finds it in the file.
LEMMA OpenShows ==
  ASSUME HistoryInv, OpenHistory
  PROVE  MemoryInv'
<1>1. /\ hnow \in Nat /\ MinuteOf(hnow) \in Nat /\ hnow >= FineSlots
      /\ MinuteOf(hnow) >= CoarseSlots
      /\ FineSlots \in Nat \ {0} /\ CoarseSlots \in Nat \ {0} /\ hnow' = hnow
  BY WindowsArePast, HistoryAssumption DEF HistoryInv, OpenHistory
<1>2. CASE ~Readable
  BY <1>1, <1>2 DEF OpenHistory, MemoryInv, Empty, Nobody, SeriesShow
<1>3. CASE Readable
  <2> DEFINE D == decode(file.subjects, hnow)
  <2>1. /\ subjects' = D
        /\ taken' = [k \in SeriesKeys |-> IF D[k] = NoSubject THEN {} ELSE takenOnDisk[k]]
        /\ DOMAIN D = SeriesKeys
    BY <1>3 DEF OpenHistory, decode
  <2>2. ASSUME NEW k \in SeriesKeys, D[k] # NoSubject
        PROVE  SeriesShow(D[k], takenOnDisk[k], hnow)
    <3> DEFINE raw == file.subjects[k]
               T == takenOnDisk[k]
               fine == readRing(FineSlots, raw.fine, hnow)
               coarse == readRing(CoarseSlots, raw.coarse, MinuteOf(hnow))
    <3>1. RawShow(raw, T, hnow)
      BY <1>3 DEF HistoryInv, DiskInv
    <3>2. raw # NoSubject
      BY <2>2 DEF decode
    <3>3. D[k] = [fine |-> fine, coarse |-> coarse, seen |-> raw.seen]
      BY <2>2, <3>2 DEF decode
    <3>4. /\ EntriesShow(raw.fine, FineSlots, hnow, FineOwed(T))
          /\ EntriesShow(raw.coarse, CoarseSlots, MinuteOf(hnow), CoarseOwed(T))
      BY <3>1, <3>2 DEF RawShow
    <3>5. /\ RingShows(fine, FineSlots, hnow, FineOwed(T))
          /\ RingShows(coarse, CoarseSlots, MinuteOf(hnow), CoarseOwed(T))
      BY <1>1, <3>4, ReadShows
    <3> HIDE DEF fine, coarse, D
    <3>6. DOMAIN D[k] = {"fine", "coarse", "seen"} /\ D[k].fine = fine /\ D[k].coarse = coarse
      BY <3>3
    <3> QED
      BY <2>2, <3>5, <3>6 DEF SeriesShow
  <2> HIDE DEF D
  <2>3. taken' \in [SeriesKeys -> SUBSET (0 .. hnow)]
    BY <2>1 DEF HistoryInv, DiskInv
  <2>4. ASSUME NEW k \in SeriesKeys PROVE SeriesShow(subjects'[k], taken'[k], hnow)
    <3>1. CASE D[k] = NoSubject
      BY <2>1, <3>1 DEF SeriesShow
    <3>2. CASE D[k] # NoSubject
      BY <2>1, <2>2, <3>2
    <3> QED
      BY <3>1, <3>2
  <2> QED
    BY <1>1, <2>1, <2>3, <2>4 DEF MemoryInv
<1> QED
  BY <1>2, <1>3

LEMMA PassStep ==
  ASSUME PassInv, HistoryNext
  PROVE  PassInv' /\ (hnow' = hnow \/ ClockRuns) /\ hnow' >= hnow
<1> USE DEF PassInv
<1>1. CASE OpenHistory \/ sampleHost \/ PassSkipped
  BY <1>1 DEF OpenHistory, sampleHost, PassSkipped
<1>2. CASE pass \/ PassFails \/ PassDone
  BY <1>2 DEF pass, PassFails, PassDone
<1>3. CASE FlushIfDue
  BY <1>3 DEF FlushIfDue
<1>4. CASE Run
  BY <1>4 DEF Run
<1>5. ASSUME NEW m \in HMachines, sampleMachine(m)
      PROVE  PassInv' /\ (hnow' = hnow \/ ClockRuns) /\ hnow' >= hnow
  BY <1>5 DEF sampleMachine
<1>6. CASE sampleCluster \/ ClusterSilent
  BY <1>6 DEF sampleCluster, ClusterSilent
<1>7. CASE ProcessEnds \/ ProcessDies
  BY <1>7 DEF ProcessEnds, ProcessDies, Down
<1>8. CASE StopAsked
  BY <1>8 DEF StopAsked
<1>9. CASE FileSpoils \/ InventoryChanges
  BY <1>9 DEF FileSpoils, InventoryChanges
<1>10. CASE ClockRuns
  <2>1. hnow' = hnow + 1 /\ sampler' = sampler /\ sampler.at \notin {"list", "sample"}
    BY <1>10 DEF ClockRuns
  <2>2. hnow' \in Nat /\ hnow' >= hnow /\ hnow' >= FirstSlot
    BY <2>1, HistoryAssumption
  <2> QED
    BY <1>10, <2>1, <2>2
<1> QED
  BY <1>1, <1>2, <1>3, <1>4, <1>5, <1>6, <1>7, <1>8, <1>9, <1>10 DEF HistoryNext

LEMMA MemoryStep ==
  ASSUME HistoryInv, HistoryNext
  PROVE  MemoryInv'
<1>1. PassInv /\ MemoryInv
  BY DEF HistoryInv
<1>2. ASSUME hnow' = hnow, subjects' = subjects, taken' = taken PROVE MemoryInv'
  BY <1>1, <1>2 DEF MemoryInv
<1>3. ASSUME hnow' = hnow, NEW k \in SeriesKeys, RecordSample(k, hnow) PROVE MemoryInv'
  BY <1>3, SampleShows DEF MemoryInv
<1>4. ASSUME hnow' = hnow, subjects' = Empty, taken' = Nobody PROVE MemoryInv'
  BY <1>4 DEF MemoryInv, Empty, Nobody, SeriesShow
<1>5. CASE OpenHistory
  BY <1>5, OpenShows
<1>6. CASE sampleHost
  BY <1>2, <1>3, <1>6 DEF sampleHost, SeriesKeys
<1>7. CASE pass
  <2> DEFINE gone == Prunable(inventory, sampler.slot)
  <2>1. /\ subjects' = [k \in SeriesKeys |-> IF k \in gone THEN NoSubject ELSE subjects[k]]
        /\ taken' = [k \in SeriesKeys |-> IF k \in gone THEN {} ELSE taken[k]] /\ hnow' = hnow
    BY <1>7 DEF pass
  <2> HIDE DEF gone
  <2>2. ASSUME NEW k \in SeriesKeys PROVE SeriesShow(subjects'[k], taken'[k], hnow)
    <3>1. CASE k \in gone
      BY <2>1, <3>1 DEF SeriesShow
    <3>2. CASE k \notin gone
      BY <1>1, <2>1, <3>2 DEF MemoryInv
    <3> QED
      BY <3>1, <3>2
  <2> QED
    BY <1>1, <2>1, <2>2 DEF MemoryInv
<1>8. CASE PassSkipped \/ PassFails \/ PassDone \/ FlushIfDue \/ ClusterSilent
  BY <1>2, <1>8 DEF PassSkipped, PassFails, PassDone, FlushIfDue, ClusterSilent, storeVars
<1>9. CASE Run
  BY <1>2, <1>9 DEF Run
<1>10. ASSUME NEW m \in HMachines, sampleMachine(m) PROVE MemoryInv'
  <2>1. sampler.slot = hnow /\ hnow' = hnow /\ m \in SeriesKeys
    BY <1>1, <1>10 DEF sampleMachine, PassInv, SeriesKeys
  <2> QED
    BY <1>2, <1>3, <1>10, <2>1 DEF sampleMachine
<1>11. CASE sampleCluster
  <2>1. sampler.slot = hnow /\ hnow' = hnow
    BY <1>1, <1>11 DEF sampleCluster, PassInv
  <2>2. \/ \E a \in HApps : RecordSample(a, hnow)
        \/ subjects' = subjects /\ taken' = taken
    BY <1>11, <2>1 DEF sampleCluster
  <2> QED
    BY <1>2, <1>3, <2>1, <2>2 DEF SeriesKeys
<1>12. CASE ProcessEnds \/ ProcessDies
  BY <1>4, <1>12 DEF ProcessEnds, ProcessDies, Down
<1>13. CASE StopAsked \/ FileSpoils \/ InventoryChanges
  BY <1>2, <1>13 DEF StopAsked, FileSpoils, InventoryChanges, storeVars
<1>14. CASE ClockRuns
  <2>1. subjects' = subjects /\ taken' = taken
    BY <1>14 DEF ClockRuns, storeVars
  <2>2. hnow \in Nat /\ hnow' \in Nat /\ hnow <= hnow'
    BY <1>1, PassStep DEF PassInv
  <2>3. \A k \in SeriesKeys : SeriesShow(subjects[k], taken[k], hnow')
    BY <1>1, <2>2, LaterShows DEF MemoryInv
  <2>4. taken \in [SeriesKeys -> SUBSET (0 .. hnow')]
    <3>1. 0 .. hnow \subseteq 0 .. hnow'
      BY <2>2
    <3> QED
      BY <1>1, <3>1 DEF MemoryInv
  <2> QED
    BY <1>1, <2>1, <2>3, <2>4 DEF MemoryInv
<1> QED
  BY <1>5, <1>6, <1>7, <1>8, <1>9, <1>10, <1>11, <1>12, <1>13, <1>14 DEF HistoryNext

LEMMA DiskStep ==
  ASSUME HistoryInv, HistoryNext
  PROVE  DiskInv'
<1>1. PassInv /\ DiskInv
  BY DEF HistoryInv
<1>2. ASSUME hnow' = hnow, file' = file, takenOnDisk' = takenOnDisk PROVE DiskInv'
  BY <1>1, <1>2 DEF DiskInv, Readable
<1>3. ASSUME hnow' = hnow, Flush PROVE DiskInv'
  BY <1>3, FlushShows DEF DiskInv, Readable
<1>4. CASE OpenHistory \/ sampleHost \/ pass
  BY <1>2, <1>4 DEF OpenHistory, sampleHost, pass
<1>5. CASE PassSkipped \/ PassFails \/ PassDone \/ ClusterSilent
  BY <1>2, <1>5 DEF PassSkipped, PassFails, PassDone, ClusterSilent, storeVars
<1>6. CASE FlushIfDue
  BY <1>2, <1>3, <1>6 DEF FlushIfDue
<1>7. CASE Run
  BY <1>2, <1>3, <1>7 DEF Run
<1>8. ASSUME NEW m \in HMachines, sampleMachine(m) PROVE DiskInv'
  BY <1>2, <1>8 DEF sampleMachine
<1>9. CASE sampleCluster
  BY <1>2, <1>9 DEF sampleCluster
<1>10. CASE ProcessEnds \/ ProcessDies
  BY <1>2, <1>10 DEF ProcessEnds, ProcessDies
<1>11. CASE StopAsked \/ InventoryChanges
  BY <1>2, <1>11 DEF StopAsked, InventoryChanges, storeVars
<1>12. CASE FileSpoils
  BY <1>1, <1>12 DEF FileSpoils, DiskInv, Readable
<1>13. CASE ClockRuns
  <2>1. file' = file /\ takenOnDisk' = takenOnDisk
    BY <1>13 DEF ClockRuns, storeVars
  <2>2. hnow \in Nat /\ hnow' \in Nat /\ hnow <= hnow'
    BY <1>1, PassStep DEF PassInv
  <2>3. Readable => \A k \in SeriesKeys : RawShow(file.subjects[k], takenOnDisk[k], hnow')
    BY <1>1, <2>2, LaterShows DEF DiskInv
  <2>4. takenOnDisk \in [SeriesKeys -> SUBSET (0 .. hnow')]
    <3>1. 0 .. hnow \subseteq 0 .. hnow'
      BY <2>2
    <3> QED
      BY <1>1, <3>1 DEF DiskInv
  <2> QED
    BY <2>1, <2>3, <2>4 DEF DiskInv, Readable
<1> QED
  BY <1>4, <1>5, <1>6, <1>7, <1>8, <1>9, <1>10, <1>11, <1>12, <1>13 DEF HistoryNext

\* What the rings hold is what a chart shows.
LEMMA QueriesShow ==
  ASSUME HistoryInv, NEW k \in SeriesKeys
  PROVE  /\ Query(k, "fine") = {<<s, Mean({s})>> : s \in {x \in taken[k] : x > hnow - FineSlots}}
         /\ Query(k, "coarse") =
              {<<mn, Mean(taken[k] \cap FineOf(mn))>> :
                 mn \in {MinuteOf(s) : s \in taken[k]} \cap
                        (MinuteOf(hnow) - CoarseSlots + 1 .. MinuteOf(hnow))}
<1> DEFINE T == taken[k]
           M == MinuteOf(hnow)
           sub == subjects[k]
<1>1. /\ hnow \in Nat /\ M \in Nat /\ T \in SUBSET (0 .. hnow)
      /\ FineSlots \in Nat \ {0} /\ CoarseSlots \in Nat \ {0} /\ SeriesShow(sub, T, hnow)
  BY WindowsArePast, HistoryAssumption DEF HistoryInv, MemoryInv
<1>2. CASE sub = NoSubject
  BY <1>1, <1>2 DEF Query, SeriesShow
<1>3. CASE sub # NoSubject
  <2> DEFINE fs == {x \in hnow - FineSlots + 1 .. hnow : valueAt(sub.fine, x) # NaN}
             cs == {x \in M - CoarseSlots + 1 .. M : valueAt(sub.coarse, x) # NaN}
             ft == {x \in T : x > hnow - FineSlots}
             ct == {MinuteOf(s) : s \in T} \cap (M - CoarseSlots + 1 .. M)
  <2>1. /\ RingShows(sub.fine, FineSlots, hnow, FineOwed(T))
        /\ RingShows(sub.coarse, CoarseSlots, M, CoarseOwed(T))
    BY <1>1, <1>3 DEF SeriesShow
  <2>2. RingSlots(sub.fine) = FineSlots /\ RingSlots(sub.coarse) = CoarseSlots
    BY <1>1, <2>1, RingHasSlots DEF RingShows
  <2>3. /\ Query(k, "fine") = {<<s, valueAt(sub.fine, s)>> : s \in fs}
        /\ Query(k, "coarse") = {<<s, valueAt(sub.coarse, s)>> : s \in cs}
    BY <1>3, <2>2 DEF Query
  <2>4. ASSUME NEW x \in hnow - FineSlots + 1 .. hnow
        PROVE  /\ valueAt(sub.fine, x) # NaN <=> x \in T
               /\ x \in T => valueAt(sub.fine, x) = Mean({x})
    <3>1. x \in Int /\ x > hnow - FineSlots
      BY <1>1
    <3>2. valueAt(sub.fine, x) = FineOwed(T)[x]
      BY <2>1, <3>1 DEF RingShows
    <3>3. /\ FineOwed(T)[x] = IF x \in T THEN Mean({x}) ELSE NaN
          /\ FineOwed(T)[x] # NaN <=> x \in T
      <4> HIDE DEF T
      <4> QED
        BY <1>1, <3>1, Owed
    <3> QED
      BY <3>2, <3>3
  <2>5. fs = ft /\ \A s \in fs : valueAt(sub.fine, s) = Mean({s})
    <3>1. \A x \in ft : x \in hnow - FineSlots + 1 .. hnow
      BY <1>1
    <3>2. \A x \in hnow - FineSlots + 1 .. hnow : x > hnow - FineSlots
      BY <1>1
    <3>3. ft \subseteq fs
      BY <2>4, <3>1
    <3>4. fs \subseteq ft
      BY <2>4, <3>2
    <3> QED
      BY <2>4, <3>3, <3>4
  <2>6. ASSUME NEW x \in M - CoarseSlots + 1 .. M
        PROVE  /\ valueAt(sub.coarse, x) # NaN <=> x \in {MinuteOf(s) : s \in T}
               /\ valueAt(sub.coarse, x) = Mean(T \cap FineOf(x))
    <3>1. x \in Int /\ x > M - CoarseSlots
      BY <1>1
    <3>2. valueAt(sub.coarse, x) = CoarseOwed(T)[x]
      BY <2>1, <3>1 DEF RingShows
    <3>3. /\ CoarseOwed(T)[x] = Mean(T \cap FineOf(x))
          /\ CoarseOwed(T)[x] # NaN <=> T \cap FineOf(x) # {}
      BY <1>1, <3>1, Owed
    <3>4. \A s \in T : s \in FineOf(x) <=> x = MinuteOf(s)
      <4>1. \A s \in T : s \in Int
        BY <1>1
      <4> QED
        BY <3>1, <4>1, SlotOfMinute
    <3> QED
      BY <3>2, <3>3, <3>4
  <2>7. cs = ct /\ \A s \in cs : valueAt(sub.coarse, s) = Mean(T \cap FineOf(s))
    BY <2>6
  <2> HIDE DEF fs, cs, ft, ct
  <2>8. {<<s, valueAt(sub.fine, s)>> : s \in fs} = {<<s, Mean({s})>> : s \in ft}
    BY <2>5
  <2>9. {<<s, valueAt(sub.coarse, s)>> : s \in cs} = {<<mn, Mean(T \cap FineOf(mn))>> : mn \in ct}
    BY <2>7
  <2> QED
    BY <2>3, <2>8, <2>9 DEF ft, ct
<1> QED
  BY <1>2, <1>3

\* A chart shows what was read and nothing else: for rings of any size, any number of
\* machines and apps, crashes, failed writes, unreadable files and changes of the
\* inventory, a slot holds its own reading or a gap and a minute the mean of the readings
\* taken in it (internal/history history.go put and minuteAverage, persist.go decode).
THEOREM HistoryTrue == HistorySpec => []ChartsAreTrue
<1>1. HistoryInit => HistoryInv
  <2> SUFFICES ASSUME HistoryInit PROVE HistoryInv
    OBVIOUS
  <2>1. PassInv
    BY HistoryAssumption DEF HistoryInit, PassInv
  <2>2. MemoryInv
    BY DEF HistoryInit, MemoryInv, Empty, Nobody, SeriesShow
  <2>3. DiskInv
    BY DEF HistoryInit, DiskInv, Nobody, Readable
  <2> QED
    BY <2>1, <2>2, <2>3 DEF HistoryInv
<1>2. HistoryInv /\ [HistoryNext]_historyVars => HistoryInv'
  <2> SUFFICES ASSUME HistoryInv, [HistoryNext]_historyVars PROVE HistoryInv'
    OBVIOUS
  <2>1. CASE HistoryNext
    BY <2>1, PassStep, MemoryStep, DiskStep DEF HistoryInv
  <2>2. CASE UNCHANGED historyVars
    BY <2>2 DEF historyVars, HistoryInv, PassInv, MemoryInv, DiskInv, Readable
  <2> QED
    BY <2>1, <2>2
<1>3. HistoryInv => ChartsAreTrue
  BY QueriesShow DEF ChartsAreTrue
<1> QED
  BY <1>1, <1>2, <1>3, PTL DEF HistorySpec

=============================================================================
