------------------------------ MODULE AuditLog ------------------------------
(***************************************************************************)
(* The audit log (internal/audit) and the middleware that writes it: an    *)
(* append-only chain of records over one file per day, of which all but    *)
(* the two newest are compressed.                                          *)
(*                                                                         *)
(* The logger's mutex makes append one critical section; its steps are     *)
(* apart because the process, or the power, may be gone between them.  The *)
(* hash of a record is the number under which it was first written, which  *)
(* no two written lines share.                                             *)
(***************************************************************************)
EXTENDS Naturals, Sequences, SequencesExt, FiniteSets

CONSTANTS
    Requests,    \* audited requests
    MaxDays,    \* days the clock passes through
    MaxAuditCrashes,
    NoDayFile,     \* a file that is not there
    MaxFaults,  \* writes and fsyncs that fail
    Limit       \* records on a page of Query

ASSUME AuditAssumption ==
    /\ MaxDays \in Nat \ {0} /\ MaxAuditCrashes \in Nat /\ MaxFaults \in Nat
    /\ Limit \in Nat \ {0}
    /\ NoDayFile \notin Seq([seq : Nat, prev : Nat, hash : Nat, of : Nat])

VARIABLES
    up,        \* the daemon runs
    today,     \* the day of the clock
    plain,     \* [day -> the lines of its .jsonl, or NoDayFile]
    gz,        \* [day -> the lines of its .jsonl.gz, or NoDayFile]
    unsynced,  \* the newest line is written and not yet synced
    day,       \* Logger.day, 0 without an open file
    lastSeq,       \* Logger.seq
    lastHash,  \* Logger.lastHash
    pending,   \* Logger.pending: the seqs that await an outcome
    pc,        \* where the holder of Logger.mu is
    item,      \* the record being appended
    reqs,      \* [Requests -> where the request is]
    lines,     \* lines written so far
    reader,    \* an operator paging through the log
    auditCrashes, faults

auditVars == <<up, today, plain, gz, unsynced, day, lastSeq, lastHash, pending, pc, item, reqs,
               lines, reader, auditCrashes, faults>>

Days == 1 .. MaxDays
keepPlain == 2
Genesis == 0
NoItem == [who |-> 0, of |-> 0]
NoReader == [cursor |-> 0, start |-> 0, got |-> {}, on |-> FALSE]

AuditRecord(s, prev, h, of) == [seq |-> s, prev |-> prev, hash |-> h, of |-> of]
TornLine == AuditRecord(0, 0, 0, 0)

AuditInit ==
    /\ up = FALSE /\ today = 1
    /\ plain = [d \in Days |-> NoDayFile] /\ gz = [d \in Days |-> NoDayFile]
    /\ unsynced = FALSE
    /\ day = 0 /\ lastSeq = 0 /\ lastHash = Genesis /\ pending = {}
    /\ pc = "free" /\ item = NoItem
    /\ reqs = [c \in Requests |-> [at |-> "new", seq |-> 0]]
    /\ lines = 0
    /\ reader = NoReader
    /\ auditCrashes = 0 /\ faults = 0
----------------------------------------------------------------------------
(***************************************************************************)
(* Reading the directory.                                                  *)
(***************************************************************************)
PlainFiles == {d \in Days : plain[d] # NoDayFile}

\* dedupeByDay: of the two files of a day the compressed one is read.
dedupeByDay(d) == IF gz[d] # NoDayFile THEN gz[d] ELSE IF plain[d] # NoDayFile THEN plain[d] ELSE <<>>

readFile(d) == dedupeByDay(d)
allFiles == [d \in Days |-> readFile(d)]
Archive == FlattenSeq(allFiles)

\* The chain over the records of some files, read one after another.
VerifyContext(recs) ==
    \A i \in DOMAIN recs :
       /\ i = 1 /\ recs[i].seq = 1 => recs[i].prev = Genesis
       /\ i > 1 => recs[i].prev = recs[i - 1].hash

\* matches and Query: the newest records before the cursor.
matches(rec, cursor) == cursor = 0 \/ rec.seq < cursor

QueryPage(cursor) ==
    LET found == SelectSeq(Archive, LAMBDA rec : matches(rec, cursor)) IN
    SubSeq(found, IF Len(found) > Limit THEN Len(found) - Limit + 1 ELSE 1, Len(found))
----------------------------------------------------------------------------
(***************************************************************************)
(* The logger.                                                             *)
(***************************************************************************)
\* The victims of CompressOlderThan.
Old == {d \in PlainFiles : Cardinality({e \in PlainFiles : e > d}) >= keepPlain}

\* Mutant: only the newest file is looked at.
resumeLast ==
    /\ lastSeq' = IF readFile(today) = <<>> THEN 0 ELSE Last(readFile(today)).seq
    /\ lastHash' = IF readFile(today) = <<>> THEN Genesis ELSE Last(readFile(today)).hash

\* resume: the last record of the last file that has one.
resume ==
    /\ lastSeq' = IF Archive = <<>> THEN 0 ELSE Last(Archive).seq
    /\ lastHash' = IF Archive = <<>> THEN Genesis ELSE Last(Archive).hash

OpenedDay(d) == [plain EXCEPT ![d] = IF @ = NoDayFile THEN <<>> ELSE @]

\* open: refuses a line it cannot decode, then opens the day and compresses.
OpenLog ==
    /\ ~up
    /\ TornLine \notin Range(Archive)
    /\ resume
    /\ up' = TRUE
    /\ day' = today /\ plain' = OpenedDay(today)
    /\ pending' = {}
    /\ pc' = "compress" /\ item' = NoItem
    /\ UNCHANGED <<today, gz, unsynced, reqs, lines, reader, auditCrashes, faults>>

\* openDay: the day has turned, or the file is open already.
openDay ==
    /\ pc = "append"
    /\ day' = today /\ plain' = OpenedDay(today)
    /\ pc' = IF day = today THEN "write" ELSE "compress"
    /\ UNCHANGED <<up, today, gz, unsynced, lastSeq, lastHash, pending, item, reqs, lines,
                   reader, auditCrashes, faults>>

\* compressFile, up to the rename of the finished temporary file.
compressFile ==
    /\ pc = "compress" /\ Old # {}
    /\ \E d \in Old :
          /\ \A e \in Old : d <= e
          /\ gz' = [gz EXCEPT ![d] = plain[d]]
    /\ pc' = "renamed"
    /\ UNCHANGED <<up, today, plain, unsynced, day, lastSeq, lastHash, pending, item, reqs, lines, reader, auditCrashes, faults>>

\* The plain file is removed only after the directory is synced.
removePlain ==
    /\ pc = "renamed"
    /\ \E d \in Old :
          /\ \A e \in Old : d <= e
          /\ plain' = [plain EXCEPT ![d] = NoDayFile]
    /\ pc' = "compress"
    /\ UNCHANGED <<up, today, gz, unsynced, day, lastSeq, lastHash, pending, item, reqs, lines, reader, auditCrashes, faults>>

CompressOlderThan ==
    /\ pc = "compress" /\ Old = {}
    /\ pc' = IF item = NoItem THEN "free" ELSE "write"
    /\ UNCHANGED <<up, today, plain, gz, unsynced, day, lastSeq, lastHash, pending, item, reqs,
                   lines, reader, auditCrashes, faults>>

\* The line goes into the file, or a piece of it when the disk is full.
WriteLine ==
    /\ pc = "write"
    /\ lines' = lines + 1
    /\ LET rec == AuditRecord(lastSeq + 1, lastHash, lines + 1, item.of) IN
       \/ /\ plain' = [plain EXCEPT ![day] = Append(@, rec)]
          /\ unsynced' = TRUE /\ pc' = "sync" /\ faults' = faults
       \/ /\ faults < MaxFaults /\ faults' = faults + 1
          /\ plain' = [plain EXCEPT ![day] = Append(@, TornLine)]
          /\ unsynced' = TRUE /\ pc' = "failed"
    /\ UNCHANGED <<up, today, gz, day, lastSeq, lastHash, pending, item, reqs, reader, auditCrashes>>

\* The chain advances when the line is on disk.
SyncLine ==
    /\ pc = "sync"
    /\ \/ /\ unsynced' = FALSE
          /\ pc' = "done" /\ lastSeq' = lastSeq + 1 /\ lastHash' = lines
          /\ faults' = faults
       \/ /\ faults < MaxFaults /\ faults' = faults + 1
          /\ unsynced' = unsynced
          /\ pc' = "failed"
          /\ UNCHANGED <<lastSeq, lastHash>>
    /\ UNCHANGED <<up, today, plain, gz, day, pending, item, reqs, lines, reader, auditCrashes>>

\* Attempt: the handler runs only after its intent is durable.
Attempt(c) ==
    /\ up /\ pc = "free" /\ reqs[c].at = "new"
    /\ pc' = "append" /\ item' = [who |-> c, of |-> 0]
    /\ UNCHANGED <<up, today, plain, gz, unsynced, day, lastSeq, lastHash, pending, reqs, lines, reader, auditCrashes, faults>>

Attempted(c) ==
    /\ pc \in {"done", "failed"} /\ item.who = c /\ item.of = 0
    /\ pc' = "free" /\ item' = NoItem
    /\ \/ /\ pc = "done"
          /\ pending' = pending \cup {lastSeq}
          /\ reqs' = [reqs EXCEPT ![c] = [at |-> "acting", seq |-> lastSeq]]
       \/ /\ pc = "failed"
          /\ pending' = pending
          /\ reqs' = [reqs EXCEPT ![c].at = "refused"]
    /\ UNCHANGED <<up, today, plain, gz, unsynced, day, lastSeq, lastHash, lines, reader, auditCrashes, faults>>

\* Outcome takes the attempt out of pending before it is written.
Outcome(c) ==
    /\ up /\ pc = "free" /\ reqs[c].at = "acting"
    /\ reqs' = [reqs EXCEPT ![c].at = "over"]
    /\ \/ /\ reqs[c].seq \in pending
          /\ pending' = pending \ {reqs[c].seq}
          /\ pc' = "append" /\ item' = [who |-> c, of |-> reqs[c].seq]
       \/ /\ reqs[c].seq \notin pending
          /\ UNCHANGED <<pending, pc, item>>
    /\ UNCHANGED <<up, today, plain, gz, unsynced, day, lastSeq, lastHash, lines, reader, auditCrashes, faults>>

Outcomed ==
    /\ pc \in {"done", "failed"} /\ item.of # 0
    /\ pc' = "free" /\ item' = NoItem
    /\ UNCHANGED <<up, today, plain, gz, unsynced, day, lastSeq, lastHash, pending, reqs, lines, reader, auditCrashes, faults>>

\* A handler panics: its intent keeps no outcome, and the entry is evicted in time.
Panic(c) ==
    /\ reqs[c].at = "acting"
    /\ reqs' = [reqs EXCEPT ![c].at = "over"]
    /\ UNCHANGED <<up, today, plain, gz, unsynced, day, lastSeq, lastHash, pending, pc, item, lines, reader, auditCrashes, faults>>

evictStalePending(s) ==
    /\ up /\ pc = "done" /\ item.of = 0 /\ s \in pending
    /\ pending' = pending \ {s}
    /\ UNCHANGED <<up, today, plain, gz, unsynced, day, lastSeq, lastHash, pc, item, reqs, lines, reader, auditCrashes, faults>>
----------------------------------------------------------------------------
Midnight ==
    /\ today < MaxDays
    /\ today' = today + 1
    /\ UNCHANGED <<up, plain, gz, unsynced, day, lastSeq, lastHash, pending, pc, item, reqs, lines, reader, auditCrashes, faults>>

\* The process or the power is gone; the power takes an unsynced line with it.
Crash ==
    /\ up /\ auditCrashes < MaxAuditCrashes
    /\ auditCrashes' = auditCrashes + 1
    /\ up' = FALSE /\ pc' = "free" /\ item' = NoItem /\ day' = 0
    /\ plain' \in {plain} \cup IF unsynced THEN {[plain EXCEPT ![day] = Front(@)]} ELSE {}
    /\ unsynced' = FALSE
    /\ reqs' = [c \in Requests |-> IF reqs[c].at = "new" THEN reqs[c]
                                    ELSE [reqs[c] EXCEPT !.at = "over"]]
    /\ reader' = NoReader
    /\ UNCHANGED <<today, gz, lastSeq, lastHash, pending, lines, faults>>

\* An operator asks for the newest page, and then for page after page.
QueryFirst ==
    /\ up /\ pc = "free" /\ ~reader.on /\ Archive # <<>> /\ TornLine \notin Range(Archive)
    /\ reader' = [cursor |-> Head(QueryPage(0)).seq, start |-> Last(Archive).hash,
                  got |-> Range(QueryPage(0)), on |-> TRUE]
    /\ UNCHANGED <<up, today, plain, gz, unsynced, day, lastSeq, lastHash, pending, pc, item, reqs,
                   lines, auditCrashes, faults>>

QueryNext ==
    /\ up /\ pc = "free" /\ reader.on /\ reader.cursor > 1 /\ TornLine \notin Range(Archive)
    /\ LET page == QueryPage(reader.cursor) IN
       reader' = [reader EXCEPT !.got = @ \cup Range(page),
                                !.cursor = IF page = <<>> THEN 1 ELSE Head(page).seq]
    /\ UNCHANGED <<up, today, plain, gz, unsynced, day, lastSeq, lastHash, pending, pc, item, reqs,
                   lines, auditCrashes, faults>>

AuditNext ==
    \/ OpenLog \/ openDay \/ compressFile \/ removePlain \/ CompressOlderThan
    \/ WriteLine \/ SyncLine \/ Outcomed \/ Midnight \/ Crash \/ QueryFirst \/ QueryNext
    \/ \E c \in Requests : Attempt(c) \/ Attempted(c) \/ Outcome(c) \/ Panic(c)
    \/ \E s \in pending : evictStalePending(s)

AuditSpec == AuditInit /\ [][AuditNext]_auditVars
----------------------------------------------------------------------------
(***************************************************************************)
(* Properties.                                                             *)
(***************************************************************************)

\* The whole archive is one chain, over the files of the days and over restarts
\* (append, resume: "a restart continues the chain instead of forking it").
ChainHolds == faults = 0 => VerifyContext(Archive)

=============================================================================
