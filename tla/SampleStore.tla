----------------------------- MODULE SampleStore -----------------------------
(***************************************************************************)
(* internal/store and the processes around it: the monitor, whose sampler  *)
(* writes rows while its retention goroutine archives the old ones, and    *)
(* cmd/import-jsonl, a second process that may write to the same database. *)
(*                                                                         *)
(* A row is its time stamp (one pair, one trade size: the identity key).   *)
(* One action is one SQL statement, which SQLite makes atomic, or one file *)
(* operation.  The monitor can die between any two; the machine can lose   *)
(* power, and then keeps, of what was never synced, whatever it happened   *)
(* to write back: some of the commits since the last WAL checkpoint        *)
(* (synchronous=NORMAL) and some of the archive files, none of which is    *)
(* ever fsynced.                                                           *)
(***************************************************************************)
EXTENDS Integers

CONSTANTS Retention,     \* cfg.Retention
          Day,           \* period of the retention ticker
          WriteLag,      \* bound: from the stamp of a sample to its INSERT
          Legacy,        \* time stamps of the rows in the .jsonl files
          Worlds,        \* what may happen besides crashes: sets of "import", "power"
          Horizon,       \* bound: the clock stops here,
          TroubleHorizon \* and here in a world with an import or power losses

NoRow == -1               \* the sampler holds no stamped row (its stamps are \in Nat)
NoTicker == -1

ASSUME StoreAssumption ==
    /\ Retention \in Nat
    /\ WriteLag \in Nat
    /\ WriteLag < Retention
    /\ Day \in Nat \ {0}
    /\ {Horizon, TroubleHorizon} \subseteq Nat
    /\ TroubleHorizon <= Horizon
    /\ Legacy \subseteq Int
    /\ Worlds \subseteq SUBSET {"import", "power"}

VARIABLES world,         \* the member of Worlds this behaviour is about
          now,           \* time.Now(), in seconds: archive names have no finer grain
          rows,          \* the table samples, as the last commit left it
          unsynced,      \* the tables a power loss may bring back
          files,         \* archive files by name: [second -> what is in them]
          flushed,       \* names of the archives whose data has reached the disk
          mon,           \* the monitor process
          inFlight,      \* the sampler's row, stamped and not yet written
          ret,           \* where the retention goroutine is
          tick,          \* its ticker's next tick
          cutoff,        \* Retain's cutoff
          batch,         \* Retain's samples
          name,          \* Retain's file
          toImport,      \* rows the import still has to write
          onDisk         \* history: rows that a checkpoint saw in the table

storeVars == <<world, now, rows, unsynced, files, flushed, mon, inFlight, ret, tick, cutoff,
               batch, name, toImport, onDisk>>
retainVars == <<ret, tick, cutoff, batch, name>>
tableVars == <<rows, unsynced>>
fileVars == <<files, flushed>>

Partial == [rows |-> {}, whole |-> FALSE]
Archived(S) == [rows |-> S, whole |-> TRUE]

InArchives == UNION {files[n].rows : n \in {m \in DOMAIN files : files[m].whole}}

Init ==
    /\ world \in Worlds
    /\ now = 0
    /\ rows = {}
    /\ unsynced = {{}}
    /\ files = [n \in {} |-> Partial]
    /\ flushed = {}
    /\ mon = "down"
    /\ inFlight = NoRow
    /\ ret = "off"
    /\ tick = NoTicker
    /\ cutoff = 0
    /\ batch = {}
    /\ name = 0
    /\ toImport = {}
    /\ onDisk = {}

\* What a power loss may bring back is tracked only where there is one.
Commit(table) ==
    /\ rows' = table
    /\ unsynced' = {table} \cup (IF "power" \in world THEN unsynced ELSE {})

(***************************************************************************)
(* The monitor process.                                                    *)
(***************************************************************************)

\* Open, then the retention goroutine, then the engine.
Boot ==
    /\ mon = "down"
    /\ mon' = "up"
    /\ ret' = "begin"
    /\ UNCHANGED <<world, now, tableVars, fileVars, inFlight, tick, cutoff, batch, name,
                   toImport, onDisk>>

Stamp ==
    /\ mon = "up"
    /\ inFlight = NoRow
    /\ inFlight' = now
    /\ UNCHANGED <<world, now, tableVars, fileVars, mon, retainVars, toImport, onDisk>>

\* INSERT OR IGNORE.
Write ==
    /\ mon \in {"up", "stopping"}
    /\ inFlight # NoRow
    /\ Commit(rows \cup {inFlight})
    /\ inFlight' = NoRow
    /\ UNCHANGED <<world, now, fileVars, mon, retainVars, toImport, onDisk>>

\* The engine logs the error and drops the sample.
WriteFails ==
    /\ mon \in {"up", "stopping"}
    /\ inFlight # NoRow
    /\ inFlight' = NoRow
    /\ UNCHANGED <<world, now, tableVars, fileVars, mon, retainVars, toImport, onDisk>>

Stop ==
    /\ mon = "up"
    /\ mon' = "stopping"
    /\ UNCHANGED <<world, now, tableVars, fileVars, inFlight, retainVars, toImport,
                   onDisk>>

\* The deferred Close: Engine.Run has waited for the runners, nobody waits for
\* the retention goroutine.
CloseStore ==
    /\ mon = "stopping"
    /\ inFlight = NoRow
    /\ mon' = "closed"
    /\ UNCHANGED <<world, now, tableVars, fileVars, inFlight, retainVars, toImport,
                   onDisk>>

\* The process is gone, with all its memory; files and table stay.
MonitorGone ==
    /\ mon' = "down"
    /\ inFlight' = NoRow
    /\ ret' = "off"
    /\ tick' = NoTicker
    /\ cutoff' = 0
    /\ batch' = {}
    /\ name' = 0

Exit ==
    /\ mon = "closed"
    /\ MonitorGone
    /\ UNCHANGED <<world, now, tableVars, fileVars, toImport, onDisk>>

Crash ==
    /\ mon \in {"up", "stopping"}
    /\ MonitorGone
    /\ UNCHANGED <<world, now, tableVars, fileVars, toImport, onDisk>>

(***************************************************************************)
(* retentionLoop and Retain.                                               *)
(***************************************************************************)
OldEnough(r) == r < cutoff

\* The rows the DELETE takes.
DoomedByTheClock == {r \in rows : r < now - Retention}
Doomed == {r \in rows : OldEnough(r)}

CutoffNow == now
CutoffAt == now - Retention

\* The end of run(), on whatever path: the ticker exists from the first one on.
RunEnds ==
    /\ ret' = "wait"
    /\ tick' = IF tick = NoTicker THEN now + Day ELSE tick
    /\ cutoff' = 0
    /\ batch' = {}
    /\ name' = 0

NextTickSwapped == tick + ((tick - now) \div Day + 1) * Day
NextTick == tick + ((now - tick) \div Day + 1) * Day

TickTaken ==
    /\ ret = "wait"
    /\ tick <= now
    /\ ret' = "begin"
    /\ tick' = NextTick
    /\ UNCHANGED <<world, now, tableVars, fileVars, mon, inFlight, cutoff, batch, name,
                   toImport, onDisk>>

RetentionStops ==
    /\ ret = "wait"
    /\ mon \in {"stopping", "closed"}
    /\ ret' = "off"
    /\ UNCHANGED <<world, now, tableVars, fileVars, mon, inFlight, tick, cutoff, batch,
                   name, toImport, onDisk>>

Begin ==
    /\ ret = "begin"
    /\ cutoff' = CutoffAt
    /\ ret' = "select"
    /\ UNCHANGED <<world, now, tableVars, fileVars, mon, inFlight, tick, batch, name,
                   toImport, onDisk>>

Usable == mon \in {"up", "stopping"}

\* SELECT, read to the end: the one connection serves nobody else meanwhile.
Select ==
    /\ ret = "select"
    /\ Usable
    /\ \E r \in rows : OldEnough(r)
    /\ batch' = {r \in rows : OldEnough(r)}
    /\ ret' = "create"
    /\ UNCHANGED <<world, now, tableVars, fileVars, mon, inFlight, tick, cutoff, name,
                   toImport, onDisk>>

\* No old row, or an error of the query or of reading a row, whenever it comes.
SelectsNothing ==
    /\ ret = "select"
    /\ RunEnds
    /\ UNCHANGED <<world, now, tableVars, fileVars, mon, inFlight, toImport, onDisk>>

\* O_EXCL: only if there is no archive of the same second.
CreateFile ==
    /\ ret = "create"
    /\ now \notin DOMAIN files
    /\ name' = now
    /\ files' = [n \in DOMAIN files \cup {now} |-> IF n = now THEN Partial ELSE files[n]]
    /\ ret' = "encode"
    /\ UNCHANGED <<world, now, tableVars, flushed, mon, inFlight, tick, cutoff, batch,
                   toImport, onDisk>>

\* The file is there, or the directory or the file cannot be made.
CreateFails ==
    /\ ret = "create"
    /\ RunEnds
    /\ UNCHANGED <<world, now, tableVars, fileVars, mon, inFlight, toImport, onDisk>>

\* The file is complete and closed; the kernel has it, the disk need not.
EncodeAndClose ==
    /\ ret = "encode"
    /\ files' = [files EXCEPT ![name] = Archived(batch)]
    /\ ret' = "delete"
    /\ UNCHANGED <<world, now, tableVars, flushed, mon, inFlight, tick, cutoff, batch, name,
                   toImport, onDisk>>

EncodeFails ==
    /\ ret = "encode"
    /\ files' = [n \in DOMAIN files \ {name} |-> files[n]]
    /\ RunEnds
    /\ UNCHANGED <<world, now, tableVars, flushed, mon, inFlight, toImport, onDisk>>

\* DELETE compares with the cutoff again: it knows nothing of the batch.
Delete ==
    /\ ret = "delete"
    /\ Usable
    /\ Commit(rows \ Doomed)
    /\ ret' = "vacuum"
    /\ UNCHANGED <<world, now, fileVars, mon, inFlight, tick, cutoff, batch, name, toImport,
                   onDisk>>

\* Busy, or the store is closed: the rows stay and the archive too.
DeleteFails ==
    /\ ret = "delete"
    /\ RunEnds
    /\ UNCHANGED <<world, now, tableVars, fileVars, mon, inFlight, toImport, onDisk>>

\* VACUUM rewrites the table as it is, or fails.
Vacuum ==
    /\ ret = "vacuum"
    /\ RunEnds
    /\ UNCHANGED <<world, now, tableVars, fileVars, mon, inFlight, toImport, onDisk>>

(***************************************************************************)
(* cmd/import-jsonl.                                                       *)
(***************************************************************************)
StartImport ==
    /\ "import" \in world
    /\ toImport = {}
    /\ toImport' = Legacy
    /\ UNCHANGED <<world, now, tableVars, fileVars, mon, inFlight, retainVars, onDisk>>

ImportRow(r) ==
    /\ r \in toImport
    /\ Commit(rows \cup {r})
    /\ toImport' = toImport \ {r}
    /\ UNCHANGED <<world, now, fileVars, mon, inFlight, retainVars, onDisk>>

\* A Write error ends the import; so does a crash of it.
ImportAborts ==
    /\ toImport # {}
    /\ toImport' = {}
    /\ UNCHANGED <<world, now, tableVars, fileVars, mon, inFlight, retainVars, onDisk>>

(***************************************************************************)
(* The machine.                                                            *)
(***************************************************************************)
Elapse ==
    /\ now < (IF world = {} THEN Horizon ELSE TroubleHorizon)
    /\ inFlight # NoRow => now - inFlight < WriteLag
    /\ now' = now + 1
    /\ UNCHANGED <<world, tableVars, fileVars, mon, inFlight, retainVars, toImport,
                   onDisk>>

\* A WAL checkpoint: SQLite syncs, and the table is on disk as it is.
Checkpoint ==
    /\ "power" \in world
    /\ unsynced' = {rows}
    /\ onDisk' = onDisk \cup rows
    /\ UNCHANGED <<world, now, rows, fileVars, mon, inFlight, retainVars, toImport>>

\* The kernel writes a closed archive back in its own time.
Writeback(n) ==
    /\ "power" \in world
    /\ n \in DOMAIN files \ flushed
    /\ files[n].whole
    /\ flushed' = flushed \cup {n}
    /\ UNCHANGED <<world, now, tableVars, files, mon, inFlight, retainVars, toImport,
                   onDisk>>

\* What is there after the reboot was on disk, so the next loss cannot take it.
PowerLoss(table, kept) ==
    /\ "power" \in world
    /\ rows' = table
    /\ unsynced' = {table}
    /\ files' = [n \in kept |-> files[n]]
    /\ flushed' = kept
    /\ MonitorGone
    /\ toImport' = {}
    /\ UNCHANGED <<world, now, onDisk>>

Monitor == \/ Boot \/ Stamp \/ Write \/ WriteFails
           \/ Stop \/ CloseStore \/ Exit \/ Crash

Retain == \/ TickTaken \/ RetentionStops \/ Begin
          \/ Select \/ SelectsNothing
          \/ CreateFile \/ CreateFails
          \/ EncodeAndClose \/ EncodeFails
          \/ Delete \/ DeleteFails \/ Vacuum

Import == \/ StartImport
          \/ \E r \in Legacy : ImportRow(r)
          \/ ImportAborts

Machine == \/ Elapse
           \/ Checkpoint
           \/ \E n \in DOMAIN files : Writeback(n)
           \/ \E table \in unsynced, lost \in SUBSET (DOMAIN files \ flushed) :
                  PowerLoss(table, DOMAIN files \ lost)

Next == Monitor \/ Retain \/ Import \/ Machine

Spec == Init /\ [][Next]_storeVars

(***************************************************************************)
(* Properties.                                                             *)
(***************************************************************************)
Row == Legacy \cup (0 .. Horizon)

TypeOK ==
    /\ world \in Worlds
    /\ now \in Nat
    /\ rows \subseteq Row
    /\ rows \in unsynced
    /\ \A table \in unsynced : table \subseteq Row
    /\ DOMAIN files \subseteq Nat
    /\ \A n \in DOMAIN files : /\ files[n].rows \subseteq Row
                               /\ files[n].whole \in BOOLEAN
    /\ flushed \subseteq DOMAIN files
    /\ mon \in {"down", "up", "stopping", "closed"}
    /\ inFlight \in Nat \cup {NoRow}
    /\ ret \in {"off", "wait", "begin", "select", "create", "encode", "delete", "vacuum"}
    /\ tick \in Nat \cup {NoTicker}
    /\ cutoff \in Int
    /\ batch \subseteq Row
    /\ name \in Nat
    /\ toImport \subseteq Legacy
    /\ onDisk \subseteq Row

\* The users of the store see rows recorded and never lost, while the retention
\* moves them, fails half way, and the process dies and restarts between any
\* two of its steps (store.go:126-142, 218-278).  It is promised to the monitor
\* by itself: beside an import or a power loss it is not kept.
Held == INSTANCE HeldRows WITH held <- IF world = {} THEN rows \cup InArchives ELSE {}
HeldSpec == Held!Spec

\* The table keeps a row for as long as the retention says: one that was
\* checkpointed survives every retention, crash and power loss until it is old
\* enough to leave (main.go:214-236, store.go:219, 271).  Of the rows that are
\* old enough it says nothing: a power loss can take one that the DELETE has left
\* to an archive which was never synced.
YoungRowsLive ==
    \A r \in onDisk : r >= now - Retention => r \in rows

\* An archive is named after the second it was created in; what it holds had
\* outlived the retention by then, wherever its rows came from and however long
\* the run that wrote it was held up (main.go:218, store.go:219, 244).
ArchivesOnlyOld ==
    \A n \in DOMAIN files : \A r \in files[n].rows : r < n - Retention

(***************************************************************************)
(* What the repository says and the code does not do.                      *)
(***************************************************************************)

\* store.go:215: "Retain archives every sample older than cutoff ..., deletes
\* the archived rows": what the DELETE is about to take is what was archived
\* (store.go:219, 271; import-jsonl:66-89).
DeletesTheArchived ==
    ret = "delete" => Doomed \subseteq batch
===============================================================================
