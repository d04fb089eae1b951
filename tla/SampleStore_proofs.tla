------------------------- MODULE SampleStore_proofs -------------------------
(***************************************************************************)
(* SampleStore for every retention, write lag, legacy table, horizon and   *)
(* set of worlds: its types, what is in an archive, how long the table     *)
(* keeps a row, and that the monitor's store implements HeldRows.          *)
(***************************************************************************)
EXTENDS SampleStore, TLAPS

\* The clock stops at Horizon, and the sampler's row is at most WriteLag old.
Clocked ==
    /\ now <= Horizon
    /\ inFlight # NoRow => inFlight <= now /\ now - inFlight <= WriteLag

\* Where Retain is between its SELECT and the end of its run, the cutoff is the
\* retention old, or older if the run was held up, and the batch older still.
CutoffLies ==
    /\ ret \in {"select", "create", "encode", "delete", "vacuum"}
           => cutoff <= now - Retention
    /\ ret \in {"create", "encode", "delete"} => \A r \in batch : r < cutoff
    /\ ret = "encode" => cutoff <= name - Retention

\* The file Retain has open is on the disk by name only: it is not complete, so
\* no writeback has taken it, and removing it leaves flushed a set of files.
FileOpen ==
    ret = "encode" => name \in DOMAIN files \ flushed /\ ~files[name].whole

\* A young row that a checkpoint saw is in every table a power loss may bring
\* back, not only in the table as it is: YoungRowsLive alone is not inductive.
YoungRowsKept ==
    \A r \in onDisk : r >= now - Retention => \A table \in unsynced : r \in table

\* The monitor by itself: the rows that leave the table are exactly those of the
\* batch, and between the close of the archive and the DELETE they are in both.
BatchAccounted ==
    world = {} =>
        /\ toImport = {}
        /\ ret \in {"create", "encode", "delete"} => batch = Doomed
        /\ ret = "delete" => name \in DOMAIN files /\ files[name] = Archived(batch)

IInv == /\ TypeOK /\ Clocked
        /\ CutoffLies /\ FileOpen /\ ArchivesOnlyOld
        /\ YoungRowsKept
        /\ BatchAccounted

LEMMA InitIInv == Init => IInv
  BY StoreAssumption
     DEF Init, IInv, TypeOK, Clocked, CutoffLies, FileOpen, ArchivesOnlyOld, YoungRowsKept,
         BatchAccounted, Row, NoRow, NoTicker

\* A commit leaves the types of the tables alone, and a young checkpointed row
\* stays in all of them as long as it stays in the one committed.
LEMMA CommitKeeps ==
    ASSUME TypeOK, YoungRowsKept, NEW table \in SUBSET Row, Commit(table),
           UNCHANGED <<now, onDisk>>,
           \A r \in onDisk : r >= now - Retention => r \in table
    PROVE  /\ rows' \subseteq Row
           /\ rows' \in unsynced'
           /\ \A t \in unsynced' : t \subseteq Row
           /\ YoungRowsKept'
  BY DEF TypeOK, YoungRowsKept, Commit, Row

\* When the monitor process ends, nothing is left of Retain's run.
LEMMA GoneKeeps ==
    ASSUME IInv, MonitorGone,
           UNCHANGED <<world, now, tableVars, fileVars, onDisk>>,
           toImport' = toImport
    PROVE  IInv'
  BY DEF MonitorGone, tableVars, fileVars, IInv, TypeOK, Clocked, CutoffLies,
         FileOpen, ArchivesOnlyOld, YoungRowsKept, BatchAccounted, NoTicker

\* So does the end of a run, for the run.
LEMMA RunEndsKeeps ==
    ASSUME IInv, RunEnds,
           UNCHANGED <<world, now, tableVars, fileVars, mon, inFlight, toImport, onDisk>>
    PROVE  IInv'
  BY StoreAssumption
     DEF RunEnds, tableVars, fileVars, IInv, TypeOK, Clocked, CutoffLies,
         FileOpen, ArchivesOnlyOld, YoungRowsKept, BatchAccounted, NoTicker

LEMMA MonitorKeeps == IInv /\ Monitor => IInv'
<1> SUFFICES ASSUME IInv, Monitor
             PROVE  IInv'
  OBVIOUS
<1> USE StoreAssumption DEF IInv, TypeOK, Clocked, CutoffLies, FileOpen, ArchivesOnlyOld,
        YoungRowsKept, BatchAccounted, tableVars, fileVars, retainVars
<1>1. CASE Boot
  BY <1>1 DEF Boot
<1>2. CASE Stamp
  BY <1>2 DEF Stamp, NoRow, Doomed, OldEnough
<1>3. CASE Write
  <2>1. inFlight \in Row /\ now - inFlight <= WriteLag
    BY <1>3 DEF Write, Row, NoRow
  <2>2. /\ rows \cup {inFlight} \in SUBSET Row
        /\ \A r \in onDisk : r >= now - Retention => r \in rows
    BY <2>1
  <2>3. /\ rows' \subseteq Row
        /\ rows' \in unsynced'
        /\ \A t \in unsynced' : t \subseteq Row
        /\ YoungRowsKept'
    BY <1>3, <2>2, CommitKeeps DEF Write
  <2>4. ret \in {"create", "encode", "delete"} => Doomed' = Doomed
    BY <1>3, <2>1 DEF Write, Commit, Doomed, OldEnough, Row
  <2>5. QED BY <1>3, <2>3, <2>4 DEF Write
<1>4. CASE WriteFails
  BY <1>4 DEF WriteFails, Doomed, OldEnough
<1>5. CASE Stop
  BY <1>5 DEF Stop, Doomed, OldEnough
<1>6. CASE CloseStore
  BY <1>6 DEF CloseStore, Doomed, OldEnough
<1>7. CASE Exit
  BY <1>7, GoneKeeps DEF Exit
<1>8. CASE Crash
  BY <1>8, GoneKeeps DEF Crash
<1>9. QED
  BY <1>1, <1>2, <1>3, <1>4, <1>5, <1>6, <1>7, <1>8 DEF Monitor

LEMMA RetainKeeps == IInv /\ Retain => IInv'
<1> SUFFICES ASSUME IInv, Retain
             PROVE  IInv'
  OBVIOUS
<1> USE StoreAssumption DEF IInv, TypeOK, Clocked, CutoffLies, FileOpen, ArchivesOnlyOld,
        YoungRowsKept, BatchAccounted, tableVars, fileVars
<1>1. CASE TickTaken
  BY <1>1 DEF TickTaken, NextTick, NoTicker
<1>2. CASE RetentionStops
  BY <1>2 DEF RetentionStops
<1>3. CASE Begin
  BY <1>3 DEF Begin, CutoffAt
<1>4. CASE Select
  BY <1>4 DEF Select, Doomed, OldEnough
<1>5. CASE SelectsNothing \/ CreateFails \/ DeleteFails \/ Vacuum
  BY <1>5, RunEndsKeeps DEF SelectsNothing, CreateFails, DeleteFails, Vacuum
<1>6. CASE CreateFile
  <2>1. /\ DOMAIN files' = DOMAIN files \cup {now}
        /\ files'[now] = Partial
        /\ \A n \in DOMAIN files : files'[n] = files[n]
    BY <1>6 DEF CreateFile
  <2>2. TypeOK' /\ Clocked' /\ CutoffLies' /\ FileOpen' /\ YoungRowsKept'
    BY <1>6, <2>1 DEF CreateFile, Partial
  <2>3. ArchivesOnlyOld'
    BY <1>6, <2>1 DEF CreateFile, Partial
  <2>4. BatchAccounted'
    BY <1>6, <2>1 DEF CreateFile, Partial, Doomed, OldEnough
  <2>5. QED BY <2>2, <2>3, <2>4
<1>7. CASE EncodeAndClose
  <2>1. /\ name \in DOMAIN files
        /\ DOMAIN files' = DOMAIN files
        /\ files'[name] = Archived(batch)
        /\ \A n \in DOMAIN files \ {name} : files'[n] = files[n]
    BY <1>7 DEF EncodeAndClose
  <2>2. TypeOK' /\ Clocked' /\ CutoffLies' /\ FileOpen' /\ YoungRowsKept'
    BY <1>7, <2>1 DEF EncodeAndClose, Archived
  <2>3. \A r \in batch : r < name - Retention
    BY <1>7 DEF EncodeAndClose, Row
  <2>4. ArchivesOnlyOld'
    BY <2>1, <2>3 DEF Archived
  <2>5. BatchAccounted'
    BY <1>7, <2>1 DEF EncodeAndClose, Doomed, OldEnough
  <2>6. QED BY <2>2, <2>4, <2>5
<1>8. CASE EncodeFails
  <2>1. /\ DOMAIN files' \subseteq DOMAIN files
        /\ \A n \in DOMAIN files' : files'[n] = files[n]
    BY <1>8 DEF EncodeFails
  <2>2. flushed \subseteq DOMAIN files'
    BY <1>8 DEF EncodeFails
  <2>3. QED BY <1>8, <2>1, <2>2 DEF EncodeFails, RunEnds, NoTicker
<1>9. CASE Delete
  <2>1. \A r \in onDisk : r >= now - Retention => r \in rows \ Doomed
    BY <1>9 DEF Delete, Doomed, OldEnough, Row
  <2>2. /\ rows' \subseteq Row
        /\ rows' \in unsynced'
        /\ \A t \in unsynced' : t \subseteq Row
        /\ YoungRowsKept'
    BY <1>9, <2>1, CommitKeeps DEF Delete
  <2>3. QED BY <1>9, <2>2 DEF Delete
<1>10. QED
  BY <1>1, <1>2, <1>3, <1>4, <1>5, <1>6, <1>7, <1>8, <1>9 DEF Retain

LEMMA ImportKeeps == IInv /\ Import => IInv'
<1> SUFFICES ASSUME IInv, Import
             PROVE  IInv'
  OBVIOUS
<1> USE StoreAssumption DEF IInv, TypeOK, Clocked, CutoffLies, FileOpen, ArchivesOnlyOld,
        YoungRowsKept, BatchAccounted, fileVars, retainVars
<1>1. world # {}
  <2>1. CASE StartImport
    BY <2>1 DEF StartImport
  <2>2. CASE ~StartImport
    BY <2>2 DEF Import, ImportRow, ImportAborts
  <2>3. QED BY <2>1, <2>2
<1>2. CASE StartImport
  BY <1>2, <1>1 DEF StartImport, tableVars
<1>3. ASSUME NEW r \in Legacy, ImportRow(r)
      PROVE  IInv'
  <2>1. /\ rows \cup {r} \in SUBSET Row
        /\ \A s \in onDisk : s >= now - Retention => s \in rows
    BY DEF Row
  <2>2. /\ rows' \subseteq Row
        /\ rows' \in unsynced'
        /\ \A t \in unsynced' : t \subseteq Row
        /\ YoungRowsKept'
    BY <1>3, <2>1, CommitKeeps DEF ImportRow
  <2>3. QED BY <1>1, <1>3, <2>2 DEF ImportRow
<1>4. CASE ImportAborts
  BY <1>1, <1>4 DEF ImportAborts, tableVars
<1>5. QED BY <1>2, <1>3, <1>4 DEF Import

LEMMA MachineKeeps == IInv /\ Machine => IInv'
<1> SUFFICES ASSUME IInv, Machine
             PROVE  IInv'
  OBVIOUS
<1> USE StoreAssumption DEF IInv, TypeOK, Clocked, CutoffLies, FileOpen, ArchivesOnlyOld,
        YoungRowsKept, BatchAccounted, retainVars
<1>1. CASE Elapse
  <2>1. \A r \in onDisk : r >= now' - Retention => r >= now - Retention
    BY <1>1 DEF Elapse, Row
  <2>2. Doomed' = Doomed
    BY <1>1 DEF Elapse, tableVars, Doomed, OldEnough
  <2>3. QED BY <1>1, <2>1, <2>2 DEF Elapse, tableVars, fileVars, NoRow
<1>2. CASE Checkpoint
  <2>1. world # {}
    BY <1>2 DEF Checkpoint
  <2>2. YoungRowsKept'
    BY <1>2 DEF Checkpoint
  <2>3. QED BY <1>2, <2>1, <2>2 DEF Checkpoint, fileVars
<1>3. ASSUME NEW n \in DOMAIN files, Writeback(n)
      PROVE  IInv'
  <2>1. ret = "encode" => name \notin flushed'
    BY <1>3 DEF Writeback
  <2>2. world # {}
    BY <1>3 DEF Writeback
  <2>3. QED BY <1>3, <2>1, <2>2 DEF Writeback, tableVars
<1>4. ASSUME NEW table \in unsynced, NEW lost \in SUBSET (DOMAIN files \ flushed),
             PowerLoss(table, DOMAIN files \ lost)
      PROVE  IInv'
  <2>1. /\ DOMAIN files' = DOMAIN files \ lost
        /\ \A n \in DOMAIN files' : files'[n] = files[n]
        /\ flushed' = DOMAIN files'
    BY <1>4 DEF PowerLoss
  <2>2. world # {}
    BY <1>4 DEF PowerLoss
  <2>3. TypeOK'
    BY <1>4, <2>1 DEF PowerLoss, MonitorGone
  <2>4. Clocked' /\ CutoffLies' /\ FileOpen' /\ BatchAccounted'
    BY <1>4, <2>2 DEF PowerLoss, MonitorGone
  <2>5. ArchivesOnlyOld' /\ YoungRowsKept'
    BY <1>4, <2>1 DEF PowerLoss
  <2>6. QED BY <2>3, <2>4, <2>5
<1>5. QED BY <1>1, <1>2, <1>3, <1>4 DEF Machine

LEMMA StepIInv == IInv /\ [Next]_storeVars => IInv'
<1>1. IInv /\ UNCHANGED storeVars => IInv'
  BY DEF storeVars, IInv, TypeOK, Clocked, CutoffLies, FileOpen, ArchivesOnlyOld,
         YoungRowsKept, BatchAccounted, Doomed, OldEnough
<1>2. QED
  BY <1>1, MonitorKeeps, RetainKeeps, ImportKeeps, MachineKeeps DEF Next

LEMMA Invariance == Spec => []IInv
  BY InitIInv, StepIInv, PTL DEF Spec

\* The types of the store and of the processes around it (store.go:218-278,
\* main.go:214-236).
THEOREM StoreTypes == Spec => []TypeOK
  BY Invariance, PTL DEF IInv

\* What an archive holds had outlived the retention in the second the archive is
\* named after, for every retention and ticker period, beside any import, crash
\* or power loss (store.go:219, 244; main.go:218).
THEOREM StoreArchivesOnlyOld == Spec => []ArchivesOnlyOld
  BY Invariance, PTL DEF IInv

\* A checkpointed row stays in the table until the retention lets it go, whatever
\* dies or loses power meanwhile (store.go:219, 271; main.go:214-236).
THEOREM StoreKeepsYoung == Spec => []YoungRowsLive
<1>1. IInv => YoungRowsLive
  BY DEF IInv, TypeOK, YoungRowsKept, YoungRowsLive
<1>2. QED BY <1>1, Invariance, PTL

\* What store.go:215 says of Retain holds for the monitor by itself: the DELETE
\* takes only what was archived.  Beside an import it does not (the run that
\* checks DeletesTheArchived finds it violated), so the import is the one cause.
THEOREM StoreDeletesArchived == Spec => [](world = {} => DeletesTheArchived)
<1>1. IInv => (world = {} => DeletesTheArchived)
  BY DEF IInv, BatchAccounted, DeletesTheArchived
<1>2. QED BY <1>1, Invariance, PTL

LEMMA InArchivesMembers ==
    /\ \A r : r \in InArchives
                  <=> \E n \in DOMAIN files : files[n].whole /\ r \in files[n].rows
    /\ \A r : r \in InArchives'
                  <=> \E n \in DOMAIN files' : files'[n].whole /\ r \in files'[n].rows
  BY DEF InArchives

\* What one step of the monitor by itself does to the rows held.
LEMMA HeldStep ==
    ASSUME IInv, Next, world = {}
    PROVE  \/ rows' \cup InArchives' = rows \cup InArchives
           \/ /\ inFlight \in Row
              /\ rows' \cup InArchives' = rows \cup InArchives \cup {inFlight}
<1> DEFINE Same == rows' \cup InArchives' = rows \cup InArchives
<1> USE InArchivesMembers DEF IInv, TypeOK
<1>1. CASE Write
  <2>1. inFlight \in Row /\ rows' = rows \cup {inFlight} /\ files' = files
    BY <1>1, StoreAssumption DEF Write, Commit, fileVars, Clocked, Row, NoRow
  <2>2. QED BY <2>1
<1>2. CASE CreateFile
  <2>1. /\ rows' = rows
        /\ DOMAIN files' = DOMAIN files \cup {now}
        /\ ~files'[now].whole
        /\ \A n \in DOMAIN files : files'[n] = files[n]
        /\ now \notin DOMAIN files
    BY <1>2 DEF CreateFile, tableVars, Partial
  <2>2. ASSUME NEW r PROVE r \in InArchives' <=> r \in InArchives
    <3>1. ASSUME NEW n \in DOMAIN files', files'[n].whole
          PROVE  n \in DOMAIN files /\ files'[n] = files[n]
      BY <2>1, <3>1
    <3>2. \A n \in DOMAIN files : n \in DOMAIN files' /\ files'[n] = files[n]
      BY <2>1
    <3>3. QED BY ONLY <3>1, <3>2, InArchivesMembers
  <2>3. InArchives' = InArchives
    BY ONLY <2>2 DEF InArchives
  <2>4. QED BY <2>1, <2>3
<1>3. CASE EncodeAndClose
  <2>1. /\ rows' = rows
        /\ name \in DOMAIN files
        /\ ~files[name].whole
        /\ DOMAIN files' = DOMAIN files
        /\ files'[name].whole /\ files'[name].rows = batch
        /\ \A n \in DOMAIN files \ {name} : files'[n] = files[n]
    BY <1>3 DEF EncodeAndClose, tableVars, Archived, FileOpen
  <2>2. batch \subseteq rows
    BY <1>3 DEF EncodeAndClose, BatchAccounted, Doomed
  <2>3. InArchives' = InArchives \cup batch
    BY <2>1
  <2>4. QED BY <2>1, <2>2, <2>3
<1>4. CASE EncodeFails
  <2>1. /\ rows' = rows
        /\ name \in DOMAIN files
        /\ ~files[name].whole
        /\ DOMAIN files' = DOMAIN files \ {name}
        /\ \A n \in DOMAIN files' : files'[n] = files[n]
    BY <1>4 DEF EncodeFails, tableVars, FileOpen
  <2>2. InArchives' = InArchives
    BY <2>1
  <2>3. QED BY <2>1, <2>2
<1>5. CASE Delete
  <2>1. rows' = rows \ Doomed /\ files' = files
    BY <1>5 DEF Delete, Commit, fileVars
  <2>2. name \in DOMAIN files /\ files[name].whole /\ files[name].rows = Doomed
    BY <1>5 DEF Delete, BatchAccounted, Archived
  <2>3. InArchives' = InArchives /\ Doomed \subseteq InArchives
    BY <2>1, <2>2
  <2>4. Doomed \subseteq rows
    BY DEF Doomed
  <2>5. QED BY <2>1, <2>3, <2>4
<1>6. CASE ~(Write \/ CreateFile \/ EncodeAndClose \/ EncodeFails \/ Delete)
  <2>1. ~Import
    BY DEF Import, StartImport, ImportRow, ImportAborts, BatchAccounted
  <2>2. rows' = rows /\ files' = files
    <3>1. CASE Monitor
      BY <1>6, <3>1 DEF Monitor, Boot, Stamp, WriteFails, Stop, CloseStore, Exit, Crash,
                       tableVars, fileVars
    <3>2. CASE Retain
      BY <1>6, <3>2 DEF Retain, TickTaken, RetentionStops, Begin, Select, SelectsNothing,
                       CreateFails, DeleteFails, Vacuum, tableVars, fileVars
    <3>3. CASE Machine
      BY <3>3 DEF Machine, Elapse, Checkpoint, Writeback, PowerLoss, tableVars, fileVars
    <3>4. QED BY <2>1, <3>1, <3>2, <3>3 DEF Next
  <2>3. QED BY <2>2
<1>7. QED BY <1>1, <1>2, <1>3, <1>4, <1>5, <1>6

LEMMA WorldStays == [Next]_storeVars => world' = world
  BY DEF Next, storeVars,
         Monitor, Boot, Stamp, Write, WriteFails, Stop, CloseStore, Exit, Crash,
         Retain, TickTaken, RetentionStops, Begin, Select, SelectsNothing, CreateFile,
         CreateFails, EncodeAndClose, EncodeFails, Delete, DeleteFails, Vacuum,
         Import, StartImport, ImportRow, ImportAborts,
         Machine, Elapse, Checkpoint, Writeback, PowerLoss

\* The monitor's store implements HeldRows: only an INSERT changes what is held,
\* in the table or in a complete archive, and it adds the one row; a row that
\* the DELETE takes is in the archive first (store.go:126-142, 218-278).
THEOREM StoreHolds == Spec => HeldSpec
<1> DEFINE held == IF world = {} THEN rows \cup InArchives ELSE {}
<1>1. Init => Held!Init
  BY DEF Init, Held!Init, InArchives
<1>2. ASSUME IInv, [Next]_storeVars
      PROVE  [Held!Next]_held
  <2>1. world' = world
    BY <1>2, WorldStays
  <2>2. CASE world # {}
    BY <2>1, <2>2
  <2>3. CASE world = {} /\ Next
    <3>1. CASE rows' \cup InArchives' = rows \cup InArchives
      BY <2>1, <3>1
    <3>2. CASE /\ inFlight \in Row
               /\ rows' \cup InArchives' = rows \cup InArchives \cup {inFlight}
      <4>1. Held!Record(inFlight)
        BY <2>1, <2>3, <3>2 DEF Held!Record
      <4>2. QED BY <3>2, <4>1 DEF Held!Next
    <3>3. QED BY <1>2, <2>3, <3>1, <3>2, HeldStep
  <2>4. CASE UNCHANGED storeVars
    BY <2>4 DEF storeVars, InArchives
  <2>5. QED BY <1>2, <2>2, <2>3, <2>4
<1>3. QED BY <1>1, <1>2, Invariance, PTL DEF Spec, HeldSpec, Held!Spec
===============================================================================
