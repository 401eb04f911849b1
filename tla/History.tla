------------------------------- MODULE History --------------------------------
(***************************************************************************)
(* The disk-backed scrollback of one terminal (internal/terminal): the     *)
(* emulator's ring of rows, the write-through copy of it in an append-only *)
(* file, the trimming of the ring, and the index of the file, which a hot  *)
(* upgrade carries over and a crash rebuilds.  The file outlives the       *)
(* daemon (internal/supervise holds a duplicate); the ring does not.       *)
(*                                                                         *)
(* Rows are numbered as they scroll off the grid.  The file is a sequence  *)
(* of units, each of them what a reader makes of it who takes it for the   *)
(* start of a record: the row, 0 for none, and the record's length.        *)
(***************************************************************************)
EXTENDS Integers, SequencesExt

CONSTANTS
  LiveWindow,      \* liveWindow, rows kept in the ring after a trim
  LineSize,      \* the units of each row's record
  StrayLen,        \* the length read from a unit that starts no record
  MaxRows,         \* bound on rows that scroll off
  MaxFaults,       \* bound on failed writes and crashes
  MaxSwaps,        \* bound on hot upgrades and on clears
  PrintAfterErase  \* whether one read may hold an ED 3 and rows after it

ASSUME HistoryConstants ==
  /\ LiveWindow \in Nat \ {0} /\ PrintAfterErase \in BOOLEAN
  /\ LineSize \in [1..MaxRows -> Nat \ {0}] /\ StrayLen \in Nat \ {0}
  /\ MaxRows \in Nat /\ MaxFaults \in Nat /\ MaxSwaps \in Nat

VARIABLES
  pushed,   \* rows that have scrolled off so far
  expected, \* the rows of the history nobody erased and no crash took
  ring,     \* the emulator's scrollback
  mirrored, \* memMirrored
  file,     \* the file's contents
  index,    \* DiskScrollback.offsets
  size,     \* DiskScrollback.size
  stage,    \* where the holder of publishMu is
  asker,    \* a lock-free ScrollbackLen, between its two reads
  misread,  \* some ScrollbackLen returned more than the history had
  faults, swaps

tvars == <<pushed, expected, ring, mirrored, file, index, size, stage, asker,
           misread, faults, swaps>>
disk == <<file, index, size>>

Away == [at |-> "away"]

TInit ==
  /\ pushed = 0 /\ expected = {}
  /\ ring = <<>> /\ mirrored = 0
  /\ file = <<>> /\ index = <<>> /\ size = 0
  /\ stage = "idle" /\ asker = Away /\ misread = FALSE
  /\ faults = 0 /\ swaps = 0

Header(row) == [row |-> row, n |-> LineSize[row]]
Inside == [row |-> 0, n |-> StrayLen]

\* Where each record of a batch ends, and the batch.
Ends(rows) ==
  LET end[i \in 0..Len(rows)] == IF i = 0 THEN 0 ELSE end[i - 1] + LineSize[rows[i]]
  IN end
AllUnits(rows) ==
  [p \in 1..Ends(rows)[Len(rows)] |->
     LET starts == {i \in 1..Len(rows) : Ends(rows)[i - 1] + 1 = p}
     IN IF starts = {} THEN Inside ELSE Header(rows[CHOOSE i \in starts : TRUE])]

NewRows(from, n) == [i \in 1..n |-> from + i]
OnDisk == [i \in DOMAIN index |-> file[index[i] + 1].row]   \* LineAt of each line
Least(a, b) == IF a < b THEN a ELSE b

\* The history's length, and the most of it while an asker is between its reads.
Length == Len(index) + Cardinality({i \in DOMAIN ring : ring[i] \notin ToSet(OnDisk)})
Watch(erases) ==
  asker' = IF asker = Away THEN Away
            ELSE [asker EXCEPT !.most = IF Length' > @ THEN Length' ELSE @,
                                !.erased = @ \/ erases]

-----------------------------------------------------------------------------
(* ingest: the emulator takes what the PTY read returned, then the new rows  *)
(* are mirrored, then the ring is trimmed.  All of it under publishMu.       *)

\* ED 3 drops the ring; what is on disk stays.
EmuWrite(before, erase, after) ==
  /\ stage = "idle" /\ pushed + before + after <= MaxRows
  /\ before + after > 0 \/ erase
  /\ erase \/ after = 0
  /\ erase /\ after > 0 => PrintAfterErase
  /\ pushed' = pushed + before + after
  /\ IF erase
     THEN /\ ring' = NewRows(pushed + before, after)
          /\ expected' = (expected \cap ToSet(OnDisk)) \cup ToSet(NewRows(pushed + before, after))
     ELSE /\ ring' = ring \o NewRows(pushed, before)
          /\ expected' = expected \cup ToSet(NewRows(pushed, before))
  /\ stage' = "written"
  /\ UNCHANGED <<mirrored, disk, misread, faults, swaps>>
  /\ Watch(erase)

Unmirrored == SubSeq(ring, Least(mirrored, Len(ring)) + 1, Len(ring))

\* WriteAt of the first m units of a batch at d.size.
WrittenAt(rows, m) ==
  [p \in 1..Max({Len(file), size + m}) |->
     IF p \in (size + 1)..(size + m) THEN AllUnits(rows)[p - size] ELSE file[p]]

\* AppendBatch and mirrorNewLines: of a write that stopped after m units the
\* whole records count.
Landed(rows, m) == Max({i \in 0..Len(rows) : Ends(rows)[i] <= m})
WriteOut(rows, m, bump) ==
  LET c == Landed(rows, m)
  IN /\ file' = WrittenAt(rows, m)
     /\ index' = index \o [i \in 1..c |-> size + Ends(rows)[i - 1]]
     /\ size' = size + Ends(rows)[c]
     /\ mirrored' = Least(mirrored, Len(ring)) + (IF bump THEN c ELSE 0)

\* Mutant: memMirrored is not bumped in the hold of t.mu that appends.
AppendThenBump(rows, m) == WriteOut(rows, m, FALSE)
AppendBatch(rows, m) == WriteOut(rows, m, TRUE)

Mirror(m, next) ==
  /\ m <= Len(AllUnits(Unmirrored))
  /\ IF m < Len(AllUnits(Unmirrored)) THEN faults < MaxFaults /\ faults' = faults + 1
     ELSE UNCHANGED faults
  /\ AppendBatch(Unmirrored, m)
  /\ stage' = next
  /\ UNCHANGED <<pushed, expected, ring, misread, swaps>>
  /\ Watch(FALSE)

MirrorNewLines(m) == stage = "written" /\ Mirror(m, "mirrored")

\* mirrorScrollback: trim once everything in the ring is on disk.
\* Mutant: rows whose write failed are trimmed too.
TrimsAnyway == Len(ring) > 2 * LiveWindow
Trims == Len(ring) > 2 * LiveWindow /\ mirrored = Len(ring)

Trim ==
  /\ stage = "mirrored"
  /\ IF Trims
     THEN ring' = SubSeq(ring, Len(ring) - LiveWindow + 1, Len(ring)) /\ stage' = "trimmed"
     ELSE UNCHANGED ring /\ stage' = "idle"
  /\ UNCHANGED <<pushed, expected, mirrored, disk, misread, faults, swaps>>
  /\ Watch(FALSE)

NoteTrim ==
  /\ stage = "trimmed"
  /\ mirrored' = Len(ring)
  /\ stage' = "idle"
  /\ UNCHANGED <<pushed, expected, ring, disk, misread, faults, swaps>>
  /\ Watch(FALSE)

\* ClearScrollback.
ClearRing ==
  /\ stage = "idle" /\ swaps < MaxSwaps /\ swaps' = swaps + 1
  /\ ring' = <<>> /\ expected' = {}
  /\ stage' = "cleared"
  /\ UNCHANGED <<pushed, mirrored, disk, misread, faults>>
  /\ Watch(TRUE)

ClearDisk ==
  /\ stage = "cleared"
  /\ file' = <<>> /\ index' = <<>> /\ size' = 0 /\ mirrored' = 0
  /\ stage' = "idle"
  /\ UNCHANGED <<pushed, expected, ring, misread, faults, swaps>>
  /\ Watch(TRUE)

-----------------------------------------------------------------------------
(* A hot upgrade: FlushScrollbackToDisk, then the next daemon adopts the     *)
(* file with its index.  A tail that could not be written stays behind.      *)

StartFlush ==
  /\ stage = "idle" /\ swaps < MaxSwaps /\ swaps' = swaps + 1
  /\ stage' = "flushing"
  /\ UNCHANGED <<pushed, expected, ring, mirrored, disk, misread, faults>>
  /\ Watch(FALSE)

Flush(m) == stage = "flushing" /\ Mirror(m, "flushed")

AdoptWithIndex ==
  /\ stage = "flushed"
  /\ ring' = <<>> /\ mirrored' = 0
  /\ expected' = expected \cap ToSet(OnDisk)
  /\ stage' = "idle" /\ asker' = Away
  /\ UNCHANGED <<pushed, disk, misread, faults, swaps>>

\* The daemon dies, perhaps with m units of a batch written.
Crash(m) ==
  /\ faults < MaxFaults /\ faults' = faults + 1
  /\ m <= (IF stage \in {"written", "flushing"} THEN Len(AllUnits(Unmirrored)) ELSE 0)
  /\ file' = WrittenAt(Unmirrored, m)
  /\ expected' = IF stage = "dead" THEN expected ELSE expected \cap ToSet(OnDisk)
  /\ index' = <<>> /\ size' = 0 /\ ring' = <<>> /\ mirrored' = 0
  /\ stage' = "dead" /\ asker' = Away
  /\ UNCHANGED <<pushed, misread, swaps>>

\* RebuildIndex: the records one after the other, up to one that is cut short.
\* What an overwritten record left behind is read as if it were a record.
Whole(o) == o < Len(file) /\ o + file[o + 1].n <= Len(file)
Reached[i \in 0..Len(file)] ==   \* off, after i rounds of the loop
  IF i = 0 THEN 0
  ELSE LET o == Reached[i - 1] IN IF Whole(o) THEN o + file[o + 1].n ELSE o
Rounds == Min({i \in 0..Len(file) : ~Whole(Reached[i])})

RebuildIndex ==
  /\ stage = "dead"
  /\ index' = [i \in 1..Rounds |-> Reached[i - 1]]
  /\ size' = Reached[Rounds]
  /\ stage' = "idle"
  /\ UNCHANGED <<pushed, expected, ring, mirrored, file, asker, misread, faults, swaps>>

-----------------------------------------------------------------------------
(* scrollbackLayout without publishMu: the pair under t.mu, then the ring.   *)

ReadPair ==
  /\ asker = Away /\ stage # "dead"
  /\ asker' = [at |-> "paired", onDisk |-> Len(index), copied |-> mirrored,
                most |-> Length, erased |-> FALSE]
  /\ UNCHANGED <<pushed, expected, ring, mirrored, disk, stage, misread, faults, swaps>>

ReadLen ==
  /\ asker # Away
  /\ LET seen == asker.onDisk + Len(ring) - Least(asker.copied, Len(ring))
     IN misread' = (misread \/ (~asker.erased /\ seen > asker.most))
  /\ asker' = Away
  /\ UNCHANGED <<pushed, expected, ring, mirrored, disk, stage, faults, swaps>>

TNext ==
  \/ \E b, a \in 0..MaxRows, erase \in BOOLEAN : EmuWrite(b, erase, a)
  \/ \E m \in 0..Len(AllUnits(Unmirrored)) : MirrorNewLines(m) \/ Flush(m) \/ Crash(m)
  \/ Trim \/ NoteTrim \/ ClearRing \/ ClearDisk \/ StartFlush \/ AdoptWithIndex
  \/ RebuildIndex \/ ReadPair \/ ReadLen

TSpec == TInit /\ [][TNext]_tvars

-----------------------------------------------------------------------------
(* Between two reads of the PTY the history, the file's lines and then the   *)
(* rows of the ring that are not on it, has every row nobody erased, once    *)
(* and in order: trims, failed writes that are made again, upgrades and      *)
(* rebuilt indexes lose and repeat nothing ("every line reaches the disk     *)
(* store as it scrolls off the grid", Terminal.memMirrored).  A rebuilt      *)
(* index may end in lines read from what an overwritten record left (0).     *)
HistoryIsWhole ==
  stage = "idle" =>
    LET seen == OnDisk \o Unmirrored
    IN /\ expected \subseteq ToSet(seen)
       /\ \A i, j \in DOMAIN seen :
            i < j /\ seen[i] # 0 /\ seen[j] # 0 => seen[i] < seen[j]

(* A length read without publishMu is never more than the history had while  *)
(* it was read: no row is counted both on disk and in the ring, which left   *)
(* clients a gap they could not close (mirrorNewLines).  It may be less.     *)
LengthNotOverstated == ~misread
===============================================================================
