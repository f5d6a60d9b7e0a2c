----------------------------- MODULE DiskSlots ------------------------------
(***************************************************************************)
(* The slots of the page file (disk.c): the bitmap that the writer sets    *)
(* row by row and every fault handler clears, the writer's stack of        *)
(* slots, the row at which its scan goes on, and the count of empty slots  *)
(* that is updated after the bits.                                         *)
(*                                                                         *)
(* Each interlocked operation and each read of a bitmap word is a step.    *)
(* The stack, the scan and last_checked_bitmap_row belong to the writer    *)
(* and change together with the step before them.                          *)
(***************************************************************************)
EXTENDS Integers, FiniteSets, Sequences

CONSTANTS
    BitsPerRow,         \* BITS_PER_BITMAP_ROW
    PagesInPageFile,    \* vm.pages_in_page_file
    MaxWriteBatch,      \* MAX_WRITE_BATCH_SIZE
    MinWriteBatch,      \* MIN_WRITE_BATCH_SIZE
    Faulters,           \* user threads, which clear slots
    NoSlot              \* no slot at hand

AllSlots == 0..(PagesInPageFile - 1)

\* page_file_bitmap_rows is rounded down: the scan never sees the slots beyond.
BitmapRows == PagesInPageFile \div BitsPerRow

StackCapacity == 2 * MaxWriteBatch

\* A row fits on the stack beside a batch that is one slot short.
ASSUME SizeAssumption ==
    /\ BitsPerRow \in Nat \ {0}
    /\ PagesInPageFile \in Nat
    /\ BitsPerRow <= PagesInPageFile
    /\ MaxWriteBatch \in Nat
    /\ BitsPerRow <= MaxWriteBatch + 1
    /\ MinWriteBatch \in 1..MaxWriteBatch
    /\ NoSlot \notin AllSlots

VARIABLES
    bitmap,             \* the slots whose bit is set
    empty_disk_slots,   \* pf.empty_disk_slots
    slot_stack,         \* pf.slot_stack, up to pf.num_stashed_slots
    last_checked_row,   \* pf.last_checked_bitmap_row
    held,               \* slots recorded in a PFN or in a disk-format PTE
    counting,           \* fault handlers between clearing a bit and counting it
    wpc,                \* where the writer is
    target,             \* target_page_count
    row, visited,       \* current_bitmap_row and the i of the scan
    snapshot,           \* clear slots of row_snapshot still to be set
    batch,              \* pages of the batch still to be written
    slot                \* disk_slot of the page that is being written

scan == <<target, row, visited, snapshot, batch, slot>>
vars == <<bitmap, empty_disk_slots, slot_stack, last_checked_row, held, counting,
          wpc, scan>>

RowSlots(r) == {r * BitsPerRow + i : i \in 0..(BitsPerRow - 1)}

\* The slots of a row in the order in which they are pushed.
RowSequence(r) == [i \in 1..BitsPerRow |-> r * BitsPerRow + (i - 1)]

Stashed == {slot_stack[i] : i \in 1..Len(slot_stack)}

\* Faulty NextRow: no wrap-around.
NextRowUnwrapped(r) == r + 1

NextRow(r) == (r + 1) % BitmapRows

Init == /\ bitmap = {0}
        /\ empty_disk_slots = PagesInPageFile - 1
        /\ slot_stack = <<>>
        /\ last_checked_row = 0
        /\ held = {}
        /\ counting = {}
        /\ wpc = "idle"
        /\ target = 0 /\ row = 0 /\ visited = 0 /\ batch = 0
        /\ snapshot = {}
        /\ slot = NoSlot

-----------------------------------------------------------------------------
(* The writer.  It does nothing while the count of empty slots is too low. *)

\* Faulty WriteBegin: it scans although the stash covers the batch.
WriteBeginAlwaysScans(n) ==
    /\ wpc = "idle"
    /\ empty_disk_slots >= MinWriteBatch
    /\ target' = n
    /\ row' = last_checked_row
    /\ visited' = 0
    /\ wpc' = "scan"
    /\ UNCHANGED <<bitmap, empty_disk_slots, slot_stack, last_checked_row, held,
                   counting, snapshot, batch, slot>>

\* write_pages sizes its batch by the number of modified pages, and scans the
\* bitmap when the stash does not cover it.
WriteBegin(n) ==
    /\ wpc = "idle"
    /\ empty_disk_slots >= MinWriteBatch
    /\ target' = n
    /\ row' = last_checked_row
    /\ visited' = 0
    /\ wpc' = IF Len(slot_stack) < n THEN "scan" ELSE "gather"
    /\ UNCHANGED <<bitmap, empty_disk_slots, slot_stack, last_checked_row, held,
                   counting, snapshot, batch, slot>>

\* The next row is skipped if it is full.
ScanRow ==
    /\ wpc = "scan"
    /\ visited < BitmapRows
    /\ row' = NextRow(row)
    /\ visited' = visited + 1
    /\ wpc' = IF RowSlots(row') \subseteq bitmap THEN "scan" ELSE "read"
    /\ UNCHANGED <<bitmap, empty_disk_slots, slot_stack, last_checked_row, held,
                   counting, target, snapshot, batch, slot>>

\* push_slots_from_bitmap_row reads the row once more.
ReadRow ==
    /\ wpc = "read"
    /\ snapshot' = RowSlots(row) \ bitmap
    /\ wpc' = IF snapshot' = RowSlots(row) THEN "row" ELSE "bits"
    /\ UNCHANGED <<bitmap, empty_disk_slots, slot_stack, last_checked_row, held,
                   counting, target, row, visited, batch, slot>>

\* Faulty TakeRow: the snapshot is kept although the whole row was taken.
TakeRowKeepsSnapshot ==
    /\ wpc = "row"
    /\ IF RowSlots(row) \cap bitmap = {}
       THEN /\ bitmap' = bitmap \cup RowSlots(row)
            /\ slot_stack' = slot_stack \o RowSequence(row)
            /\ wpc' = "uncountRow"
       ELSE /\ wpc' = "bits"
            /\ UNCHANGED <<bitmap, slot_stack>>
    /\ UNCHANGED <<empty_disk_slots, last_checked_row, held, counting, target, row,
                   visited, snapshot, batch, slot>>

\* One compare-and-swap takes a row that was empty; if it fails the row is taken
\* bit by bit, from the same snapshot.
TakeRow ==
    /\ wpc = "row"
    /\ IF RowSlots(row) \cap bitmap = {}
       THEN /\ bitmap' = bitmap \cup RowSlots(row)
            /\ slot_stack' = slot_stack \o RowSequence(row)
            /\ snapshot' = {}
            /\ wpc' = "uncountRow"
       ELSE /\ wpc' = "bits"
            /\ UNCHANGED <<bitmap, slot_stack, snapshot>>
    /\ UNCHANGED <<empty_disk_slots, last_checked_row, held, counting, target, row,
                   visited, batch, slot>>

UncountRow ==
    /\ wpc = "uncountRow"
    /\ empty_disk_slots' = empty_disk_slots - BitsPerRow
    /\ wpc' = "bits"
    /\ UNCHANGED <<bitmap, slot_stack, last_checked_row, held, counting, scan>>

\* set_disk_slot and push_slot, from the lowest slot of the snapshot up.
SetSlot ==
    /\ wpc = "bits"
    /\ \E s \in snapshot :
          /\ \A t \in snapshot : s <= t
          /\ bitmap' = bitmap \cup {s}
          /\ slot_stack' = Append(slot_stack, s)
          /\ snapshot' = snapshot \ {s}
    /\ wpc' = "uncount"
    /\ UNCHANGED <<empty_disk_slots, last_checked_row, held, counting, target, row,
                   visited, batch, slot>>

UncountSlot ==
    /\ wpc = "uncount"
    /\ empty_disk_slots' = empty_disk_slots - 1
    /\ wpc' = "bits"
    /\ UNCHANGED <<bitmap, slot_stack, last_checked_row, held, counting, scan>>

\* Faulty RowDone: the row is not recorded, so the next scan starts where this one did.
RowDoneForgotten ==
    /\ wpc = "bits"
    /\ snapshot = {}
    /\ wpc' = IF Len(slot_stack) >= target THEN "gather" ELSE "scan"
    /\ UNCHANGED <<bitmap, empty_disk_slots, slot_stack, last_checked_row, held,
                   counting, scan>>

\* The scan stops as soon as the target is reached, and goes on from there later.
RowDone ==
    /\ wpc = "bits"
    /\ snapshot = {}
    /\ IF Len(slot_stack) >= target
       THEN /\ wpc' = "gather"
            /\ last_checked_row' = row
       ELSE /\ wpc' = "scan"
            /\ UNCHANGED last_checked_row
    /\ UNCHANGED <<bitmap, empty_disk_slots, slot_stack, held, counting, scan>>

ScanDone ==
    /\ wpc = "scan"
    /\ visited = BitmapRows
    /\ last_checked_row' = row
    /\ wpc' = "gather"
    /\ UNCHANGED <<bitmap, empty_disk_slots, slot_stack, held, counting, scan>>

\* Faulty Gather: the batch may outnumber the stash.
GatherUncapped(n) ==
    /\ wpc = "gather"
    /\ n <= target
    /\ batch' = n
    /\ wpc' = IF n = 0 THEN "idle" ELSE "pop"
    /\ UNCHANGED <<bitmap, empty_disk_slots, slot_stack, last_checked_row, held,
                   counting, target, row, visited, snapshot, slot>>

\* n pages come off the modified list, at most one for each stashed slot, and none
\* if the stash has remained too small.
Gather(n) ==
    /\ wpc = "gather"
    /\ n <= target /\ n <= Len(slot_stack)
    /\ Len(slot_stack) < MinWriteBatch => n = 0
    /\ batch' = n
    /\ wpc' = IF n = 0 THEN "idle" ELSE "pop"
    /\ UNCHANGED <<bitmap, empty_disk_slots, slot_stack, last_checked_row, held,
                   counting, target, row, visited, snapshot, slot>>

\* Faulty PopSlot: the slot stays on the stack.
PopSlotStays ==
    /\ wpc = "pop"
    /\ slot' = slot_stack[Len(slot_stack)]
    /\ wpc' = "write"
    /\ UNCHANGED <<bitmap, empty_disk_slots, slot_stack, last_checked_row, held, counting,
                   target, row, visited, snapshot, batch>>

PopSlot ==
    /\ wpc = "pop"
    /\ slot' = slot_stack[Len(slot_stack)]
    /\ slot_stack' = SubSeq(slot_stack, 1, Len(slot_stack) - 1)
    /\ wpc' = "write"
    /\ UNCHANGED <<bitmap, empty_disk_slots, last_checked_row, held, counting, target,
                   row, visited, snapshot, batch>>

PageDone ==
    /\ batch' = batch - 1
    /\ wpc' = IF batch = 1 THEN "idle" ELSE "pop"

\* The page is still mid-write: set_pfn_standby records its slot.
WriteCommit ==
    /\ wpc = "write"
    /\ held' = held \cup {slot}
    /\ slot' = NoSlot
    /\ PageDone
    /\ UNCHANGED <<bitmap, empty_disk_slots, slot_stack, last_checked_row, counting,
                   target, row, visited, snapshot>>

\* Faulty WriteAbandon: the bit stays set.
WriteAbandonLeaks ==
    /\ wpc = "write"
    /\ slot' = NoSlot
    /\ wpc' = "count"
    /\ UNCHANGED <<bitmap, empty_disk_slots, slot_stack, last_checked_row, held, counting,
                   target, row, visited, snapshot, batch>>

\* The page was soft faulted meanwhile: clear_disk_slot, first the bit.
WriteAbandon ==
    /\ wpc = "write"
    /\ bitmap' = bitmap \ {slot}
    /\ slot' = NoSlot
    /\ wpc' = "count"
    /\ UNCHANGED <<empty_disk_slots, slot_stack, last_checked_row, held, counting,
                   target, row, visited, snapshot, batch>>

\* Faulty CountAbandoned: the cleared slot is not counted.
CountAbandonedForgotten ==
    /\ wpc = "count"
    /\ PageDone
    /\ UNCHANGED <<bitmap, empty_disk_slots, slot_stack, last_checked_row, held, counting,
                   target, row, visited, snapshot, slot>>

CountAbandoned ==
    /\ wpc = "count"
    /\ empty_disk_slots' = empty_disk_slots + 1
    /\ PageDone
    /\ UNCHANGED <<bitmap, slot_stack, last_checked_row, held, counting, target, row,
                   visited, snapshot, slot>>

-----------------------------------------------------------------------------
(* Fault handlers clear the slot of the page that they bring back: the     *)
(* bit first, then the count.                                              *)

ClearSlot(f) ==
    /\ f \notin counting
    /\ \E s \in held :
          /\ held' = held \ {s}
          /\ bitmap' = bitmap \ {s}
    /\ counting' = counting \cup {f}
    /\ UNCHANGED <<empty_disk_slots, slot_stack, last_checked_row, wpc, scan>>

CountCleared(f) ==
    /\ f \in counting
    /\ empty_disk_slots' = empty_disk_slots + 1
    /\ counting' = counting \ {f}
    /\ UNCHANGED <<bitmap, slot_stack, last_checked_row, held, wpc, scan>>

-----------------------------------------------------------------------------
WriterStep == \/ ScanRow \/ ReadRow \/ TakeRow \/ UncountRow \/ SetSlot
              \/ UncountSlot \/ RowDone \/ ScanDone
              \/ \E n \in 0..MaxWriteBatch : Gather(n)
              \/ PopSlot \/ WriteCommit \/ WriteAbandon \/ CountAbandoned

Next == \/ \E n \in 0..MaxWriteBatch : WriteBegin(n)
        \/ WriterStep
        \/ \E f \in Faulters : ClearSlot(f) \/ CountCleared(f)

\* A batch that was begun goes on, and a fault handler goes on to count; nothing
\* makes the writer start or a thread fault.
Fairness == WF_vars(WriterStep) /\ \A f \in Faulters : WF_vars(CountCleared(f))

Spec == Init /\ [][Next]_vars /\ Fairness

-----------------------------------------------------------------------------
\* The indices stay in the page file, the bitmap and the batch (disk.c:31-33).
TypeOK ==
    /\ bitmap \in SUBSET AllSlots
    /\ empty_disk_slots \in Int
    /\ slot_stack \in Seq(AllSlots)
    /\ last_checked_row \in 0..(BitmapRows - 1)
    /\ held \in SUBSET AllSlots
    /\ counting \in SUBSET Faulters
    /\ wpc \in {"idle", "scan", "read", "row", "uncountRow", "bits", "uncount",
                "gather", "pop", "write", "count"}
    /\ target \in 0..MaxWriteBatch
    /\ row \in 0..(BitmapRows - 1)
    /\ visited \in 0..BitmapRows
    /\ snapshot \in SUBSET AllSlots
    /\ batch \in 0..MaxWriteBatch
    /\ slot \in AllSlots \cup {NoSlot}

InFlight == IF wpc = "write" THEN {slot} ELSE {}

\* A bit is set exactly while its slot is stashed, in the writer's hands or
\* recorded for one page, and it is only one of these (slot 0 is never handed
\* out).  So set_disk_slot finds the bit clear (disk.c:169), clear_disk_slot
\* finds it set (disk.c:152), and no slot leaks.
SlotsOwnedOnce ==
    /\ bitmap = {0} \cup Stashed \cup InFlight \cup held
    /\ 0 \notin Stashed \cup InFlight \cup held
    /\ Stashed \cap held = {} /\ InFlight \cap (Stashed \cup held) = {}
    /\ \A i, j \in 1..Len(slot_stack) : i # j => slot_stack[i] # slot_stack[j]

\* What the writer saw clear stays clear until it sets it itself (disk.c:41),
\* although every fault handler changes the same words meanwhile.
SnapshotStaysClear == snapshot \cap bitmap = {}

\* A row is pushed as a whole even if one slot is missing, and never beyond the
\* array (disk.c:23).
StackInBounds == Len(slot_stack) <= StackCapacity

\* A page of the batch always finds a slot on the stack (disk.c:89).
PopFindsSlot == wpc = "pop" => batch > 0 /\ batch <= Len(slot_stack)

\* The count and the bits differ by exactly the updates that are on their way.
CounterAccounts ==
    empty_disk_slots = Cardinality(AllSlots \ bitmap)
                       + (IF wpc = "uncountRow" THEN BitsPerRow ELSE 0)
                       + (IF wpc = "uncount" THEN 1 ELSE 0)
                       - (IF wpc = "count" THEN 1 ELSE 0)
                       - Cardinality(counting)

\* The scan goes on at the row where the last one stopped: while scans keep being
\* started, every slot that the rows cover is taken again and again.
EverySlotIsReused ==
    []<>(wpc = "scan" /\ visited = 0) =>
        \A s \in UNION {RowSlots(r) : r \in 0..(BitmapRows - 1)} : []<>(s \in bitmap)

\* The page file is a pool of slots.  The bits are the pool's free slots.
Pool == INSTANCE SlotPool WITH
    PoolSlots <- AllSlots \ {0},
    free <- AllSlots \ bitmap,
    stash <- Stashed,
    used <- held \cup InFlight

ImplementsSlotPool == Pool!PoolSpec
=============================================================================
