--------------------------- MODULE DiskSlotsProofs -------------------------
(***************************************************************************)
(* For every size of the page file, of a row and of a batch, and for every *)
(* set of fault handlers: the slots are owned once, the writer's stack     *)
(* stays within its array, and the page file is a pool of slots.           *)
(***************************************************************************)
EXTENDS DiskSlots, FiniteSetTheorems, SequenceTheorems, TLAPS

\* What holds inside a scan and a batch.  A row is only read while the stash is
\* below the target, so one row more still fits.
ScanInv ==
    /\ wpc \in {"scan", "read", "row"} => Len(slot_stack) < target
    /\ wpc \in {"row", "bits", "uncount", "uncountRow"} =>
          Len(slot_stack) + Cardinality(snapshot) <= MaxWriteBatch - 1 + BitsPerRow
    /\ Len(slot_stack) <= MaxWriteBatch - 1 + BitsPerRow

BatchInv ==
    /\ wpc = "pop" => batch > 0 /\ batch <= Len(slot_stack)
    /\ wpc = "write" => batch > 0 /\ batch - 1 <= Len(slot_stack) /\ slot \in AllSlots
    /\ wpc = "count" => batch > 0 /\ batch - 1 <= Len(slot_stack)

SlotInv == TypeOK /\ SlotsOwnedOnce /\ SnapshotStaysClear /\ ScanInv /\ BatchInv

-----------------------------------------------------------------------------
(* Rows.                                                                   *)

\* The slots of a row, the order in which they are pushed, and rows have none in common.
LEMMA RowsOfSlots ==
    ASSUME NEW r \in 0..(BitmapRows - 1)
    PROVE  /\ RowSlots(r) \in SUBSET AllSlots
           /\ RowSequence(r) \in Seq(AllSlots)
           /\ Len(RowSequence(r)) = BitsPerRow
           /\ RowSlots(r) = {RowSequence(r)[i] : i \in 1..BitsPerRow}
           /\ RowSlots(r) # {}
  <1> USE SizeAssumption
  <1>1. BitmapRows \in Nat /\ BitmapRows * BitsPerRow <= PagesInPageFile
    BY DEF BitmapRows
  <1>2. r * BitsPerRow \in Nat /\ r * BitsPerRow + BitsPerRow <= PagesInPageFile
    <2>1. r + 1 <= BitmapRows
      BY <1>1
    <2>2. (r + 1) * BitsPerRow <= BitmapRows * BitsPerRow
      BY <2>1, <1>1
    <2>3. (r + 1) * BitsPerRow = r * BitsPerRow + BitsPerRow
      BY <1>1
    <2>4. r * BitsPerRow \in Nat
      BY <1>1
    <2> QED
      BY <2>2, <2>3, <2>4, <1>1
  <1> DEFINE base == r * BitsPerRow
  <1>3. base \in Nat /\ base + BitsPerRow <= PagesInPageFile
    BY <1>2
  <1> HIDE DEF base
  <1>4. RowSlots(r) = {base + i : i \in 0..(BitsPerRow - 1)}
    BY DEF RowSlots, base
  <1>5. RowSequence(r) = [i \in 1..BitsPerRow |-> base + (i - 1)]
    BY DEF RowSequence, base
  <1>6. RowSlots(r) \in SUBSET AllSlots
    BY <1>3, <1>4 DEF AllSlots
  <1>7. RowSequence(r) \in Seq(AllSlots) /\ Len(RowSequence(r)) = BitsPerRow
    BY <1>3, <1>5 DEF AllSlots
  <1>8. RowSlots(r) = {RowSequence(r)[i] : i \in 1..BitsPerRow}
    <2>1. ASSUME NEW s \in RowSlots(r)
          PROVE  \E i \in 1..BitsPerRow : s = RowSequence(r)[i]
      <3>1. PICK j \in 0..(BitsPerRow - 1) : s = base + j
        BY <1>4
      <3>2. j + 1 \in 1..BitsPerRow /\ s = RowSequence(r)[j + 1]
        BY <3>1, <1>3, <1>5
      <3> QED
        BY <3>2
    <2>2. ASSUME NEW i \in 1..BitsPerRow
          PROVE  RowSequence(r)[i] \in RowSlots(r)
      <3>1. RowSequence(r)[i] = base + (i - 1) /\ i - 1 \in 0..(BitsPerRow - 1)
        BY <1>5
      <3> QED
        BY <3>1, <1>4
    <2> QED
      BY <2>1, <2>2
  <1>9. base + 0 \in RowSlots(r)
    BY <1>4
  <1> QED
    BY <1>6, <1>7, <1>8, <1>9

\* A row holds BitsPerRow slots, all different.
LEMMA RowSize ==
    ASSUME NEW r \in 0..(BitmapRows - 1)
    PROVE  /\ IsFiniteSet(RowSlots(r))
           /\ Cardinality(RowSlots(r)) = BitsPerRow
           /\ \A i, j \in 1..BitsPerRow : i # j => RowSequence(r)[i] # RowSequence(r)[j]
  <1> USE SizeAssumption
  <1> DEFINE base == r * BitsPerRow
  <1>1. base \in Nat
    BY DEF BitmapRows
  <1>2. RowSlots(r) = {base + i : i \in 0..(BitsPerRow - 1)}
    BY DEF RowSlots
  <1>3. RowSequence(r) = [i \in 1..BitsPerRow |-> base + (i - 1)]
    BY DEF RowSequence
  <1> HIDE DEF base
  <1>4. RowSlots(r) = base..(base + BitsPerRow - 1)
    <2>1. ASSUME NEW s \in base..(base + BitsPerRow - 1)
          PROVE  s \in RowSlots(r)
      <3>1. s - base \in 0..(BitsPerRow - 1) /\ s = base + (s - base)
        BY <1>1
      <3> QED
        BY <3>1, <1>2
    <2>2. ASSUME NEW i \in 0..(BitsPerRow - 1)
          PROVE  base + i \in base..(base + BitsPerRow - 1)
      BY <1>1
    <2> QED
      BY <2>1, <2>2, <1>2
  <1>5. base + BitsPerRow - 1 \in Int /\ base <= base + BitsPerRow - 1
        /\ (base + BitsPerRow - 1) - base + 1 = BitsPerRow
    BY <1>1
  <1>6. IsFiniteSet(base..(base + BitsPerRow - 1))
        /\ Cardinality(base..(base + BitsPerRow - 1)) = BitsPerRow
    BY <1>1, <1>5, FS_Interval
  <1>7. \A i, j \in 1..BitsPerRow : i # j => RowSequence(r)[i] # RowSequence(r)[j]
    BY <1>1, <1>3
  <1> QED
    BY <1>4, <1>6, <1>7

-----------------------------------------------------------------------------
(* The inductive invariant: one lemma for each step of the writer and of   *)
(* the fault handlers.                                                     *)

\* There is at least one whole row.
LEMMA RowCount == BitmapRows \in Nat \ {0}
  <1>1. PagesInPageFile \div BitsPerRow \in Nat
    BY SizeAssumption
  <1>2. PagesInPageFile \div BitsPerRow # 0
    BY SizeAssumption
  <1> QED
    BY <1>1, <1>2 DEF BitmapRows

\* The scan wraps round and stays among the rows.
LEMMA RowAfter ==
    ASSUME NEW r \in 0..(BitmapRows - 1)
    PROVE  NextRow(r) \in 0..(BitmapRows - 1)
  BY RowCount DEF NextRow

\* A batch is begun: the scan starts behind the row where the last one ended.
LEMMA BeginStep ==
    ASSUME SlotInv, NEW n \in 0..MaxWriteBatch, WriteBegin(n)
    PROVE  SlotInv'
  <1> USE SizeAssumption DEF SlotInv, WriteBegin
  <1>1. TypeOK'
    BY RowCount, RowAfter DEF TypeOK
  <1>2. SlotsOwnedOnce'
    BY DEF SlotsOwnedOnce, TypeOK, Stashed, InFlight
  <1>3. SnapshotStaysClear'
    BY DEF SnapshotStaysClear, TypeOK
  <1>4. ScanInv'
    BY DEF ScanInv, TypeOK
  <1>5. BatchInv'
    BY DEF BatchInv, TypeOK
  <1> QED
    BY <1>1, <1>2, <1>3, <1>4, <1>5

\* The next row is looked at.
LEMMA ScanRowStep ==
    ASSUME SlotInv, ScanRow
    PROVE  SlotInv'
  <1> USE SizeAssumption DEF SlotInv, ScanRow
  <1>1. TypeOK'
    BY RowCount, RowAfter DEF TypeOK
  <1>2. SlotsOwnedOnce'
    BY DEF SlotsOwnedOnce, TypeOK, Stashed, InFlight
  <1>3. SnapshotStaysClear'
    BY DEF SnapshotStaysClear, TypeOK
  <1>4. ScanInv'
    BY DEF ScanInv, TypeOK
  <1>5. BatchInv'
    BY DEF BatchInv, TypeOK
  <1> QED
    BY <1>1, <1>2, <1>3, <1>4, <1>5

\* The snapshot holds bits that are clear now; only the writer sets any.
LEMMA ReadRowStep ==
    ASSUME SlotInv, ReadRow
    PROVE  SlotInv'
  <1> USE SizeAssumption DEF SlotInv, ReadRow
  <1>1. TypeOK'
    BY RowsOfSlots DEF TypeOK
  <1>2. SlotsOwnedOnce'
    BY DEF SlotsOwnedOnce, TypeOK, Stashed, InFlight
  <1>3. SnapshotStaysClear'
    BY DEF SnapshotStaysClear, TypeOK
  <1>4. ScanInv'
    <2>1. IsFiniteSet(snapshot') /\ Cardinality(snapshot') <= BitsPerRow
      BY RowSize, FS_Subset DEF TypeOK
    <2>2. Cardinality(snapshot') \in Nat
      BY <2>1, FS_CardinalityType
    <2> QED
      BY <2>1, <2>2 DEF ScanInv, TypeOK
  <1>5. BatchInv'
    BY DEF BatchInv, TypeOK
  <1> QED
    BY <1>1, <1>2, <1>3, <1>4, <1>5

\* What a sequence pushed behind another one leaves in place and adds.
LEMMA PushedSequence ==
    ASSUME NEW S, NEW s \in Seq(S), NEW t \in Seq(S)
    PROVE  /\ s \o t \in Seq(S)
           /\ Len(s \o t) = Len(s) + Len(t)
           /\ \A i \in 1..Len(s) : (s \o t)[i] = s[i]
           /\ \A i \in 1..Len(t) : (s \o t)[Len(s) + i] = t[i]
  <1> DEFINE r == s \o t
  <1>1. /\ r \in Seq(S)
        /\ Len(r) = Len(s) + Len(t)
        /\ \A i \in 1..(Len(s) + Len(t)) : r[i] = IF i <= Len(s) THEN s[i] ELSE t[i - Len(s)]
    BY ConcatProperties
  <1>2. Len(s) \in Nat /\ Len(t) \in Nat
    OBVIOUS
  <1> HIDE DEF r
  <1>3. ASSUME NEW i \in 1..Len(s)
        PROVE  r[i] = s[i]
    BY <1>1, <1>2
  <1>4. ASSUME NEW i \in 1..Len(t)
        PROVE  r[Len(s) + i] = t[i]
    <2>1. Len(s) + i \in 1..(Len(s) + Len(t)) /\ ~(Len(s) + i <= Len(s)) /\ (Len(s) + i) - Len(s) = i
      BY <1>2
    <2> QED
      BY <2>1, <1>1
  <1> QED
    BY <1>1, <1>3, <1>4 DEF r

\* The whole row is taken at once: none of its slots was on the stack or owned.
LEMMA TakeRowStep ==
    ASSUME SlotInv, TakeRow
    PROVE  SlotInv'
  <1> USE SizeAssumption DEF SlotInv, TakeRow
  <1>a. CASE RowSlots(row) \cap bitmap # {}
   <2>1. /\ UNCHANGED <<bitmap, slot_stack, snapshot, held, target, row, visited,
                         batch, slot, empty_disk_slots, last_checked_row, counting>>
         /\ wpc = "row" /\ wpc' = "bits"
     BY <1>a
   <2>2. TypeOK'
     BY <2>1 DEF TypeOK
   <2>3. SlotsOwnedOnce' /\ SnapshotStaysClear'
     BY <2>1 DEF SlotsOwnedOnce, Stashed, InFlight, SnapshotStaysClear
   <2>4. ScanInv' /\ BatchInv'
     BY <2>1 DEF ScanInv, BatchInv
   <2> QED
     BY <2>2, <2>3, <2>4
  <1>b. CASE RowSlots(row) \cap bitmap = {}
   <2> DEFINE seq == RowSequence(row)
   <2>1. /\ seq \in Seq(AllSlots) /\ Len(seq) = BitsPerRow
         /\ RowSlots(row) = {seq[i] : i \in 1..BitsPerRow}
         /\ RowSlots(row) \in SUBSET AllSlots
         /\ \A i, j \in 1..BitsPerRow : i # j => seq[i] # seq[j]
     BY RowsOfSlots, RowSize DEF TypeOK
   <2> HIDE DEF seq
   <2>2. /\ slot_stack' = slot_stack \o seq
         /\ bitmap' = bitmap \cup RowSlots(row)
         /\ snapshot' = {} /\ wpc' = "uncountRow" /\ wpc = "row"
     BY <1>b DEF seq
   <2>3. /\ slot_stack' \in Seq(AllSlots)
         /\ Len(slot_stack') = Len(slot_stack) + BitsPerRow
         /\ \A i \in 1..Len(slot_stack) : slot_stack'[i] = slot_stack[i]
         /\ \A i \in 1..BitsPerRow : slot_stack'[Len(slot_stack) + i] = seq[i]
     <3>1. slot_stack \in Seq(AllSlots) /\ seq \in Seq(AllSlots)
       BY <2>1 DEF TypeOK
     <3> DEFINE pushed == slot_stack \o seq
     <3> HIDE DEF TakeRow, SlotInv
     <3>2. /\ pushed \in Seq(AllSlots)
           /\ Len(pushed) = Len(slot_stack) + Len(seq)
           /\ \A i \in 1..Len(slot_stack) : pushed[i] = slot_stack[i]
           /\ \A i \in 1..Len(seq) : pushed[Len(slot_stack) + i] = seq[i]
       BY <3>1, PushedSequence
     <3>3. slot_stack' = pushed /\ Len(seq) = BitsPerRow
       BY <2>1, <2>2
     <3> HIDE DEF pushed
     <3> QED
       BY <3>2, <3>3
   <2>4. \A i \in (Len(slot_stack) + 1)..Len(slot_stack') :
            /\ i - Len(slot_stack) \in 1..BitsPerRow
            /\ slot_stack'[i] = seq[i - Len(slot_stack)]
     BY <2>3 DEF TypeOK
   <2>5. Stashed' = Stashed \cup RowSlots(row)
     <3>1. ASSUME NEW s \in Stashed'
           PROVE  s \in Stashed \cup RowSlots(row)
       <4>1. PICK i \in 1..Len(slot_stack') : s = slot_stack'[i]
         BY DEF Stashed
       <4>2. CASE i <= Len(slot_stack)
         BY <4>1, <4>2, <2>3 DEF Stashed, TypeOK
       <4>3. CASE i > Len(slot_stack)
         <5>1. i - Len(slot_stack) \in 1..BitsPerRow /\ s = seq[i - Len(slot_stack)]
           BY <4>1, <4>3, <2>4 DEF TypeOK
         <5> QED
           BY <5>1, <2>1
       <4> QED
         BY <4>2, <4>3 DEF TypeOK
     <3>2. ASSUME NEW s \in Stashed
           PROVE  s \in Stashed'
       BY <2>3 DEF Stashed, TypeOK
     <3>3. ASSUME NEW s \in RowSlots(row)
           PROVE  s \in Stashed'
       <4>1. PICK i \in 1..BitsPerRow : s = seq[i]
         BY <2>1
       <4>2. Len(slot_stack) + i \in 1..Len(slot_stack')
         BY <2>3 DEF TypeOK
       <4> QED
         BY <4>1, <4>2, <2>3 DEF Stashed
     <3> QED
       BY <3>1, <3>2, <3>3
   <2>6. ASSUME NEW i \in 1..Len(slot_stack'), NEW j \in 1..Len(slot_stack'), i < j
         PROVE  slot_stack'[i] # slot_stack'[j]
     <3>1. CASE j <= Len(slot_stack)
       BY <3>1, <2>6, <2>3 DEF SlotsOwnedOnce, TypeOK
     <3>2. CASE Len(slot_stack) < i
       <4>1. /\ i - Len(slot_stack) \in 1..BitsPerRow
             /\ j - Len(slot_stack) \in 1..BitsPerRow
             /\ i - Len(slot_stack) # j - Len(slot_stack)
         BY <3>2, <2>6, <2>3 DEF TypeOK
       <4>2. /\ slot_stack'[i] = seq[i - Len(slot_stack)]
             /\ slot_stack'[j] = seq[j - Len(slot_stack)]
         BY <3>2, <2>6, <2>4 DEF TypeOK
       <4> QED
         BY <4>1, <4>2, <2>1
     <3>3. CASE i <= Len(slot_stack) /\ Len(slot_stack) < j
       <4>1. slot_stack'[i] \in Stashed
         BY <3>3, <2>3 DEF Stashed, TypeOK
       <4>2. slot_stack'[j] \in RowSlots(row)
         <5>1. /\ j - Len(slot_stack) \in 1..BitsPerRow
               /\ slot_stack'[j] = seq[j - Len(slot_stack)]
           BY <3>3, <2>4 DEF TypeOK
         <5> QED
           BY <5>1, <2>1
       <4>3. slot_stack'[i] \in bitmap
         BY <4>1 DEF SlotsOwnedOnce
       <4> QED
         BY <4>2, <4>3, <1>b
     <3> QED
       BY <3>1, <3>2, <3>3 DEF TypeOK
   <2>7. TypeOK'
     BY <2>1, <2>2, <2>3 DEF TypeOK
   <2>8. SlotsOwnedOnce'
     <3>1. InFlight' = {} /\ InFlight = {} /\ held' = held
       BY <2>2 DEF InFlight
     <3>2. RowSlots(row) \cap ({0} \cup Stashed \cup held) = {}
       BY <1>b DEF SlotsOwnedOnce
     <3>3. \A i, j \in 1..Len(slot_stack') : i # j => slot_stack'[i] # slot_stack'[j]
       BY <2>6, <2>3 DEF TypeOK
     <3> QED
       BY <2>2, <2>5, <3>1, <3>2, <3>3 DEF SlotsOwnedOnce
   <2>9. SnapshotStaysClear' /\ BatchInv'
     BY <2>2 DEF SnapshotStaysClear, BatchInv
   <2>10. ScanInv'
     BY <2>2, <2>3, FS_EmptySet DEF ScanInv, TypeOK
   <2> QED
     BY <2>7, <2>8, <2>9, <2>10
  <1> QED
    BY <1>a, <1>b

\* The row is counted after its bits are set.
LEMMA UncountRowStep ==
    ASSUME SlotInv, UncountRow
    PROVE  SlotInv'
  <1> USE SizeAssumption DEF SlotInv, UncountRow, scan
  <1>1. TypeOK'
    BY DEF TypeOK
  <1>2. SlotsOwnedOnce'
    BY DEF SlotsOwnedOnce, TypeOK, Stashed, InFlight
  <1>3. SnapshotStaysClear'
    BY DEF SnapshotStaysClear, TypeOK
  <1>4. ScanInv'
    BY DEF ScanInv, TypeOK
  <1>5. BatchInv'
    BY DEF BatchInv, TypeOK
  <1> QED
    BY <1>1, <1>2, <1>3, <1>4, <1>5

\* A bit of the snapshot is still clear when it is set, so the slot is new.
LEMMA SetSlotStep ==
    ASSUME SlotInv, SetSlot
    PROVE  SlotInv'
  <1> USE SizeAssumption DEF SlotInv, SetSlot
  <1>1. TypeOK'
    BY DEF TypeOK
  <1>2. SlotsOwnedOnce'
    <2>1. PICK s \in snapshot : /\ bitmap' = bitmap \cup {s}
                                /\ slot_stack' = Append(slot_stack, s)
      OBVIOUS
    <2>2. s \in AllSlots /\ s \notin bitmap
      BY DEF TypeOK, SnapshotStaysClear
    <2>3. /\ Len(slot_stack') = Len(slot_stack) + 1
          /\ slot_stack'[Len(slot_stack) + 1] = s
          /\ \A i \in 1..Len(slot_stack) : slot_stack'[i] = slot_stack[i]
      BY <2>1, <2>2 DEF TypeOK
    <2>4. Stashed' = Stashed \cup {s}
      BY <2>3 DEF Stashed, TypeOK
    <2>5. s \notin Stashed
      BY <2>2 DEF SlotsOwnedOnce
    <2>6. \A i, j \in 1..Len(slot_stack') : i # j => slot_stack'[i] # slot_stack'[j]
      <3>1. \A i \in 1..Len(slot_stack) : slot_stack[i] # s
        BY <2>5 DEF Stashed
      <3> QED
        BY <2>3, <3>1 DEF SlotsOwnedOnce, TypeOK
    <2>7. InFlight' = {} /\ InFlight = {} /\ held' = held
      BY DEF InFlight
    <2> QED
      BY <2>1, <2>2, <2>4, <2>5, <2>6, <2>7 DEF SlotsOwnedOnce
  <1>3. SnapshotStaysClear'
    BY DEF SnapshotStaysClear, TypeOK
  <1>4. ScanInv'
    <2>1. PICK s \in snapshot : /\ snapshot' = snapshot \ {s}
                                /\ slot_stack' = Append(slot_stack, s)
      OBVIOUS
    <2>2. IsFiniteSet(AllSlots)
      BY FS_Interval DEF AllSlots
    <2>3. IsFiniteSet(snapshot) /\ Cardinality(snapshot) \in Nat
      BY <2>2, FS_Subset, FS_CardinalityType DEF TypeOK
    <2>4. Cardinality(snapshot') = Cardinality(snapshot) - 1
      BY <2>1, <2>3, FS_RemoveElement
    <2>5. Len(slot_stack') = Len(slot_stack) + 1
      BY <2>1 DEF TypeOK
    <2>6. Cardinality(snapshot') \in Nat
      BY <2>1, <2>3, FS_RemoveElement, FS_CardinalityType
    <2> QED
      BY <2>3, <2>4, <2>5, <2>6 DEF ScanInv, TypeOK
  <1>5. BatchInv'
    BY DEF BatchInv, TypeOK
  <1> QED
    BY <1>1, <1>2, <1>3, <1>4, <1>5

\* The slot is counted after its bit is set.
LEMMA UncountSlotStep ==
    ASSUME SlotInv, UncountSlot
    PROVE  SlotInv'
  <1> USE SizeAssumption DEF SlotInv, UncountSlot, scan
  <1>1. TypeOK'
    BY DEF TypeOK
  <1>2. SlotsOwnedOnce'
    BY DEF SlotsOwnedOnce, TypeOK, Stashed, InFlight
  <1>3. SnapshotStaysClear'
    BY DEF SnapshotStaysClear, TypeOK
  <1>4. ScanInv'
    BY DEF ScanInv, TypeOK
  <1>5. BatchInv'
    BY DEF BatchInv, TypeOK
  <1> QED
    BY <1>1, <1>2, <1>3, <1>4, <1>5

\* The scan remembers the row and goes on.
LEMMA RowDoneStep ==
    ASSUME SlotInv, RowDone
    PROVE  SlotInv'
  <1> USE SizeAssumption DEF SlotInv, RowDone, scan
  <1>1. TypeOK'
    BY DEF TypeOK
  <1>2. SlotsOwnedOnce'
    BY DEF SlotsOwnedOnce, TypeOK, Stashed, InFlight
  <1>3. SnapshotStaysClear'
    BY DEF SnapshotStaysClear, TypeOK
  <1>4. ScanInv'
    BY DEF ScanInv, TypeOK
  <1>5. BatchInv'
    BY DEF BatchInv, TypeOK
  <1> QED
    BY <1>1, <1>2, <1>3, <1>4, <1>5

\* The scan has enough or has seen every row.
LEMMA ScanDoneStep ==
    ASSUME SlotInv, ScanDone
    PROVE  SlotInv'
  <1> USE SizeAssumption DEF SlotInv, ScanDone, scan
  <1>1. TypeOK'
    BY DEF TypeOK
  <1>2. SlotsOwnedOnce'
    BY DEF SlotsOwnedOnce, TypeOK, Stashed, InFlight
  <1>3. SnapshotStaysClear'
    BY DEF SnapshotStaysClear, TypeOK
  <1>4. ScanInv'
    BY DEF ScanInv, TypeOK
  <1>5. BatchInv'
    BY DEF BatchInv, TypeOK
  <1> QED
    BY <1>1, <1>2, <1>3, <1>4, <1>5

\* The batch is no larger than the stack, so each page will find a slot.
LEMMA GatherStep ==
    ASSUME SlotInv, NEW n \in 0..MaxWriteBatch, Gather(n)
    PROVE  SlotInv'
  <1> USE SizeAssumption DEF SlotInv, Gather
  <1>1. TypeOK'
    BY DEF TypeOK
  <1>2. SlotsOwnedOnce'
    BY DEF SlotsOwnedOnce, TypeOK, Stashed, InFlight
  <1>3. SnapshotStaysClear'
    BY DEF SnapshotStaysClear, TypeOK
  <1>4. ScanInv'
    BY DEF ScanInv, TypeOK
  <1>5. BatchInv'
    BY DEF BatchInv, TypeOK
  <1> QED
    BY <1>1, <1>2, <1>3, <1>4, <1>5

\* A sequence without its last element.
LEMMA WithoutLast ==
    ASSUME NEW S, NEW s \in Seq(S), Len(s) \in Nat \ {0}
    PROVE  /\ s[Len(s)] \in S
           /\ SubSeq(s, 1, Len(s) - 1) \in Seq(S)
           /\ Len(SubSeq(s, 1, Len(s) - 1)) = Len(s) - 1
           /\ \A i \in 1..(Len(s) - 1) : SubSeq(s, 1, Len(s) - 1)[i] = s[i]
  <1>1. s[Len(s)] \in S
    OBVIOUS
  <1>2. SubSeq(s, 1, Len(s) - 1) \in Seq(S)
    OBVIOUS
  <1>3. Len(SubSeq(s, 1, Len(s) - 1)) = Len(s) - 1
    <2>1. PICK m \in Nat : m = Len(s) - 1
      OBVIOUS
    <2>2. \A i \in 1..m : s[i] \in S
      BY <2>1
    <2>3. Len(SubSeq(s, 1, m)) = IF 1 <= m THEN m - 1 + 1 ELSE 0
      BY <2>2, SubSeqProperties
    <2>4. (IF 1 <= m THEN m - 1 + 1 ELSE 0) = m
      OBVIOUS
    <2> QED
      BY <2>1, <2>3, <2>4
  <1>4. \A i \in 1..(Len(s) - 1) : SubSeq(s, 1, Len(s) - 1)[i] = s[i]
    OBVIOUS
  <1> QED
    BY <1>1, <1>2, <1>3, <1>4

\* The slot leaves the stack and is the writer's own.
LEMMA PopSlotStep ==
    ASSUME SlotInv, PopSlot
    PROVE  SlotInv'
  <1> USE SizeAssumption DEF SlotInv, PopSlot
  <1> DEFINE n == Len(slot_stack)
  <1>0. /\ n \in Nat \ {0} /\ slot_stack[n] \in AllSlots
        /\ slot_stack' \in Seq(AllSlots) /\ Len(slot_stack') = n - 1
        /\ \A i \in 1..(n - 1) : slot_stack'[i] = slot_stack[i]
    <2>1. slot_stack \in Seq(AllSlots) /\ n \in Nat \ {0}
      BY DEF TypeOK, BatchInv
    <2>2. slot_stack' = SubSeq(slot_stack, 1, n - 1)
      OBVIOUS
    <2> QED
      BY <2>1, <2>2, WithoutLast
  <1>1. TypeOK'
    BY <1>0 DEF TypeOK
  <1>2. SlotsOwnedOnce'
    <2>1. InFlight' = {slot_stack[n]} /\ InFlight = {}
      BY DEF InFlight
    <2>2. \A i \in 1..(n - 1) : slot_stack[i] # slot_stack[n]
      BY <1>0 DEF SlotsOwnedOnce
    <2>3. Stashed' = Stashed \ {slot_stack[n]}
      BY <1>0, <2>2 DEF Stashed
    <2>4. slot_stack[n] \in Stashed
      BY <1>0 DEF Stashed
    <2>5. \A i, j \in 1..Len(slot_stack') : i # j => slot_stack'[i] # slot_stack'[j]
      BY <1>0 DEF SlotsOwnedOnce
    <2> QED
      BY <2>1, <2>3, <2>4, <2>5 DEF SlotsOwnedOnce
  <1>3. SnapshotStaysClear'
    BY DEF SnapshotStaysClear, TypeOK
  <1>4. ScanInv'
    BY DEF ScanInv, TypeOK
  <1>5. BatchInv'
    BY DEF BatchInv, TypeOK
  <1> QED
    BY <1>1, <1>2, <1>3, <1>4, <1>5

\* The slot of a written page becomes the page's.
LEMMA CommitStep ==
    ASSUME SlotInv, WriteCommit
    PROVE  SlotInv'
  <1> USE SizeAssumption DEF SlotInv, WriteCommit, PageDone
  <1>1. TypeOK'
    BY DEF TypeOK, BatchInv
  <1>2. SlotsOwnedOnce'
    BY DEF SlotsOwnedOnce, TypeOK, Stashed, InFlight
  <1>3. SnapshotStaysClear'
    BY DEF SnapshotStaysClear, TypeOK
  <1>4. ScanInv'
    BY DEF ScanInv, TypeOK
  <1>5. BatchInv'
    BY DEF BatchInv, TypeOK
  <1> QED
    BY <1>1, <1>2, <1>3, <1>4, <1>5

\* The slot of a page that was faulted back is cleared again.
LEMMA AbandonStep ==
    ASSUME SlotInv, WriteAbandon
    PROVE  SlotInv'
  <1> USE SizeAssumption DEF SlotInv, WriteAbandon
  <1>1. TypeOK'
    BY DEF TypeOK
  <1>2. SlotsOwnedOnce'
    BY DEF SlotsOwnedOnce, TypeOK, Stashed, InFlight
  <1>3. SnapshotStaysClear'
    BY DEF SnapshotStaysClear, TypeOK
  <1>4. ScanInv'
    BY DEF ScanInv, TypeOK
  <1>5. BatchInv'
    BY DEF BatchInv, TypeOK
  <1> QED
    BY <1>1, <1>2, <1>3, <1>4, <1>5

\* That slot is counted.
LEMMA CountAbandonedStep ==
    ASSUME SlotInv, CountAbandoned
    PROVE  SlotInv'
  <1> USE SizeAssumption DEF SlotInv, CountAbandoned, PageDone
  <1>1. TypeOK'
    BY DEF TypeOK, BatchInv
  <1>2. SlotsOwnedOnce'
    BY DEF SlotsOwnedOnce, TypeOK, Stashed, InFlight
  <1>3. SnapshotStaysClear'
    BY DEF SnapshotStaysClear, TypeOK
  <1>4. ScanInv'
    BY DEF ScanInv, TypeOK
  <1>5. BatchInv'
    BY DEF BatchInv, TypeOK
  <1> QED
    BY <1>1, <1>2, <1>3, <1>4, <1>5

\* A fault handler clears the slot of its page, in any state of the writer.
LEMMA ClearSlotStep ==
    ASSUME SlotInv, NEW f \in Faulters, ClearSlot(f)
    PROVE  SlotInv'
  <1> USE SizeAssumption DEF SlotInv, ClearSlot, scan
  <1>1. TypeOK'
    BY DEF TypeOK
  <1>2. SlotsOwnedOnce'
    BY DEF SlotsOwnedOnce, TypeOK, Stashed, InFlight
  <1>3. SnapshotStaysClear'
    BY DEF SnapshotStaysClear, TypeOK
  <1>4. ScanInv'
    BY DEF ScanInv, TypeOK
  <1>5. BatchInv'
    BY DEF BatchInv, TypeOK
  <1> QED
    BY <1>1, <1>2, <1>3, <1>4, <1>5

\* That slot is counted.
LEMMA CountClearedStep ==
    ASSUME SlotInv, NEW f \in Faulters, CountCleared(f)
    PROVE  SlotInv'
  <1> USE SizeAssumption DEF SlotInv, CountCleared, scan
  <1>1. TypeOK'
    BY DEF TypeOK
  <1>2. SlotsOwnedOnce'
    BY DEF SlotsOwnedOnce, TypeOK, Stashed, InFlight
  <1>3. SnapshotStaysClear'
    BY DEF SnapshotStaysClear, TypeOK
  <1>4. ScanInv'
    BY DEF ScanInv, TypeOK
  <1>5. BatchInv'
    BY DEF BatchInv, TypeOK
  <1> QED
    BY <1>1, <1>2, <1>3, <1>4, <1>5

-----------------------------------------------------------------------------
(* The theorems.                                                           *)

\* Before the first batch only slot 0 is set.
LEMMA SlotInvInitially == Init => SlotInv
  <1> SUFFICES ASSUME Init PROVE SlotInv
    OBVIOUS
  <1>1. TypeOK
    BY SizeAssumption, RowCount DEF Init, TypeOK, AllSlots
  <1>2. Stashed = {} /\ InFlight = {}
    BY DEF Init, Stashed, InFlight
  <1>3. SlotsOwnedOnce /\ SnapshotStaysClear
    BY <1>2 DEF Init, SlotsOwnedOnce, SnapshotStaysClear
  <1>4. ScanInv /\ BatchInv
    BY SizeAssumption DEF Init, ScanInv, BatchInv
  <1> QED
    BY <1>1, <1>3, <1>4 DEF SlotInv

\* Every step preserves the invariant.
LEMMA SlotInvPreserved == SlotInv /\ [Next]_vars => SlotInv'
  <1> SUFFICES ASSUME SlotInv, [Next]_vars PROVE SlotInv'
    OBVIOUS
  <1>1. CASE \E n \in 0..MaxWriteBatch : WriteBegin(n)
    BY <1>1, BeginStep
  <1>2. CASE WriterStep
    BY <1>2, ScanRowStep, ReadRowStep, TakeRowStep, UncountRowStep, SetSlotStep,
       UncountSlotStep, RowDoneStep, ScanDoneStep, GatherStep, PopSlotStep, CommitStep,
       AbandonStep, CountAbandonedStep DEF WriterStep
  <1>3. CASE \E f \in Faulters : ClearSlot(f) \/ CountCleared(f)
    BY <1>3, ClearSlotStep, CountClearedStep
  <1>4. CASE UNCHANGED vars
    <2> USE <1>4 DEF vars, scan
    <2>1. TypeOK'
      BY DEF SlotInv, TypeOK
    <2>2. SlotsOwnedOnce' /\ SnapshotStaysClear'
      BY DEF SlotInv, SlotsOwnedOnce, SnapshotStaysClear, Stashed, InFlight
    <2>3. ScanInv' /\ BatchInv'
      BY DEF SlotInv, ScanInv, BatchInv
    <2> QED
      BY <2>1, <2>2, <2>3 DEF SlotInv
  <1> QED
    BY <1>1, <1>2, <1>3, <1>4 DEF Next

\* The invariant of the writer's scan and the owners of slots holds throughout.
THEOREM SlotInvariance == Spec => []SlotInv
  BY SlotInvInitially, SlotInvPreserved, PTL DEF Spec

\* The program's numbers stay in their ranges.
THEOREM SlotsKeepTheirTypes == Spec => []TypeOK
  <1>1. SlotInv => TypeOK
    BY DEF SlotInv
  <1> QED
    BY <1>1, SlotInvariance, PTL

\* Every slot has one owner and its bit says so, however the writer's scan and the
\* fault handlers' releases interleave: a slot is stashed, in the writer's hands or
\* with one page, so that both assertions on the original bits hold (disk.c:152 and 169).
THEOREM SlotOwnership == Spec => []SlotsOwnedOnce
  <1>1. SlotInv => SlotsOwnedOnce
    BY DEF SlotInv
  <1> QED
    BY <1>1, SlotInvariance, PTL

\* What the scan read as clear is clear until the scan has set it, although the fault
\* handlers change the same words meanwhile (disk.c:41).
THEOREM SnapshotsStayClear == Spec => []SnapshotStaysClear
  <1>1. SlotInv => SnapshotStaysClear
    BY DEF SlotInv
  <1> QED
    BY <1>1, SlotInvariance, PTL

\* The writer's stack never outgrows its array, although the scan pushes whole rows.
THEOREM StackIsSafe == Spec => []StackInBounds
  <1>1. SlotInv => StackInBounds
    BY SizeAssumption DEF SlotInv, ScanInv, TypeOK, StackInBounds, StackCapacity
  <1> QED
    BY <1>1, SlotInvariance, PTL

\* A batch always finds a slot for each of its pages.
THEOREM BatchesFindSlots == Spec => []PopFindsSlot
  <1>1. SlotInv => PopFindsSlot
    BY DEF SlotInv, BatchInv, PopFindsSlot
  <1> QED
    BY <1>1, SlotInvariance, PTL

-----------------------------------------------------------------------------
(* The count.                                                              *)

Clear == AllSlots \ bitmap

Owed == (IF wpc = "uncountRow" THEN BitsPerRow ELSE 0)
        + (IF wpc = "uncount" THEN 1 ELSE 0) - (IF wpc = "count" THEN 1 ELSE 0)

CountInv == /\ empty_disk_slots = Cardinality(Clear) + Owed - Cardinality(counting)
            /\ IsFiniteSet(counting)

\* The counts are those of finite sets.
LEMMA CountsAreNumbers ==
    ASSUME IsFiniteSet(counting)
    PROVE  /\ IsFiniteSet(Clear) /\ Cardinality(Clear) \in Nat
           /\ Cardinality(counting) \in Nat
           /\ Owed \in Int
  <1>1. IsFiniteSet(AllSlots)
    BY SizeAssumption, FS_Interval DEF AllSlots
  <1>2. IsFiniteSet(Clear)
    BY <1>1, FS_Subset DEF Clear
  <1>3. Owed \in Int
    BY SizeAssumption DEF Owed
  <1> QED
    BY <1>2, <1>3, FS_CardinalityType

\* A slot leaves the clear ones, or joins them.
LEMMA ClearChanges ==
    ASSUME IsFiniteSet(counting), NEW s \in AllSlots
    PROVE  /\ bitmap' = bitmap \cup {s} /\ s \notin bitmap
                 => Cardinality(Clear') = Cardinality(Clear) - 1
           /\ bitmap' = bitmap \ {s} /\ s \in bitmap
                 => Cardinality(Clear') = Cardinality(Clear) + 1
  <1>1. IsFiniteSet(Clear)
    BY CountsAreNumbers
  <1>2. bitmap' = bitmap \cup {s} => Clear' = Clear \ {s}
    BY DEF Clear
  <1>3. bitmap' = bitmap \ {s} => Clear' = Clear \cup {s}
    BY DEF Clear
  <1>4. s \in Clear <=> s \notin bitmap
    BY DEF Clear
  <1> QED
    BY <1>1, <1>2, <1>3, <1>4, FS_RemoveElement, FS_AddElement

\* Each change of a bit is followed by its count.
LEMMA CountInvPreserved ==
    ASSUME SlotInv, CountInv, [Next]_vars
    PROVE  CountInv'
  <1>0. /\ IsFiniteSet(counting)
        /\ empty_disk_slots = Cardinality(Clear) + Owed - Cardinality(counting)
        /\ Cardinality(Clear) \in Nat /\ Cardinality(counting) \in Nat
    BY CountsAreNumbers DEF CountInv
  <1>1. CASE (\E n \in 0..MaxWriteBatch : WriteBegin(n) \/ Gather(n)) \/ ScanRow
             \/ ReadRow \/ RowDone \/ ScanDone \/ PopSlot \/ WriteCommit \/ UNCHANGED vars
    <2>1. UNCHANGED <<bitmap, empty_disk_slots, counting, Owed>>
      BY <1>1 DEF WriteBegin, Gather, ScanRow, ReadRow, RowDone, ScanDone, PopSlot,
                  WriteCommit, PageDone, vars, Owed
    <2> QED
      BY <2>1, <1>0 DEF CountInv, Clear
  <1>2. CASE TakeRow
    <2>1. UNCHANGED <<empty_disk_slots, counting>> /\ Owed = 0
      BY <1>2 DEF TakeRow, Owed
    <2>2. CASE RowSlots(row) \cap bitmap = {}
      <3>1. bitmap' = bitmap \cup RowSlots(row) /\ Owed' = BitsPerRow
        BY <1>2, <2>2, SizeAssumption DEF TakeRow, Owed
      <3>2. /\ IsFiniteSet(Clear) /\ RowSlots(row) \in SUBSET AllSlots
            /\ Cardinality(RowSlots(row)) = BitsPerRow
        BY <1>0, CountsAreNumbers, RowsOfSlots, RowSize DEF SlotInv, TypeOK
      <3>3. Clear' = Clear \ RowSlots(row) /\ Clear \cap RowSlots(row) = RowSlots(row)
        BY <2>2, <3>1, <3>2 DEF Clear
      <3>4. Cardinality(Clear') = Cardinality(Clear) - BitsPerRow
        BY <3>2, <3>3, FS_Difference
      <3> QED
        BY <1>0, <2>1, <3>1, <3>4, SizeAssumption DEF CountInv
    <2>3. CASE RowSlots(row) \cap bitmap # {}
      <3>1. UNCHANGED bitmap /\ Owed' = 0
        BY <1>2, <2>3 DEF TakeRow, Owed
      <3> QED
        BY <1>0, <2>1, <3>1 DEF CountInv, Clear
    <2> QED
      BY <2>2, <2>3
  <1>3. CASE UncountRow
    <2>1. /\ UNCHANGED <<bitmap, counting>> /\ empty_disk_slots' = empty_disk_slots - BitsPerRow
          /\ Owed = BitsPerRow /\ Owed' = 0
      BY <1>3, SizeAssumption DEF UncountRow, Owed
    <2> QED
      BY <1>0, <2>1, SizeAssumption DEF CountInv, Clear
  <1>4. CASE SetSlot
    <2>1. PICK s \in snapshot : bitmap' = bitmap \cup {s}
      BY <1>4 DEF SetSlot
    <2>2. s \in AllSlots /\ s \notin bitmap
      BY DEF SlotInv, TypeOK, SnapshotStaysClear
    <2>3. Cardinality(Clear') = Cardinality(Clear) - 1
      BY <1>0, <2>1, <2>2, ClearChanges
    <2>4. UNCHANGED <<empty_disk_slots, counting>> /\ Owed = 0 /\ Owed' = 1
      BY <1>4 DEF SetSlot, Owed
    <2> QED
      BY <1>0, <2>3, <2>4 DEF CountInv
  <1>5. CASE UncountSlot
    <2>1. /\ UNCHANGED <<bitmap, counting>> /\ empty_disk_slots' = empty_disk_slots - 1
          /\ Owed = 1 /\ Owed' = 0
      BY <1>5 DEF UncountSlot, Owed
    <2> QED
      BY <1>0, <2>1 DEF CountInv, Clear
  <1>6. CASE WriteAbandon
    <2>1. slot \in AllSlots /\ slot \in bitmap /\ bitmap' = bitmap \ {slot}
      BY <1>6 DEF WriteAbandon, SlotInv, SlotsOwnedOnce, InFlight, BatchInv
    <2>2. Cardinality(Clear') = Cardinality(Clear) + 1
      BY <1>0, <2>1, ClearChanges
    <2>3. UNCHANGED <<empty_disk_slots, counting>> /\ Owed = 0 /\ Owed' = 0 - 1
      BY <1>6 DEF WriteAbandon, Owed
    <2> QED
      BY <1>0, <2>2, <2>3 DEF CountInv
  <1>7. CASE CountAbandoned
    <2>1. /\ UNCHANGED <<bitmap, counting>> /\ empty_disk_slots' = empty_disk_slots + 1
          /\ Owed = 0 - 1 /\ Owed' = 0
      BY <1>7 DEF CountAbandoned, PageDone, Owed
    <2> QED
      BY <1>0, <2>1 DEF CountInv, Clear
  <1>8. ASSUME NEW f \in Faulters, ClearSlot(f)
        PROVE  CountInv'
    <2>1. PICK s \in held : bitmap' = bitmap \ {s}
      BY <1>8 DEF ClearSlot
    <2>2. s \in AllSlots /\ s \in bitmap
      BY DEF SlotInv, SlotsOwnedOnce, TypeOK
    <2>3. Cardinality(Clear') = Cardinality(Clear) + 1
      BY <1>0, <2>1, <2>2, ClearChanges
    <2>4. counting' = counting \cup {f} /\ f \notin counting
      BY <1>8 DEF ClearSlot
    <2>5. IsFiniteSet(counting') /\ Cardinality(counting') = Cardinality(counting) + 1
      BY <1>0, <2>4, FS_AddElement
    <2>6. UNCHANGED <<empty_disk_slots, Owed>>
      BY <1>8 DEF ClearSlot, Owed
    <2>7. Owed \in Int
      BY <1>0, CountsAreNumbers
    <2> QED
      BY <1>0, <2>3, <2>5, <2>6, <2>7 DEF CountInv
  <1>9. ASSUME NEW f \in Faulters, CountCleared(f)
        PROVE  CountInv'
    <2>1. counting' = counting \ {f} /\ f \in counting
      BY <1>9 DEF CountCleared
    <2>2. IsFiniteSet(counting') /\ Cardinality(counting') = Cardinality(counting) - 1
      BY <1>0, <2>1, FS_RemoveElement
    <2>3. UNCHANGED <<bitmap, Owed>> /\ empty_disk_slots' = empty_disk_slots + 1
      BY <1>9 DEF CountCleared, Owed
    <2>4. Owed \in Int
      BY <1>0, CountsAreNumbers
    <2> QED
      BY <1>0, <2>2, <2>3, <2>4 DEF CountInv, Clear
  <1> QED
    BY <1>1, <1>2, <1>3, <1>4, <1>5, <1>6, <1>7, <1>8, <1>9 DEF Next, WriterStep

\* The count that the writer reads without a lock is off by the updates that are
\* on their way, and by nothing else: lags never add up.
THEOREM CountIsExact == Spec => []CounterAccounts
  <1>1. Init => CountInv
    <2> SUFFICES ASSUME Init PROVE CountInv
      OBVIOUS
    <2>1. IsFiniteSet(AllSlots) /\ Cardinality(AllSlots) = PagesInPageFile
      <3>1. 0 \in Int /\ PagesInPageFile - 1 \in Int /\ 0 <= PagesInPageFile - 1
        BY SizeAssumption
      <3> QED
        BY <3>1, SizeAssumption, FS_Interval DEF AllSlots
    <2>2. Clear = AllSlots \ {0} /\ 0 \in AllSlots
      BY SizeAssumption DEF Init, Clear, AllSlots
    <2>3. Cardinality(Clear) = PagesInPageFile - 1
      BY <2>1, <2>2, FS_RemoveElement
    <2>4. counting = {} /\ Owed = 0 /\ empty_disk_slots = PagesInPageFile - 1
      BY DEF Init, Owed
    <2> QED
      BY <2>3, <2>4, FS_EmptySet, SizeAssumption DEF CountInv
  <1>2. SlotInv /\ CountInv /\ [Next]_vars => CountInv'
    BY CountInvPreserved
  <1>3. CountInv => CounterAccounts
    <2> SUFFICES ASSUME CountInv PROVE CounterAccounts
      OBVIOUS
    <2>1. Cardinality(Clear) \in Nat
      BY CountsAreNumbers DEF CountInv
    <2> QED
      BY <2>1, CountsAreNumbers, SizeAssumption DEF CountInv, CounterAccounts, Clear, Owed
  <1> QED
    BY <1>1, <1>2, <1>3, SlotInvariance, PTL DEF Spec

-----------------------------------------------------------------------------
(* The refinement.                                                         *)

\* A step that touches neither the bits, the stack nor the owners.
LEMMA SlotsUntouched ==
    ASSUME UNCHANGED <<bitmap, slot_stack, held>>, wpc # "write", wpc' # "write"
    PROVE  UNCHANGED Pool!pool
  BY DEF Pool!pool, Stashed, InFlight

\* The writer takes the clear slots S and pushes them.
LEMMA Reserves ==
    ASSUME SlotInv, SlotInv', NEW S, S # {}, S \cap bitmap = {},
           bitmap' = bitmap \cup S, held' = held, wpc # "write", wpc' # "write"
    PROVE  Pool!Reserve
  <1>1. InFlight = {} /\ InFlight' = {}
    BY DEF InFlight
  <1>2. S \in SUBSET (AllSlots \ bitmap)
    BY DEF SlotInv, TypeOK
  <1>3. Stashed' = Stashed \cup S
    <2>1. /\ bitmap = {0} \cup Stashed \cup held
          /\ bitmap \cup S = {0} \cup Stashed' \cup held
          /\ Stashed' \cap held = {} /\ 0 \notin Stashed'
          /\ Stashed \cap held = {} /\ 0 \notin Stashed
      BY <1>1 DEF SlotInv, SlotsOwnedOnce
    <2> QED
      BY <2>1
  <1>4. AllSlots \ bitmap' = (AllSlots \ bitmap) \ S
    OBVIOUS
  <1> QED
    BY <1>1, <1>2, <1>3, <1>4 DEF Pool!Reserve

\* A slot s in use is cleared.
LEMMA Releases ==
    ASSUME SlotInv, NEW s, s \in held \cup InFlight, bitmap' = bitmap \ {s},
           slot_stack' = slot_stack,
           held' \cup InFlight' = (held \cup InFlight) \ {s}
    PROVE  Pool!Release
  <1>1. Stashed' = Stashed
    BY DEF Stashed
  <1>2. s \in AllSlots
    BY DEF SlotInv, SlotsOwnedOnce, TypeOK
  <1>3. AllSlots \ bitmap' = (AllSlots \ bitmap) \cup {s}
    BY <1>2
  <1> QED
    BY <1>1, <1>3 DEF Pool!Release

\* The page file implements the pool of slots.
THEOREM SlotsAreAPool == Spec => ImplementsSlotPool
  <1>1. Init => Pool!PoolInit
    BY DEF Init, Pool!PoolInit, Stashed, InFlight
  <1>2. SlotInv /\ SlotInv' /\ [Next]_vars => [Pool!PoolNext]_(Pool!pool)
    <2> SUFFICES ASSUME SlotInv, SlotInv', [Next]_vars
                 PROVE  Pool!PoolNext \/ UNCHANGED Pool!pool
      OBVIOUS
    <2>1. CASE (\E n \in 0..MaxWriteBatch : WriteBegin(n) \/ Gather(n)) \/ ScanRow
               \/ ReadRow \/ UncountRow \/ UncountSlot \/ RowDone \/ ScanDone
               \/ CountAbandoned
      <3>1. UNCHANGED <<bitmap, slot_stack, held>> /\ wpc # "write" /\ wpc' # "write"
        BY <2>1 DEF WriteBegin, Gather, ScanRow, ReadRow, UncountRow, UncountSlot, RowDone,
                    ScanDone, CountAbandoned, PageDone
      <3> QED
        BY <3>1, SlotsUntouched
    <2>2. CASE TakeRow
      <3>1. CASE RowSlots(row) \cap bitmap = {}
        <4>1. /\ bitmap' = bitmap \cup RowSlots(row) /\ held' = held
              /\ wpc = "row" /\ wpc' = "uncountRow"
          BY <2>2, <3>1 DEF TakeRow
        <4>2. RowSlots(row) # {}
          BY RowsOfSlots DEF SlotInv, TypeOK
        <4> QED
          BY <3>1, <4>1, <4>2, Reserves DEF Pool!PoolNext
      <3>2. CASE RowSlots(row) \cap bitmap # {}
        <4>1. UNCHANGED <<bitmap, slot_stack, held>> /\ wpc = "row" /\ wpc' = "bits"
          BY <2>2, <3>2 DEF TakeRow
        <4> QED
          BY <4>1, SlotsUntouched
      <3> QED
        BY <3>1, <3>2
    <2>3. CASE SetSlot
      <3>1. PICK s \in snapshot : bitmap' = bitmap \cup {s}
        BY <2>3 DEF SetSlot
      <3>2. {s} \cap bitmap = {} /\ {s} # {}
        BY DEF SlotInv, SnapshotStaysClear
      <3>3. held' = held /\ wpc = "bits" /\ wpc' = "uncount"
        BY <2>3 DEF SetSlot
      <3> QED
        BY <3>1, <3>2, <3>3, Reserves DEF Pool!PoolNext
    <2>4. CASE PopSlot
      <3> DEFINE s == slot_stack[Len(slot_stack)]
      <3>1. /\ slot' = s /\ wpc = "pop" /\ wpc' = "write"
            /\ UNCHANGED <<bitmap, held>>
        BY <2>4 DEF PopSlot
      <3>2. InFlight = {} /\ InFlight' = {s}
        BY <3>1 DEF InFlight
      <3>3. s \in Stashed
        BY <3>1, SMTT(40) DEF SlotInv, BatchInv, TypeOK, Stashed
      <3> HIDE DEF s
      <3>4. /\ bitmap = {0} \cup Stashed \cup held
            /\ bitmap = {0} \cup Stashed' \cup {s} \cup held
            /\ 0 \notin Stashed /\ 0 \notin Stashed' /\ Stashed \cap held = {}
            /\ Stashed' \cap held = {} /\ s \notin Stashed'
        BY <3>1, <3>2 DEF SlotInv, SlotsOwnedOnce
      <3>5. Stashed' = Stashed \ {s}
        BY <3>3, <3>4
      <3>6. held' \cup InFlight' = (held \cup InFlight) \cup {s}
        BY <3>1, <3>2
      <3> QED
        BY <3>1, <3>3, <3>5, <3>6 DEF Pool!PoolNext, Pool!Assign
    <2>5. CASE WriteCommit
      <3>1. UNCHANGED <<bitmap, slot_stack, held \cup InFlight>>
        BY <2>5 DEF WriteCommit, PageDone, InFlight
      <3> QED
        BY <3>1 DEF Pool!pool, Stashed
    <2>6. CASE WriteAbandon
      <3>1. /\ bitmap' = bitmap \ {slot} /\ slot_stack' = slot_stack
            /\ InFlight = {slot} /\ InFlight' = {} /\ held' = held
        BY <2>6 DEF WriteAbandon, InFlight
      <3>2. slot \notin held
        BY <3>1 DEF SlotInv, SlotsOwnedOnce
      <3> QED
        BY <3>1, <3>2, Releases DEF Pool!PoolNext
    <2>7. CASE \E f \in Faulters : ClearSlot(f)
      <3>1. PICK s \in held : bitmap' = bitmap \ {s} /\ held' = held \ {s}
        BY <2>7 DEF ClearSlot
      <3>2. slot_stack' = slot_stack /\ InFlight' = InFlight
        BY <2>7 DEF ClearSlot, scan, InFlight
      <3>3. s \notin InFlight
        BY DEF SlotInv, SlotsOwnedOnce
      <3> QED
        BY <3>1, <3>2, <3>3, Releases DEF Pool!PoolNext
    <2>8. CASE (\E f \in Faulters : CountCleared(f)) \/ UNCHANGED vars
      <3>1. UNCHANGED <<bitmap, slot_stack, held, InFlight>>
        BY <2>8 DEF CountCleared, vars, scan, InFlight
      <3> QED
        BY <3>1 DEF Pool!pool, Stashed
    <2> QED
      BY <2>1, <2>2, <2>3, <2>4, <2>5, <2>6, <2>7, <2>8 DEF Next, WriterStep
  <1> QED
    BY <1>1, <1>2, SlotInvariance, PTL DEF Spec, ImplementsSlotPool, Pool!PoolSpec
=============================================================================
