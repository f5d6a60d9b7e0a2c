----------------------------- MODULE DataProofs -----------------------------
(***************************************************************************)
(* The data of MemoryManager.  First the second layer of its invariant:    *)
(* who owns each slot of the page file, where each page on its way out is, *)
(* and that its slot holds its data; IndInv is at hand before and after    *)
(* every step.  Then the two abstract specifications that MemoryManager    *)
(* implements: its threads use the page file as a pool of slots, and user  *)
(* threads see one flat memory.  Each step maps to a step of the           *)
(* abstraction or changes nothing that it speaks of.                       *)
(***************************************************************************)
EXTENDS MemoryManagerProofs

-----------------------------------------------------------------------------
(* What IndInv says of a thread at a program point.                        *)

\* A soft faulter with both locks.
LEMMA SoftLockedHolds ==
    ASSUME IndInv, NEW u \in Users, pc[u] \in SoftLocked
    PROVE  /\ va[u] \in Ptes /\ page[u] \in Frames
           /\ pteLock[va[u]] = u /\ pfnLock[page[u]] = u
           /\ pte[va[u]] = TransitionPte(page[u])
           /\ pfn[page[u]].status \in {"MODIFIED", "MID_WRITE", "STANDBY"}
<1>1. FaultsOnPte(u) /\ SoftFaultHolds(u)
  BY DEF IndInv, UsersHold, UserHolds
<1>. QED BY <1>1 DEF FaultsOnPte, SoftFaultHolds, InHandler, SoftLocked

\* A hard faulter that has mapped its page.
LEMMA FillingHolds ==
    ASSUME IndInv, NEW u \in Users, pc[u] \in Filling
    PROVE  /\ va[u] \in Ptes /\ page[u] \in Frames
           /\ pteLock[va[u]] = u /\ pfnLock[page[u]] = u
           /\ pte[va[u]].fmt \in {"zero", "disk"}
           /\ mapped[va[u]] = page[u]
           /\ pfn[page[u]].status = "FREE"
<1>1. FaultsOnPte(u) /\ HardFaultHolds(u)
  BY DEF IndInv, UsersHold, UserHolds
<1>. QED BY <1>1 DEF FaultsOnPte, HardFaultHolds, InHandler, HardHeld, Filling

\* A thread that has taken standby pages.
LEMMA StealingHolds ==
    ASSUME IndInv, NEW u \in Users, NEW f \in batch[u]
    PROVE  /\ f \in Frames /\ pfnLock[f] = u /\ pc[u] = "stealing"
           /\ pfn[f].status = "STANDBY" /\ f \notin standby
           /\ pfn[f].slot \in Slots /\ pfn[f].pte \in Ptes
           /\ pte[pfn[f].pte] = TransitionPte(f)
<1>1. TypeOK /\ PtesNameTheirFrames /\ PfnsNameTheirPtes /\ StealHolds(u)
  BY DEF IndInv, UsersHold, UserHolds
<1>2. f \in Frames /\ pfnLock[f] = u /\ pc[u] = "stealing" /\ pfn[f].status = "STANDBY"
      /\ f \notin standby
  BY <1>1 DEF TypeOK, StealHolds
<1>3. /\ pfn[f].slot \in Slots /\ pfn[f].pte \in Ptes
      /\ pte[pfn[f].pte].fmt \in {"valid", "transition"} /\ pte[pfn[f].pte].ref = f
  BY <1>1, <1>2 DEF PfnsNameTheirPtes
<1>4. pte[pfn[f].pte].fmt = "transition"
  BY <1>1, <1>2, <1>3 DEF PtesNameTheirFrames
<1>. QED BY <1>1, <1>2, <1>3, <1>4 DEF TypeOK, PteState, TransitionPte

\* A page that nobody has locked, or that its holder has not locked for a soft
\* fault, still needs its slot; so does a PTE that is not being filled.
LEMMA NotDropped ==
    ASSUME IndInv
    PROVE  /\ \A f \in Frames : SlotDropped(f) =>
                  \E u \in Users : pc[u] \in SoftLocked /\ page[u] = f /\ pfnLock[f] = u
           /\ \A p \in Ptes : SlotRead(p) =>
                  \E u \in Users : pc[u] = "hardDone" /\ va[u] = p /\ pteLock[p] = u
  BY SoftLockedHolds, FillingHolds DEF SlotDropped, SlotRead, Filling

-----------------------------------------------------------------------------
(* How the owners of slots change.                                         *)

\* No page or PTE gains or loses a slot.
OwnersKept == /\ \A f \in Frames, s \in Slots : PfnOwns(f, s)' <=> PfnOwns(f, s)
              /\ \A p \in Ptes, s \in Slots : PteOwns(p, s)' <=> PteOwns(p, s)

SlotsKept == UNCHANGED <<inUse, stash, curSlot>> /\ OwnersKept

\* Steps that change no standby page, no PTE on disk, and not who is in a locked
\* part of a fault.
LEMMA PointsKeepOwners ==
    ASSUME \A f \in Frames : \/ pfn'[f] = pfn[f]
                             \/ pfn[f].status # "STANDBY" /\ pfn'[f].status # "STANDBY",
           \A p \in Ptes : \/ pte'[p] = pte[p]
                           \/ pte[p].fmt # "disk" /\ pte'[p].fmt # "disk",
           \A w \in Users : pc'[w] \in SoftLocked <=> pc[w] \in SoftLocked,
           \A w \in Users : pc[w] \in SoftLocked => page'[w] = page[w],
           \A w \in Users : pc'[w] = "hardDone" <=> pc[w] = "hardDone",
           \A w \in Users : pc[w] = "hardDone" => va'[w] = va[w]
    PROVE  OwnersKept
<1>1. \A f \in Frames : SlotDropped(f)' <=> SlotDropped(f)
  BY DEF SlotDropped
<1>2. \A p \in Ptes : SlotRead(p)' <=> SlotRead(p)
  BY DEF SlotRead
<1>. QED BY <1>1, <1>2 DEF OwnersKept, PfnOwns, PteOwns

\* Most steps of a fault leave the slots alone.
LEMMA UserKeepsSlots ==
    ASSUME IndInv, NEW u \in Users,
           \/ Request(u) \/ Store(u) \/ Fault(u) \/ Dispatch(u)
           \/ SoftLockPte(u) \/ SoftUnlist(u) \/ SoftMap(u)
           \/ TakeCached(u) \/ RefillCache(u) \/ RefillFails(u)
           \/ StealBegin(u) \/ StealFails(u) \/ HardLockPte(u) \/ HardGiveBack(u)
    PROVE  SlotsKept
<1>1. TypeOK
  BY DEF IndInv
<1>2. CASE Request(u) \/ Store(u) \/ Fault(u) \/ Dispatch(u)
  BY <1>1, <1>2, PointsKeepOwners
  DEF Request, Store, Fault, Dispatch, TypeOK, SoftLocked, tables, disk, writer, SlotsKept
<1>3. CASE SoftLockPte(u) \/ SoftUnlist(u) \/ SoftMap(u)
  BY <1>1, <1>3, PointsKeepOwners
  DEF SoftLockPte, SoftUnlist, SoftMap, TypeOK, SoftLocked, tables, disk, writer, SlotsKept
<1>4. CASE TakeCached(u) \/ RefillCache(u) \/ RefillFails(u)
  BY <1>1, <1>4, PointsKeepOwners
  DEF TakeCached, RefillCache, RefillFails, TypeOK, SoftLocked, tables, disk, user, writer, SlotsKept
<1>5. CASE StealBegin(u) \/ StealFails(u)
  BY <1>1, <1>5, PointsKeepOwners
  DEF StealBegin, StealFails, TypeOK, SoftLocked, tables, disk, writer, SlotsKept
<1>6. CASE HardLockPte(u)
  BY <1>1, <1>6, PointsKeepOwners
  DEF HardLockPte, TypeOK, SoftLocked, disk, writer, SlotsKept
<1>7. CASE HardGiveBack(u)
  <2>1. page[u] \in Frames /\ pfn[page[u]].status = "FREE"
    BY <1>7 DEF HardGiveBack, IndInv, UsersHold, UserHolds, HardFaultHolds, HardHeld
  <2>2. \A f \in Frames : \/ pfn'[f] = pfn[f]
                          \/ pfn[f].status # "STANDBY" /\ pfn'[f].status # "STANDBY"
    BY <1>1, <1>7, <2>1 DEF HardGiveBack, TypeOK, PfnFree
  <2>3. OwnersKept
    BY <1>1, <1>7, <2>2, PointsKeepOwners DEF HardGiveBack, TypeOK, SoftLocked
  <2>. QED BY <1>7, <2>3 DEF HardGiveBack, disk, writer, SlotsKept
<1>. QED BY <1>2, <1>3, <1>4, <1>5, <1>6, <1>7

\* The end of a fault drops references that no longer count.
LEMMA FaultEndKeepsSlots ==
    ASSUME IndInv, NEW u \in Users, SoftDone(u) \/ HardDone(u)
    PROVE  SlotsKept
<1>1. TypeOK
  BY DEF IndInv
<1>2. CASE SoftDone(u)
  <2>0. pc[u] \in SoftLocked
    BY <1>2 DEF SoftDone, SoftLocked
  <2>1. /\ va[u] \in Ptes /\ page[u] \in Frames /\ pfnLock[page[u]] = u
        /\ pte[va[u]] = TransitionPte(page[u])
    BY <2>0, SoftLockedHolds
  <2>2. /\ pfn'[page[u]].status = "ACTIVE" /\ pte'[va[u]].fmt = "valid"
        /\ \A f \in Frames : f # page[u] => pfn'[f] = pfn[f]
        /\ \A p \in Ptes : p # va[u] => pte'[p] = pte[p]
    BY <1>1, <1>2, <2>1 DEF SoftDone, TypeOK, PfnActive, ValidPte
  <2>3. \A f \in Frames : f # page[u] => (SlotDropped(f)' <=> SlotDropped(f))
    BY <1>1, <1>2 DEF SoftDone, SlotDropped, SoftLocked, TypeOK
  <2>4. \A p \in Ptes : SlotRead(p)' <=> SlotRead(p)
    BY <1>1, <1>2 DEF SoftDone, SlotRead, TypeOK
  <2>5. SlotDropped(page[u]) /\ pte[va[u]].fmt = "transition"
    BY <2>0, <2>1 DEF SlotDropped, TransitionPte
  <2>6. OwnersKept
    BY <2>1, <2>2, <2>3, <2>4, <2>5 DEF OwnersKept, PfnOwns, PteOwns
  <2>. QED BY <1>2, <2>6 DEF SoftDone, disk, writer, SlotsKept
<1>3. CASE HardDone(u)
  <2>1. /\ va[u] \in Ptes /\ page[u] \in Frames /\ pfnLock[page[u]] = u
        /\ pfn[page[u]].status = "FREE" /\ SlotRead(va[u])
    BY <1>3, FillingHolds DEF HardDone, Filling, SlotRead
  <2>2. /\ pfn'[page[u]].status = "ACTIVE" /\ pte'[va[u]].fmt = "valid"
        /\ \A f \in Frames : f # page[u] => pfn'[f] = pfn[f]
        /\ \A p \in Ptes : p # va[u] => pte'[p] = pte[p]
    BY <1>1, <1>3, <2>1 DEF HardDone, TypeOK, PfnActive, ValidPte
  <2>3. \A f \in Frames : SlotDropped(f)' <=> SlotDropped(f)
    BY <1>1, <1>3 DEF HardDone, SlotDropped, SoftLocked, TypeOK
  <2>4. \A p \in Ptes : p # va[u] => (SlotRead(p)' <=> SlotRead(p))
    BY <1>1, <1>3 DEF HardDone, SlotRead, TypeOK
  <2>5. OwnersKept
    BY <2>1, <2>2, <2>3, <2>4 DEF OwnersKept, PfnOwns, PteOwns
  <2>. QED BY <1>3, <2>5 DEF HardDone, disk, writer, SlotsKept
<1>. QED BY <1>2, <1>3

\* The trimmer deals with active pages only.
LEMMA TrimmerKeepsSlots ==
    ASSUME IndInv, TrimmerStep
    PROVE  SlotsKept
<1>1. TypeOK /\ TrimmerHolds
  BY DEF IndInv
<1>2. CASE TrimPick \/ TrimLockPte \/ TrimUnmap \/ TrimUnlock
  BY <1>2, PointsKeepOwners
  DEF TrimPick, TrimLockPte, TrimUnmap, TrimUnlock, tables, disk, user, writer, SlotsKept
<1>3. CASE TrimLockPfn
  <2>1. trimPte \in Ptes /\ pte[trimPte].fmt = "valid"
    BY <1>1, <1>3 DEF TrimLockPfn, TrimmerHolds
  <2>2. \A p \in Ptes : \/ pte'[p] = pte[p]
                        \/ pte[p].fmt # "disk" /\ pte'[p].fmt # "disk"
    BY <1>1, <1>3, <2>1 DEF TrimLockPfn, TypeOK, TransitionPte
  <2>. QED BY <1>3, <2>2, PointsKeepOwners DEF TrimLockPfn, disk, user, writer, SlotsKept
<1>4. CASE TrimInsert
  <2>1. \A f \in Frames : \/ pfn'[f] = pfn[f]
                          \/ pfn[f].status # "STANDBY" /\ pfn'[f].status # "STANDBY"
    BY <1>1, <1>4, TrimInsertEffect, TrimBatchHeld DEF TrimInsert
  <2>. QED BY <1>4, <2>1, PointsKeepOwners DEF TrimInsert, disk, user, writer, SlotsKept
<1>. QED BY <1>2, <1>3, <1>4 DEF TrimmerStep

\* A batch of the modified list holds pages of the modified list.
LEMMA GatheredAreModified ==
    ASSUME TypeOK, NEW q \in ArraysOf(modified, target - Len(writeBatch))
    PROVE  Elems(q) \subseteq Unlocked(modified)
<1>1. PICK k \in 1..(target - Len(writeBatch)) : q \in [1..k -> Unlocked(modified)]
  BY DEF ArraysOf
<1>2. k \in Nat
  BY DEF TypeOK
<1>3. Len(q) = k
  BY <1>1, <1>2
<1>. QED BY <1>1, <1>3 DEF Elems

\* The writer hands on a slot only when it commits a page.
LEMMA WriterKeepsOwners ==
    ASSUME IndInv, WriterStep, ~WriteCommit
    PROVE  OwnersKept
<1>1. TypeOK /\ ListsMatchStatus
  BY DEF IndInv
<1>2. CASE \/ WriteBegin \/ WriteStart \/ WriteCopy \/ WriteAbandon \/ WriteInsert \/ WriteUnlock
  BY <1>2, PointsKeepOwners
  DEF WriteBegin, WriteStart, WriteCopy, WriteAbandon, WriteInsert, WriteUnlock, tables, user
<1>3. CASE WriteGather
  <2>1. PICK q \in ArraysOf(modified, target - Len(writeBatch)) :
          pfn' = [f \in Frames |-> IF f \in Elems(q) THEN PfnMidWrite(f) ELSE pfn[f]]
    BY <1>3 DEF WriteGather
  <2>2. \A f \in Elems(q) : f \in modified
    BY <1>1, <2>1, GatheredAreModified DEF Unlocked
  <2>3. \A f \in Elems(q) : pfn[f].status = "MODIFIED"
    BY <1>1, <2>2 DEF ListsMatchStatus
  <2>4. \A f \in Frames : \/ pfn'[f] = pfn[f]
                          \/ pfn[f].status # "STANDBY" /\ pfn'[f].status # "STANDBY"
    BY <1>1, <2>1, <2>3 DEF PfnMidWrite, TypeOK, PfnState
  <2>. QED BY <1>3, <2>4, PointsKeepOwners DEF WriteGather, user
<1>. QED BY <1>2, <1>3 DEF WriterStep

\* A committed page takes over the writer's slot.
LEMMA CommitOwns ==
    ASSUME IndInv, WriteCommit
    PROVE  /\ cur \in Frames /\ curSlot \in Slots /\ ~SlotDropped(cur)
           /\ \A f \in Frames, s \in Slots :
                  PfnOwns(f, s)' <=> PfnOwns(f, s) \/ (f = cur /\ s = curSlot)
           /\ \A p \in Ptes, s \in Slots : PteOwns(p, s)' <=> PteOwns(p, s)
<1>1. TypeOK /\ WriterHolds
  BY DEF IndInv
<1>2. cur \in Frames /\ curSlot \in Slots /\ pfn[cur].status = "MID_WRITE" /\ pfnLock[cur] = Nil
  BY <1>1 DEF WriteCommit, WriterHolds, StillMidWrite
<1>3. ~SlotDropped(cur)
  BY <1>2, NotDropped, DistinctAssumption
<1>4. /\ pfn'[cur].status = "STANDBY" /\ pfn'[cur].slot = curSlot
      /\ \A f \in Frames : f # cur => pfn'[f] = pfn[f]
  BY <1>1, <1>2 DEF WriteCommit, PfnStandby, TypeOK, PfnState
<1>5. /\ \A f \in Frames : SlotDropped(f)' <=> SlotDropped(f)
      /\ \A p \in Ptes : SlotRead(p)' <=> SlotRead(p)
      /\ pte' = pte
  BY DEF WriteCommit, user, SlotDropped, SlotRead
<1>. QED BY <1>2, <1>3, <1>4, <1>5 DEF PfnOwns, PteOwns

\* A soft faulter takes a page, and the page's slot is not needed any more.
LEMMA SoftLockOwns ==
    ASSUME IndInv, NEW u \in Users, SoftLockPfn(u), pte[va[u]].fmt # "disk"
    PROVE  /\ page[u] \in Frames /\ ~SlotDropped(page[u])
           /\ \A f \in Frames, s \in Slots :
                  PfnOwns(f, s)' <=> PfnOwns(f, s) /\ f # page[u]
           /\ \A p \in Ptes, s \in Slots : PteOwns(p, s)' <=> PteOwns(p, s)
<1>1. TypeOK /\ SoftFaultHolds(u)
  BY DEF IndInv, UsersHold, UserHolds
<1>2. page[u] \in Frames /\ pfnLock[page[u]] = Nil
  BY <1>1 DEF SoftLockPfn, SoftFaultHolds
<1>3. ~SlotDropped(page[u])
  BY <1>2, NotDropped, DistinctAssumption
<1>4. /\ pfn' = pfn /\ pte' = pte /\ va' = va /\ page' = page
      /\ pc[u] = "softLockPfn" /\ pc'[u] \in SoftLocked
      /\ \A w \in Users : w # u => pc'[w] = pc[w]
  BY <1>1 DEF SoftLockPfn, SoftLocked, TypeOK
<1>5. \A f \in Frames : SlotDropped(f)' <=> SlotDropped(f) \/ f = page[u]
  BY <1>4 DEF SlotDropped, SoftLocked
<1>6. \A p \in Ptes : SlotRead(p)' <=> SlotRead(p)
  BY <1>4 DEF SlotRead, SoftLocked
<1>. QED BY <1>2, <1>3, <1>4, <1>5, <1>6 DEF PfnOwns, PteOwns

\* If the page was stolen meanwhile, nothing changes hands.
LEMMA SoftMissKeepsSlots ==
    ASSUME IndInv, NEW u \in Users, SoftLockPfn(u), pte[va[u]].fmt = "disk"
    PROVE  SlotsKept
  BY PointsKeepOwners DEF SoftLockPfn, IndInv, TypeOK, SoftLocked, disk, writer, SlotsKept

\* A stolen page's slot passes to the PTE it leaves.
LEMMA StealOwns ==
    ASSUME IndInv, NEW u \in Users, NEW f \in batch[u], pc[u] = "stealing",
           pte' = [pte EXCEPT ![pfn[f].pte] = DiskPte(pfn[f].slot)],
           pfn' = [pfn EXCEPT ![f] = PfnFree],
           pc' = [pc EXCEPT ![u] = IF batch[u] = {f} THEN "hard" ELSE @],
           UNCHANGED <<va, page>>
    PROVE  /\ PfnOwns(f, pfn[f].slot)
           /\ \A g \in Frames, s \in Slots : PfnOwns(g, s)' <=> PfnOwns(g, s) /\ g # f
           /\ \A p \in Ptes, s \in Slots :
                  PteOwns(p, s)' <=> PteOwns(p, s) \/ (p = pfn[f].pte /\ s = pfn[f].slot)
<1>1. TypeOK
  BY DEF IndInv
<1>2. /\ f \in Frames /\ pfnLock[f] = u /\ pfn[f].status = "STANDBY"
      /\ pfn[f].slot \in Slots /\ pfn[f].pte \in Ptes /\ pte[pfn[f].pte] = TransitionPte(f)
  BY StealingHolds
<1>3. ~SlotDropped(f)
  BY <1>2, NotDropped DEF SoftLocked
<1>4. pte[pfn[f].pte].fmt = "transition"
  BY <1>2 DEF TransitionPte
<1>5. /\ \A g \in Frames : SlotDropped(g)' <=> SlotDropped(g)
      /\ \A p \in Ptes : SlotRead(p)' <=> SlotRead(p)
  BY <1>1 DEF SlotDropped, SlotRead, SoftLocked, TypeOK
<1>6. /\ pfn'[f].status = "FREE" /\ \A g \in Frames : g # f => pfn'[g] = pfn[g]
      /\ pte'[pfn[f].pte] = DiskPte(pfn[f].slot)
      /\ \A p \in Ptes : p # pfn[f].pte => pte'[p] = pte[p]
  BY <1>1, <1>2 DEF TypeOK, PfnFree
<1>7. ~SlotRead(pfn[f].pte)
  BY <1>2, <1>4, FillingHolds DEF SlotRead, Filling
<1>. QED BY <1>2, <1>3, <1>4, <1>5, <1>6, <1>7 DEF PfnOwns, PteOwns, DiskPte

\* A PTE whose page has been read back does not need its slot any more.
LEMMA FillOwns ==
    ASSUME IndInv, NEW u \in Users, HardFill(u)
    PROVE  /\ va[u] \in Ptes /\ ~SlotRead(va[u])
           /\ \A f \in Frames, s \in Slots : PfnOwns(f, s)' <=> PfnOwns(f, s)
           /\ \A p \in Ptes, s \in Slots :
                  PteOwns(p, s)' <=> PteOwns(p, s) /\ p # va[u]
<1>1. TypeOK
  BY DEF IndInv
<1>2. va[u] \in Ptes /\ pteLock[va[u]] = u /\ pc[u] = "hardFill"
  BY FillingHolds DEF HardFill, Filling
<1>3. ~SlotRead(va[u])
  BY <1>2, NotDropped
<1>4. /\ pfn' = pfn /\ pte' = pte /\ va' = va /\ page' = page
      /\ pc'[u] = "hardDone" /\ \A w \in Users : w # u => pc'[w] = pc[w]
  BY <1>1 DEF HardFill, TypeOK, tables
<1>5. \A f \in Frames : SlotDropped(f)' <=> SlotDropped(f)
  BY <1>2, <1>4 DEF SlotDropped, SoftLocked
<1>6. \A p \in Ptes : SlotRead(p)' <=> SlotRead(p) \/ p = va[u]
  BY <1>2, <1>4 DEF SlotRead
<1>. QED BY <1>2, <1>3, <1>4, <1>5, <1>6 DEF PfnOwns, PteOwns

-----------------------------------------------------------------------------
(* Every slot in use has one owner.                                        *)

\* A step that leaves the slots and their owners alone.
LEMMA SlotsStayOwned == ASSUME SlotsAreOwned, SlotsKept PROVE SlotsAreOwned'
  BY DEF SlotsAreOwned, SlotsKept, OwnersKept

\* A step of a user thread.
LEMMA UserSlotsAreOwned ==
    ASSUME IndInv, SlotsAreOwned, NEW u \in Users, UserStep(u)
    PROVE  SlotsAreOwned'
<1>1. CASE SoftLockPfn(u)
  <2>1. CASE pte[va[u]].fmt = "disk"
    BY <1>1, <2>1, SoftMissKeepsSlots, SlotsStayOwned
  <2>2. CASE pte[va[u]].fmt # "disk"
    <3> DEFINE f == page[u]
               s == pfn[f].slot
    <3>1. /\ f \in Frames
          /\ \A g \in Frames, t \in Slots : PfnOwns(g, t)' <=> PfnOwns(g, t) /\ g # f
          /\ \A p \in Ptes, t \in Slots : PteOwns(p, t)' <=> PteOwns(p, t)
      BY <1>1, <2>2, SoftLockOwns
    <3>2. UNCHANGED <<stash, curSlot>>
      BY <1>1 DEF SoftLockPfn, writer
    <3>3. CASE pfn[f].status = "STANDBY"
      <4>1. s \in Slots /\ PfnOwns(f, s) /\ inUse' = inUse \ {s}
        BY <1>1, <2>2, <3>1, <3>3, SoftLockOwns
        DEF SoftLockPfn, IndInv, PfnsNameTheirPtes, PfnOwns
      <4>2. \A t \in Slots : PfnOwns(f, t) => t = s
        BY DEF PfnOwns
      <4> HIDE DEF f, s
      <4>. QED BY <3>1, <3>2, <4>1, <4>2 DEF SlotsAreOwned
    <3>4. CASE pfn[f].status # "STANDBY"
      <4>1. inUse' = inUse /\ \A t \in Slots : ~PfnOwns(f, t)
        BY <1>1, <2>2, <3>4 DEF SoftLockPfn, PfnOwns
      <4> HIDE DEF f, s
      <4>2. SlotsKept
        BY <3>1, <3>2, <4>1 DEF SlotsKept, OwnersKept
      <4>. QED BY <4>2, SlotsStayOwned
    <3>. QED BY <3>3, <3>4
  <2>. QED BY <2>1, <2>2
<1>2. CASE StealPage(u)
  <2>1. PICK f \in batch[u] :
          /\ pte' = [pte EXCEPT ![pfn[f].pte] = DiskPte(pfn[f].slot)]
          /\ pfn' = [pfn EXCEPT ![f] = PfnFree]
          /\ pc' = [pc EXCEPT ![u] = IF batch[u] = {f} THEN "hard" ELSE @]
    BY <1>2 DEF StealPage
  <2>2. pc[u] = "stealing" /\ UNCHANGED <<va, page, inUse, stash, curSlot>>
    BY <1>2 DEF StealPage, disk, writer
  <2> DEFINE s == pfn[f].slot
             p == pfn[f].pte
  <2>3. f \in Frames /\ s \in Slots /\ p \in Ptes
    BY StealingHolds
  <2>4. /\ PfnOwns(f, s)
        /\ \A g \in Frames, t \in Slots : PfnOwns(g, t)' <=> PfnOwns(g, t) /\ g # f
        /\ \A q \in Ptes, t \in Slots : PteOwns(q, t)' <=> PteOwns(q, t) \/ (q = p /\ t = s)
    BY <2>1, <2>2, StealOwns
  <2>5. \A t \in Slots : PfnOwns(f, t) => t = s
    BY DEF PfnOwns
  <2> HIDE DEF s, p
  <2>. QED BY <2>2, <2>3, <2>4, <2>5 DEF SlotsAreOwned
<1>3. CASE HardFill(u)
  <2> DEFINE p == va[u]
             s == pte[p].ref
  <2>1. /\ p \in Ptes
        /\ \A f \in Frames, t \in Slots : PfnOwns(f, t)' <=> PfnOwns(f, t)
        /\ \A q \in Ptes, t \in Slots : PteOwns(q, t)' <=> PteOwns(q, t) /\ q # p
    BY <1>3, FillOwns
  <2>2. UNCHANGED <<stash, curSlot>>
    BY <1>3 DEF HardFill, writer
  <2>3. CASE pte[p].fmt = "disk"
    <3>1. s \in Slots /\ PteOwns(p, s) /\ inUse' = inUse \ {s}
      BY <1>3, <2>1, <2>3, FillOwns DEF HardFill, IndInv, PtesNameTheirFrames, PteOwns
    <3>2. \A t \in Slots : PteOwns(p, t) => t = s
      BY DEF PteOwns
    <3> HIDE DEF p, s
    <3>. QED BY <2>1, <2>2, <3>1, <3>2 DEF SlotsAreOwned
  <2>4. CASE pte[p].fmt # "disk"
    <3>1. inUse' = inUse /\ \A t \in Slots : ~PteOwns(p, t)
      BY <1>3, <2>4 DEF HardFill, PteOwns
    <3> HIDE DEF p, s
    <3>2. SlotsKept
      BY <2>1, <2>2, <3>1 DEF SlotsKept, OwnersKept
    <3>. QED BY <3>2, SlotsStayOwned
  <2>. QED BY <2>3, <2>4
<1>4. CASE SoftDone(u) \/ HardDone(u)
  BY <1>4, FaultEndKeepsSlots, SlotsStayOwned
<1>5. CASE ~(SoftLockPfn(u) \/ StealPage(u) \/ HardFill(u) \/ SoftDone(u) \/ HardDone(u))
  BY <1>5, UserKeepsSlots, SlotsStayOwned DEF UserStep
<1>. QED BY <1>1, <1>2, <1>3, <1>4, <1>5

\* A step of the writer.
LEMMA WriterSlotsAreOwned ==
    ASSUME IndInv, SlotsAreOwned, BatchIsStashed, WriterStep
    PROVE  SlotsAreOwned'
<1>1. TypeOK /\ WriterHolds
  BY DEF IndInv
<1>2. Nil \notin Slots
  BY DistinctAssumption
<1>3. CASE WriteCommit
  <2>1. UNCHANGED <<inUse, stash>> /\ curSlot' = Nil
    BY <1>3 DEF WriteCommit, disk
  <2>. QED BY <1>2, <1>3, <2>1, CommitOwns DEF SlotsAreOwned
<1>4. ASSUME ~WriteCommit PROVE SlotsAreOwned'
  <2>1. OwnersKept
    BY <1>4, WriterKeepsOwners
  <2>2. CASE WriteBegin
    <3>1. PICK grab \in SUBSET (Slots \ inUse) : inUse' = inUse \cup grab /\ stash' = stash \cup grab
      BY <2>2 DEF WriteBegin
    <3>2. curSlot' = curSlot /\ curSlot = Nil
      BY <2>2 DEF WriteBegin, BatchIsStashed
    <3>. QED BY <1>2, <2>1, <3>1, <3>2 DEF SlotsAreOwned, OwnersKept
  <2>3. CASE WriteCopy
    <3>1. PICK s \in stash : stash' = stash \ {s} /\ curSlot' = s
      BY <2>3 DEF WriteCopy
    <3>2. inUse' = inUse /\ curSlot = Nil
      BY <2>3 DEF WriteCopy, BatchIsStashed
    <3>. QED BY <1>1, <1>2, <2>1, <3>1, <3>2 DEF SlotsAreOwned, OwnersKept, TypeOK
  <2>4. CASE WriteAbandon
    <3>1. inUse' = inUse \ {curSlot} /\ stash' = stash /\ curSlot' = Nil
      BY <2>4 DEF WriteAbandon
    <3>. QED BY <1>2, <2>1, <3>1 DEF SlotsAreOwned, OwnersKept
  <2>5. CASE WriteGather \/ WriteStart \/ WriteInsert \/ WriteUnlock
    <3>1. SlotsKept
      BY <2>1, <2>5 DEF WriteGather, WriteStart, WriteInsert, WriteUnlock, disk, SlotsKept
    <3>. QED BY <3>1, SlotsStayOwned
  <2>. QED BY <1>4, <2>2, <2>3, <2>4, <2>5 DEF WriterStep
<1>. QED BY <1>3, <1>4

-----------------------------------------------------------------------------
(* The stash covers the batch.                                             *)

\* Numbers of slots are numbers, and a slot that goes counts one.
LEMMA SlotCounts ==
    ASSUME NEW S \in SUBSET Slots
    PROVE  /\ Cardinality(S) \in Nat
           /\ \A s \in S : Cardinality(S \ {s}) = Cardinality(S) - 1
  BY FiniteAssumption, FS_Subset, FS_CardinalityType, FS_RemoveElement

\* Appended batches have the pages of both.
LEMMA AppendedBatch ==
    ASSUME NEW q \in Seq(Frames), NEW r \in Seq(Frames)
    PROVE  /\ Len(q \o r) = Len(q) + Len(r)
           /\ Elems(q \o r) = Elems(q) \cup Elems(r)
<1>1. /\ Len(q) \in Nat /\ Len(r) \in Nat /\ Len(q \o r) = Len(q) + Len(r)
      /\ \A i \in 1..(Len(q) + Len(r)) :
            (q \o r)[i] = IF i <= Len(q) THEN q[i] ELSE r[i - Len(q)]
  OBVIOUS
<1>2. ASSUME NEW f \in Elems(r) PROVE f \in Elems(q \o r)
  <2>1. PICK i \in 1..Len(r) : f = r[i]
    BY DEF Elems
  <2>2. i + Len(q) \in 1..(Len(q) + Len(r)) /\ (q \o r)[i + Len(q)] = r[i]
    BY <1>1, <2>1
  <2>. QED BY <1>1, <2>1, <2>2 DEF Elems
<1>3. ASSUME NEW f \in Elems(q) PROVE f \in Elems(q \o r)
  BY <1>1 DEF Elems
<1>4. ASSUME NEW f \in Elems(q \o r) PROVE f \in Elems(q) \cup Elems(r)
  <2>1. PICK i \in 1..(Len(q) + Len(r)) : f = (q \o r)[i]
    BY <1>1 DEF Elems
  <2>2. CASE i <= Len(q)
    BY <1>1, <2>1, <2>2 DEF Elems
  <2>3. CASE i > Len(q)
    <3>1. i - Len(q) \in 1..Len(r) /\ f = r[i - Len(q)]
      BY <1>1, <2>1, <2>3
    <3>. QED BY <3>1 DEF Elems
  <2>. QED BY <1>1, <2>1, <2>2, <2>3
<1>. QED BY <1>1, <1>2, <1>3, <1>4

\* The pages of a batch are its head and those of its tail.
LEMMA HeadOfBatch ==
    ASSUME NEW q \in Seq(Frames), q # <<>>
    PROVE  /\ Tail(q) \in Seq(Frames) /\ Len(Tail(q)) = Len(q) - 1
           /\ Elems(q) \subseteq {Head(q)} \cup Elems(Tail(q))
<1>1. /\ Tail(q) \in Seq(Frames) /\ Len(Tail(q)) = Len(q) - 1 /\ Len(q) \in Nat
      /\ Head(q) = q[1] /\ \A i \in 1..(Len(q) - 1) : Tail(q)[i] = q[i + 1]
  OBVIOUS
<1>2. ASSUME NEW f \in Elems(q), f # Head(q) PROVE f \in Elems(Tail(q))
  <2>1. PICK i \in 1..Len(q) : f = q[i]
    BY DEF Elems
  <2>2. i - 1 \in 1..(Len(q) - 1) /\ Tail(q)[i - 1] = f
    BY <1>1, <1>2, <2>1
  <2>. QED BY <1>1, <2>2 DEF Elems
<1>. QED BY <1>1, <1>2

\* Only the writer touches the stash and its batch.
LEMMA OthersKeepBatch ==
    ASSUME TrimmerStep \/ \E u \in Users : UserStep(u)
    PROVE  UNCHANGED <<stash, writer>>
<1>1. ASSUME NEW u \in Users, UserStep(u) PROVE UNCHANGED <<stash, writer>>
  <2>1. CASE Request(u) \/ Store(u) \/ Fault(u) \/ Dispatch(u)
    BY <2>1 DEF Request, Store, Fault, Dispatch, disk, writer
  <2>2. CASE SoftLockPte(u) \/ SoftLockPfn(u) \/ SoftUnlist(u) \/ SoftMap(u) \/ SoftDone(u)
    BY <2>2 DEF SoftLockPte, SoftLockPfn, SoftUnlist, SoftMap, SoftDone, disk, writer
  <2>3. CASE TakeCached(u) \/ RefillCache(u) \/ RefillFails(u)
    BY <2>3 DEF TakeCached, RefillCache, RefillFails, disk, writer
  <2>4. CASE StealBegin(u) \/ StealFails(u) \/ StealPage(u)
    BY <2>4 DEF StealBegin, StealFails, StealPage, disk, writer
  <2>5. CASE HardLockPte(u) \/ HardGiveBack(u) \/ HardFill(u) \/ HardDone(u)
    BY <2>5 DEF HardLockPte, HardGiveBack, HardFill, HardDone, disk, writer
  <2>. QED BY <1>1, <2>1, <2>2, <2>3, <2>4, <2>5 DEF UserStep
<1>2. ASSUME TrimmerStep PROVE UNCHANGED <<stash, writer>>
  BY <1>2 DEF TrimmerStep, TrimPick, TrimLockPte, TrimLockPfn, TrimUnmap, TrimInsert,
              TrimUnlock, disk, writer
<1>. QED BY <1>1, <1>2

\* The batch is sized once, and each page takes one slot, written or abandoned.
LEMMA WriterBatchIsStashed ==
    ASSUME IndInv, BatchIsStashed, WriterStep
    PROVE  BatchIsStashed'
<1>1. TypeOK /\ WriterHolds
  BY DEF IndInv
<1>2. /\ Len(writeBatch) \in Nat /\ target \in Nat
      /\ writeBatch = <<>> => Len(writeBatch) = 0
  BY <1>1 DEF TypeOK
<1>3. Cardinality(stash) \in Nat /\ Cardinality(stash') \in Nat
  BY <1>1, SlotCounts, StepPreserves DEF TypeOK, IndInv, OrderlyNext
<1>4. CASE WriteBegin
  <2>1. PICK want \in 1..MaxWriteBatch : target' = BatchSize(want, stash')
    BY <1>4 DEF WriteBegin
  <2>2. target' <= Cardinality(stash') /\ target' \in Nat
    BY <1>3, <2>1, BatchAssumption DEF BatchSize
  <2>3. /\ wpc = "idle" /\ wpc' = "gather"
        /\ UNCHANGED <<writeBatch, cur, curSlot>>
    BY <1>4 DEF WriteBegin
  <2>. QED BY <1>2, <2>2, <2>3 DEF BatchIsStashed
<1>5. CASE WriteGather
  <2>1. PICK q \in ArraysOf(modified, target - Len(writeBatch)) : writeBatch' = writeBatch \o q
    BY <1>5 DEF WriteGather
  <2>2. PICK k \in 1..(target - Len(writeBatch)) : q \in [1..k -> Unlocked(modified)]
    BY DEF ArraysOf
  <2>3. q \in Seq(Frames) /\ Len(q) = k
    BY <1>1, <1>2, <2>2, ArraysAreSequences
  <2>4. Len(writeBatch') = Len(writeBatch) + k
    BY <1>1, <2>1, <2>3, AppendedBatch DEF TypeOK
  <2>5. UNCHANGED <<wpc, target, cur, curSlot, stash>> /\ wpc = "gather"
    BY <1>5 DEF WriteGather, disk
  <2>. QED BY <1>2, <2>2, <2>4, <2>5 DEF BatchIsStashed
<1>6. CASE WriteStart
  BY <1>2, <1>3, <1>6 DEF WriteStart, BatchIsStashed, disk
<1>7. CASE WriteCopy
  <2>1. PICK s \in stash : stash' = stash \ {s}
    BY <1>7 DEF WriteCopy
  <2>2. Cardinality(stash') = Cardinality(stash) - 1
    BY <1>1, <2>1, SlotCounts DEF TypeOK
  <2>3. /\ wpc = "copy" /\ wpc' = "relock" /\ writeBatch' = Tail(writeBatch)
        /\ writeBatch # <<>>
    BY <1>1, <1>7 DEF WriteCopy, WriterHolds
  <2>4. Len(writeBatch') = Len(writeBatch) - 1
    BY <1>1, <2>3 DEF TypeOK
  <2>. QED BY <1>2, <1>3, <2>2, <2>3, <2>4 DEF BatchIsStashed
<1>8. CASE WriteCommit \/ WriteAbandon
  <2>1. /\ wpc = "relock" /\ UNCHANGED <<stash, writeBatch>> /\ cur' = Nil /\ curSlot' = Nil
        /\ wpc' = IF writeBatch # <<>> THEN "copy" ELSE wpc'
        /\ wpc' \in {"copy", "insert", "idle"}
    BY <1>8 DEF WriteCommit, WriteAbandon, disk, AfterPage
  <2>. QED BY <2>1 DEF BatchIsStashed
<1>9. CASE WriteInsert \/ WriteUnlock
  BY <1>9 DEF WriteInsert, WriteUnlock, disk, BatchIsStashed
<1>. QED BY <1>4, <1>5, <1>6, <1>7, <1>8, <1>9 DEF WriterStep

-----------------------------------------------------------------------------
(* Pages on their way out are where their status says.                     *)

\* What a step of another thread than the writer must keep of page f.
StaysPlaced(f) ==
    pfn'[f].status \in {"MODIFIED", "MID_WRITE", "STANDBY"} =>
        /\ pfn'[f].status = pfn[f].status
        /\ f \in modified => f \in modified' \/ TakenForSoftFault(f)'
        /\ f \in standby => \/ f \in standby' \/ TakenForSoftFault(f)'
                            \/ \E w \in Users : f \in batch'[w]
        /\ TakenForSoftFault(f) => TakenForSoftFault(f)'
        /\ (\E w \in Users : f \in batch[w]) => \E w \in Users : f \in batch'[w]

\* Pages stay placed in a step that keeps each of them placed and takes none of the
\* writer's pages off the standby list.
LEMMA PlacesStay ==
    ASSUME PagesArePlaced, UNCHANGED writer, \A f \in Frames : StaysPlaced(f),
           \A f \in Frames : f \in standby /\ pfnLock[f] = Writer => f \in standby',
           IndInv
    PROVE  PagesArePlaced'
<1>1. UNCHANGED <<wpc, writeBatch, cur, written>>
  BY DEF writer
<1>2. ASSUME wpc' = "unlock" PROVE written' \subseteq standby'
  BY <1>1, <1>2 DEF PagesArePlaced, IndInv, WriterHolds, TypeOK
<1>3. (Elems(writeBatch) \cup {cur})' = Elems(writeBatch) \cup {cur}
  BY <1>1 DEF Elems
<1>. QED BY <1>1, <1>2, <1>3 DEF PagesArePlaced, StaysPlaced

\* Steps that touch neither the PFNs nor the lists nor who has taken a page.
LEMMA ElsewherePlacesStay ==
    ASSUME IndInv, PagesArePlaced, UNCHANGED <<pfn, modified, standby, batch, writer>>,
           \A w \in Users : pc[w] \in {"softMap", "softDone"} =>
               pc'[w] \in {"softMap", "softDone"} /\ page'[w] = page[w]
    PROVE  PagesArePlaced'
<1>1. \A f \in Frames : TakenForSoftFault(f) => TakenForSoftFault(f)'
  BY DEF TakenForSoftFault
<1>2. \A f \in Frames : StaysPlaced(f)
  BY <1>1 DEF StaysPlaced
<1>. QED BY <1>2, PlacesStay

\* A step of a user thread.
LEMMA UserPagesArePlaced ==
    ASSUME IndInv, PagesArePlaced, NEW u \in Users, UserStep(u)
    PROVE  PagesArePlaced'
<1>1. TypeOK /\ FaultsOnPte(u) /\ SoftFaultHolds(u) /\ HardFaultHolds(u) /\ StealHolds(u)
  BY DEF IndInv, UsersHold, UserHolds
<1>2. UNCHANGED writer
  BY OthersKeepBatch
<1>3. CASE Request(u) \/ Store(u) \/ Fault(u) \/ Dispatch(u) \/ SoftLockPte(u)
  BY <1>1, <1>2, <1>3, ElsewherePlacesStay
  DEF Request, Store, Fault, Dispatch, SoftLockPte, tables, lists, TypeOK
<1>4. CASE SoftLockPfn(u) \/ SoftMap(u)
  BY <1>1, <1>2, <1>4, ElsewherePlacesStay DEF SoftLockPfn, SoftMap, tables, lists, TypeOK
<1>5. CASE TakeCached(u) \/ RefillCache(u) \/ RefillFails(u)
  BY <1>1, <1>2, <1>5, ElsewherePlacesStay
  DEF TakeCached, RefillCache, RefillFails, tables, lists, user, TypeOK
<1>6. CASE StealFails(u) \/ HardLockPte(u) \/ HardFill(u)
  BY <1>1, <1>2, <1>6, ElsewherePlacesStay
  DEF StealFails, HardLockPte, HardFill, tables, lists, TypeOK
<1>7. CASE SoftUnlist(u)
  <2>1. pc[u] \in SoftLocked
    BY <1>7 DEF SoftUnlist, SoftLocked
  <2>2. page[u] \in Frames /\ pfnLock[page[u]] = u
    BY <2>1, SoftLockedHolds
  <2>3. /\ UNCHANGED <<pfn, batch, page>> /\ pc' = [pc EXCEPT ![u] = "softMap"]
        /\ \A f \in Frames : f # page[u] => /\ f \in modified => f \in modified'
                                            /\ f \in standby => f \in standby'
    BY <1>7 DEF SoftUnlist, tables
  <2>4. TakenForSoftFault(page[u])'
    BY <1>1, <2>3 DEF TakenForSoftFault, TypeOK
  <2>5. \A f \in Frames : TakenForSoftFault(f) => TakenForSoftFault(f)'
    BY <1>1, <2>3 DEF TakenForSoftFault, TypeOK
  <2>6. \A f \in Frames : StaysPlaced(f)
    BY <2>3, <2>4, <2>5 DEF StaysPlaced
  <2>. QED BY <1>2, <2>2, <2>3, <2>6, PlacesStay, DistinctAssumption
<1>8. CASE SoftDone(u) \/ HardDone(u) \/ HardGiveBack(u)
  <2>1. pc[u] \in {"softDone"} \cup HardHeld
    BY <1>8 DEF SoftDone, HardDone, HardGiveBack, HardHeld
  <2>2. page[u] \in Frames
    BY <1>1, <2>1 DEF SoftFaultHolds, HardFaultHolds, SoftLocked
  <2>3. /\ UNCHANGED <<modified, standby, batch>> /\ page' = [page EXCEPT ![u] = Nil]
        /\ \A w \in Users : w # u => pc'[w] = pc[w]
    BY <1>1, <1>8 DEF SoftDone, HardDone, HardGiveBack, lists, TypeOK
  <2>4. /\ pfn'[page[u]].status \in {"ACTIVE", "FREE"}
        /\ \A f \in Frames : f # page[u] => pfn'[f] = pfn[f]
    BY <1>1, <1>8, <2>2 DEF SoftDone, HardDone, HardGiveBack, TypeOK, PfnActive, PfnFree
  <2>5. \A f \in Frames : f # page[u] /\ TakenForSoftFault(f) => TakenForSoftFault(f)'
    BY <1>1, <2>3 DEF TakenForSoftFault, TypeOK
  <2>6. \A f \in Frames : StaysPlaced(f)
    BY <2>3, <2>4, <2>5 DEF StaysPlaced
  <2>. QED BY <1>2, <2>3, <2>6, PlacesStay
<1>9. CASE StealBegin(u)
  <2>1. PICK B \in BatchesOf(standby, StealBatch) :
          standby' = standby \ B /\ batch' = [batch EXCEPT ![u] = B]
    BY <1>9 DEF StealBegin
  <2>2. \A f \in B : pfnLock[f] = Nil
    BY <2>1 DEF BatchesOf, Unlocked
  <2>3. batch[u] = {} /\ UNCHANGED <<pfn, modified, page>>
        /\ pc[u] = "steal" /\ \A w \in Users : w # u => pc'[w] = pc[w]
    BY <1>1, <1>9 DEF StealBegin, StealHolds, TypeOK
  <2>4. \A f \in Frames : TakenForSoftFault(f) => TakenForSoftFault(f)'
    BY <2>3 DEF TakenForSoftFault
  <2>5. batch'[u] = B /\ \A w \in Users : w # u => batch'[w] = batch[w]
    BY <1>1, <2>1 DEF TypeOK
  <2>6. \A f \in Frames : StaysPlaced(f)
    BY <2>1, <2>3, <2>4, <2>5 DEF StaysPlaced
  <2>. QED BY <1>2, <2>1, <2>2, <2>6, PlacesStay, DistinctAssumption
<1>10. CASE StealPage(u)
  <2>1. PICK f \in batch[u] :
          /\ pfn' = [pfn EXCEPT ![f] = PfnFree]
          /\ batch' = [batch EXCEPT ![u] = @ \ {f}]
    BY <1>10 DEF StealPage
  <2>2. /\ pc[u] = "stealing" /\ UNCHANGED <<modified, standby, page>>
        /\ \A w \in Users : w # u => pc'[w] = pc[w]
    BY <1>1, <1>10 DEF StealPage, TypeOK
  <2>3. \A g \in Frames : TakenForSoftFault(g) => TakenForSoftFault(g)'
    BY <2>2 DEF TakenForSoftFault
  <2>4. f \in Frames /\ pfn'[f].status = "FREE" /\ \A g \in Frames : g # f => pfn'[g] = pfn[g]
    BY <1>1, <2>1 DEF TypeOK, PfnFree
  <2>5. batch'[u] = batch[u] \ {f} /\ \A w \in Users : w # u => batch'[w] = batch[w]
    BY <1>1, <2>1 DEF TypeOK
  <2>6. \A g \in Frames : StaysPlaced(g)
    BY <2>2, <2>3, <2>4, <2>5 DEF StaysPlaced
  <2>. QED BY <1>2, <2>2, <2>6, PlacesStay
<1>. QED BY <1>3, <1>4, <1>5, <1>6, <1>7, <1>8, <1>9, <1>10 DEF UserStep

\* A step of the trimmer: its pages become modified as they join that list.
LEMMA TrimmerPagesArePlaced ==
    ASSUME IndInv, PagesArePlaced, TrimmerStep
    PROVE  PagesArePlaced'
<1>1. TypeOK /\ TrimmerHolds
  BY DEF IndInv
<1>2. UNCHANGED writer
  BY OthersKeepBatch
<1>3. CASE TrimPick \/ TrimLockPte \/ TrimLockPfn \/ TrimUnmap \/ TrimUnlock
  BY <1>2, <1>3, ElsewherePlacesStay
  DEF TrimPick, TrimLockPte, TrimLockPfn, TrimUnmap, TrimUnlock, tables, lists, user
<1>4. CASE TrimInsert
  <2>1. UNCHANGED <<standby, user, wpc, writeBatch, cur, written>>
    BY <1>2, <1>4 DEF TrimInsert, writer
  <2>2. \A f \in Frames : TakenForSoftFault(f)' <=> TakenForSoftFault(f)
    BY <2>1 DEF TakenForSoftFault, user
  <2>3. modified' = modified \cup {t.page : t \in trimBatch}
    BY <1>4 DEF TrimInsert
  <2>4. \A f \in Frames : pfn'[f].status # pfn[f].status =>
            pfn'[f].status = "MODIFIED" /\ f \in modified'
    BY <1>1, <1>4, <2>3, TrimInsertEffect
  <2>5. (Elems(writeBatch) \cup {cur})' = Elems(writeBatch) \cup {cur}
    BY <2>1 DEF Elems
  <2>. QED BY <2>1, <2>2, <2>3, <2>4, <2>5 DEF PagesArePlaced, user
<1>. QED BY <1>3, <1>4 DEF TrimmerStep

\* A step of the writer: pages pass from the modified list to its batch, through
\* its hands, to the standby list.
LEMMA WriterPagesArePlaced ==
    ASSUME IndInv, PagesArePlaced, BatchIsStashed, WriterStep
    PROVE  PagesArePlaced'
<1>1. TypeOK /\ WriterHolds
  BY DEF IndInv
<1>2. UNCHANGED <<pc, page, batch>> /\ \A f \in Frames : TakenForSoftFault(f)' <=> TakenForSoftFault(f)
  <2>1. UNCHANGED <<pc, page, batch>>
    BY DEF WriterStep, WriteBegin, WriteGather, WriteStart, WriteCopy, WriteCommit,
           WriteAbandon, WriteInsert, WriteUnlock, user
  <2>. QED BY <2>1 DEF TakenForSoftFault
<1>3. CASE WriteBegin \/ WriteStart
  <2>1. UNCHANGED <<pfn, modified, standby, writeBatch, cur, written>> /\ wpc' # "unlock"
    BY <1>3 DEF WriteBegin, WriteStart, tables, lists
  <2>. QED BY <1>2, <2>1 DEF PagesArePlaced, Elems
<1>4. CASE WriteGather
  <2>1. PICK q \in ArraysOf(modified, target - Len(writeBatch)) :
          /\ modified' = modified \ Elems(q)
          /\ pfn' = [f \in Frames |-> IF f \in Elems(q) THEN PfnMidWrite(f) ELSE pfn[f]]
          /\ writeBatch' = writeBatch \o q
    BY <1>4 DEF WriteGather
  <2>2. UNCHANGED <<standby, cur, written, wpc>> /\ wpc = "gather"
    BY <1>4 DEF WriteGather
  <2>3. Elems(writeBatch') = Elems(writeBatch) \cup Elems(q)
    BY <1>1, <2>1, ArraysAreSequences, AppendedBatch DEF TypeOK
  <2>4. \A f \in Frames : /\ f \in Elems(q) => pfn'[f].status = "MID_WRITE"
                          /\ f \notin Elems(q) => pfn'[f] = pfn[f]
    BY <1>1, <2>1 DEF PfnMidWrite, TypeOK, PfnState
  <2>5. Elems(writeBatch)' = Elems(writeBatch')
    BY DEF Elems
  <2> HIDE DEF WriterStep
  <2>. QED BY <1>2, <2>1, <2>2, <2>3, <2>4, <2>5 DEF PagesArePlaced
<1>5. CASE WriteCopy
  <2>1. /\ cur' = Head(writeBatch) /\ writeBatch' = Tail(writeBatch) /\ cur = Nil
        /\ writeBatch # <<>> /\ UNCHANGED <<pfn, modified, standby, written>> /\ wpc' = "relock"
    BY <1>1, <1>5 DEF WriteCopy, tables, lists, BatchIsStashed, WriterHolds
  <2>2. Elems(writeBatch) \subseteq {Head(writeBatch)} \cup Elems(Tail(writeBatch))
    BY <1>1, <2>1, HeadOfBatch DEF TypeOK
  <2>3. Elems(writeBatch)' = Elems(Tail(writeBatch))
    BY <2>1 DEF Elems
  <2>4. Nil \notin Frames
    BY DistinctAssumption
  <2>. QED BY <1>2, <2>1, <2>2, <2>3, <2>4 DEF PagesArePlaced
<1>6. CASE WriteCommit
  <2>1. /\ cur \in Frames /\ cur' = Nil /\ written' = written \cup {cur} /\ wpc' # "unlock"
        /\ UNCHANGED <<modified, standby, writeBatch>>
    BY <1>1, <1>6 DEF WriteCommit, WriterHolds, lists, AfterPage
  <2>2. /\ pfn'[cur].status = "STANDBY"
        /\ \A f \in Frames : f # cur => pfn'[f] = pfn[f]
    BY <1>1, <1>6, <2>1 DEF WriteCommit, PfnStandby, TypeOK, PfnState
  <2>3. Elems(writeBatch)' = Elems(writeBatch)
    BY <2>1 DEF Elems
  <2>. QED BY <1>2, <2>1, <2>2, <2>3 DEF PagesArePlaced
<1>7. CASE WriteAbandon
  <2>1. /\ pfn[cur].status # "MID_WRITE" /\ wpc' # "unlock"
        /\ UNCHANGED <<pfn, modified, standby, writeBatch, written>>
    BY <1>7 DEF WriteAbandon, StillMidWrite, tables, lists, AfterPage
  <2>2. Elems(writeBatch)' = Elems(writeBatch)
    BY <2>1 DEF Elems
  <2>. QED BY <1>2, <2>1, <2>2 DEF PagesArePlaced
<1>8. CASE WriteInsert \/ WriteUnlock
  <2>1. UNCHANGED <<pfn, modified, writeBatch, cur>>
    BY <1>8 DEF WriteInsert, WriteUnlock, tables, lists
  <2>2. Elems(writeBatch)' = Elems(writeBatch)
    BY <2>1 DEF Elems
  <2>3. standby \cup written \subseteq standby' \cup written'
    BY <1>8 DEF WriteInsert, WriteUnlock, lists, PagesArePlaced
  <2>4. wpc' = "unlock" => written' \subseteq standby'
    BY <1>8 DEF WriteInsert, WriteUnlock, lists, PagesArePlaced
  <2>. QED BY <1>2, <2>1, <2>2, <2>3, <2>4 DEF PagesArePlaced
<1>. QED BY <1>3, <1>4, <1>5, <1>6, <1>7, <1>8 DEF WriterStep

-----------------------------------------------------------------------------
(* A slot holds the data of the page that owns it.                         *)

\* Only an active page, a free page that is being filled, or a page taken for a
\* soft fault is mapped: a store never changes a page that a slot stands for.
LEMMA StoresMissSlots ==
    ASSUME IndInv, NEW p \in Ptes, mapped[p] # Nil
    PROVE  /\ mapped[p] \in Frames
           /\ pfn[mapped[p]].status \in {"ACTIVE", "FREE"} \/ SlotDropped(mapped[p])
<1>1. TypeOK /\ PtesNameTheirFrames /\ TrimmerHolds /\ MappingMatches(p)
  BY DEF IndInv, MappingMatchesPte
<1>2. mapped[p] \in Frames
  BY <1>1 DEF TypeOK
<1>3. CASE pte[p] = ValidPte(mapped[p])
  BY <1>1, <1>2, <1>3 DEF PtesNameTheirFrames, ValidPte
<1>4. CASE [va |-> p, page |-> mapped[p]] \in trimBatch /\ tpc \in {"scan", "lockPte", "lockPfn"}
  BY <1>1, <1>2, <1>4 DEF TrimmerHolds
<1>5. CASE pte[p] = TransitionPte(mapped[p]) /\ \E u \in Users : pc[u] = "softDone" /\ va[u] = p
  <2>1. PICK u \in Users : pc[u] = "softDone" /\ va[u] = p
    BY <1>5
  <2>2. pc[u] \in SoftLocked
    BY <2>1 DEF SoftLocked
  <2>3. TransitionPte(page[u]) = TransitionPte(mapped[p])
    BY <1>5, <2>1, <2>2, SoftLockedHolds
  <2>4. page[u] = mapped[p]
    BY <2>3 DEF TransitionPte
  <2>. QED BY <1>2, <2>2, <2>4 DEF SlotDropped
<1>6. CASE \E u \in Users : pc[u] \in Filling /\ va[u] = p /\ page[u] = mapped[p]
  BY <1>2, <1>6, FillingHolds
<1>. QED BY <1>1, <1>3, <1>4, <1>5, <1>6 DEF MappingMatches

\* A user thread makes pages active or free, or leaves their status alone, and
\* only the end of a soft fault gives up a page taken for one.
LEMMA UserTakesPages ==
    ASSUME IndInv, NEW u \in Users, UserStep(u), NEW f \in Frames
    PROVE  \/ pfn'[f].status \in {"ACTIVE", "FREE"}
           \/ pfn'[f] = pfn[f] /\ (SlotDropped(f) => SlotDropped(f)')
<1>1. TypeOK /\ FaultsOnPte(u) /\ SoftFaultHolds(u) /\ HardFaultHolds(u)
  BY DEF IndInv, UsersHold, UserHolds
<1>2. \A w \in Users : w # u => pc'[w] = pc[w] /\ page'[w] = page[w]
  <2>1. CASE Request(u) \/ Store(u) \/ Fault(u) \/ Dispatch(u) \/ SoftLockPte(u)
    BY <1>1, <2>1 DEF Request, Store, Fault, Dispatch, SoftLockPte, TypeOK
  <2>2. CASE SoftLockPfn(u) \/ SoftUnlist(u) \/ SoftMap(u) \/ SoftDone(u)
    BY <1>1, <2>2 DEF SoftLockPfn, SoftUnlist, SoftMap, SoftDone, TypeOK
  <2>3. CASE TakeCached(u) \/ RefillCache(u) \/ RefillFails(u) \/ StealBegin(u)
    BY <1>1, <2>3 DEF TakeCached, RefillCache, RefillFails, StealBegin, user, TypeOK
  <2>4. CASE StealFails(u) \/ StealPage(u) \/ HardLockPte(u) \/ HardGiveBack(u)
    BY <1>1, <2>4 DEF StealFails, StealPage, HardLockPte, HardGiveBack, TypeOK
  <2>5. CASE HardFill(u) \/ HardDone(u)
    BY <1>1, <2>5 DEF HardFill, HardDone, TypeOK
  <2>. QED BY <2>1, <2>2, <2>3, <2>4, <2>5 DEF UserStep
<1>3. CASE pc[u] \notin SoftLocked
  <2>1. SlotDropped(f) => SlotDropped(f)'
    BY <1>2, <1>3 DEF SlotDropped
  <2>2. CASE HardGiveBack(u) \/ HardDone(u)
    <3>1. page[u] \in Frames
      BY <1>1, <2>2 DEF HardGiveBack, HardDone, HardFaultHolds, HardHeld
    <3>2. pfn'[f].status \in {"ACTIVE", "FREE"} \/ pfn'[f] = pfn[f]
      BY <1>1, <2>2, <3>1 DEF HardGiveBack, HardDone, TypeOK, PfnFree, PfnActive
    <3>. QED BY <2>1, <3>2
  <2>3. CASE StealPage(u)
    <3>1. PICK g \in batch[u] : pfn' = [pfn EXCEPT ![g] = PfnFree]
      BY <2>3 DEF StealPage
    <3>2. pfn'[f].status \in {"ACTIVE", "FREE"} \/ pfn'[f] = pfn[f]
      BY <1>1, <3>1 DEF TypeOK, PfnFree
    <3>. QED BY <2>1, <3>2
  <2>4. CASE ~(HardGiveBack(u) \/ HardDone(u) \/ StealPage(u))
    <3>1. ~(SoftUnlist(u) \/ SoftMap(u) \/ SoftDone(u))
      BY <1>3 DEF SoftUnlist, SoftMap, SoftDone, SoftLocked
    <3>2. pfn' = pfn
      BY <2>4, <3>1 DEF UserStep, Request, Store, Fault, Dispatch, SoftLockPte, SoftLockPfn,
         TakeCached, RefillCache, RefillFails, StealBegin, StealFails, HardLockPte, HardFill,
         tables
    <3>. QED BY <2>1, <3>2
  <2>. QED BY <2>2, <2>3, <2>4
<1>4. CASE pc[u] \in SoftLocked
  <2>1. page[u] \in Frames
    BY <1>4, SoftLockedHolds
  <2>2. SoftUnlist(u) \/ SoftMap(u) \/ SoftDone(u)
    BY <1>4 DEF UserStep, Request, Store, Fault, Dispatch, SoftLockPte, SoftLockPfn,
       TakeCached, RefillCache, RefillFails, StealBegin, StealFails, StealPage, HardLockPte,
       HardGiveBack, HardFill, HardDone, SoftLocked
  <2>3. CASE SoftUnlist(u) \/ SoftMap(u)
    <3>1. pfn' = pfn /\ page'[u] = page[u] /\ pc'[u] \in SoftLocked
      BY <1>1, <2>3 DEF SoftUnlist, SoftMap, tables, SoftLocked, TypeOK
    <3>2. SlotDropped(f) => SlotDropped(f)'
      BY <1>2, <1>4, <3>1 DEF SlotDropped
    <3>. QED BY <3>1, <3>2
  <2>4. CASE SoftDone(u)
    <3>1. pfn'[page[u]].status = "ACTIVE" /\ (f # page[u] => pfn'[f] = pfn[f])
      BY <1>1, <2>1, <2>4 DEF SoftDone, TypeOK, PfnActive
    <3>2. f # page[u] => (SlotDropped(f) => SlotDropped(f)')
      BY <1>2 DEF SlotDropped
    <3>. QED BY <3>1, <3>2
  <2>. QED BY <2>2, <2>3, <2>4
<1>. QED BY <1>3, <1>4

\* Only stores and fills change what a frame holds, and no user thread what the
\* page file holds.
LEMMA UserKeepsData ==
    ASSUME NEW u \in Users, UserStep(u)
    PROVE  pagefile' = pagefile /\ (Store(u) \/ HardFill(u) \/ contents' = contents)
<1>1. CASE Request(u) \/ Store(u) \/ Fault(u) \/ Dispatch(u) \/ SoftLockPte(u)
  BY <1>1 DEF Request, Store, Fault, Dispatch, SoftLockPte, memory
<1>2. CASE SoftLockPfn(u) \/ SoftUnlist(u) \/ SoftMap(u) \/ SoftDone(u)
  BY <1>2 DEF SoftLockPfn, SoftUnlist, SoftMap, SoftDone, memory
<1>3. CASE TakeCached(u) \/ RefillCache(u) \/ RefillFails(u) \/ StealBegin(u)
  BY <1>3 DEF TakeCached, RefillCache, RefillFails, StealBegin, memory
<1>4. CASE StealFails(u) \/ StealPage(u) \/ HardLockPte(u) \/ HardGiveBack(u)
  BY <1>4 DEF StealFails, StealPage, HardLockPte, HardGiveBack, memory
<1>5. CASE HardFill(u) \/ HardDone(u)
  BY <1>5 DEF HardFill, HardDone, memory
<1>. QED BY <1>1, <1>2, <1>3, <1>4, <1>5 DEF UserStep

\* A step of a user thread.
LEMMA UserSlotsHoldPages ==
    ASSUME IndInv, SlotsHoldPages, BatchIsStashed, NEW u \in Users, UserStep(u)
    PROVE  SlotsHoldPages'
<1>1. TypeOK
  BY DEF IndInv
<1>2. pagefile' = pagefile /\ UNCHANGED <<wpc, cur, curSlot>>
  BY OthersKeepBatch, UserKeepsData DEF writer
<1>3. ASSUME NEW f \in Frames, pfn[f].status \in {"MID_WRITE", "STANDBY"}, ~SlotDropped(f)
      PROVE  contents'[f] = contents[f]
  <2>1. CASE Store(u)
    <3>1. va[u] \in Ptes /\ mapped[va[u]] # Nil
      BY <2>1 DEF Store, IndInv, UsersHold, UserHolds, FaultsOnPte
    <3>2. f # mapped[va[u]]
      BY <1>3, <3>1, StoresMissSlots
    <3>3. PICK v \in Vals : contents' = [contents EXCEPT ![mapped[va[u]]] = v]
      BY <2>1 DEF Store
    <3>. QED BY <1>1, <3>2, <3>3 DEF TypeOK
  <2>2. CASE HardFill(u)
    <3>1. f # page[u]
      BY <1>3, <2>2, FillingHolds DEF HardFill, Filling
    <3>. QED BY <1>1, <2>2, <3>1 DEF HardFill, TypeOK
  <2>3. CASE ~(Store(u) \/ HardFill(u))
    BY <2>3, UserKeepsData
  <2>. QED BY <2>1, <2>2, <2>3
<1>4. ASSUME NEW f \in Frames, NEW s \in Slots, PfnOwns(f, s)'
      PROVE  pagefile'[s] = contents'[f]
  <2>1. pfn'[f].status = "STANDBY" /\ pfn'[f].slot = s /\ ~SlotDropped(f)'
    BY <1>4 DEF PfnOwns
  <2>2. pfn'[f] = pfn[f] /\ ~SlotDropped(f)
    BY <2>1, UserTakesPages
  <2>3. PfnOwns(f, s)
    BY <2>1, <2>2 DEF PfnOwns
  <2>. QED BY <1>2, <1>3, <2>1, <2>2, <2>3 DEF SlotsHoldPages
<1>5. ASSUME NEW f \in Frames, f = cur, wpc = "relock", pfn'[f].status = "MID_WRITE",
             ~SlotDropped(f)'
      PROVE  pagefile[curSlot] = contents'[f]
  <2>1. pfn'[f] = pfn[f] /\ ~SlotDropped(f)
    BY <1>5, UserTakesPages
  <2>. QED BY <1>3, <1>5, <2>1 DEF SlotsHoldPages
<1>6. ASSUME NEW f \in Frames, f = cur PROVE SlotDropped(f)' <=> SlotDropped(cur)'
  BY <1>2, <1>6 DEF SlotDropped
<1>7. wpc = "relock" => cur \in Frames
  BY DEF IndInv, WriterHolds
<1>. QED BY <1>2, <1>4, <1>5, <1>6, <1>7 DEF SlotsHoldPages

\* A step of the trimmer.
LEMMA TrimmerSlotsHoldPages ==
    ASSUME IndInv, SlotsHoldPages, TrimmerStep
    PROVE  SlotsHoldPages'
<1>1. TypeOK /\ TrimmerHolds
  BY DEF IndInv
<1>2. UNCHANGED <<contents, pagefile, user>>
  BY DEF TrimmerStep, TrimPick, TrimLockPte, TrimLockPfn, TrimUnmap, TrimInsert, TrimUnlock,
         memory
<1>3. UNCHANGED <<wpc, cur, curSlot>> /\ OwnersKept
  BY OthersKeepBatch, TrimmerKeepsSlots DEF writer, SlotsKept
<1>4. SlotDropped(cur)' <=> SlotDropped(cur)
  BY <1>2, <1>3 DEF user, SlotDropped
<1>5. \A f \in Frames : pfn'[f].status = "MID_WRITE" => pfn[f].status = "MID_WRITE"
  <2>1. CASE TrimInsert
    BY <1>1, <2>1, TrimInsertEffect
  <2>2. CASE ~TrimInsert
    BY <2>2 DEF TrimmerStep, TrimPick, TrimLockPte, TrimLockPfn, TrimUnmap, TrimUnlock, tables
  <2>. QED BY <2>1, <2>2
<1>6. wpc = "relock" => cur \in Frames
  BY DEF IndInv, WriterHolds
<1>. QED BY <1>2, <1>3, <1>4, <1>5, <1>6 DEF SlotsHoldPages, OwnersKept

\* A step of the writer: what it copied is still the page's when it commits,
\* because a page that was mapped meanwhile is not mid-write any more.
LEMMA WriterSlotsHoldPages ==
    ASSUME IndInv, SlotsAreOwned, BatchIsStashed, SlotsHoldPages, WriterStep
    PROVE  SlotsHoldPages'
<1>1. TypeOK /\ WriterHolds
  BY DEF IndInv
<1>2. UNCHANGED <<contents, user>>
  BY DEF WriterStep, WriteBegin, WriteGather, WriteStart, WriteCopy, WriteCommit,
         WriteAbandon, WriteInsert, WriteUnlock, memory
<1>3. CASE WriteCommit
  <2>1. /\ wpc' # "relock" /\ UNCHANGED pagefile
        /\ wpc = "relock" /\ pfn[cur].status = "MID_WRITE"
    BY <1>3 DEF WriteCommit, memory, AfterPage, StillMidWrite
  <2>2. pagefile[curSlot] = contents[cur]
    BY <1>3, <2>1, CommitOwns DEF SlotsHoldPages
  <2>. QED BY <1>2, <1>3, <2>1, <2>2, CommitOwns DEF SlotsHoldPages
<1>4. CASE WriteCopy
  <2>1. PICK s \in stash :
          /\ pagefile' = [pagefile EXCEPT ![s] = contents[Head(writeBatch)]]
          /\ curSlot' = s
    BY <1>4 DEF WriteCopy
  <2>2. s \in Slots /\ cur' = Head(writeBatch)
    BY <1>1, <1>4 DEF WriteCopy, TypeOK
  <2>3. OwnersKept
    BY <1>4, WriterKeepsOwners DEF WriteCopy, WriteCommit
  <2>4. \A f \in Frames : ~PfnOwns(f, s)
    BY <2>1, <2>2 DEF SlotsAreOwned
  <2>5. pagefile'[curSlot'] = contents[cur'] /\ \A t \in Slots : t # s => pagefile'[t] = pagefile[t]
    BY <1>1, <2>1, <2>2 DEF TypeOK
  <2>. QED BY <1>2, <2>3, <2>4, <2>5 DEF SlotsHoldPages, OwnersKept
<1>5. CASE ~(WriteCommit \/ WriteCopy)
  <2>1. OwnersKept
    BY <1>5, WriterKeepsOwners
  <2>2. UNCHANGED pagefile /\ wpc' # "relock"
    BY <1>5 DEF WriterStep, WriteBegin, WriteGather, WriteStart, WriteAbandon, WriteInsert,
                WriteUnlock, memory, AfterPage
  <2>. QED BY <1>2, <2>1, <2>2 DEF SlotsHoldPages, OwnersKept
<1>. QED BY <1>3, <1>4, <1>5

-----------------------------------------------------------------------------
(* The invariant.                                                          *)

\* In the initial states no page and no PTE has a slot.
LEMMA DataInvInitially == ASSUME Init PROVE DataInv
<1>. USE DEF Init
<1>1. SlotsAreOwned
  BY DistinctAssumption DEF SlotsAreOwned, PfnOwns, PteOwns, PfnFree, ZeroPte
<1>2. BatchIsStashed
  BY DEF BatchIsStashed
<1>3. PagesArePlaced
  BY DEF PagesArePlaced, PfnFree
<1>4. SlotsHoldPages
  BY DEF SlotsHoldPages, PfnOwns, PfnFree
<1>. QED BY <1>1, <1>2, <1>3, <1>4 DEF DataInv

\* Every step preserves the second layer.
LEMMA DataInvPreserved == ASSUME IndInv, DataInv, [OrderlyNext]_vars PROVE DataInv'
<1>1. SlotsAreOwned /\ BatchIsStashed /\ PagesArePlaced /\ SlotsHoldPages
  BY DEF DataInv
<1>2. ASSUME TrimmerStep \/ \E u \in Users : UserStep(u) PROVE BatchIsStashed'
  BY <1>1, <1>2, OthersKeepBatch DEF writer, BatchIsStashed
<1>3. CASE \E u \in Users : UserStep(u)
  BY <1>1, <1>2, <1>3, UserSlotsAreOwned, UserPagesArePlaced, UserSlotsHoldPages DEF DataInv
<1>4. CASE TrimmerStep
  BY <1>1, <1>2, <1>4, TrimmerKeepsSlots, SlotsStayOwned, TrimmerPagesArePlaced,
     TrimmerSlotsHoldPages DEF DataInv
<1>5. CASE WriterStep
  BY <1>1, <1>5, WriterSlotsAreOwned, WriterBatchIsStashed, WriterPagesArePlaced,
     WriterSlotsHoldPages DEF DataInv
<1>6. CASE UNCHANGED vars
  <2>. USE <1>6 DEF vars
  <2>1. SlotsAreOwned'
    BY <1>1 DEF SlotsAreOwned, PfnOwns, PteOwns, SlotDropped, SlotRead
  <2>2. BatchIsStashed' /\ PagesArePlaced'
    BY <1>1 DEF BatchIsStashed, PagesArePlaced, TakenForSoftFault, Elems
  <2>3. SlotsHoldPages'
    BY <1>1 DEF SlotsHoldPages, PfnOwns, SlotDropped
  <2>. QED BY <2>1, <2>2, <2>3 DEF DataInv
<1>. QED BY <1>3, <1>4, <1>5, <1>6 DEF OrderlyNext

\* In every reachable state each slot in use has one owner and holds that page's
\* data, the stash covers the batch, and each page is where its status says.
THEOREM DataInvariant == OrderlySpec => [](IndInv /\ DataInv)
<1>1. Init => IndInv /\ DataInv
  BY InitEstablishes, DataInvInitially
<1>2. IndInv /\ DataInv /\ [OrderlyNext]_vars => (IndInv /\ DataInv)'
  BY StepPreserves, DataInvPreserved
<1>. QED BY <1>1, <1>2, PTL DEF OrderlySpec

-----------------------------------------------------------------------------
(* What follows from it.                                                   *)

\* The members of SlotOwners are the owners that SlotsAreOwned speaks of.
LEMMA OwnersAreThese ==
    ASSUME NEW s \in Slots
    PROVE  SlotOwners(s) = {<<"stash", "list">> : x \in stash \cap {s}}
                      \cup {<<"writer", "slot">> : x \in {curSlot} \cap {s}}
                      \cup {<<"pfn", f>> : f \in {g \in Frames : PfnOwns(g, s)}}
                      \cup {<<"pte", p>> : p \in {q \in Ptes : PteOwns(q, s)}}
  BY DEF SlotOwners, PfnOwns, PteOwns

\* No slot of the page file is ever leaked, and none is owned twice: whoever clears
\* or sets a slot's bit finds it as it asserts.
THEOREM SlotsHaveOneOwner == OrderlySpec => []SlotHasOneOwner
<1>1. ASSUME IndInv, DataInv PROVE SlotHasOneOwner
  <2>1. SUFFICES ASSUME NEW s \in Slots
                 PROVE  Cardinality(SlotOwners(s)) = IF s \in inUse THEN 1 ELSE 0
    BY DEF SlotHasOneOwner
  <2>2. SlotsAreOwned /\ stash \subseteq Slots
    BY <1>1 DEF DataInv, IndInv, TypeOK
  <2>3. CASE s \notin inUse
    <3>1. SlotOwners(s) = {}
      BY <2>2, <2>3, OwnersAreThese DEF SlotsAreOwned
    <3>. QED BY <2>3, <3>1, FS_EmptySet
  <2>4. CASE s \in inUse
    <3>1. CASE s \in stash
      <4>1. SlotOwners(s) = {<<"stash", "list">>}
        BY <2>2, <3>1, OwnersAreThese DEF SlotsAreOwned
      <4>. QED BY <2>4, <4>1, FS_Singleton
    <3>2. CASE s = curSlot
      <4>1. SlotOwners(s) = {<<"writer", "slot">>}
        BY <2>2, <3>2, OwnersAreThese DEF SlotsAreOwned
      <4>. QED BY <2>4, <4>1, FS_Singleton
    <3>3. ASSUME NEW f \in Frames, PfnOwns(f, s)
          PROVE  Cardinality(SlotOwners(s)) = IF s \in inUse THEN 1 ELSE 0
      <4>1. SlotOwners(s) = {<<"pfn", f>>}
        BY <2>2, <3>3, OwnersAreThese DEF SlotsAreOwned
      <4>. QED BY <2>4, <4>1, FS_Singleton
    <3>4. ASSUME NEW p \in Ptes, PteOwns(p, s)
          PROVE  Cardinality(SlotOwners(s)) = IF s \in inUse THEN 1 ELSE 0
      <4>1. \A f \in Frames : ~PfnOwns(f, s)
        BY <2>2, <3>4 DEF SlotsAreOwned
      <4>2. SlotOwners(s) = {<<"pte", p>>}
        BY <2>2, <3>4, <4>1, OwnersAreThese DEF SlotsAreOwned
      <4>. QED BY <2>4, <4>2, FS_Singleton
    <3>. QED BY <2>2, <2>4, <3>1, <3>2, <3>3, <3>4 DEF SlotsAreOwned
  <2>. QED BY <2>3, <2>4
<1>. QED BY <1>1, DataInvariant, PTL

\* pop_slot's assertion holds: the writer never runs out of the slots it counted
\* when it sized its batch, however many pages it abandons.
THEOREM StashIsEnough == OrderlySpec => []StashCoversBatch
<1>1. IndInv /\ DataInv => StashCoversBatch
  BY SlotCounts DEF IndInv, TypeOK, DataInv, BatchIsStashed, StashCoversBatch
<1>. QED BY <1>1, DataInvariant, PTL

\* Whoever gets a PFN's lock may rely on its status: the page is on the list, in
\* the batch or under the PTE that the status promises.
THEOREM PagesAreWhereTheySay == OrderlySpec => []UnlockedPfnIsWhereItSays
<1>1. ASSUME IndInv, DataInv PROVE UnlockedPfnIsWhereItSays
  <2>1. SUFFICES ASSUME NEW f \in Frames, pfnLock[f] = Nil
        PROVE /\ pfn[f].status = "MODIFIED"  <=> f \in modified
              /\ pfn[f].status = "STANDBY"   <=> f \in standby
              /\ pfn[f].status = "MID_WRITE" => f \in Elems(writeBatch) \cup {cur}
              /\ pfn[f].status = "FREE"      <=> f \in free \/ \E u \in Users : f \in cache[u]
              /\ pfn[f].status = "ACTIVE" =>
                    \E p \in Ptes : pte[p] = ValidPte(f) /\ pfn[f].pte = p
    BY DEF UnlockedPfnIsWhereItSays, Unlocked
  <2>2. /\ TypeOK /\ PtesNameTheirFrames /\ PfnsNameTheirPtes /\ FreePagesAreFree
        /\ NoFreePageIsLost /\ ListsMatchStatus /\ TrimmerHolds
        /\ ActiveInTransitionIsTrimmed /\ WriterHolds /\ PagesArePlaced
    BY <1>1 DEF IndInv, DataInv
  <2>3. Nil \notin Users \cup {Trimmer, Writer}
    BY DistinctAssumption
  <2>4. ~TakenForSoftFault(f) /\ f \notin written /\ \A u \in Users : f \notin batch[u]
    <3>1. ~TakenForSoftFault(f)
      BY <1>1, <2>1, <2>3, SoftLockedHolds DEF TakenForSoftFault, SoftLocked
    <3>2. f \notin written
      BY <2>1, <2>2, <2>3 DEF WriterHolds
    <3>3. \A u \in Users : f \notin batch[u]
      BY <1>1, <2>1, <2>3, StealingHolds
    <3>. QED BY <3>1, <3>2, <3>3
  <2>5. \A u \in Users : ~(pc[u] \in HardHeld /\ page[u] = f)
    BY <1>1, <2>1, <2>3 DEF IndInv, UsersHold, UserHolds, HardFaultHolds
  <2>6. pfn[f].status = "FREE" <=> f \in free \/ \E u \in Users : f \in cache[u]
    BY <2>2, <2>5 DEF FreePagesAreFree, NoFreePageIsLost
  <2>7. ASSUME pfn[f].status = "ACTIVE"
        PROVE  \E p \in Ptes : pte[p] = ValidPte(f) /\ pfn[f].pte = p
    <3>1. /\ pfn[f].pte \in Ptes /\ pte[pfn[f].pte].fmt \in {"valid", "transition"}
          /\ pte[pfn[f].pte].ref = f
      BY <2>2, <2>7 DEF PfnsNameTheirPtes
    <3>2. pte[pfn[f].pte].fmt # "transition"
      BY <2>1, <2>2, <2>3, <2>7, <3>1 DEF ActiveInTransitionIsTrimmed, TrimmerHolds
    <3>3. pte[pfn[f].pte] = ValidPte(f)
      BY <2>2, <3>1, <3>2 DEF TypeOK, PteState, ValidPte
    <3>. QED BY <3>1, <3>3
  <2>. QED BY <2>2, <2>4, <2>6, <2>7 DEF ListsMatchStatus, PagesArePlaced
<1>. QED BY <1>1, DataInvariant, PTL

-----------------------------------------------------------------------------
(* The pool of slots.                                                      *)

\* The slots in use are those that are neither free nor stashed.
LEMMA UsedAreNotStashed == IndInv /\ DataInv => SlotsUsed = inUse \ stash
<1>. SUFFICES ASSUME IndInv, DataInv PROVE SlotsUsed = inUse \ stash
  OBVIOUS
<1>1. SlotsAreOwned /\ inUse \subseteq Slots
  BY DEF DataInv, IndInv, TypeOK
<1>2. ASSUME NEW s \in Slots
      PROVE  s \in SlotsUsed <=> \/ s = curSlot
                                 \/ \E f \in Frames : PfnOwns(f, s)
                                 \/ \E p \in Ptes : PteOwns(p, s)
  <2>1. s \in SlotsUsed <=> \E x \in SlotOwners(s) : x # <<"stash", "list">>
    BY DEF SlotsUsed
  <2>2. /\ <<"writer", "slot">> # <<"stash", "list">>
        /\ \A y : <<"pfn", y>> # <<"stash", "list">> /\ <<"pte", y>> # <<"stash", "list">>
    OBVIOUS
  <2>3. ASSUME NEW x \in SlotOwners(s), x # <<"stash", "list">>
        PROVE  \/ s = curSlot
               \/ \E f \in Frames : PfnOwns(f, s)
               \/ \E p \in Ptes : PteOwns(p, s)
    BY <2>3, OwnersAreThese
  <2>4. ASSUME s = curSlot PROVE <<"writer", "slot">> \in SlotOwners(s)
    BY <2>4, OwnersAreThese
  <2>5. ASSUME NEW f \in Frames, PfnOwns(f, s) PROVE <<"pfn", f>> \in SlotOwners(s)
    BY <2>5, OwnersAreThese
  <2>6. ASSUME NEW p \in Ptes, PteOwns(p, s) PROVE <<"pte", p>> \in SlotOwners(s)
    BY <2>6, OwnersAreThese
  <2>. QED BY <2>1, <2>2, <2>3, <2>4, <2>5, <2>6
<1>3. SlotsUsed \subseteq Slots
  BY DEF SlotsUsed
<1>4. ASSUME NEW s \in Slots PROVE s \in SlotsUsed <=> s \in inUse /\ s \notin stash
  BY <1>1, <1>2 DEF SlotsAreOwned
<1>. QED BY <1>1, <1>3, <1>4

\* The same after a step.
LEMMA UsedAfterwards == IndInv' /\ DataInv' => (SlotsUsed = inUse \ stash)'
  BY UsedAreNotStashed, PTL

\* A step that clears the bit of a slot that is in use and not stashed.
LEMMA ReleasesSlot ==
    ASSUME IndInv, DataInv, IndInv', DataInv',
           NEW s \in inUse \ stash, inUse' = inUse \ {s}, stash' = stash
    PROVE  Pool!Release
<1>1. SlotsUsed = inUse \ stash /\ SlotsUsed' = inUse' \ stash'
  BY UsedAreNotStashed, UsedAfterwards
<1>2. s \in Slots
  BY DEF IndInv, TypeOK
<1>. QED BY <1>1, <1>2 DEF Pool!Release

\* A step that changes neither the bits nor the stash.
LEMMA PoolUntouched ==
    ASSUME IndInv, DataInv, IndInv', DataInv', UNCHANGED <<inUse, stash>>
    PROVE  UNCHANGED Pool!pool
  BY UsedAreNotStashed, UsedAfterwards DEF Pool!pool

\* Each step of the manager is a step of the pool or leaves it alone.
LEMMA PoolStep ==
    ASSUME IndInv, DataInv, IndInv', DataInv', [OrderlyNext]_vars
    PROVE  Pool!PoolNext \/ UNCHANGED Pool!pool
<1>1. SlotsAreOwned /\ BatchIsStashed /\ TypeOK /\ PtesNameTheirFrames /\ PfnsNameTheirPtes
      /\ WriterHolds
  BY DEF DataInv, IndInv
<1>2. ASSUME NEW u \in Users, UserStep(u) PROVE Pool!PoolNext \/ UNCHANGED Pool!pool
  <2>1. stash' = stash
    BY <1>2, OthersKeepBatch
  <2>2. CASE SoftLockPfn(u) /\ inUse' # inUse
    <3>1. pte[va[u]].fmt # "disk" /\ pfn[page[u]].status = "STANDBY"
          /\ inUse' = inUse \ {pfn[page[u]].slot}
      BY <2>2 DEF SoftLockPfn
    <3>2. page[u] \in Frames /\ ~SlotDropped(page[u])
      BY <2>2, <3>1, SoftLockOwns
    <3>3. pfn[page[u]].slot \in inUse \ stash
      BY <1>1, <3>1, <3>2 DEF SlotsAreOwned, PfnOwns, PfnsNameTheirPtes
    <3>. QED BY <2>1, <3>1, <3>3, ReleasesSlot DEF Pool!PoolNext
  <2>3. CASE HardFill(u) /\ inUse' # inUse
    <3>1. pte[va[u]].fmt = "disk" /\ inUse' = inUse \ {pte[va[u]].ref}
      BY <2>3 DEF HardFill
    <3>2. va[u] \in Ptes /\ ~SlotRead(va[u])
      BY <2>3, FillOwns
    <3>3. pte[va[u]].ref \in inUse \ stash
      BY <1>1, <3>1, <3>2 DEF SlotsAreOwned, PteOwns, PtesNameTheirFrames
    <3>. QED BY <2>1, <3>1, <3>3, ReleasesSlot DEF Pool!PoolNext
  <2>4. CASE inUse' = inUse
    BY <2>1, <2>4, PoolUntouched
  <2>5. CASE ~(SoftLockPfn(u) \/ HardFill(u))
    <3>1. CASE SoftDone(u) \/ HardDone(u)
      BY <2>1, <3>1, FaultEndKeepsSlots, PoolUntouched DEF SlotsKept
    <3>2. CASE StealPage(u)
      BY <2>1, <3>2, PoolUntouched DEF StealPage, disk
    <3>3. CASE ~(SoftDone(u) \/ HardDone(u) \/ StealPage(u))
      <4>1. SlotsKept
        BY <1>2, <2>5, <3>3, UserKeepsSlots DEF UserStep
      <4>. QED BY <2>1, <4>1, PoolUntouched DEF SlotsKept
    <3>. QED BY <3>1, <3>2, <3>3
  <2>. QED BY <2>2, <2>3, <2>4, <2>5
<1>3. CASE WriteBegin
  <2>1. PICK grab \in SUBSET (Slots \ inUse) : inUse' = inUse \cup grab /\ stash' = stash \cup grab
    BY <1>3 DEF WriteBegin
  <2>2. SlotsUsed = inUse \ stash /\ SlotsUsed' = inUse' \ stash'
    BY UsedAreNotStashed, UsedAfterwards
  <2>3. SlotsUsed' = SlotsUsed
    BY <2>1, <2>2 
  <2>4. Slots \ inUse' = (Slots \ inUse) \ grab
    BY <2>1
  <2>5. CASE grab = {}
    BY <2>1, <2>5, PoolUntouched
  <2>6. CASE grab # {}
    BY <2>1, <2>3, <2>4, <2>6 DEF Pool!PoolNext, Pool!Reserve
  <2>. QED BY <2>5, <2>6
<1>4. CASE WriteCopy
  <2>1. PICK s \in stash : stash' = stash \ {s}
    BY <1>4 DEF WriteCopy
  <2>2. inUse' = inUse /\ s \in Slots /\ s \in inUse
    BY <1>1, <1>4, <2>1 DEF WriteCopy, TypeOK, SlotsAreOwned
  <2>3. SlotsUsed = inUse \ stash /\ SlotsUsed' = inUse' \ stash'
    BY UsedAreNotStashed, UsedAfterwards
  <2>4. SlotsUsed' = SlotsUsed \cup {s}
    BY <2>1, <2>2, <2>3
  <2>. QED BY <2>1, <2>2, <2>4 DEF Pool!PoolNext, Pool!Assign
<1>5. CASE WriteAbandon
  <2>1. curSlot \in Slots /\ inUse' = inUse \ {curSlot} /\ stash' = stash
    BY <1>1, <1>5 DEF WriteAbandon, WriterHolds
  <2>2. curSlot \in inUse \ stash
    BY <1>1, <2>1 DEF SlotsAreOwned
  <2>. QED BY <2>1, <2>2, ReleasesSlot DEF Pool!PoolNext
<1>6. CASE WriterStep /\ ~(WriteBegin \/ WriteCopy \/ WriteAbandon)
  <2>1. UNCHANGED <<inUse, stash>>
    BY <1>6 DEF WriterStep, WriteGather, WriteStart, WriteCommit, WriteInsert, WriteUnlock, disk
  <2>. QED BY <2>1, PoolUntouched
<1>7. CASE TrimmerStep
  BY <1>7, TrimmerKeepsSlots, PoolUntouched DEF SlotsKept
<1>8. CASE UNCHANGED vars
  BY <1>8, PoolUntouched DEF vars
<1>. QED BY <1>2, <1>3, <1>4, <1>5, <1>6, <1>7, <1>8 DEF OrderlyNext

\* Trimmer, writer and fault handlers keep to the rules of the pool of slots that
\* the page file implements (DiskSlotsProofs): the page file is never written at a
\* slot that was not reserved, and a slot is freed once, by its last user.
THEOREM ThreadsKeepToThePool == OrderlySpec => UsesSlotPool
<1>1. Init => Pool!PoolInit
  <2>. SUFFICES ASSUME Init PROVE Pool!PoolInit
    OBVIOUS
  <2>1. SlotsUsed = inUse \ stash
    BY InitEstablishes, DataInvInitially, UsedAreNotStashed
  <2>. QED BY <2>1 DEF Init, Pool!PoolInit
<1>2. IndInv /\ DataInv /\ IndInv' /\ DataInv' /\ [OrderlyNext]_vars => [Pool!PoolNext]_(Pool!pool)
  BY PoolStep
<1>. QED BY <1>1, <1>2, DataInvariant, PTL DEF OrderlySpec, UsesSlotPool, Pool!PoolSpec
-----------------------------------------------------------------------------
(* The flat memory.  A page's value is in one frame, or in its slot, or it *)
(* is Zero.                                                                *)

\* Frame f holds the value of page p.
Backs(f, p) == \/ pte[p].fmt \in {"valid", "transition"} /\ pte[p].ref = f
               \/ \E u \in Users : pc[u] = "hardDone" /\ va[u] = p /\ page[u] = f

\* Where the value of a page is.
LEMMA WhereValuesAre ==
    IndInv => \A p \in Ptes :
        /\ \A f : Backs(f, p) => f \in Frames /\ ValueOf(p) = contents[f]
        /\ pte[p].fmt = "disk" /\ ~SlotRead(p) =>
              pte[p].ref \in Slots /\ ValueOf(p) = pagefile[pte[p].ref]
        /\ pte[p].fmt = "zero" /\ ~SlotRead(p) => ValueOf(p) = Zero
<1>. SUFFICES ASSUME IndInv, NEW p \in Ptes
              PROVE  /\ \A f : Backs(f, p) => f \in Frames /\ ValueOf(p) = contents[f]
                     /\ pte[p].fmt = "disk" /\ ~SlotRead(p) =>
                           pte[p].ref \in Slots /\ ValueOf(p) = pagefile[pte[p].ref]
                     /\ pte[p].fmt = "zero" /\ ~SlotRead(p) => ValueOf(p) = Zero
  OBVIOUS
<1>1. PtesNameTheirFrames
  BY DEF IndInv
<1>2. ~SlotRead(p) => Filled(p) = {}
  BY DEF SlotRead, Filled
<1>3. ASSUME NEW u \in Users, pc[u] = "hardDone", va[u] = p
      PROVE  Filled(p) = {u} /\ page[u] \in Frames /\ pte[p].fmt \in {"zero", "disk"}
  <2>1. pteLock[p] = u /\ page[u] \in Frames /\ pte[p].fmt \in {"zero", "disk"}
    BY <1>3, FillingHolds DEF Filling
  <2>2. \A w \in Users : pc[w] = "hardDone" /\ va[w] = p => w = u
    BY <2>1, FillingHolds DEF Filling
  <2>. QED BY <1>3, <2>1, <2>2 DEF Filled
<1>4. ASSUME NEW u \in Users, pc[u] = "hardDone", va[u] = p
      PROVE  ValueOf(p) = contents[page[u]]
  <2>1. Filled(p) = {u}
    BY <1>3, <1>4
  <2>2. Filled(p) # {} /\ (CHOOSE w \in Filled(p) : TRUE) = u
    BY <2>1
  <2>. QED BY <2>2 DEF ValueOf
<1>5. ASSUME pte[p].fmt \in {"valid", "transition"}
      PROVE  ValueOf(p) = contents[pte[p].ref] /\ pte[p].ref \in Frames
  <2>1. ~SlotRead(p)
    BY <1>3, <1>5 DEF SlotRead
  <2>. QED BY <1>1, <1>2, <1>5, <2>1 DEF ValueOf, PtesNameTheirFrames
<1>6. ASSUME NEW f, Backs(f, p) PROVE f \in Frames /\ ValueOf(p) = contents[f]
  BY <1>3, <1>4, <1>5, <1>6 DEF Backs
<1>7. pte[p].fmt = "disk" /\ ~SlotRead(p) =>
          pte[p].ref \in Slots /\ ValueOf(p) = pagefile[pte[p].ref]
  BY <1>1, <1>2 DEF ValueOf, PtesNameTheirFrames
<1>8. pte[p].fmt = "zero" /\ ~SlotRead(p) => ValueOf(p) = Zero
  BY <1>2 DEF ValueOf
<1>. QED BY <1>6, <1>7, <1>8

\* The same after a step.
LEMMA WhereValuesAreNext ==
    IndInv' => \A p \in Ptes :
        /\ \A f : Backs(f, p)' => f \in Frames /\ ValueOf(p)' = contents'[f]
        /\ pte'[p].fmt = "disk" /\ ~SlotRead(p)' =>
              pte'[p].ref \in Slots /\ ValueOf(p)' = pagefile'[pte'[p].ref]
        /\ pte'[p].fmt = "zero" /\ ~SlotRead(p)' => ValueOf(p)' = Zero
<1>1. (IndInv => \A p \in Ptes :
        /\ \A f : Backs(f, p) => f \in Frames /\ ValueOf(p) = contents[f]
        /\ pte[p].fmt = "disk" /\ ~SlotRead(p) =>
              pte[p].ref \in Slots /\ ValueOf(p) = pagefile[pte[p].ref]
        /\ pte[p].fmt = "zero" /\ ~SlotRead(p) => ValueOf(p) = Zero)'
  BY WhereValuesAre, PTL
<1>. QED BY <1>1

\* Every page is in one of those places.
LEMMA ValuesAreSomewhere ==
    ASSUME IndInv, NEW p \in Ptes
    PROVE  \/ \E f \in Frames : Backs(f, p)
           \/ pte[p].fmt \in {"zero", "disk"} /\ ~SlotRead(p)
<1>1. pte[p].fmt \in {"zero", "valid", "transition", "disk"}
  BY DEF IndInv, TypeOK, PteState
<1>2. CASE SlotRead(p)
  BY <1>2, FillingHolds DEF SlotRead, Filling, Backs
<1>3. CASE pte[p].fmt \in {"valid", "transition"}
  BY <1>3 DEF Backs, IndInv, PtesNameTheirFrames
<1>. QED BY <1>1, <1>2, <1>3

\* No frame holds the values of two pages.
LEMMA FramesBackOnePage ==
    ASSUME IndInv, NEW p \in Ptes, NEW q \in Ptes, NEW f, Backs(f, p), Backs(f, q)
    PROVE  p = q
<1>1. PtesNameTheirFrames
  BY DEF IndInv
<1>2. ASSUME NEW u \in Users, pc[u] = "hardDone"
      PROVE  pfn[page[u]].status = "FREE" /\ pfnLock[page[u]] = u
  BY <1>2, FillingHolds DEF Filling
<1>. QED BY <1>1, <1>2 DEF Backs, PtesNameTheirFrames

\* A page keeps its value if its frame does.
LEMMA FrameKeepsValue ==
    ASSUME IndInv, IndInv', NEW p \in Ptes, NEW f \in Frames, Backs(f, p), Backs(f, p)',
           contents'[f] = contents[f]
    PROVE  ValueOf(p)' = ValueOf(p)
  BY WhereValuesAre, WhereValuesAreNext

\* A page that is in no frame keeps its value if its PTE and its slot do.
LEMMA SlotKeepsValue ==
    ASSUME IndInv, IndInv', NEW p \in Ptes, pte'[p] = pte[p],
           pte[p].fmt \in {"zero", "disk"}, ~SlotRead(p), ~SlotRead(p)',
           \A s \in Slots : PteOwns(p, s) => pagefile'[s] = pagefile[s]
    PROVE  ValueOf(p)' = ValueOf(p)
<1>1. CASE pte[p].fmt = "zero"
  BY <1>1, WhereValuesAre, WhereValuesAreNext
<1>2. CASE pte[p].fmt = "disk"
  BY <1>2, WhereValuesAre, WhereValuesAreNext DEF PteOwns
<1>. QED BY <1>1, <1>2

\* Pages keep their values while no hard fault is at its end, the frames do not
\* change, and PTEs only go from valid to transition or back.
LEMMA ValuesStay ==
    ASSUME IndInv, IndInv', UNCHANGED contents,
           \A p \in Ptes : \/ pte'[p] = pte[p]
                           \/ /\ {pte[p].fmt, pte'[p].fmt} \subseteq {"valid", "transition"}
                              /\ pte'[p].ref = pte[p].ref,
           \A w \in Users : pc'[w] = "hardDone" <=> pc[w] = "hardDone",
           \A w \in Users : pc[w] = "hardDone" => va'[w] = va[w] /\ page'[w] = page[w],
           \A p \in Ptes, s \in Slots : PteOwns(p, s) => pagefile'[s] = pagefile[s]
    PROVE  PageValues' = PageValues
<1>1. \A p \in Ptes : SlotRead(p)' <=> SlotRead(p)
  BY DEF SlotRead
<1>2. \A f \in Frames, p \in Ptes : Backs(f, p) => Backs(f, p)'
  BY DEF Backs
<1>3. ASSUME NEW p \in Ptes PROVE ValueOf(p)' = ValueOf(p)
  <2>1. CASE \E f \in Frames : Backs(f, p)
    BY <1>2, <2>1, FrameKeepsValue
  <2>2. CASE pte[p].fmt \in {"zero", "disk"} /\ ~SlotRead(p)
    BY <1>1, <2>2, SlotKeepsValue
  <2>. QED BY <2>1, <2>2, ValuesAreSomewhere
<1>. QED BY <1>3 DEF PageValues

\* Windows open and close only where a thread begins or ends a fill.
LEMMA WindowStays ==
    ASSUME \A w \in Users : pc'[w] = "hardFill" <=> pc[w] = "hardFill",
           \A w \in Users : pc[w] = "hardFill" => va'[w] = va[w]
    PROVE  FillWindow' = FillWindow
  BY DEF FillWindow

\* The steps of a user thread that touch no page's value and no window.
LEMMA QuietUserStep ==
    ASSUME IndInv, IndInv', NEW u \in Users,
           \/ Fault(u) \/ Dispatch(u) \/ SoftLockPte(u) \/ SoftLockPfn(u) \/ SoftUnlist(u)
           \/ SoftMap(u) \/ SoftDone(u) \/ TakeCached(u) \/ RefillCache(u) \/ RefillFails(u)
           \/ StealBegin(u) \/ StealFails(u) \/ HardGiveBack(u)
    PROVE  UNCHANGED VM!vmVars
<1>1. TypeOK
  BY DEF IndInv
<1>2. UNCHANGED <<va, contents, pagefile>>
  <2>1. CASE Fault(u) \/ Dispatch(u) \/ SoftLockPte(u) \/ SoftLockPfn(u) \/ SoftUnlist(u)
    BY <2>1 DEF Fault, Dispatch, SoftLockPte, SoftLockPfn, SoftUnlist, memory
  <2>2. CASE SoftMap(u) \/ SoftDone(u) \/ TakeCached(u) \/ RefillCache(u) \/ RefillFails(u)
    BY <2>2 DEF SoftMap, SoftDone, TakeCached, RefillCache, RefillFails, memory, user
  <2>3. CASE StealBegin(u) \/ StealFails(u) \/ HardGiveBack(u)
    BY <2>3 DEF StealBegin, StealFails, HardGiveBack, memory
  <2>. QED BY <2>1, <2>2, <2>3
<1>3. /\ \A w \in Users : pc'[w] = "hardDone" <=> pc[w] = "hardDone"
      /\ \A w \in Users : pc'[w] = "hardFill" <=> pc[w] = "hardFill"
      /\ \A w \in Users : pc[w] = "hardDone" => page'[w] = page[w]
  <2>1. CASE Fault(u) \/ Dispatch(u) \/ SoftLockPte(u) \/ SoftLockPfn(u) \/ SoftUnlist(u)
    BY <1>1, <2>1 DEF Fault, Dispatch, SoftLockPte, SoftLockPfn, SoftUnlist, TypeOK
  <2>2. CASE SoftMap(u) \/ SoftDone(u) \/ TakeCached(u) \/ RefillCache(u) \/ RefillFails(u)
    BY <1>1, <2>2 DEF SoftMap, SoftDone, TakeCached, RefillCache, RefillFails, TypeOK, user
  <2>3. CASE StealBegin(u) \/ StealFails(u) \/ HardGiveBack(u)
    BY <1>1, <2>3 DEF StealBegin, StealFails, HardGiveBack, TypeOK
  <2>. QED BY <2>1, <2>2, <2>3
<1>4. \A p \in Ptes : \/ pte'[p] = pte[p]
                      \/ /\ {pte[p].fmt, pte'[p].fmt} \subseteq {"valid", "transition"}
                         /\ pte'[p].ref = pte[p].ref
  <2>1. CASE SoftDone(u)
    <3>1. pc[u] \in SoftLocked /\ pte' = [pte EXCEPT ![va[u]] = ValidPte(pte[va[u]].ref)]
      BY <2>1 DEF SoftDone, SoftLocked
    <3>2. va[u] \in Ptes /\ pte[va[u]] = TransitionPte(page[u])
      BY <3>1, SoftLockedHolds
    <3>3. pte[va[u]].fmt = "transition"
      BY <3>2 DEF TransitionPte
    <3>. QED BY <1>1, <3>1, <3>2, <3>3 DEF TypeOK, ValidPte
  <2>2. CASE ~SoftDone(u)
    BY <2>2 DEF Fault, Dispatch, SoftLockPte, SoftLockPfn, SoftUnlist, SoftMap, TakeCached,
                RefillCache, RefillFails, StealBegin, StealFails, HardGiveBack, tables
  <2>. QED BY <2>1, <2>2
<1>5. PageValues' = PageValues
  BY <1>2, <1>3, <1>4, ValuesStay
<1>6. FillWindow' = FillWindow
  BY <1>2, <1>3, WindowStays
<1>. QED BY <1>2, <1>5, <1>6 DEF VM!vmVars

\* The thread picks an address.
LEMMA RequestStep ==
    ASSUME IndInv, IndInv', IdleHasNoPage, NEW u \in Users, Request(u)
    PROVE  VM!Request(u)
<1>1. TypeOK
  BY DEF IndInv
<1>2. /\ UNCHANGED <<pte, contents, pagefile, page>> /\ va[u] = Nil
      /\ \A w \in Users : w # u => pc'[w] = pc[w] /\ va'[w] = va[w]
      /\ pc[u] = "idle" /\ pc'[u] = "run"
  BY <1>1 DEF Request, TypeOK, tables, memory, IdleHasNoPage
<1>3. PageValues' = PageValues
  BY <1>2, ValuesStay
<1>4. FillWindow' = FillWindow
  BY <1>2, WindowStays
<1>. QED BY <1>2, <1>3, <1>4 DEF VM!Request, Request

\* A store changes the page it is meant for, unless that page is in its window,
\* and no other page.
LEMMA StoreStep ==
    ASSUME IndInv, IndInv', NEW u \in Users, Store(u)
    PROVE  VM!Store(u) \/ VM!StoreLost(u)
<1>1. TypeOK
  BY DEF IndInv
<1>2. /\ va[u] \in Ptes /\ mapped[va[u]] # Nil /\ pc[u] = "run" /\ MappingMatches(va[u])
  BY DEF Store, IndInv, UsersHold, UserHolds, FaultsOnPte, MappingMatchesPte
<1>3. PICK p \in Ptes, f \in Frames : p = va[u] /\ f = mapped[p] /\ MappingMatches(p)
  BY <1>1, <1>2 DEF TypeOK
<1>4. PICK v \in Vals : contents' = [contents EXCEPT ![f] = v]
  BY <1>3 DEF Store
<1>5. contents'[f] = v /\ \A g \in Frames : g # f => contents'[g] = contents[g]
  BY <1>1, <1>4 DEF TypeOK
<1>6. /\ UNCHANGED <<pte, pagefile, page>> /\ va' = [va EXCEPT ![u] = Nil]
      /\ pc'[u] = "idle" /\ \A w \in Users : w # u => pc'[w] = pc[w] /\ va'[w] = va[w]
  BY <1>1 DEF Store, tables, TypeOK
<1>7. FillWindow' = FillWindow
  BY <1>2, <1>6, WindowStays
<1>8. \A g \in Frames, q \in Ptes : Backs(g, q) => Backs(g, q)'
  BY <1>2, <1>6 DEF Backs
<1>9. \A q \in Ptes : SlotRead(q)' <=> SlotRead(q)
  BY <1>2, <1>6 DEF SlotRead
<1>10. Backs(f, p) \/ \E w \in Users : pc[w] = "hardFill" /\ va[w] = p /\ page[w] = f
  BY <1>2, <1>3 DEF MappingMatches, Backs, ValidPte, TransitionPte, Filling
<1>11. ASSUME NEW q \in Ptes, ~Backs(f, q) PROVE ValueOf(q)' = ValueOf(q)
  <2>1. CASE \E g \in Frames : Backs(g, q)
    BY <1>5, <1>8, <1>11, <2>1, FrameKeepsValue
  <2>2. CASE pte[q].fmt \in {"zero", "disk"} /\ ~SlotRead(q)
    BY <1>6, <1>9, <2>2, SlotKeepsValue
  <2>. QED BY <2>1, <2>2, ValuesAreSomewhere
<1>12. CASE p \notin FillWindow
  <2>1. Backs(f, p)
    BY <1>10, <1>12 DEF FillWindow
  <2>2. ValueOf(p)' = v
    BY <1>5, <1>8, <2>1, WhereValuesAreNext
  <2>3. \A q \in Ptes : q # p => ValueOf(q)' = ValueOf(q)
    BY <1>11, <2>1, FramesBackOnePage
  <2>4. PageValues' = [PageValues EXCEPT ![p] = v]
    BY <2>2, <2>3 DEF PageValues
  <2>. QED BY <1>3, <1>6, <1>7, <1>12, <2>4 DEF VM!Store
<1>13. CASE p \in FillWindow
  <2>1. PICK w \in Users : pc[w] = "hardFill" /\ va[w] = p
    BY <1>13 DEF FillWindow
  <2>2. /\ pteLock[p] = w /\ pte[p].fmt \in {"zero", "disk"} /\ page[w] = f
        /\ pfn[f].status = "FREE" /\ pfnLock[f] = w
    BY <1>3, <2>1, FillingHolds DEF Filling
  <2>3. ASSUME NEW q \in Ptes PROVE ~Backs(f, q)
    <3>1. ~(pte[q].fmt \in {"valid", "transition"} /\ pte[q].ref = f)
      BY <2>2 DEF IndInv, PtesNameTheirFrames
    <3>2. \A z \in Users : ~(pc[z] = "hardDone" /\ page[z] = f)
      BY <2>1, <2>2, FillingHolds DEF Filling
    <3>. QED BY <3>1, <3>2 DEF Backs
  <2>4. PageValues' = PageValues
    BY <1>11, <2>3 DEF PageValues
  <2>. QED BY <1>3, <1>6, <1>7, <1>13, <2>4 DEF VM!StoreLost
<1>. QED BY <1>12, <1>13

\* Mapping the page opens the window.
LEMMA OpenStep ==
    ASSUME IndInv, IndInv', NEW u \in Users, HardLockPte(u)
    PROVE  VM!OpenWindow(u)
<1>1. TypeOK
  BY DEF IndInv
<1>2. va[u] \in Ptes
  BY DEF HardLockPte, InHandler, IndInv, UsersHold, UserHolds, FaultsOnPte
<1>3. /\ UNCHANGED <<pte, contents, pagefile, page, va>>
      /\ \A w \in Users : w # u => pc'[w] = pc[w]
      /\ pc[u] = "hardLockPte" /\ pc'[u] = "hardFill" /\ pteLock[va[u]] = Nil
  BY <1>1 DEF HardLockPte, TypeOK, NeedsPage
<1>4. PageValues' = PageValues
  BY <1>3, ValuesStay
<1>5. FillWindow' = FillWindow \cup {va[u]}
  BY <1>3 DEF FillWindow
<1>6. va[u] \notin FillWindow
  BY <1>3, FillingHolds, DistinctAssumption DEF FillWindow, Filling
<1>. QED BY <1>2, <1>3, <1>4, <1>5, <1>6 DEF VM!OpenWindow

\* Filling it closes the window; the page's value moves to the frame.
LEMMA CloseStep ==
    ASSUME IndInv, IndInv', NEW u \in Users, HardFill(u)
    PROVE  VM!CloseWindow(u)
<1>1. TypeOK
  BY DEF IndInv
<1>0. PICK p, f : p = va[u] /\ f = page[u]
  OBVIOUS
<1>2. /\ p \in Ptes /\ f \in Frames /\ pc[u] = "hardFill" /\ pteLock[p] = u /\ pfnLock[f] = u
      /\ pte[p].fmt \in {"zero", "disk"} /\ pfn[f].status = "FREE" /\ ~SlotRead(p)
  BY <1>0, FillingHolds, FillOwns DEF HardFill, Filling
<1>3. /\ UNCHANGED <<pte, pagefile, page, va>>
      /\ \A w \in Users : w # u => pc'[w] = pc[w]
      /\ pc'[u] = "hardDone"
      /\ \A g \in Frames : g # f => contents'[g] = contents[g]
  BY <1>0, <1>1 DEF HardFill, TypeOK, tables
<1>4. contents'[f] = IF pte[p].fmt = "disk" THEN pagefile[pte[p].ref] ELSE Zero
  BY <1>0, <1>1, <1>2 DEF HardFill, TypeOK
<1>5. ValueOf(p)' = ValueOf(p)
  <2>1. Backs(f, p)'
    BY <1>0, <1>2, <1>3 DEF Backs
  <2>2. ValueOf(p)' = contents'[f]
    BY <1>2, <2>1, WhereValuesAreNext
  <2>. QED BY <1>2, <1>4, <2>2, WhereValuesAre
<1>6. ASSUME NEW q \in Ptes, q # p PROVE ValueOf(q)' = ValueOf(q)
  <2>1. CASE \E g \in Frames : Backs(g, q)
    <3>1. PICK g \in Frames : Backs(g, q)
      BY <2>1
    <3>2. Backs(g, q)'
      BY <1>0, <1>2, <1>3, <3>1 DEF Backs
    <3>3. g # f
      <4>1. pte[q].fmt \in {"valid", "transition"} => pte[q].ref # f
        BY <1>2 DEF IndInv, PtesNameTheirFrames
      <4>2. \A z \in Users : pc[z] = "hardDone" => page[z] # f
        BY <1>2, FillingHolds DEF Filling
      <4>. QED BY <3>1, <4>1, <4>2 DEF Backs
    <3>. QED BY <1>3, <3>1, <3>2, <3>3, FrameKeepsValue
  <2>2. CASE pte[q].fmt \in {"zero", "disk"} /\ ~SlotRead(q)
    <3>1. ~SlotRead(q)'
      BY <1>0, <1>3, <1>6, <2>2 DEF SlotRead
    <3>. QED BY <1>3, <2>2, <3>1, SlotKeepsValue
  <2>. QED BY <2>1, <2>2, ValuesAreSomewhere
<1>7. PageValues' = PageValues
  BY <1>5, <1>6 DEF PageValues
<1>8. \A w \in Users : pc[w] = "hardFill" /\ va[w] = p => w = u
  BY <1>2, FillingHolds DEF Filling
<1>9. FillWindow' = FillWindow \ {p} /\ p \in FillWindow
  BY <1>0, <1>2, <1>3, <1>8 DEF FillWindow
<1>. QED BY <1>0, <1>3, <1>7, <1>9 DEF VM!CloseWindow

\* A filled page becomes valid in the frame it was filled in.
LEMMA FillEndStep ==
    ASSUME IndInv, IndInv', NEW u \in Users, HardDone(u)
    PROVE  UNCHANGED VM!vmVars
<1>1. TypeOK
  BY DEF IndInv
<1>0. PICK p, f : p = va[u] /\ f = page[u]
  OBVIOUS
<1>2. p \in Ptes /\ f \in Frames /\ pc[u] = "hardDone" /\ pteLock[p] = u
  BY <1>0, FillingHolds DEF HardDone, Filling
<1>3. /\ UNCHANGED <<contents, pagefile, va>>
      /\ \A w \in Users : w # u => pc'[w] = pc[w] /\ page'[w] = page[w]
      /\ pc'[u] = "run"
      /\ pte'[p] = ValidPte(f) /\ \A q \in Ptes : q # p => pte'[q] = pte[q]
  BY <1>0, <1>1, <1>2 DEF HardDone, TypeOK, memory
<1>4. ValueOf(p)' = ValueOf(p)
  <2>1. Backs(f, p) /\ Backs(f, p)'
    BY <1>0, <1>2, <1>3 DEF Backs, ValidPte
  <2>. QED BY <1>2, <1>3, <2>1, FrameKeepsValue
<1>5. ASSUME NEW q \in Ptes, q # p PROVE ValueOf(q)' = ValueOf(q)
  <2>1. CASE \E g \in Frames : Backs(g, q)
    <3>1. PICK g \in Frames : Backs(g, q)
      BY <2>1
    <3>2. Backs(g, q)'
      BY <1>0, <1>3, <1>5, <3>1 DEF Backs
    <3>. QED BY <1>3, <3>1, <3>2, FrameKeepsValue
  <2>2. CASE pte[q].fmt \in {"zero", "disk"} /\ ~SlotRead(q)
    <3>1. ~SlotRead(q)'
      BY <1>0, <1>3, <1>5, <2>2 DEF SlotRead
    <3>. QED BY <1>3, <1>5, <2>2, <3>1, SlotKeepsValue
  <2>. QED BY <2>1, <2>2, ValuesAreSomewhere
<1>6. PageValues' = PageValues
  BY <1>4, <1>5 DEF PageValues
<1>7. FillWindow' = FillWindow
  BY <1>2, <1>3, WindowStays
<1>. QED BY <1>3, <1>6, <1>7 DEF VM!vmVars

\* A stolen page's value is in the slot that its PTE names from then on.
LEMMA StealStep ==
    ASSUME IndInv, IndInv', SlotsHoldPages, NEW u \in Users, StealPage(u)
    PROVE  UNCHANGED VM!vmVars
<1>1. TypeOK
  BY DEF IndInv
<1>2. PICK f \in batch[u] :
          /\ pte' = [pte EXCEPT ![pfn[f].pte] = DiskPte(pfn[f].slot)]
          /\ pfn' = [pfn EXCEPT ![f] = PfnFree]
          /\ pc' = [pc EXCEPT ![u] = IF batch[u] = {f} THEN "hard" ELSE @]
  BY DEF StealPage
<1>0. PICK p, s : p = pfn[f].pte /\ s = pfn[f].slot
  OBVIOUS
<1>3. UNCHANGED <<contents, pagefile, va, page>> /\ pc[u] = "stealing"
  BY DEF StealPage, memory
<1>4. f \in Frames /\ p \in Ptes /\ s \in Slots /\ pte[p] = TransitionPte(f)
  BY <1>0, StealingHolds
<1>5. PfnOwns(f, s)
  BY <1>0, <1>2, <1>3, StealOwns
<1>6. pagefile[s] = contents[f]
  BY <1>4, <1>5 DEF SlotsHoldPages
<1>7. pte'[p] = DiskPte(s) /\ \A q \in Ptes : q # p => pte'[q] = pte[q]
  BY <1>0, <1>1, <1>2, <1>4 DEF TypeOK
<1>8. /\ \A w \in Users : pc'[w] = "hardDone" <=> pc[w] = "hardDone"
      /\ \A w \in Users : pc'[w] = "hardFill" <=> pc[w] = "hardFill"
  BY <1>1, <1>2, <1>3 DEF TypeOK
<1>9. \A q \in Ptes : SlotRead(q)' <=> SlotRead(q)
  BY <1>3, <1>8 DEF SlotRead
<1>10. ValueOf(p)' = ValueOf(p)
  <2>1. Backs(f, p) /\ pte[p].fmt = "transition"
    BY <1>4 DEF Backs, TransitionPte
  <2>2. ~SlotRead(p)
    BY <2>1, FillingHolds DEF SlotRead, Filling
  <2>3. ValueOf(p) = contents[f]
    BY <1>4, <2>1, WhereValuesAre
  <2>4. ValueOf(p)' = pagefile'[s]
    BY <1>4, <1>7, <1>9, <2>2, WhereValuesAreNext DEF DiskPte
  <2>. QED BY <1>3, <1>6, <2>3, <2>4
<1>11. ASSUME NEW q \in Ptes, q # p PROVE ValueOf(q)' = ValueOf(q)
  <2>1. CASE \E g \in Frames : Backs(g, q)
    <3>1. PICK g \in Frames : Backs(g, q)
      BY <2>1
    <3>2. Backs(g, q)'
      BY <1>3, <1>7, <1>8, <1>11, <3>1 DEF Backs
    <3>. QED BY <1>3, <3>1, <3>2, FrameKeepsValue
  <2>2. CASE pte[q].fmt \in {"zero", "disk"} /\ ~SlotRead(q)
    BY <1>3, <1>7, <1>9, <1>11, <2>2, SlotKeepsValue
  <2>. QED BY <2>1, <2>2, ValuesAreSomewhere
<1>12. PageValues' = PageValues
  BY <1>10, <1>11 DEF PageValues
<1>13. FillWindow' = FillWindow
  BY <1>3, <1>8, WindowStays
<1>. QED BY <1>3, <1>12, <1>13 DEF VM!vmVars

\* The trimmer moves no page's value.
LEMMA QuietTrimmerStep ==
    ASSUME IndInv, IndInv', TrimmerStep
    PROVE  UNCHANGED VM!vmVars
<1>1. TypeOK /\ TrimmerHolds
  BY DEF IndInv
<1>2. UNCHANGED <<contents, pagefile, user>>
  BY DEF TrimmerStep, TrimPick, TrimLockPte, TrimLockPfn, TrimUnmap, TrimInsert, TrimUnlock,
         memory
<1>3. \A p \in Ptes : \/ pte'[p] = pte[p]
                      \/ /\ {pte[p].fmt, pte'[p].fmt} \subseteq {"valid", "transition"}
                         /\ pte'[p].ref = pte[p].ref
  <2>1. CASE TrimLockPfn
    <3>1. trimPte \in Ptes /\ pte[trimPte].fmt = "valid"
      BY <1>1, <2>1 DEF TrimLockPfn, TrimmerHolds
    <3>. QED BY <1>1, <2>1, <3>1 DEF TrimLockPfn, TransitionPte, TypeOK
  <2>2. CASE ~TrimLockPfn
    BY <2>2 DEF TrimmerStep, TrimPick, TrimLockPte, TrimUnmap, TrimInsert, TrimUnlock, tables
  <2>. QED BY <2>1, <2>2
<1>4. PageValues' = PageValues
  BY <1>2, <1>3, ValuesStay DEF user
<1>5. FillWindow' = FillWindow
  BY <1>2, WindowStays DEF user
<1>. QED BY <1>2, <1>4, <1>5 DEF VM!vmVars, user

\* The writer writes to slots that no page on disk is in.
LEMMA QuietWriterStep ==
    ASSUME IndInv, IndInv', SlotsAreOwned, WriterStep
    PROVE  UNCHANGED VM!vmVars
<1>1. TypeOK
  BY DEF IndInv
<1>2. UNCHANGED <<contents, pte, user>>
  BY DEF WriterStep, WriteBegin, WriteGather, WriteStart, WriteCopy, WriteCommit,
         WriteAbandon, WriteInsert, WriteUnlock, memory, tables
<1>3. \A p \in Ptes, s \in Slots : PteOwns(p, s) => pagefile'[s] = pagefile[s]
  <2>1. CASE WriteCopy
    <3>1. PICK t \in stash : pagefile' = [pagefile EXCEPT ![t] = contents[Head(writeBatch)]]
      BY <2>1 DEF WriteCopy
    <3>2. \A s \in Slots : s # t => pagefile'[s] = pagefile[s]
      BY <1>1, <3>1 DEF TypeOK
    <3>3. \A p \in Ptes : ~PteOwns(p, t)
      BY <1>1, <3>1 DEF SlotsAreOwned, TypeOK
    <3>. QED BY <3>2, <3>3
  <2>2. CASE ~WriteCopy
    BY <2>2 DEF WriterStep, WriteBegin, WriteGather, WriteStart, WriteCommit,
                WriteAbandon, WriteInsert, WriteUnlock, memory
  <2>. QED BY <2>1, <2>2
<1>4. PageValues' = PageValues
  BY <1>2, <1>3, ValuesStay DEF user
<1>5. FillWindow' = FillWindow
  BY <1>2, WindowStays DEF user
<1>. QED BY <1>2, <1>4, <1>5 DEF VM!vmVars, user

\* A thread between two accesses waits for no page.
LEMMA IdleStays == IdleHasNoPage /\ IndInv /\ [OrderlyNext]_vars => IdleHasNoPage'
<1>. SUFFICES ASSUME IdleHasNoPage, IndInv, [OrderlyNext]_vars PROVE IdleHasNoPage'
  OBVIOUS
<1>1. TypeOK
  BY DEF IndInv
<1>2. ASSUME NEW u \in Users, UserStep(u) PROVE IdleHasNoPage'
  <2>1. CASE Request(u) \/ Store(u)
    BY <1>1, <2>1 DEF Request, Store, TypeOK, IdleHasNoPage
  <2>2. CASE ~(Request(u) \/ Store(u))
    <3>1. va' = va /\ \A w \in Users : pc'[w] = "idle" => pc[w] = "idle"
      <4>1. CASE Fault(u) \/ Dispatch(u) \/ SoftLockPte(u) \/ SoftLockPfn(u) \/ SoftUnlist(u)
        BY <1>1, <4>1 DEF Fault, Dispatch, SoftLockPte, SoftLockPfn, SoftUnlist, TypeOK
      <4>2. CASE SoftMap(u) \/ SoftDone(u) \/ TakeCached(u) \/ RefillCache(u) \/ RefillFails(u)
        BY <1>1, <4>2 DEF SoftMap, SoftDone, TakeCached, RefillCache, RefillFails, TypeOK, user
      <4>3. CASE StealBegin(u) \/ StealFails(u) \/ StealPage(u) \/ HardGiveBack(u)
        BY <1>1, <4>3 DEF StealBegin, StealFails, StealPage, HardGiveBack, TypeOK
      <4>4. CASE HardLockPte(u) \/ HardFill(u) \/ HardDone(u)
        BY <1>1, <4>4 DEF HardLockPte, HardFill, HardDone, TypeOK
      <4>. QED BY <1>2, <2>2, <4>1, <4>2, <4>3, <4>4 DEF UserStep
    <3>. QED BY <3>1 DEF IdleHasNoPage
  <2>. QED BY <2>1, <2>2
<1>3. CASE TrimmerStep \/ WriterStep \/ UNCHANGED vars
  <2>1. UNCHANGED <<pc, va>>
    BY <1>3 DEF TrimmerStep, TrimPick, TrimLockPte, TrimLockPfn, TrimUnmap, TrimInsert,
       TrimUnlock, WriterStep, WriteBegin, WriteGather, WriteStart, WriteCopy, WriteCommit,
       WriteAbandon, WriteInsert, WriteUnlock, user, vars
  <2>. QED BY <2>1 DEF IdleHasNoPage
<1>. QED BY <1>2, <1>3 DEF OrderlyNext

\* Each step of the manager is a step of the flat memory or leaves it alone.
LEMMA MemoryStep ==
    ASSUME IndInv, DataInv, IdleHasNoPage, IndInv', [OrderlyNext]_vars
    PROVE  VM!Next \/ UNCHANGED VM!vmVars
<1>1. SlotsAreOwned /\ SlotsHoldPages
  BY DEF DataInv
<1>2. ASSUME NEW u \in Users, UserStep(u) PROVE VM!Next \/ UNCHANGED VM!vmVars
  <2>1. CASE Request(u)
    BY <2>1, RequestStep DEF VM!Next
  <2>2. CASE Store(u)
    BY <2>2, StoreStep DEF VM!Next
  <2>3. CASE HardLockPte(u)
    BY <2>3, OpenStep DEF VM!Next
  <2>4. CASE HardFill(u)
    BY <2>4, CloseStep DEF VM!Next
  <2>5. CASE HardDone(u)
    BY <2>5, FillEndStep
  <2>6. CASE StealPage(u)
    BY <1>1, <2>6, StealStep
  <2>. QED BY <1>2, <2>1, <2>2, <2>3, <2>4, <2>5, <2>6, QuietUserStep DEF UserStep
<1>3. CASE TrimmerStep
  BY <1>3, QuietTrimmerStep
<1>4. CASE WriterStep
  BY <1>1, <1>4, QuietWriterStep
<1>5. CASE UNCHANGED vars
  BY <1>5 DEF vars, VM!vmVars, PageValues, ValueOf, Filled, FillWindow
<1>. QED BY <1>2, <1>3, <1>4, <1>5 DEF OrderlyNext

\* User threads see one flat memory, larger than the machine's: every store is seen
\* by all later accesses to its page (unless it fell into the window in which the
\* page is mapped and not yet filled), and trimming, writing, stealing and faulting
\* change no page.
THEOREM ManagerIsAFlatMemory == OrderlySpec => ImplementsVirtualMemory
<1>1. Init => IdleHasNoPage /\ VM!Init
  <2>. SUFFICES ASSUME Init PROVE IdleHasNoPage /\ VM!Init
    OBVIOUS
  <2>1. IdleHasNoPage
    BY DEF Init, IdleHasNoPage
  <2>2. FillWindow = {}
    BY DEF Init, FillWindow
  <2>3. \A p \in Ptes : ~SlotRead(p) /\ pte[p].fmt = "zero"
    BY DEF Init, SlotRead, ZeroPte
  <2>4. \A p \in Ptes : ValueOf(p) = Zero
    BY <2>3, InitEstablishes, WhereValuesAre
  <2>. QED BY <2>1, <2>2, <2>4 DEF Init, VM!Init, PageValues
<1>2. IdleHasNoPage /\ IndInv /\ [OrderlyNext]_vars => IdleHasNoPage'
  BY IdleStays
<1>3. IndInv /\ DataInv /\ IdleHasNoPage /\ IndInv' /\ [OrderlyNext]_vars => [VM!Next]_(VM!vmVars)
  BY MemoryStep
<1>. QED BY <1>1, <1>2, <1>3, DataInvariant, PTL DEF OrderlySpec, ImplementsVirtualMemory, VM!Spec
=============================================================================
