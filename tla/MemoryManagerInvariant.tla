----------------------- MODULE MemoryManagerInvariant -----------------------
(***************************************************************************)
(* The inductive invariants of MemoryManager, in two layers.  IndInv says  *)
(* who refers to whom (PTEs and PFNs refer to each other), who holds which *)
(* lock at which program point, and what the holder may rely on while it   *)
(* holds it.  DataInv rests on it: who owns each slot, where each page is, *)
(* and which slot holds the data of which page.                            *)
(***************************************************************************)
EXTENDS MemoryManager

InHandler  == {"fault", "soft", "softLockPfn", "softUnlist", "softMap", "softDone",
               "hard", "steal", "stealing", "hardLockPte", "hardFill", "hardDone"}
Filling    == {"hardFill", "hardDone"}

\* A PTE that names a frame is named back by the frame's PFN, which is active
\* if the PTE is valid; a PTE on disk names a slot.
PtesNameTheirFrames ==
    \A p \in Ptes :
        /\ pte[p].fmt \in {"valid", "transition"} =>
              /\ pte[p].ref \in Frames
              /\ pfn[pte[p].ref].pte = p
              /\ pfn[pte[p].ref].status # "FREE"
        /\ pte[p].fmt = "valid" => pfn[pte[p].ref].status = "ACTIVE"
        /\ pte[p].fmt = "disk" => pte[p].ref \in Slots

\* A PFN in use names a PTE that names it back; a standby PFN names a slot.
PfnsNameTheirPtes ==
    \A f \in Frames :
        /\ pfn[f].status # "FREE" =>
              /\ pfn[f].pte \in Ptes
              /\ pte[pfn[f].pte].fmt \in {"valid", "transition"}
              /\ pte[pfn[f].pte].ref = f
        /\ pfn[f].status = "STANDBY" => pfn[f].slot \in Slots

\* Pages of free lists and caches are free, unlocked, and in one place only.
FreePagesAreFree ==
    /\ \A f \in free : pfn[f].status = "FREE" /\ pfnLock[f] = Nil
    /\ \A u \in Users : \A f \in cache[u] :
          /\ pfn[f].status = "FREE"
          /\ pfnLock[f] = Nil
          /\ f \notin free
          /\ \A w \in Users : f \in cache[w] => w = u

\* Every free page is on a free list, in a cache, or in a hard fault's hands.
NoFreePageIsLost ==
    \A f \in Frames : pfn[f].status = "FREE" =>
        \/ f \in free
        \/ \E u \in Users : f \in cache[u]
        \/ \E u \in Users : pc[u] \in HardHeld /\ page[u] = f

\* A page is on the list that its status names, if on any.
ListsMatchStatus ==
    /\ \A f \in modified : pfn[f].status = "MODIFIED"
    /\ \A f \in standby : pfn[f].status = "STANDBY"

\* A thread in the handler works on the address it faulted on.
FaultsOnPte(u) == pc[u] \in InHandler \cup {"run"} => va[u] \in Ptes

\* A soft fault holds its PTE while it waits for the PFN, then both; the page it
\* waits for can leave only for the disk, and the page it holds not at all.
SoftFaultHolds(u) ==
    /\ pc[u] = "softLockPfn" =>
          /\ page[u] \in Frames
          /\ pteLock[va[u]] = u
          /\ \/ pte[va[u]] = TransitionPte(page[u])
             \/ pte[va[u]].fmt = "disk"
    /\ pc[u] \in SoftLocked =>
          /\ page[u] \in Frames
          /\ pteLock[va[u]] = u
          /\ pfnLock[page[u]] = u
          /\ pte[va[u]] = TransitionPte(page[u])
          /\ pfn[page[u]].status \in {"MODIFIED", "MID_WRITE", "STANDBY"}
    /\ pc[u] \in {"softMap", "softDone"} => page[u] \notin modified \cup standby
    /\ pc[u] = "softDone" => mapped[va[u]] = page[u]

\* A hard fault holds a free page, then also the PTE it fills it for.
HardFaultHolds(u) ==
    /\ pc[u] \in HardHeld =>
          /\ page[u] \in Frames
          /\ pfnLock[page[u]] = u
          /\ pfn[page[u]].status = "FREE"
    /\ pc[u] \in Filling =>
          /\ pteLock[va[u]] = u
          /\ pte[va[u]].fmt \in {"zero", "disk"}
          /\ mapped[va[u]] = page[u]

\* The standby pages a thread has taken are locked by it.
StealHolds(u) ==
    /\ batch[u] # {} => pc[u] = "stealing"
    /\ \A f \in batch[u] : /\ pfnLock[f] = u
                           /\ pfn[f].status = "STANDBY"
                           /\ f \notin standby

UserHolds(u) == FaultsOnPte(u) /\ SoftFaultHolds(u) /\ HardFaultHolds(u) /\ StealHolds(u)

UsersHold == \A u \in Users : UserHolds(u)

\* What the trimmer holds.  The PTE it looked at stays valid: nobody else takes a
\* PTE out of valid format.  Its pages stay locked, first still active under a
\* transition PTE, then on the modified list.
TrimmerHolds ==
    /\ tpc \in {"lockPte", "lockPfn"} => trimPte \in Ptes /\ pte[trimPte].fmt = "valid"
    /\ tpc = "lockPfn" => pteLock[trimPte] = Trimmer /\ trimPage = pte[trimPte].ref
    /\ \A t \in trimBatch :
          /\ pfnLock[t.page] = Trimmer
          /\ pte[t.va] = TransitionPte(t.page)
          /\ pfn[t.page].status = IF tpc = "unlock" THEN "MODIFIED" ELSE "ACTIVE"

\* A page that is in transition and still active is one that the trimmer has
\* locked: whoever gets its lock finds it on its way to the disk.
ActiveInTransitionIsTrimmed ==
    \A p \in Ptes :
        pte[p].fmt = "transition" /\ pfn[pte[p].ref].status = "ACTIVE" =>
            /\ tpc # "unlock"
            /\ [va |-> p, page |-> pte[p].ref] \in trimBatch

\* What the writer holds: its written pages stay locked until they are on the
\* standby list.
WriterHolds ==
    /\ wpc = "copy" => writeBatch # <<>>
    /\ wpc = "relock" => cur \in Frames /\ curSlot \in Slots
    /\ \A f \in written : /\ pfnLock[f] = Writer
                          /\ pfn[f].status = "STANDBY"
                          /\ wpc # "unlock" => f \notin standby

\* An address is mapped to the frame its PTE names, or to the frame being
\* filled for it; in transition only while it is trimmed or soft-faulted.
MappingMatches(p) ==
    /\ pte[p].fmt = "valid" => mapped[p] = pte[p].ref
    /\ mapped[p] # Nil =>
          \/ pte[p] = ValidPte(mapped[p])
          \/ /\ pte[p] = TransitionPte(mapped[p])
             /\ \/ tpc \in {"scan", "lockPte", "lockPfn"} /\ [va |-> p, page |-> mapped[p]] \in trimBatch
                \/ \E u \in Users : pc[u] = "softDone" /\ va[u] = p
          \/ \E u \in Users : pc[u] \in Filling /\ va[u] = p /\ page[u] = mapped[p]

MappingMatchesPte == \A p \in Ptes : MappingMatches(p)

IndInv == /\ TypeOK
          /\ PtesNameTheirFrames
          /\ PfnsNameTheirPtes
          /\ FreePagesAreFree
          /\ NoFreePageIsLost
          /\ ListsMatchStatus
          /\ UsersHold
          /\ TrimmerHolds
          /\ ActiveInTransitionIsTrimmed
          /\ WriterHolds
          /\ MappingMatchesPte

\* Why a thread may hold the lock of a PTE, of a PFN.
PteHeld(u, p) == va[u] = p /\ pc[u] \in {"softLockPfn"} \cup SoftLocked \cup Filling
PfnHeld(u, f) == f \in batch[u] \/ (page[u] = f /\ pc[u] \in SoftLocked \cup HardHeld)

\* Every lock has been taken for a reason that lasts: a thread that is somewhere else,
\* or waits, holds no other.
LocksAreHeld ==
    /\ \A p \in Ptes, u \in Users : pteLock[p] = u => PteHeld(u, p)
    /\ \A f \in Frames, u \in Users : pfnLock[f] = u => PfnHeld(u, f)
    /\ \A f \in Frames : pfnLock[f] = Trimmer => \E t \in trimBatch : t.page = f
    /\ \A f \in Frames : pfnLock[f] = Writer => f \in written

-----------------------------------------------------------------------------
(* The second layer.                                                       *)

\* What refers to slot s and still needs it: a standby page, or a PTE on disk.
PfnOwns(f, s) == pfn[f].status = "STANDBY" /\ pfn[f].slot = s /\ ~SlotDropped(f)
PteOwns(p, s) == pte[p].fmt = "disk" /\ pte[p].ref = s /\ ~SlotRead(p)

\* A slot in use is stashed, in the writer's hands, or owned by one page; it has
\* no second owner, and a slot that is not in use has none.
SlotsAreOwned ==
    \A s \in Slots :
        /\ s \in inUse => \/ s \in stash \cup {curSlot}
                          \/ \E f \in Frames : PfnOwns(f, s)
                          \/ \E p \in Ptes : PteOwns(p, s)
        /\ s \in stash \cup {curSlot} => s \in inUse
        /\ ~(s \in stash /\ s = curSlot)
        /\ \A f \in Frames : PfnOwns(f, s) =>
              /\ s \in inUse /\ s \notin stash \cup {curSlot}
              /\ \A g \in Frames : PfnOwns(g, s) => g = f
              /\ \A p \in Ptes : ~PteOwns(p, s)
        /\ \A p \in Ptes : PteOwns(p, s) =>
              /\ s \in inUse /\ s \notin stash \cup {curSlot}
              /\ \A q \in Ptes : PteOwns(q, s) => q = p

\* The writer has a page and a slot in its hands only between the copy and the
\* second look at the page, and a slot on the stash for each page of its batch.
BatchIsStashed ==
    /\ wpc # "relock" => cur = Nil /\ curSlot = Nil
    /\ wpc \in {"idle", "insert", "unlock"} => writeBatch = <<>>
    /\ wpc = "gather" => Len(writeBatch) <= target /\ target <= Cardinality(stash)
    /\ wpc \in {"copy", "relock"} => Len(writeBatch) <= Cardinality(stash)

\* A thread that took frame f off its list for a soft fault.
TakenForSoftFault(f) == \E u \in Users : pc[u] \in {"softMap", "softDone"} /\ page[u] = f

\* A page on its way out is on the list of its status or in the hands of the
\* thread that took it off that list.
PagesArePlaced ==
    /\ \A f \in Frames :
          /\ pfn[f].status = "MODIFIED" => f \in modified \/ TakenForSoftFault(f)
          /\ pfn[f].status = "STANDBY" =>
                \/ f \in standby \cup written
                \/ TakenForSoftFault(f)
                \/ \E u \in Users : f \in batch[u]
          /\ pfn[f].status = "MID_WRITE" => f \in Elems(writeBatch) \cup {cur}
    /\ wpc = "unlock" => written \subseteq standby

\* A page that was written and that nobody has taken back since has not changed.
SlotsHoldPages ==
    /\ \A f \in Frames : \A s \in Slots : PfnOwns(f, s) => pagefile[s] = contents[f]
    /\ wpc = "relock" /\ pfn[cur].status = "MID_WRITE" /\ ~SlotDropped(cur) =>
          pagefile[curSlot] = contents[cur]

\* A thread between two accesses waits for no page.
IdleHasNoPage == \A u \in Users : pc[u] = "idle" => va[u] = Nil

DataInv == SlotsAreOwned /\ BatchIsStashed /\ PagesArePlaced /\ SlotsHoldPages
=============================================================================
