--------------------------- MODULE MemoryManager ---------------------------
(***************************************************************************)
(* The user-mode memory manager as its threads see it: user threads that   *)
(* fault, one trimmer and one writer, over page table entries, page frame  *)
(* numbers (PFNs), page lists, page file slots, and the byte locks in PTEs *)
(* and PFNs.                                                               *)
(*                                                                         *)
(* Atomicity.  A step begins with at most one access that races with other *)
(* threads (taking a lock, an unlocked read, an interlocked operation, a   *)
(* list operation, a change of mapping); what follows it touches only data *)
(* that the thread owns or has locked.  The page lists are sets: a         *)
(* removal takes any page where the code takes the head.  Their pointers   *)
(* and their own locks are not modelled here.                              *)
(*                                                                         *)
(* Two specifications.  In Spec a removal that fails                       *)
(* MAX_HARD_ACCESS_ATTEMPTS times walks the list without its lock, as the  *)
(* code does.  OrderlySpec has the behaviours in which none does: the      *)
(* removals are those that PageList shows to be atomic.  A soft fault      *)
(* takes its page off in one step in both, as PageList shows of it until   *)
(* one that gives up overtakes another one.                                *)
(***************************************************************************)
EXTENDS Naturals, FiniteSets, Sequences

CONSTANTS
    Users,          \* user threads
    Trimmer,        \* the trimming thread
    Writer,         \* the writing thread
    Ptes,           \* page table entries; one virtual page each
    Frames,         \* physical pages; one PFN each
    Slots,          \* page file slots that can be allocated (not slot 0)
    Vals,           \* what a store can leave in a page
    Zero,           \* a zeroed page
    Nil,            \* NULL, no owner, no frame, NO_DISK_INDEX
    CacheSize,      \* FREE_PAGE_CACHE_SIZE
    StealBatch,     \* FREE_PAGE_CACHE_SIZE / 4
    MaxTrimBatch,   \* MAX_TRIM_BATCH_SIZE
    MaxWriteBatch   \* MAX_WRITE_BATCH_SIZE

ASSUME BatchAssumption ==
    /\ CacheSize \in Nat \ {0}
    /\ StealBatch \in 1..CacheSize
    /\ MaxTrimBatch \in Nat \ {0}
    /\ MaxWriteBatch \in Nat \ {0}

ASSUME FiniteAssumption == IsFiniteSet(Slots)

ASSUME DistinctAssumption ==
    /\ Nil \notin Users \cup {Trimmer, Writer} \cup Ptes \cup Frames \cup Slots
    /\ Trimmer \notin Users
    /\ Writer \notin Users \cup {Trimmer}

VARIABLES
    pte,        \* the page table: format, and frame number or disk index
    pteLock,    \* the owner of each PTE's lock
    pfn,        \* PFN_array: status, owning PTE, disk index
    pfnLock,    \* the owner of each PFN's lock
    modified,   \* pages on modified_list
    standby,    \* pages on standby_list
    free,       \* pages on the free lists
    cache,      \* free_page_cache of each user thread
    mapped,     \* the frame each virtual page is mapped to
    contents,   \* what each frame holds
    pagefile,   \* what each slot of the page file holds
    inUse,      \* slots whose bit is set in the page file bitmaps
    stash,      \* slots on pf.slot_stack
    pc, va, page, batch,    \* per user thread: where it is, the PTE it faults
                            \* on, the PFN at hand, standby pages it has taken
    tpc, trimPte, trimPage,         \* trimmer: pte, pfn,
    trimBatch,                      \* trimmed_VAs with trimmed_pages
    wpc, target, writeBatch,        \* writer: pages_to_write still to do,
    cur, curSlot, written           \* pfn, disk_slot and temp_list

vars == <<pte, pteLock, pfn, pfnLock, modified, standby, free, cache, mapped,
          contents, pagefile, inUse, stash, pc, va, page, batch, tpc, trimPte,
          trimPage, trimBatch, wpc, target, writeBatch, cur, curSlot, written>>

tables  == <<pte, pteLock, pfn, pfnLock>>
lists   == <<modified, standby, free, cache>>
memory  == <<mapped, contents, pagefile>>
disk    == <<inUse, stash>>
user    == <<pc, va, page, batch>>
trimmer == <<tpc, trimPte, trimPage, trimBatch>>
writer  == <<wpc, target, writeBatch, cur, curSlot, written>>

Threads == Users \cup {Trimmer, Writer}
Data == Vals \cup {Zero}

-----------------------------------------------------------------------------
(* Page table entries and page frame numbers.  frame_number and disk_index *)
(* are the same bits of a PTE: Frames and Slots may share numbers.         *)

PteState == [fmt : {"zero", "valid", "transition", "disk"},
             ref : Frames \cup Slots \cup {Nil}]
PfnState == [status : {"FREE", "ACTIVE", "MODIFIED", "MID_WRITE", "STANDBY"},
             pte : Ptes \cup {Nil},
             slot : Slots \cup {Nil}]

ZeroPte          == [fmt |-> "zero",       ref |-> Nil]
ValidPte(f)      == [fmt |-> "valid",      ref |-> f]
TransitionPte(f) == [fmt |-> "transition", ref |-> f]
DiskPte(s)       == [fmt |-> "disk",       ref |-> s]

PfnFree         == [status |-> "FREE",   pte |-> Nil, slot |-> Nil]
PfnActive(p)    == [status |-> "ACTIVE", pte |-> p,   slot |-> Nil]
PfnModified(f)  == [pfn[f] EXCEPT !.status = "MODIFIED"]
\* Faulty PfnMidWrite: a gathered page keeps its status.
PfnMidWriteForgotten(f) == pfn[f]
PfnMidWrite(f)  == [pfn[f] EXCEPT !.status = "MID_WRITE"]
\* Faulty PfnStandby: the disk index is not recorded.
PfnStandbyNoSlot(f,s) == [pfn[f] EXCEPT !.status = "STANDBY"]
PfnStandby(f,s) == [pfn[f] EXCEPT !.status = "STANDBY", !.slot = s]

\* Faulty Unlocked: a list's walkers do not try the lock.
UnlockedUntried(S) == S

\* The pages whose lock can be taken.
Unlocked(S) == {f \in S : pfnLock[f] = Nil}

\* What remove_batch_from_list_head takes while it holds the list lock shared: pages
\* whose locks it gets, at once (PageList has the steps, and shows that they amount to
\* this as long as no thread overtakes another one there).
BatchesOf(S, n) == {B \in SUBSET Unlocked(S) : B # {} /\ Cardinality(B) \in 1..n}

\* The same batches, each page at its place in an array.
Elems(q) == {q[i] : i \in 1..Len(q)}
ArraysOf(S, n) == {q \in UNION {[1..k -> Unlocked(S)] : k \in 1..n} :
                     \A i, j \in 1..Len(q) : i # j => q[i] # q[j]}

-----------------------------------------------------------------------------
(* The pages of the machine start on the free lists, and the lists' heads  *)
(* fill the user threads' caches.                                          *)

Init ==
    /\ pte = [p \in Ptes |-> ZeroPte]
    /\ pteLock = [p \in Ptes |-> Nil]
    /\ pfn = [f \in Frames |-> PfnFree]
    /\ pfnLock = [f \in Frames |-> Nil]
    /\ modified = {}
    /\ standby = {}
    /\ cache \in [Users -> {C \in SUBSET Frames : Cardinality(C) \in 0..CacheSize}]
    /\ \A u, w \in Users : u # w => cache[u] \cap cache[w] = {}
    /\ free = Frames \ UNION {cache[u] : u \in Users}
    /\ mapped = [p \in Ptes |-> Nil]
    /\ contents = [f \in Frames |-> Zero]
    /\ pagefile = [s \in Slots |-> Zero]
    /\ inUse = {}
    /\ stash = {}
    /\ pc = [u \in Users |-> "idle"]
    /\ va = [u \in Users |-> Nil]
    /\ page = [u \in Users |-> Nil]
    /\ batch = [u \in Users |-> {}]
    /\ tpc = "scan"
    /\ trimPte = Nil
    /\ trimPage = Nil
    /\ trimBatch = {}
    /\ wpc = "idle"
    /\ target = 0
    /\ writeBatch = <<>>
    /\ cur = Nil
    /\ curSlot = Nil
    /\ written = {}

-----------------------------------------------------------------------------
(* User threads: run_user_app_simulation.                                  *)

\* The thread picks the next address it will access.
Request(u) ==
    /\ pc[u] = "idle"
    /\ \E p \in Ptes : va' = [va EXCEPT ![u] = p]
    /\ pc' = [pc EXCEPT ![u] = "run"]
    /\ UNCHANGED <<tables, lists, memory, disk, page, batch, trimmer, writer>>

\* The store goes through: the hardware finds the address mapped.
Store(u) ==
    /\ pc[u] = "run"
    /\ mapped[va[u]] # Nil
    /\ \E v \in Vals : contents' = [contents EXCEPT ![mapped[va[u]]] = v]
    /\ pc' = [pc EXCEPT ![u] = "idle"]
    /\ va' = [va EXCEPT ![u] = Nil]
    /\ UNCHANGED <<tables, lists, mapped, pagefile, disk, page, batch, trimmer, writer>>

\* The store faults and the handler is called.
Fault(u) ==
    /\ pc[u] = "run"
    /\ mapped[va[u]] = Nil
    /\ pc' = [pc EXCEPT ![u] = "fault"]
    /\ UNCHANGED <<tables, lists, memory, disk, va, page, batch, trimmer, writer>>

\* page_fault_handler's loop looks at the PTE without its lock.
Dispatch(u) ==
    /\ pc[u] = "fault"
    /\ pc' = [pc EXCEPT ![u] = CASE pte[va[u]].fmt = "valid"      -> "run"
                                 [] pte[va[u]].fmt = "transition" -> "soft"
                                 [] OTHER                         -> "hard"]
    /\ UNCHANGED <<tables, lists, memory, disk, va, page, batch, trimmer, writer>>

-----------------------------------------------------------------------------
(* resolve_soft_fault.                                                     *)

\* Faulty InTransition: the PTE is not checked again under its lock.
InTransitionUnchecked(p) == TRUE

\* The PTE may have left transition format before it was locked.
InTransition(p) == pte[p].fmt = "transition"

\* Lock the PTE and take a snapshot; if it left transition format, start over.
SoftLockPte(u) ==
    LET p == va[u] IN
    /\ pc[u] = "soft"
    /\ pteLock[p] = Nil
    /\ \/ /\ InTransition(p)
          /\ pteLock' = [pteLock EXCEPT ![p] = u]
          /\ page' = [page EXCEPT ![u] = pte[p].ref]
          /\ pc' = [pc EXCEPT ![u] = "softLockPfn"]
       \/ /\ ~InTransition(p)
          /\ pc' = [pc EXCEPT ![u] = "fault"]
          /\ UNCHANGED <<pteLock, page>>
    /\ UNCHANGED <<pte, pfn, pfnLock, lists, memory, disk, va, batch, trimmer, writer>>

\* Lock the PFN, if the number is that of a frame (get_PFN_from_frame asserts it,
\* pfn.c:47).  A thread that stole the standby page while this one waited has moved the
\* PTE to disk format; a standby page gives up its disk slot.
SoftLockPfn(u) ==
    LET p == va[u]
        f == page[u] IN
    /\ pc[u] = "softLockPfn"
    /\ f \in Frames
    /\ pfnLock[f] = Nil
    /\ \/ /\ pte[p].fmt = "disk"
          /\ pteLock' = [pteLock EXCEPT ![p] = Nil]
          /\ page' = [page EXCEPT ![u] = Nil]
          /\ pc' = [pc EXCEPT ![u] = "fault"]
          /\ UNCHANGED <<pfnLock, inUse>>
       \/ /\ pte[p].fmt # "disk"
          /\ pfnLock' = [pfnLock EXCEPT ![f] = u]
          /\ pc' = [pc EXCEPT ![u] = IF pfn[f].status = "MID_WRITE"
                                     THEN "softMap" ELSE "softUnlist"]
          /\ inUse' = IF pfn[f].status = "STANDBY"
                      THEN inUse \ {pfn[f].slot} ELSE inUse
          /\ UNCHANGED <<pteLock, page>>
    /\ UNCHANGED <<pte, pfn, lists, memory, stash, va, batch, trimmer, writer>>

\* remove_page_on_soft_fault, from the list that the PFN's status names, at once (PageList
\* has the steps, and says until when they amount to this).
SoftUnlist(u) ==
    LET f == page[u] IN
    /\ pc[u] = "softUnlist"
    /\ \/ /\ pfn[f].status = "MODIFIED"
          /\ modified' = modified \ {f}
          /\ UNCHANGED standby
       \/ /\ pfn[f].status # "MODIFIED"
          /\ standby' = standby \ {f}
          /\ UNCHANGED modified
    /\ pc' = [pc EXCEPT ![u] = "softMap"]
    /\ UNCHANGED <<tables, free, cache, memory, disk, va, page, batch, trimmer, writer>>

\* map_single_page_from_pte.
SoftMap(u) ==
    /\ pc[u] = "softMap"
    /\ mapped' = [mapped EXCEPT ![va[u]] = pte[va[u]].ref]
    /\ pc' = [pc EXCEPT ![u] = "softDone"]
    /\ UNCHANGED <<tables, lists, contents, pagefile, disk, va, page, batch, trimmer, writer>>

\* Faulty SoftDone: the PFN stays locked.
SoftDoneKeepsPfn(u) ==
    LET p == va[u]
        f == page[u] IN
    /\ pc[u] = "softDone"
    /\ pfn' = [pfn EXCEPT ![f] = PfnActive(p)]
    /\ pte' = [pte EXCEPT ![p] = ValidPte(pte[p].ref)]
    /\ pteLock' = [pteLock EXCEPT ![p] = Nil]
    /\ page' = [page EXCEPT ![u] = Nil]
    /\ pc' = [pc EXCEPT ![u] = "run"]
    /\ UNCHANGED <<pfnLock, lists, memory, disk, va, batch, trimmer, writer>>

\* Both structures become active, then both locks are released.
SoftDone(u) ==
    LET p == va[u]
        f == page[u] IN
    /\ pc[u] = "softDone"
    /\ pfn' = [pfn EXCEPT ![f] = PfnActive(p)]
    /\ pte' = [pte EXCEPT ![p] = ValidPte(pte[p].ref)]
    /\ pfnLock' = [pfnLock EXCEPT ![f] = Nil]
    /\ pteLock' = [pteLock EXCEPT ![p] = Nil]
    /\ page' = [page EXCEPT ![u] = Nil]
    /\ pc' = [pc EXCEPT ![u] = "run"]
    /\ UNCHANGED <<lists, memory, disk, va, batch, trimmer, writer>>

-----------------------------------------------------------------------------
(* resolve_hard_fault: a page first, from the cache, else from the free    *)
(* lists, else from the standby list.                                      *)

\* Pop a page of the thread's cache and lock it.
TakeCached(u) ==
    /\ pc[u] = "hard"
    /\ \E f \in Unlocked(cache[u]) :
        /\ cache' = [cache EXCEPT ![u] = @ \ {f}]
        /\ pfnLock' = [pfnLock EXCEPT ![f] = u]
        /\ page' = [page EXCEPT ![u] = f]
    /\ pc' = [pc EXCEPT ![u] = "hardLockPte"]
    /\ UNCHANGED <<pte, pteLock, pfn, modified, standby, free, memory, disk,
                   va, batch, trimmer, writer>>

\* Fill the empty cache from a free list.
RefillCache(u) ==
    /\ pc[u] = "hard"
    /\ cache[u] = {}
    /\ \E B \in BatchesOf(free, CacheSize) :
        /\ cache' = [cache EXCEPT ![u] = B]
        /\ free' = free \ B
    /\ UNCHANGED <<tables, modified, standby, memory, disk, user, trimmer, writer>>

\* No free page, or every free list that has one is locked by another thread.
RefillFails(u) ==
    /\ pc[u] = "hard"
    /\ cache[u] = {}
    /\ free = {} \/ \E w \in Users \ {u} : pc[w] \in {"hard", "hardLockPte"}
    /\ pc' = [pc EXCEPT ![u] = "steal"]
    /\ UNCHANGED <<tables, lists, memory, disk, va, page, batch, trimmer, writer>>

\* remove_batch_from_list_head takes and locks a batch of standby pages.
StealBegin(u) ==
    /\ pc[u] = "steal"
    /\ \E B \in BatchesOf(standby, StealBatch) :
        /\ standby' = standby \ B
        /\ pfnLock' = [f \in Frames |-> IF f \in B THEN u ELSE pfnLock[f]]
        /\ batch' = [batch EXCEPT ![u] = B]
    /\ pc' = [pc EXCEPT ![u] = "stealing"]
    /\ UNCHANGED <<pte, pteLock, pfn, modified, free, cache, memory, disk, va,
                   page, trimmer, writer>>

\* After MAX_HARD_ACCESS_ATTEMPTS: remove_batch_from_list_head_exclusive, which nobody
\* has locked the list for.  It starts at the page that the head's flink names now,
StealGiveUp(u) ==
    /\ pc[u] = "steal"
    /\ \E f \in standby : page' = [page EXCEPT ![u] = f]
    /\ pc' = [pc EXCEPT ![u] = "stealWalk"]
    /\ UNCHANGED <<tables, lists, memory, disk, va, batch, trimmer, writer>>

\* waits for the page's lock, whatever has become of the page by then, goes on to the
\* page that its flink names, or to the head (Nil),
StealWalk(u) ==
    LET f == page[u] IN
    /\ pc[u] = "stealWalk"
    /\ f # Nil /\ Cardinality(batch[u]) < StealBatch
    /\ pfnLock[f] = Nil
    /\ pfnLock' = [pfnLock EXCEPT ![f] = u]
    /\ batch' = [batch EXCEPT ![u] = @ \cup {f}]
    /\ \E g \in (standby \ batch'[u]) \cup {Nil} : page' = [page EXCEPT ![u] = g]
    /\ UNCHANGED <<pte, pteLock, pfn, lists, memory, disk, pc, va, trimmer, writer>>

\* and detaches what it has walked over.
StealDetach(u) ==
    /\ pc[u] = "stealWalk"
    /\ page[u] = Nil \/ Cardinality(batch[u]) = StealBatch
    /\ standby' = standby \ batch[u]
    /\ page' = [page EXCEPT ![u] = Nil]
    /\ pc' = [pc EXCEPT ![u] = "stealing"]
    /\ UNCHANGED <<tables, modified, free, cache, memory, disk, va, batch, trimmer, writer>>

\* No standby page: wait for one, then start the fault over.
StealFails(u) ==
    /\ pc[u] = "steal"
    /\ standby = {}
    /\ pc' = [pc EXCEPT ![u] = "fault"]
    /\ UNCHANGED <<tables, lists, memory, disk, va, page, batch, trimmer, writer>>

\* move_batch_from_standby_to_cache, one page: its old PTE goes to disk format
\* without the PTE lock, and the page becomes free.
StealPage(u) ==
    /\ pc[u] = "stealing"
    /\ \E f \in batch[u] :
        /\ pfn[f].pte # Nil
        /\ pte' = [pte EXCEPT ![pfn[f].pte] = DiskPte(pfn[f].slot)]
        /\ cache' = [cache EXCEPT ![u] = @ \cup {f}]
        /\ pfn' = [pfn EXCEPT ![f] = PfnFree]
        /\ pfnLock' = [pfnLock EXCEPT ![f] = Nil]
        /\ batch' = [batch EXCEPT ![u] = @ \ {f}]
        /\ pc' = [pc EXCEPT ![u] = IF batch[u] = {f} THEN "hard" ELSE @]
    /\ UNCHANGED <<pteLock, modified, standby, free, memory, disk, va, page,
                   trimmer, writer>>

\* Faulty NeedsPage: the PTE's format is not checked again under its lock.
NeedsPageUnchecked(p) == pteLock[p] = Nil

\* The PTE is not locked and still needs a page.
NeedsPage(p) == pteLock[p] = Nil /\ pte[p].fmt \in {"zero", "disk"}

\* With a locked page, try the PTE lock and map the page for the user thread
\* and the kernel at once.
HardLockPte(u) ==
    LET p == va[u] IN
    /\ pc[u] = "hardLockPte"
    /\ NeedsPage(p)
    /\ pteLock' = [pteLock EXCEPT ![p] = u]
    /\ mapped' = [mapped EXCEPT ![p] = page[u]]
    /\ pc' = [pc EXCEPT ![u] = "hardFill"]
    /\ UNCHANGED <<pte, pfn, pfnLock, lists, contents, pagefile, disk, va, page,
                   batch, trimmer, writer>>

\* Someone else is resolving or has resolved the fault: the page goes back.
HardGiveBack(u) ==
    LET p == va[u]
        f == page[u] IN
    /\ pc[u] = "hardLockPte"
    /\ ~NeedsPage(p)
    /\ \/ /\ Cardinality(cache[u]) < CacheSize
          /\ cache' = [cache EXCEPT ![u] = @ \cup {f}]
          /\ UNCHANGED free
       \/ /\ Cardinality(cache[u]) >= CacheSize
          /\ free' = free \cup {f}
          /\ UNCHANGED cache
    /\ pfn' = [pfn EXCEPT ![f] = PfnFree]
    /\ pfnLock' = [pfnLock EXCEPT ![f] = Nil]
    /\ page' = [page EXCEPT ![u] = Nil]
    /\ pc' = [pc EXCEPT ![u] = "fault"]
    /\ UNCHANGED <<pte, pteLock, modified, standby, memory, disk, va, batch,
                   trimmer, writer>>

\* Faulty HardFill: the slot is read and not cleared.
HardFillLeaks(u) ==
    /\ pc[u] = "hardFill"
    /\ contents' = [contents EXCEPT ![page[u]] =
                       IF pte[va[u]].fmt = "disk" THEN pagefile[pte[va[u]].ref] ELSE Zero]
    /\ pc' = [pc EXCEPT ![u] = "hardDone"]
    /\ UNCHANGED <<tables, lists, mapped, pagefile, disk, va, page, batch,
                   trimmer, writer>>

\* Read the page from its slot and clear the slot, or zero the page.
HardFill(u) ==
    LET p == va[u]
        f == page[u] IN
    /\ pc[u] = "hardFill"
    /\ \/ /\ pte[p].fmt = "disk"
          /\ pte[p].ref # Nil
          /\ contents' = [contents EXCEPT ![f] = pagefile[pte[p].ref]]
          /\ inUse' = inUse \ {pte[p].ref}
       \/ /\ pte[p].fmt # "disk"
          /\ contents' = [contents EXCEPT ![f] = Zero]
          /\ UNCHANGED inUse
    /\ pc' = [pc EXCEPT ![u] = "hardDone"]
    /\ UNCHANGED <<tables, lists, mapped, pagefile, stash, va, page, batch,
                   trimmer, writer>>

HardDone(u) ==
    LET p == va[u]
        f == page[u] IN
    /\ pc[u] = "hardDone"
    /\ pte' = [pte EXCEPT ![p] = ValidPte(f)]
    /\ pfn' = [pfn EXCEPT ![f] = PfnActive(p)]
    /\ pfnLock' = [pfnLock EXCEPT ![f] = Nil]
    /\ pteLock' = [pteLock EXCEPT ![p] = Nil]
    /\ page' = [page EXCEPT ![u] = Nil]
    /\ pc' = [pc EXCEPT ![u] = "run"]
    /\ UNCHANGED <<lists, memory, disk, va, batch, trimmer, writer>>

UserStep(u) ==
    \/ Request(u) \/ Store(u) \/ Fault(u) \/ Dispatch(u)
    \/ SoftLockPte(u) \/ SoftLockPfn(u) \/ SoftUnlist(u) \/ SoftMap(u) \/ SoftDone(u)
    \/ TakeCached(u) \/ RefillCache(u) \/ RefillFails(u)
    \/ StealBegin(u) \/ StealFails(u) \/ StealPage(u)
    \/ HardLockPte(u) \/ HardGiveBack(u) \/ HardFill(u) \/ HardDone(u)

-----------------------------------------------------------------------------
(* trim_pages.  The scan may pass over any PTE and stop after any of them  *)
(* (MAX_TRIM_ATTEMPTS), so the cursor pte_to_trim is left out.             *)

\* A PTE looks valid; its lock is not held yet.
TrimPick ==
    /\ tpc = "scan"
    /\ Cardinality(trimBatch) < MaxTrimBatch
    /\ \E p \in Ptes : pte[p].fmt = "valid" /\ trimPte' = p
    /\ tpc' = "lockPte"
    /\ UNCHANGED <<tables, lists, memory, disk, user, trimPage, trimBatch, writer>>

\* Try its lock, and do not look again at its format; a PTE on disk has no PFN.
TrimLockPte ==
    /\ tpc = "lockPte"
    /\ \/ /\ pteLock[trimPte] = Nil
          /\ pte[trimPte].fmt # "disk" /\ pte[trimPte].ref \in Frames
          /\ pteLock' = [pteLock EXCEPT ![trimPte] = Trimmer]
          /\ trimPage' = pte[trimPte].ref
          /\ tpc' = "lockPfn"
          /\ UNCHANGED trimPte
       \/ /\ pteLock[trimPte] # Nil
          /\ tpc' = "scan"
          /\ trimPte' = Nil
          /\ UNCHANGED <<pteLock, trimPage>>
    /\ UNCHANGED <<pte, pfn, pfnLock, lists, memory, disk, user, trimBatch, writer>>

\* With both locks the PTE enters transition, by its valid and status bits alone; only
\* the PFN stays locked.
TrimLockPfn ==
    LET f == trimPage IN
    /\ tpc = "lockPfn"
    /\ pfnLock[f] = Nil
    /\ pfnLock' = [pfnLock EXCEPT ![f] = Trimmer]
    /\ pte' = [pte EXCEPT ![trimPte] = TransitionPte(pte[trimPte].ref)]
    /\ pteLock' = [pteLock EXCEPT ![trimPte] = Nil]
    /\ trimBatch' = trimBatch \cup {[va |-> trimPte, page |-> f]}
    /\ trimPte' = Nil
    /\ trimPage' = Nil
    /\ tpc' = "scan"
    /\ UNCHANGED <<pfn, lists, memory, disk, user, writer>>

\* Faulty Unmapped: the pages stay mapped.
UnmappedNone(B) == mapped

\* One call unmaps all addresses of the batch.
Unmapped(B) == [p \in Ptes |-> IF \E t \in B : t.va = p THEN Nil ELSE mapped[p]]

TrimUnmap ==
    /\ tpc = "scan"
    /\ trimBatch # {}
    /\ mapped' = Unmapped(trimBatch)
    /\ tpc' = "insert"
    /\ UNCHANGED <<tables, lists, contents, pagefile, disk, user, trimPte,
                   trimPage, trimBatch, writer>>

TrimInsert ==
    LET B == {t.page : t \in trimBatch} IN
    /\ tpc = "insert"
    /\ pfn' = [f \in Frames |-> IF f \in B THEN PfnModified(f) ELSE pfn[f]]
    /\ modified' = modified \cup B
    /\ tpc' = "unlock"
    /\ UNCHANGED <<pte, pteLock, pfnLock, standby, free, cache, memory, disk,
                   user, trimPte, trimPage, trimBatch, writer>>

TrimUnlock ==
    /\ tpc = "unlock"
    /\ \E t \in trimBatch :
        /\ pfnLock' = [pfnLock EXCEPT ![t.page] = Nil]
        /\ trimBatch' = trimBatch \ {t}
        /\ tpc' = IF trimBatch = {t} THEN "scan" ELSE tpc
    /\ UNCHANGED <<pte, pteLock, pfn, lists, memory, disk, user, trimPte, trimPage,
                   writer>>

TrimmerStep == \/ TrimPick \/ TrimLockPte \/ TrimLockPfn
               \/ TrimUnmap \/ TrimInsert \/ TrimUnlock

-----------------------------------------------------------------------------
(* write_pages.                                                            *)

\* Faulty BatchSize: the batch may outnumber the stash.
BatchSizeUncapped(want, stashed) == want

\* No more pages than stashed slots.
BatchSize(want, stashed) == IF Cardinality(stashed) < want THEN Cardinality(stashed) ELSE want

\* Size the batch and stock the stash: whole bitmap rows are taken, so it may get
\* more than it needs, and slots may be cleared behind the scan, so that it may
\* get fewer although slots are left (DiskSlots has the scan).  With no slot at
\* all the writer returns.  list_size lags behind the modified list, so the wanted
\* size is any in range.
WriteBegin ==
    LET empty == Slots \ inUse IN
    /\ wpc = "idle"
    /\ empty # {}
    /\ \E want \in 1..MaxWriteBatch, grab \in SUBSET empty :
        /\ IF Cardinality(stash) < want
           THEN stash \cup grab # {}
           ELSE grab = {}
        /\ inUse' = inUse \cup grab
        /\ stash' = stash \cup grab
        /\ target' = BatchSize(want, stash')
    /\ wpc' = "gather"
    /\ UNCHANGED <<tables, lists, memory, user, trimmer, writeBatch, cur,
                   curSlot, written>>

\* Append a batch of the modified list to pages_to_write; each page is locked
\* from its removal until it is mid-write.
WriteGather ==
    /\ wpc = "gather"
    /\ \E q \in ArraysOf(modified, target - Len(writeBatch)) :
        /\ modified' = modified \ Elems(q)
        /\ pfn' = [f \in Frames |-> IF f \in Elems(q) THEN PfnMidWrite(f) ELSE pfn[f]]
        /\ writeBatch' = writeBatch \o q
    /\ UNCHANGED <<pte, pteLock, pfnLock, standby, free, cache, memory, disk,
                   user, trimmer, wpc, target, cur, curSlot, written>>

\* A removal from the modified list that gives up (see StealGiveUp).
WriteGiveUp ==
    /\ wpc = "gather"
    /\ Len(writeBatch) < target
    /\ cur' \in modified
    /\ wpc' = "walk"
    /\ UNCHANGED <<tables, lists, memory, disk, user, trimmer, target, writeBatch,
                   curSlot, written>>

WriteWalk ==
    /\ wpc = "walk"
    /\ cur # Nil /\ Len(writeBatch) < target
    /\ pfnLock[cur] = Nil
    /\ pfnLock' = [pfnLock EXCEPT ![cur] = Writer]
    /\ writeBatch' = Append(writeBatch, cur)
    /\ cur' \in {f \in modified : pfnLock'[f] # Writer} \cup {Nil}
    /\ UNCHANGED <<pte, pteLock, pfn, lists, memory, disk, user, trimmer, wpc,
                   target, curSlot, written>>

WriteDetach ==
    LET B == {f \in Frames : pfnLock[f] = Writer} IN
    /\ wpc = "walk"
    /\ cur = Nil \/ Len(writeBatch) = target
    /\ modified' = modified \ B
    /\ pfn' = [f \in Frames |-> IF f \in B THEN PfnMidWrite(f) ELSE pfn[f]]
    /\ pfnLock' = [f \in Frames |-> IF f \in B THEN Nil ELSE pfnLock[f]]
    /\ cur' = Nil
    /\ wpc' = "gather"
    /\ UNCHANGED <<pte, pteLock, standby, free, cache, memory, disk, user, trimmer,
                   target, writeBatch, curSlot, written>>

\* The batch is full, or the modified list missed BATCH_ATTEMPTS times.
WriteStart ==
    /\ wpc = "gather"
    /\ wpc' = IF writeBatch = <<>> THEN "idle" ELSE "copy"
    /\ target' = 0
    /\ UNCHANGED <<tables, lists, memory, disk, user, trimmer, writeBatch, cur,
                   curSlot, written>>

\* Pop a slot and copy the page to it.  No lock is held: the page may be
\* soft-faulted meanwhile.
WriteCopy ==
    /\ wpc = "copy"
    /\ cur' = Head(writeBatch)
    /\ writeBatch' = Tail(writeBatch)
    /\ \E s \in stash :
        /\ stash' = stash \ {s}
        /\ pagefile' = [pagefile EXCEPT ![s] = contents[Head(writeBatch)]]
        /\ curSlot' = s
    /\ wpc' = "relock"
    /\ UNCHANGED <<tables, lists, mapped, contents, inUse, user, trimmer,
                   target, written>>

AfterPage(W) == IF writeBatch # <<>> THEN "copy" ELSE IF W # {} THEN "insert" ELSE "idle"

\* Faulty StillMidWrite: the status is not checked again after the write.
StillMidWriteUnchecked == TRUE

\* The page has not been soft-faulted since it was gathered.
StillMidWrite == pfn[cur].status = "MID_WRITE"

\* Still mid-write: the page becomes standby and stays locked.
WriteCommit ==
    /\ wpc = "relock"
    /\ pfnLock[cur] = Nil
    /\ StillMidWrite
    /\ pfnLock' = [pfnLock EXCEPT ![cur] = Writer]
    /\ pfn' = [pfn EXCEPT ![cur] = PfnStandby(cur, curSlot)]
    /\ written' = written \cup {cur}
    /\ wpc' = AfterPage(written')
    /\ cur' = Nil
    /\ curSlot' = Nil
    /\ UNCHANGED <<pte, pteLock, lists, memory, disk, user, trimmer, target,
                   writeBatch>>

\* Soft-faulted mid-write: the write is undone by clearing its slot.
WriteAbandon ==
    /\ wpc = "relock"
    /\ pfnLock[cur] = Nil
    /\ ~StillMidWrite
    /\ inUse' = inUse \ {curSlot}
    /\ wpc' = AfterPage(written)
    /\ cur' = Nil
    /\ curSlot' = Nil
    /\ UNCHANGED <<tables, lists, memory, stash, user, trimmer, target,
                   writeBatch, written>>

WriteInsert ==
    /\ wpc = "insert"
    /\ standby' = standby \cup written
    /\ wpc' = "unlock"
    /\ UNCHANGED <<tables, modified, free, cache, memory, disk, user, trimmer,
                   target, writeBatch, cur, curSlot, written>>

WriteUnlock ==
    /\ wpc = "unlock"
    /\ \E f \in written :
        /\ pfnLock' = [pfnLock EXCEPT ![f] = Nil]
        /\ written' = written \ {f}
        /\ wpc' = IF written = {f} THEN "idle" ELSE wpc
    /\ UNCHANGED <<pte, pteLock, pfn, lists, memory, disk, user, trimmer,
                   target, writeBatch, cur, curSlot>>

WriterStep == \/ WriteBegin \/ WriteGather \/ WriteStart \/ WriteCopy
              \/ WriteCommit \/ WriteAbandon \/ WriteInsert \/ WriteUnlock

-----------------------------------------------------------------------------

OrderlyNext == (\E u \in Users : UserStep(u)) \/ TrimmerStep \/ WriterStep

RemovalGivesUp == (\E u \in Users : StealGiveUp(u)) \/ WriteGiveUp

Next == \/ OrderlyNext
        \/ RemovalGivesUp
        \/ \E u \in Users : StealWalk(u) \/ StealDetach(u)
        \/ WriteWalk \/ WriteDetach

Spec == Init /\ [][Next]_vars

\* No removal gives up.
OrderlySpec == Init /\ [][OrderlyNext]_vars

\* The points of an orderly thread; it is never in the walk of a removal that gave up.
UserPoints == {"idle", "run", "fault", "soft", "softLockPfn", "softUnlist", "softMap",
               "softDone", "hard", "steal", "stealing", "hardLockPte", "hardFill",
               "hardDone"}

TypeOK ==
    /\ pte \in [Ptes -> PteState]
    /\ pteLock \in [Ptes -> Users \cup {Trimmer, Nil}]
    /\ pfn \in [Frames -> PfnState]
    /\ pfnLock \in [Frames -> Threads \cup {Nil}]
    /\ modified \in SUBSET Frames
    /\ standby \in SUBSET Frames
    /\ free \in SUBSET Frames
    /\ cache \in [Users -> SUBSET Frames]
    /\ mapped \in [Ptes -> Frames \cup {Nil}]
    /\ contents \in [Frames -> Data]
    /\ pagefile \in [Slots -> Data]
    /\ inUse \in SUBSET Slots
    /\ stash \in SUBSET Slots
    /\ pc \in [Users -> UserPoints]
    /\ va \in [Users -> Ptes \cup {Nil}]
    /\ page \in [Users -> Frames \cup {Nil}]
    /\ batch \in [Users -> SUBSET Frames]
    /\ tpc \in {"scan", "lockPte", "lockPfn", "insert", "unlock"}
    /\ trimPte \in Ptes \cup {Nil}
    /\ trimPage \in Frames \cup {Nil}
    /\ trimBatch \in SUBSET [va : Ptes, page : Frames]
    /\ wpc \in {"idle", "gather", "copy", "relock", "insert", "unlock"}
    /\ target \in 0..MaxWriteBatch
    /\ writeBatch \in Seq(Frames)
    /\ cur \in Frames \cup {Nil}
    /\ curSlot \in Slots \cup {Nil}
    /\ written \in SUBSET Frames

-----------------------------------------------------------------------------
(* Where frames and slots are.                                             *)

SoftLocked == {"softUnlist", "softMap", "softDone"}
HardHeld   == {"hardLockPte", "hardFill", "hardDone"}

\* Every place that can hand frame f to a thread: a free list, a cache, the
\* hands of a thread in a hard fault, a PTE.
Homes(f) == {<<"free", "list">> : x \in free \cap {f}}
       \cup {<<"cache", u>> : u \in {w \in Users : f \in cache[w]}}
       \cup {<<"held", u>>  : u \in {w \in Users : pc[w] \in HardHeld /\ page[w] = f}}
       \cup {<<"pte", p>>   : p \in {q \in Ptes : /\ pte[q].fmt \in {"valid", "transition"}
                                                  /\ pte[q].ref = f}}

\* The soft faulter of frame f has cleared its slot, or the hard faulter of
\* page p has; the stale reference is not the slot's owner any more.
SlotDropped(f) == \E u \in Users : pc[u] \in SoftLocked /\ page[u] = f
SlotRead(p)    == \E u \in Users : pc[u] = "hardDone" /\ va[u] = p

\* Everything that owns slot s.
SlotOwners(s) == {<<"stash", "list">> : x \in stash \cap {s}}
            \cup {<<"writer", "slot">> : x \in {curSlot} \cap {s}}
            \cup {<<"pfn", f>> : f \in {g \in Frames : /\ pfn[g].status = "STANDBY"
                                                       /\ pfn[g].slot = s
                                                       /\ ~SlotDropped(g)}}
            \cup {<<"pte", p>> : p \in {q \in Ptes : /\ pte[q].fmt = "disk"
                                                     /\ pte[q].ref = s
                                                     /\ ~SlotRead(q)}}

-----------------------------------------------------------------------------
(* Safety.                                                                 *)

\* No frame is lost, and no frame has two homes: a page is never handed to two
\* virtual pages, nor put back on a free list or in a cache while in use.
FrameHasOneHome == \A f \in Frames : Cardinality(Homes(f)) = 1

\* A slot whose bit is set has exactly one owner, and a clear slot none: no slot
\* leaks, none is given out twice, and clear_disk_slot and set_disk_slot always
\* find the bit they assert (disk.c:152, 169).
SlotHasOneOwner ==
    \A s \in Slots : Cardinality(SlotOwners(s)) = IF s \in inUse THEN 1 ELSE 0

\* Whoever gets the lock of a PFN finds the page where its status says it is:
\* a list, the writer's batch, a free list or cache, or under a valid PTE.
UnlockedPfnIsWhereItSays ==
    \A f \in Unlocked(Frames) :
        /\ pfn[f].status = "MODIFIED"  <=> f \in modified
        /\ pfn[f].status = "STANDBY"   <=> f \in standby
        /\ pfn[f].status = "MID_WRITE" => f \in Elems(writeBatch) \cup {cur}
        /\ pfn[f].status = "FREE"      <=> f \in free \/ \E u \in Users : f \in cache[u]
        /\ pfn[f].status = "ACTIVE" =>
              \E p \in Ptes : pte[p] = ValidPte(f) /\ pfn[f].pte = p

\* What resolve_soft_fault asserts once it has both locks (page_fault_handler.c:80, 89,
\* 113): a page that was not stolen while the thread waited is in transition still,
\* neither active nor free.
SoftFaultAssertions ==
    \A u \in {w \in Users : pc[w] = "softLockPfn" /\ page[w] \in Frames} :
        pfnLock[page[u]] = Nil /\ pte[va[u]].fmt # "disk" =>
            /\ pte[va[u]].fmt = "transition"
            /\ pfn[page[u]].status \in {"MODIFIED", "MID_WRITE", "STANDBY"}

\* trim_pages looks at the PTE before it has the lock and never again: the page
\* it then locks must still be the active page of that PTE.
TrimmedPageIsActive ==
    tpc = "lockPfn" =>
        /\ pte[trimPte] = ValidPte(trimPage)
        /\ pfnLock[trimPage] = Nil =>
              pfn[trimPage].status = "ACTIVE" /\ pfn[trimPage].pte = trimPte

\* A virtual page is mapped only to its own frame, and a page that its PTE calls
\* valid is mapped: no two virtual pages share a frame, no thread writes to a
\* frame after the frame went to another page, none spins on a valid PTE.
MappedToOwnFrame ==
    \A p \in Ptes :
        /\ pte[p].fmt = "valid" => mapped[p] = pte[p].ref
        /\ mapped[p] # Nil =>
              \/ pte[p] \in {ValidPte(mapped[p]), TransitionPte(mapped[p])}
              \/ \E u \in Users : /\ pc[u] \in {"hardFill", "hardDone"}
                                  /\ va[u] = p
                                  /\ page[u] = mapped[p]

\* "Assert that we never acquire recursively" (pfn.c:99): the writer, which keeps
\* the lock of every page it has written, never waits for one of those.
NoRecursiveLock == wpc = "relock" => pfnLock[cur] # Writer

\* The thread that holds the lock that thread t spins on.
WaitsFor(t) ==
    CASE t \in Users /\ pc[t] = "soft"        -> pteLock[va[t]]
      [] t \in Users /\ pc[t] = "softLockPfn" -> pfnLock[page[t]]
      [] t = Trimmer /\ tpc = "lockPfn"       -> pfnLock[trimPage]
      [] t = Writer /\ wpc = "relock"         -> pfnLock[cur]
      [] OTHER                                -> Nil

\* Fault handlers, trimmer and writer never wait for one another in a circle, although
\* the trimmer and the writer keep the PFN locks of a whole batch, and fault handlers
\* and the trimmer a PTE lock, while they wait (the writer that waits for itself is
\* NoRecursiveLock's matter).
NoCircularWait ==
    \A S \in (SUBSET Threads) \ {{}} : \E t \in S : WaitsFor(t) \notin S \ {t}

\* pop_slot asserts that a slot is stashed (disk.c:89): the writer sized its
\* batch once and pops one slot per page, also for pages it then abandons.
StashCoversBatch ==
    wpc \in {"copy", "relock"} => Cardinality(stash) >= Len(writeBatch)

-----------------------------------------------------------------------------
(* Steps.                                                                  *)

\* The comment at page_fault_handler.c:76-79: while a PTE is locked the others
\* can only move it from transition to disk, and a disk-format PTE leaves that
\* format only under its lock.
LockedPteOnlyGoesToDisk ==
    [][\A p \in Ptes : pte'[p] # pte[p] =>
          /\ pteLock[p] # Nil /\ pteLock'[p] = pteLock[p]
                => pte[p].fmt = "transition" /\ pte'[p].fmt = "disk"
          /\ pte[p].fmt = "disk" => pteLock[p] # Nil]_vars

\* "Since we have the PTE and page locks, we can now safely map the page"
\* (page_fault_handler.c:314): nobody writes to a frame that is being filled.
FillIsPrivate ==
    [][\A u \in Users : pc[u] = "hardFill" /\ pc'[u] = "hardFill"
          => contents'[page[u]] = contents[page[u]]]_vars

-----------------------------------------------------------------------------
(* The manager implements VirtualMemory.  A page's content is in its frame  *)
(* while a PTE or a thread that has filled the frame refers to it, and in   *)
(* its slot otherwise.                                                     *)

Filled(p) == {u \in Users : pc[u] = "hardDone" /\ va[u] = p}
ValueOf(p) ==
    IF Filled(p) # {} THEN contents[page[CHOOSE u \in Filled(p) : TRUE]]
    ELSE CASE pte[p].fmt = "zero" -> Zero
           [] pte[p].fmt = "disk" -> pagefile[pte[p].ref]
           [] OTHER               -> contents[pte[p].ref]

PageValues == [p \in Ptes |-> ValueOf(p)]

\* The pages that are mapped and not yet filled.
FillWindow == {va[u] : u \in {w \in Users : pc[w] = "hardFill"}}

VM == INSTANCE VirtualMemory
        WITH Pages   <- Ptes,
             mem     <- PageValues,
             pending <- va,
             window  <- FillWindow

\* Every store is seen by all later accesses to the page and no other event
\* changes any page, whatever trimming, writing and stealing happen in between.
ImplementsVirtualMemory == VM!Spec

\* The slots that the page being written, a standby PFN or a disk-format PTE owns.
SlotsUsed == {s \in Slots : SlotOwners(s) \ {<<"stash", "list">>} # {}}

\* The page file as the threads use it: a slot is free, stashed or in use.
Pool == INSTANCE SlotPool
        WITH PoolSlots <- Slots,
             free  <- Slots \ inUse,
             stash <- stash,
             used  <- SlotsUsed

\* Trimmer, writer and fault handlers keep to the rules of the pool that DiskSlots
\* implements: they write only to stashed slots, clear only slots that a page has
\* used, and the last reference to a slot goes in the step that frees it.
UsesSlotPool == Pool!PoolSpec
=============================================================================
