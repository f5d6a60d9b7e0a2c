------------------------------ MODULE PageList -----------------------------
(***************************************************************************)
(* One page list (modified_list or standby_list of page_list.c) link by    *)
(* link: soft faults that take their page out of the middle, the thread    *)
(* that takes batches from the head (the writer, or a fault handler that   *)
(* steals), and the thread that adds batches at the tail (the trimmer, or  *)
(* the writer).  Every page has its byte lock, the head of the list too,   *)
(* and the list has a slim reader/writer lock.                             *)
(*                                                                         *)
(* Each attempt to take a lock is a step; a write to a link that others    *)
(* may read is a step.  The attempts (30 in the code) are not counted: an  *)
(* operation that has failed at least once may try again or give up.       *)
(* Giving up, a soft fault locks the list exclusively; a batch removal     *)
(* goes on without the list lock.                                          *)
(***************************************************************************)
EXTENDS Integers, FiniteSets, Sequences, Sums

CONSTANTS
    Pages,          \* PFNs that can be on this list
    ListHead,           \* list->head
    Faulters,       \* threads in remove_page_on_soft_fault
    Removers,       \* threads in remove_batch_from_list_head
    Inserters,      \* threads in insert_list_to_tail_list
    NoThread,       \* an unlocked lock
    Nil,            \* a link that leads to no page of this list
    BatchCapacity,  \* capacity of a removal
    InsertBatch     \* the largest batch that is inserted

Threads == Faulters \cup Removers \cup Inserters
Nodes == Pages \cup {ListHead}

\* Each thread does one kind of operation at a time.
ASSUME ListAssumption ==
    /\ ListHead \notin Pages /\ Nil \notin Nodes
    /\ NoThread \notin Threads
    /\ Faulters \cap Removers = {} /\ Faulters \cap Inserters = {}
    /\ Removers \cap Inserters = {}
    /\ BatchCapacity \in Nat \ {0}
    /\ IsFiniteSet(Pages) /\ IsFiniteSet(Threads)

VARIABLES
    flink, blink,   \* the links of every page and of the head
    pfnLock,        \* the owner of each page's lock, and of the head's
    readers,        \* threads that hold list->lock shared
    exclusive,      \* the thread that holds it exclusively
    list_size,      \* list->list_size
    listed,         \* pages whose status says that they are on the list
    pc,             \* where each thread is
    page,           \* pfn; first_page; first
    fwd, bck,       \* flink, blink; next_page; last, tail
    count,          \* num_pages_batched; the pages of a batch still locked
    overtaken       \* a thread without the locks it needs has been among the pages

locks == <<pfnLock, readers, exclusive>>
listVars == <<flink, blink, locks, list_size, listed, pc, page, fwd, bck, count>>
vars == <<listVars, overtaken>>

Init == /\ flink = [n \in Nodes |-> IF n = ListHead THEN ListHead ELSE Nil]
        /\ blink = flink
        /\ pfnLock = [n \in Nodes |-> NoThread]
        /\ readers = {}
        /\ exclusive = NoThread
        /\ list_size = 0
        /\ listed = {}
        /\ pc = [t \in Threads |-> "idle"]
        /\ page = [t \in Threads |-> Nil]
        /\ fwd = page
        /\ bck = page
        /\ count = [t \in Threads |-> 0]
        /\ overtaken = FALSE

-----------------------------------------------------------------------------
(* Locks.                                                                  *)

Goto(t, from, to) == pc[t] = from /\ pc' = [pc EXCEPT ![t] = to]

\* try_lock_pfn, with the step that follows either outcome.
TryLock(t, n) ==
    /\ pfnLock[n] = NoThread
    /\ pfnLock' = [pfnLock EXCEPT ![n] = t]

\* All locks of t on pages other than those in keep, and the list lock.
Release(t, keep) ==
    /\ pfnLock' = [n \in Nodes |-> IF pfnLock[n] = t /\ n \notin keep THEN NoThread
                                   ELSE pfnLock[n]]
    /\ readers' = readers \ {t}
    /\ exclusive' = IF exclusive = t THEN NoThread ELSE exclusive

LockShared(t) ==
    /\ exclusive = NoThread
    /\ readers' = readers \cup {t}
    /\ UNCHANGED <<pfnLock, exclusive>>

LinksUnchanged == UNCHANGED <<flink, blink, list_size, listed>>
LocalsUnchanged == UNCHANGED <<page, fwd, bck, count>>

-----------------------------------------------------------------------------
(* A soft fault on page p: remove_page_on_soft_fault.                      *)

\* The fault handler has locked the page and seen that it is on the list; the
\* neighbours are read once, before any other lock.
SoftBegin(t, p) ==
    /\ Goto(t, "idle", "share")
    /\ p \in listed
    /\ TryLock(t, p)
    /\ page' = [page EXCEPT ![t] = p]
    /\ fwd' = [fwd EXCEPT ![t] = flink[p]]
    /\ bck' = [bck EXCEPT ![t] = blink[p]]
    /\ UNCHANGED <<readers, exclusive, count>> /\ LinksUnchanged

SoftShare(t) ==
    /\ \/ Goto(t, "share", "flink") /\ LockShared(t)
       \/ Goto(t, "share", "retry") /\ exclusive # NoThread /\ UNCHANGED locks
    /\ LinksUnchanged /\ LocalsUnchanged

SoftLockFlink(t) ==
    /\ \/ /\ Goto(t, "flink", "blink")
          /\ TryLock(t, fwd[t])
          /\ UNCHANGED <<readers, exclusive>>
       \/ /\ Goto(t, "flink", "retry")
          /\ pfnLock[fwd[t]] # NoThread
          /\ Release(t, {page[t]})
    /\ LinksUnchanged /\ LocalsUnchanged

\* Faulty SoftLockBlink: only one neighbour is locked.
SoftLockBlinkSkipped(t) ==
    /\ Goto(t, "blink", "unlink")
    /\ UNCHANGED locks /\ LinksUnchanged /\ LocalsUnchanged

\* If both neighbours are the same node, it is the head.
SoftLockBlink(t) ==
    /\ \/ /\ Goto(t, "blink", "unlink")
          /\ \/ fwd[t] = bck[t] /\ UNCHANGED pfnLock
             \/ fwd[t] # bck[t] /\ TryLock(t, bck[t])
          /\ UNCHANGED <<readers, exclusive>>
       \/ /\ Goto(t, "blink", "retry")
          /\ fwd[t] # bck[t] /\ pfnLock[bck[t]] # NoThread
          /\ Release(t, {page[t]})
    /\ LinksUnchanged /\ LocalsUnchanged

SoftRetry(t) ==
    /\ Goto(t, "retry", "share")
    /\ UNCHANGED locks /\ LinksUnchanged /\ LocalsUnchanged

\* After MAX_SOFT_ACCESS_ATTEMPTS the list is locked exclusively, without the
\* locks of the neighbours.
SoftGiveUp(t) ==
    /\ Goto(t, "retry", "exclusive")
    /\ UNCHANGED locks /\ LinksUnchanged /\ LocalsUnchanged

\* Faulty SoftExclusive: it does not wait for the readers.
SoftExclusiveEager(t) ==
    /\ Goto(t, "exclusive", "unlink")
    /\ exclusive = NoThread
    /\ exclusive' = t
    /\ UNCHANGED <<pfnLock, readers>> /\ LinksUnchanged /\ LocalsUnchanged

SoftExclusive(t) ==
    /\ Goto(t, "exclusive", "unlink")
    /\ readers = {} /\ exclusive = NoThread
    /\ exclusive' = t
    /\ UNCHANGED <<pfnLock, readers>> /\ LinksUnchanged /\ LocalsUnchanged

\* remove_page_from_list reads the links of the page again; it may find other
\* neighbours than those that were locked.
SoftUnlinkForward(t) ==
    /\ Goto(t, "unlink", "unlink2")
    /\ LET p == page[t] IN
          /\ fwd' = [fwd EXCEPT ![t] = flink[p]]
          /\ bck' = [bck EXCEPT ![t] = blink[p]]
          /\ flink' = [flink EXCEPT ![blink[p]] = flink[p]]
    /\ UNCHANGED <<blink, locks, list_size, listed, page, count>>

\* The second link; then the list and the neighbours are unlocked.
SoftUnlinkBack(t) ==
    /\ Goto(t, "unlink2", "count")
    /\ blink' = [blink EXCEPT ![fwd[t]] = bck[t]]
    /\ Release(t, {page[t]})
    /\ UNCHANGED <<flink, list_size, listed>> /\ LocalsUnchanged

\* Faulty SoftDone: the size is not decremented.
SoftDoneUncounted(t) ==
    /\ Goto(t, "count", "idle")
    /\ listed' = listed \ {page[t]}
    /\ Release(t, {})
    /\ page' = [page EXCEPT ![t] = Nil]
    /\ fwd' = [fwd EXCEPT ![t] = Nil]
    /\ bck' = [bck EXCEPT ![t] = Nil]
    /\ UNCHANGED <<flink, blink, list_size, count>>

\* The size is decremented later; the fault handler makes the page active.
SoftDone(t) ==
    /\ Goto(t, "count", "idle")
    /\ list_size' = list_size - 1
    /\ listed' = listed \ {page[t]}
    /\ Release(t, {})
    /\ page' = [page EXCEPT ![t] = Nil]
    /\ fwd' = [fwd EXCEPT ![t] = Nil]
    /\ bck' = [bck EXCEPT ![t] = Nil]
    /\ UNCHANGED <<flink, blink, count>>

-----------------------------------------------------------------------------
(* A batch from the head: remove_batch_from_list_head.                     *)

RemoveShare(t) ==
    /\ \/ \E from \in {"idle", "again"} : Goto(t, from, "head") /\ LockShared(t)
       \/ /\ \E from \in {"idle", "again"} : Goto(t, from, "retry")
          /\ exclusive # NoThread
          /\ UNCHANGED locks
    /\ LinksUnchanged /\ LocalsUnchanged

RemoveLockHead(t) ==
    /\ \/ Goto(t, "head", "first") /\ TryLock(t, ListHead) /\ UNCHANGED <<readers, exclusive>>
       \/ Goto(t, "head", "retry") /\ pfnLock[ListHead] # NoThread /\ Release(t, {})
    /\ LinksUnchanged /\ LocalsUnchanged

\* No page on the list: nothing is removed.
RemoveNothing(t) ==
    /\ Goto(t, "first", "idle")
    /\ flink[ListHead] = ListHead
    /\ Release(t, {})
    /\ LinksUnchanged /\ LocalsUnchanged

RemoveLockFirst(t) ==
    /\ flink[ListHead] # ListHead
    /\ \/ /\ Goto(t, "first", "next")
          /\ TryLock(t, flink[ListHead])
          /\ page' = [page EXCEPT ![t] = flink[ListHead]]
          /\ UNCHANGED <<readers, exclusive>>
       \/ /\ Goto(t, "first", "retry")
          /\ pfnLock[flink[ListHead]] # NoThread
          /\ Release(t, {})
          /\ UNCHANGED page
    /\ LinksUnchanged /\ UNCHANGED <<fwd, bck, count>>

\* Faulty RemoveOnly: the page is not counted.
RemoveOnlyUncounted(t) ==
    /\ Goto(t, "next", "size")
    /\ flink[page[t]] = ListHead
    /\ flink' = [flink EXCEPT ![ListHead] = ListHead]
    /\ blink' = [blink EXCEPT ![ListHead] = ListHead]
    /\ Release(t, {page[t]})
    /\ UNCHANGED <<list_size, listed, page, fwd, bck, count>>

\* The only page of the list.
RemoveOnly(t) ==
    /\ Goto(t, "next", "size")
    /\ flink[page[t]] = ListHead
    /\ flink' = [flink EXCEPT ![ListHead] = ListHead]
    /\ blink' = [blink EXCEPT ![ListHead] = ListHead]
    /\ count' = [count EXCEPT ![t] = 1]
    /\ Release(t, {page[t]})
    /\ UNCHANGED <<list_size, listed, page, fwd, bck>>

\* Faulty RemoveLockNext: the page after the first is taken unlocked.
RemoveLockNextUntried(t) ==
    /\ Goto(t, "next", "extend")
    /\ flink[page[t]] # ListHead
    /\ fwd' = [fwd EXCEPT ![t] = flink[page[t]]]
    /\ count' = [count EXCEPT ![t] = 1]
    /\ UNCHANGED <<locks, page, bck>> /\ LinksUnchanged

RemoveLockNext(t) ==
    /\ pc[t] = "next" /\ flink[page[t]] # ListHead
    /\ \/ /\ Goto(t, "next", "extend")
          /\ TryLock(t, flink[page[t]])
          /\ fwd' = [fwd EXCEPT ![t] = flink[page[t]]]
          /\ count' = [count EXCEPT ![t] = 1]
          /\ UNCHANGED <<readers, exclusive, page>>
       \/ /\ Goto(t, "next", "retry")
          /\ pfnLock[flink[page[t]]] # NoThread
          /\ Release(t, {})
          /\ page' = [page EXCEPT ![t] = Nil]
          /\ UNCHANGED <<fwd, count>>
    /\ LinksUnchanged /\ UNCHANGED bck

\* The batch grows while it may and the next page can be locked.  fwd is the page
\* behind the batch, and the head once every page is in it.
RemoveExtend(t) ==
    /\ count[t] < BatchCapacity
    /\ LET look_ahead == flink[fwd[t]] IN
          \/ /\ Goto(t, "extend", "detach")
             /\ look_ahead = ListHead
             /\ fwd' = [fwd EXCEPT ![t] = ListHead]
             /\ count' = [count EXCEPT ![t] = @ + 1]
             /\ UNCHANGED pfnLock
          \/ /\ Goto(t, "extend", "extend")
             /\ look_ahead # ListHead
             /\ TryLock(t, look_ahead)
             /\ fwd' = [fwd EXCEPT ![t] = look_ahead]
             /\ count' = [count EXCEPT ![t] = @ + 1]
    /\ UNCHANGED <<readers, exclusive, page, bck>> /\ LinksUnchanged

RemoveEnough(t) ==
    /\ Goto(t, "extend", "detach")
    /\ \/ count[t] = BatchCapacity
       \/ flink[fwd[t]] # ListHead /\ pfnLock[flink[fwd[t]]] # NoThread
    /\ UNCHANGED locks /\ LinksUnchanged /\ LocalsUnchanged

RemoveDetachForward(t) ==
    /\ Goto(t, "detach", "detach2")
    /\ flink' = [flink EXCEPT ![ListHead] = fwd[t]]
    /\ UNCHANGED <<blink, locks, list_size, listed>> /\ LocalsUnchanged

\* Then the list, the head and the page behind the batch are unlocked, as far as
\* they were locked.
RemoveDetachBack(t) ==
    /\ Goto(t, "detach2", "size")
    /\ blink' = [blink EXCEPT ![fwd[t]] = ListHead]
    /\ pfnLock' = [n \in Nodes |-> IF n \in {ListHead, fwd[t]} /\ pfnLock[n] = t THEN NoThread
                                   ELSE pfnLock[n]]
    /\ readers' = readers \ {t}
    /\ UNCHANGED <<flink, exclusive, list_size, listed>> /\ LocalsUnchanged

RemoveCount(t) ==
    /\ Goto(t, "size", "consume")
    /\ list_size' = list_size - count[t]
    /\ UNCHANGED <<flink, blink, locks, listed>> /\ LocalsUnchanged

\* The caller goes along the batch, changes the state of each page and unlocks it.
RemoveConsume(t) ==
    /\ pc[t] = "consume"
    /\ listed' = listed \ {page[t]}
    /\ pfnLock' = [pfnLock EXCEPT ![page[t]] = NoThread]
    /\ count' = [count EXCEPT ![t] = @ - 1]
    /\ IF count[t] = 1
       THEN /\ pc' = [pc EXCEPT ![t] = "idle"]
            /\ page' = [page EXCEPT ![t] = Nil]
            /\ fwd' = [fwd EXCEPT ![t] = Nil]
       ELSE /\ page' = [page EXCEPT ![t] = flink[page[t]]]
            /\ UNCHANGED <<pc, fwd>>
    /\ UNCHANGED <<flink, blink, readers, exclusive, list_size, bck>>

RemoveRetry(t) ==
    /\ Goto(t, "retry", "again")
    /\ UNCHANGED locks /\ LinksUnchanged /\ LocalsUnchanged

\* After MAX_HARD_ACCESS_ATTEMPTS: remove_batch_from_list_head_exclusive, which is
\* called without the lock that it assumes to be held.
RemoveGiveUp(t) ==
    /\ \/ Goto(t, "retry", "walk") /\ flink[ListHead] # ListHead
       \/ Goto(t, "retry", "idle") /\ flink[ListHead] = ListHead
    /\ page' = [page EXCEPT ![t] = IF flink[ListHead] = ListHead THEN Nil ELSE flink[ListHead]]
    /\ fwd' = [fwd EXCEPT ![t] = page'[t]]
    /\ UNCHANGED <<bck, count>> /\ UNCHANGED locks /\ LinksUnchanged

\* lock_pfn waits for each page of the batch.
RemoveWalk(t) ==
    /\ pc[t] = "walk"
    /\ fwd[t] # ListHead /\ count[t] < BatchCapacity
    /\ TryLock(t, fwd[t])
    /\ fwd' = [fwd EXCEPT ![t] = flink[fwd[t]]]
    /\ count' = [count EXCEPT ![t] = @ + 1]
    /\ UNCHANGED <<readers, exclusive, pc, page, bck>> /\ LinksUnchanged

RemoveWalked(t) ==
    /\ Goto(t, "walk", "detach")
    /\ fwd[t] = ListHead \/ count[t] = BatchCapacity
    /\ UNCHANGED locks /\ LinksUnchanged /\ LocalsUnchanged

-----------------------------------------------------------------------------
(* A batch to the tail: insert_list_to_tail_list.                          *)

\* The caller has locked its pages, which are on no list, and has chained them in
\* a list of its own.
InsertBegin(t, batch) ==
    LET n == Len(batch) IN
    /\ Goto(t, "idle", "share")
    /\ \A i \in 1..n : batch[i] \notin listed /\ pfnLock[batch[i]] = NoThread
    /\ pfnLock' = [m \in Nodes |-> IF \E i \in 1..n : batch[i] = m THEN t ELSE pfnLock[m]]
    /\ flink' = [m \in Nodes |-> IF \E i \in 1..n : batch[i] = m
                                 THEN LET i == CHOOSE i \in 1..n : batch[i] = m
                                      IN  IF i = n THEN Nil ELSE batch[i + 1]
                                 ELSE flink[m]]
    /\ blink' = [m \in Nodes |-> IF \E i \in 1..n : batch[i] = m
                                 THEN LET i == CHOOSE i \in 1..n : batch[i] = m
                                      IN  IF i = 1 THEN Nil ELSE batch[i - 1]
                                 ELSE blink[m]]
    /\ page' = [page EXCEPT ![t] = batch[1]]
    /\ fwd' = [fwd EXCEPT ![t] = batch[n]]
    /\ count' = [count EXCEPT ![t] = n]
    /\ UNCHANGED <<readers, exclusive, list_size, listed, bck>>

\* AcquireSRWLockShared waits.
InsertShare(t) ==
    /\ Goto(t, "share", "head")
    /\ LockShared(t)
    /\ LinksUnchanged /\ LocalsUnchanged

\* A failed attempt keeps the locks of the batch itself.
InsertBackOff(t) ==
    /\ pfnLock' = IF pfnLock[ListHead] = t THEN [pfnLock EXCEPT ![ListHead] = NoThread] ELSE pfnLock
    /\ readers' = readers \ {t}
    /\ UNCHANGED exclusive

InsertLockHead(t) ==
    /\ \/ Goto(t, "head", "tail") /\ TryLock(t, ListHead) /\ UNCHANGED <<readers, exclusive>>
       \/ Goto(t, "head", "share") /\ pfnLock[ListHead] # NoThread /\ InsertBackOff(t)
    /\ LinksUnchanged /\ LocalsUnchanged

InsertLockTail(t) ==
    /\ LET tail == blink[ListHead] IN
          \/ /\ Goto(t, "tail", "link")
             /\ \/ tail = ListHead /\ UNCHANGED pfnLock
                \/ tail # ListHead /\ TryLock(t, tail)
             /\ bck' = [bck EXCEPT ![t] = tail]
             /\ UNCHANGED <<readers, exclusive>>
          \/ /\ Goto(t, "tail", "share")
             /\ tail # ListHead /\ pfnLock[tail] # NoThread
             /\ InsertBackOff(t)
             /\ UNCHANGED bck
    /\ LinksUnchanged /\ UNCHANGED <<page, fwd, count>>

\* Faulty InsertLinkFirst: the batch is linked behind the head.
InsertLinkFirstAtHead(t) ==
    /\ Goto(t, "link", "link2")
    /\ flink' = [flink EXCEPT ![ListHead] = page[t]]
    /\ blink' = [blink EXCEPT ![page[t]] = ListHead]
    /\ UNCHANGED <<locks, list_size, listed>> /\ LocalsUnchanged

InsertLinkFirst(t) ==
    /\ Goto(t, "link", "link2")
    /\ flink' = [flink EXCEPT ![bck[t]] = page[t]]
    /\ blink' = [blink EXCEPT ![page[t]] = bck[t]]
    /\ UNCHANGED <<locks, list_size, listed>> /\ LocalsUnchanged

\* Faulty InsertLinkLast: the last page is linked to the old tail, not to the head.
InsertLinkLastToTail(t) ==
    /\ Goto(t, "link2", "size")
    /\ flink' = [flink EXCEPT ![fwd[t]] = bck[t]]
    /\ blink' = [blink EXCEPT ![ListHead] = fwd[t]]
    /\ pfnLock' = [n \in Nodes |-> IF n \in {ListHead, bck[t]} /\ pfnLock[n] = t THEN NoThread
                                   ELSE pfnLock[n]]
    /\ readers' = readers \ {t}
    /\ bck' = [bck EXCEPT ![t] = Nil]
    /\ UNCHANGED <<exclusive, list_size, listed, page, fwd, count>>

InsertLinkLast(t) ==
    /\ Goto(t, "link2", "size")
    /\ flink' = [flink EXCEPT ![fwd[t]] = ListHead]
    /\ blink' = [blink EXCEPT ![ListHead] = fwd[t]]
    /\ pfnLock' = [n \in Nodes |-> IF n \in {ListHead, bck[t]} /\ pfnLock[n] = t THEN NoThread
                                   ELSE pfnLock[n]]
    /\ readers' = readers \ {t}
    /\ bck' = [bck EXCEPT ![t] = Nil]
    /\ UNCHANGED <<exclusive, list_size, listed, page, fwd, count>>

InsertCount(t) ==
    /\ Goto(t, "size", "unlock")
    /\ list_size' = list_size + count[t]
    /\ UNCHANGED <<flink, blink, locks, listed>> /\ LocalsUnchanged

\* The pages are unlocked one by one along the list; from then on others see them.
InsertUnlock(t) ==
    /\ pc[t] = "unlock"
    /\ listed' = listed \cup {page[t]}
    /\ pfnLock' = [pfnLock EXCEPT ![page[t]] = NoThread]
    /\ count' = [count EXCEPT ![t] = @ - 1]
    /\ IF count[t] = 1
       THEN /\ pc' = [pc EXCEPT ![t] = "idle"]
            /\ page' = [page EXCEPT ![t] = Nil]
            /\ fwd' = [fwd EXCEPT ![t] = Nil]
       ELSE /\ page' = [page EXCEPT ![t] = flink[page[t]]]
            /\ UNCHANGED <<pc, fwd>>
    /\ UNCHANGED <<flink, blink, readers, exclusive, list_size, bck>>

-----------------------------------------------------------------------------
Batches == {s \in UNION {[1..n -> Pages] : n \in 1..InsertBatch} :
               \A i, j \in 1..Len(s) : i # j => s[i] # s[j]}

SoftShared(t) == \/ SoftShare(t) \/ SoftLockFlink(t) \/ SoftLockBlink(t)
                 \/ SoftUnlinkForward(t) \/ SoftUnlinkBack(t) \/ SoftDone(t)

RemoveShared(t) == \/ RemoveLockHead(t) \/ RemoveNothing(t) \/ RemoveLockFirst(t)
                   \/ RemoveOnly(t) \/ RemoveLockNext(t) \/ RemoveExtend(t)
                   \/ RemoveEnough(t) \/ RemoveDetachForward(t) \/ RemoveDetachBack(t)
                   \/ RemoveCount(t) \/ RemoveConsume(t)

Insert(t) == \/ InsertShare(t) \/ InsertLockHead(t) \/ InsertLockTail(t)
             \/ InsertLinkFirst(t) \/ InsertLinkLast(t) \/ InsertCount(t)
             \/ InsertUnlock(t)

\* What the threads do as long as none of them gives up.
SharedNext ==
    \/ \E t \in Faulters : \/ \E p \in Pages : SoftBegin(t, p)
                           \/ SoftShared(t) \/ SoftRetry(t)
    \/ \E t \in Removers : RemoveShare(t) \/ RemoveShared(t) \/ RemoveRetry(t)
    \/ \E t \in Inserters : \/ \E b \in Batches : InsertBegin(t, b)
                            \/ Insert(t)

\* A soft fault that has read its neighbours and has still to take its page out.
Looked(t) == pc[t] \in {"share", "flink", "blink", "retry", "exclusive", "unlink"}

\* SoftExclusive waits for the list lock, and not for soft faults that have read their
\* neighbours and are between two attempts.  They go on to lock the nodes they have
\* read, which need not be the neighbours any more, and then links can be lost.
SoftOvertakes(t) == \E u \in Faulters \ {t} : Looked(u)

\* ... and with soft faults that give up.  overtaken only records that one of them has
\* overtaken another; no guard reads it.
SoftNext ==
    \/ SharedNext /\ UNCHANGED overtaken
    \/ \E t \in Faulters : \/ SoftGiveUp(t) /\ UNCHANGED overtaken
                           \/ SoftExclusive(t) /\ overtaken' = (overtaken \/ SoftOvertakes(t))

\* ... and with removals that give up, and walk along the list without its lock.
Next ==
    \/ SoftNext
    \/ \E t \in Removers :
          \/ RemoveGiveUp(t) /\ overtaken' = (overtaken \/ flink[ListHead] # ListHead)
          \/ (RemoveWalk(t) \/ RemoveWalked(t)) /\ UNCHANGED overtaken

SoftSpec == Init /\ [][SoftNext]_vars
Spec == Init /\ [][Next]_vars

-----------------------------------------------------------------------------
\* Types (page_list.h:22-37, pfn.h); a batch never counts less than no pages.
FieldsOK ==
    /\ flink \in [Nodes -> Nodes \cup {Nil}]
    /\ blink \in [Nodes -> Nodes \cup {Nil}]
    /\ pfnLock \in [Nodes -> Threads \cup {NoThread}]
    /\ readers \in SUBSET Threads
    /\ exclusive \in Threads \cup {NoThread}
    /\ list_size \in Int
    /\ listed \in SUBSET Pages
    /\ pc \in [Threads -> {"idle", "share", "flink", "blink", "retry", "exclusive",
                           "unlink", "unlink2", "count", "again", "head", "first", "next",
                           "extend", "detach", "detach2", "size", "consume", "walk",
                           "tail", "link", "link2", "unlock"}]
    /\ page \in [Threads -> Pages \cup {Nil}]
    /\ fwd \in [Threads -> Nodes \cup {Nil}]
    /\ bck \in [Threads -> Nodes \cup {Nil}]
    /\ count \in [Threads -> Nat]

TypeOK == FieldsOK /\ overtaken \in BOOLEAN

\* Where the flinks lead from the head: to every page of the list, and then round
\* to the head again.
MaxLength == Cardinality(Pages)

Way == LET at[k \in 0..(MaxLength + 1)] ==
               IF k = 0 THEN flink[ListHead]
               ELSE LET before == at[k - 1]
                    IN  IF before \in Pages THEN flink[before] ELSE before
       IN  at

\* The pages on the list in the order of their flinks, as far as they lead.
Forward == LET way == Way
               len == Cardinality({k \in 0..(MaxLength + 1) : way[k] \in Pages})
           IN  [k \in 1..len |-> way[k - 1]]

OnList == LET order == Forward IN {order[k] : k \in 1..Len(order)}

\* When validate_list can run: nobody holds the list lock.
AtRest == readers = {} /\ exclusive = NoThread

\* The two ways along the list agree (validate_list asserts it, page_list.c:744 and
\* 748), and the flinks lead back to the head.
LinksAgree ==
    AtRest =>
        /\ Len(Forward) <= MaxLength
        /\ \A n \in OnList \cup {ListHead} : /\ flink[n] \in Nodes /\ blink[n] \in Nodes
                                         /\ blink[flink[n]] = n
                                         /\ flink[blink[n]] = n

\* They agree until a thread overtakes another one: shared soft faults, removals,
\* insertions and an exclusive soft fault that nobody waits beside lose no link,
\* however old the neighbours are that they have read.
LinksAgreeUntilOvertaken == ~overtaken => LinksAgree

\* Nothing is lost and nothing returns: an unlocked page is on the list exactly
\* if its status says so, until a thread overtakes another one.
StatusIsTrue ==
    AtRest /\ ~overtaken =>
              LET unlocked == {p \in Pages : pfnLock[p] = NoThread}
              IN  listed \cap unlocked = OnList \cap unlocked

\* The first n pages along the flinks from first on.
Along(first, n) == LET at[k \in 1..n] == IF k = 1 THEN first ELSE flink[at[k - 1]] IN at

\* The pages that a removal has taken were on the list for all to see, are off it,
\* follow one another, and are locked for the caller (page_list.h:196-198): no page
\* is handed to two callers.
BatchIsTaken ==
    \A t \in Removers : pc[t] \in {"size", "consume"} =>
        LET at == Along(page[t], count[t])
        IN  /\ count[t] <= BatchCapacity
            /\ \A k \in 1..count[t] : at[k] \in listed /\ pfnLock[at[k]] = t
            /\ AtRest => {at[k] : k \in 1..count[t]} \cap OnList = {}
            /\ \A j, k \in 1..count[t] : j # k => at[j] # at[k]

\* Every batch is taken so until a thread overtakes another one.
BatchIsTakenUntilOvertaken == ~overtaken => BatchIsTaken

\* list_size counts the pages on the list, up to the updates that are on their way
\* (and until a thread overtakes another one).
Joined == [t \in Threads |-> IF t \in Inserters /\ pc[t] = "size" THEN count[t] ELSE 0]
Taken == [t \in Threads |-> CASE t \in Removers /\ pc[t] = "size" -> count[t]
                             [] t \in Faulters /\ pc[t] = "count" -> 1
                             [] OTHER -> 0]

SizeCounts == AtRest /\ ~overtaken =>
                  list_size + Sum(Joined, Threads) - Sum(Taken, Threads) = Len(Forward)

\* remove_page_on_soft_fault asserts that equal neighbours are the head
\* (page_list.c:229), and they are until a thread overtakes another one.
EqualNeighboursAreTheHead ==
    ~overtaken => \A t \in Faulters : pc[t] = "blink" /\ fwd[t] = bck[t] => fwd[t] = ListHead

\* The list is a queue whose operations happen at once, until a thread overtakes
\* another one.
Queue == INSTANCE PageQueue WITH QPages <- Pages, queue <- Forward, broken <- overtaken

ImplementsPageQueue == Queue!QueueSpec
=============================================================================
