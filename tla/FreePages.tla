------------------------------ MODULE FreePages ------------------------------
(***************************************************************************)
(* Free pages: the free lists with one lock bit each, the cache that each  *)
(* user thread fills from them, the count of free pages that is updated    *)
(* after the lists, and the pruner that moves standby pages to the lists   *)
(* that have run low.  Pages are counted, not named.  The pruner is        *)
(* compiled in by PRUNING; the behaviours of a program without it are      *)
(* those in which no list is reckoned low and the pruner never steps.      *)
(***************************************************************************)
EXTENDS Integers, FiniteSets, Sums

CONSTANTS
    NumUsers,           \* vm.num_user_threads
    NumLists,           \* free_lists.number_of_lists
    NumPages,           \* vm.allocated_frame_count
    FreePageCacheSize,  \* FREE_PAGE_CACHE_SIZE
    StealBatch,         \* FREE_PAGE_CACHE_SIZE / 4
    MaxPruneBatch       \* MAX_PRUNE_BATCH_SIZE

\* A steal fits into the cache, which is empty then.
ASSUME FreePagesAssumption ==
    /\ {NumUsers, NumLists, FreePageCacheSize, StealBatch, MaxPruneBatch} \subseteq Nat \ {0}
    /\ NumPages \in Nat
    /\ StealBatch <= FreePageCacheSize

Users == 0..(NumUsers - 1)
FreeLists == 0..(NumLists - 1)
Nobody == NumUsers

VARIABLES
    free,           \* pages on each free list
    locked,         \* who has set the bit of each list in free_list_locks
    page_count,     \* free_lists.page_count
    low,            \* the lists whose bit is set in low_list_bitmap
    pruning,        \* initiate_pruning_event (auto reset)
    cache,          \* free_page_count of each user thread
    taken,          \* pages in a user thread's hands
    user,           \* where each user thread is
    index, attempts,    \* of try_get_free_pages
    standby, in_use,    \* pages on the standby list, all other pages
    pruner,         \* where the pruner is
    batch, lists,   \* batch_size, num_lists_to_fill
    unclear, fill,  \* lists whose bit is still to be cleared, that are still to be filled
    stranded,       \* pages that the pruner has taken off the standby list and forgotten
    offered         \* lists that had pages and no lock since a thread began to search

lists_state == <<free, locked, page_count>>
signals == <<low, pruning>>
search == <<user, index, attempts>>
prune == <<pruner, batch, lists, unclear, fill, stranded>>
others == <<standby, in_use>>
vars == <<lists_state, signals, cache, taken, search, prune, others, offered>>

\* Pages are dealt to the lists in turn; then each user thread fills its cache from
\* the list that its number leads to, what threads before it have left.
Dealt(l) == (NumPages + NumLists - 1 - l) \div NumLists

Least(x, y) == IF x < y THEN x ELSE y

InitialCache == [u \in Users |->
    LET left == Dealt(u % NumLists) - (u \div NumLists) * FreePageCacheSize
    IN  IF left <= 0 THEN 0 ELSE Least(left, FreePageCacheSize)]

InitialList == [l \in FreeLists |->
    Dealt(l) - Sum(InitialCache, {u \in Users : u % NumLists = l})]

Init ==
    /\ free = InitialList
    /\ locked = [l \in FreeLists |-> Nobody]
    /\ page_count = Sum(InitialList, FreeLists)
    /\ low = {} /\ pruning = FALSE
    /\ cache = InitialCache
    /\ taken = [u \in Users |-> 0]
    /\ user = [u \in Users |-> "idle"]
    /\ index = [u \in Users |-> 0] /\ attempts = [u \in Users |-> 0]
    /\ standby = 0 /\ in_use = 0
    /\ pruner = "wait" /\ batch = 0 /\ lists = 0 /\ unclear = {} /\ fill = {}
    /\ stranded = 0
    /\ offered = [u \in Users |-> {}]

-----------------------------------------------------------------------------
(* A user thread that needs a page: acquire_free_page.                     *)

Go(u, from, to) == user[u] = from /\ user' = [user EXCEPT ![u] = to]

List(u) == index[u]

Pop(u) ==
    /\ Go(u, "idle", "have")
    /\ cache[u] > 0
    /\ cache' = [cache EXCEPT ![u] = @ - 1]
    /\ taken' = [taken EXCEPT ![u] = 1]
    /\ UNCHANGED <<lists_state, signals, index, attempts, prune, others>>

\* The page resolves the fault.
Keep(u) ==
    /\ Go(u, "have", "idle")
    /\ taken' = [taken EXCEPT ![u] = 0]
    /\ in_use' = in_use + 1
    /\ UNCHANGED <<lists_state, signals, cache, index, attempts, prune, standby>>

\* Faulty GiveBack: the cache keeps its count.
GiveBackUncounted(u) ==
    /\ Go(u, "have", "idle")
    /\ taken' = [taken EXCEPT ![u] = 0]
    /\ UNCHANGED <<lists_state, signals, cache, index, attempts, prune, others>>

\* The fault has been resolved by another thread: add_page_to_cache_or_free_list.  The
\* page came from this cache, so that there is room; no page goes to a free list.
GiveBack(u) ==
    /\ Go(u, "have", "idle")
    /\ taken' = [taken EXCEPT ![u] = 0]
    /\ cache' = [cache EXCEPT ![u] = @ + 1]
    /\ UNCHANGED <<lists_state, signals, index, attempts, prune, others>>

\* try_get_free_pages: one look at each list, from the thread's own on.
Search(u) ==
    /\ cache[u] = 0
    /\ Go(u, "idle", IF page_count = 0 THEN "steal" ELSE "look")
    /\ index' = [index EXCEPT ![u] = u % NumLists]
    /\ attempts' = [attempts EXCEPT ![u] = 0]
    /\ UNCHANGED <<lists_state, signals, cache, taken, prune, others>>

\* Faulty Advance: the last list is left out.
AdvanceShort(u) ==
    /\ attempts' = [attempts EXCEPT ![u] = @ + 1]
    /\ index' = [index EXCEPT ![u] = (@ + 1) % NumLists]
    /\ user' = [user EXCEPT ![u] = IF attempts'[u] + 1 >= NumLists THEN "steal" ELSE "look"]

Advance(u) ==
    /\ attempts' = [attempts EXCEPT ![u] = @ + 1]
    /\ index' = [index EXCEPT ![u] = (@ + 1) % NumLists]
    /\ user' = [user EXCEPT ![u] = IF attempts'[u] < NumLists THEN "look" ELSE "steal"]

\* try_refill_cache_from_free_list: look before the lock and once more under it.
LookPages(u) ==
    /\ Go(u, "look", "lock")
    /\ free[List(u)] > 0
    /\ UNCHANGED <<lists_state, signals, cache, taken, index, attempts, prune, others>>

LookEmpty(u) ==
    /\ user[u] = "look" /\ free[List(u)] = 0
    /\ Advance(u)
    /\ UNCHANGED <<lists_state, signals, cache, taken, prune, others>>

LockList(u) ==
    /\ Go(u, "lock", "locked")
    /\ locked[List(u)] = Nobody
    /\ locked' = [locked EXCEPT ![List(u)] = u]
    /\ UNCHANGED <<free, page_count, signals, cache, taken, index, attempts, prune, others>>

LockBusy(u) ==
    /\ user[u] = "lock" /\ locked[List(u)] # Nobody
    /\ Advance(u)
    /\ UNCHANGED <<lists_state, signals, cache, taken, prune, others>>

TakeNothing(u) ==
    /\ user[u] = "locked" /\ free[List(u)] = 0
    /\ locked' = [locked EXCEPT ![List(u)] = Nobody]
    /\ Advance(u)
    /\ UNCHANGED <<free, page_count, signals, cache, taken, prune, others>>

TakeBatch(u) ==
    /\ Go(u, "locked", "unlock")
    /\ free[List(u)] > 0
    /\ taken' = [taken EXCEPT ![u] = Least(free[List(u)], FreePageCacheSize)]
    /\ free' = [free EXCEPT ![List(u)] = @ - taken'[u]]
    /\ UNCHANGED <<locked, page_count, signals, cache, index, attempts, prune, others>>

UnlockList(u) ==
    /\ Go(u, "unlock", "low")
    /\ locked' = [locked EXCEPT ![List(u)] = Nobody]
    /\ UNCHANGED <<free, page_count, signals, cache, taken, index, attempts, prune, others>>

\* The list may be reckoned low at any size, by the estimated time of the pruner's work.
\* First its bit is set, then the event.
MarkLow(u) ==
    /\ \/ Go(u, "low", "wake") /\ low' = low \cup {List(u)}
       \/ Go(u, "low", "fill") /\ UNCHANGED low
    /\ UNCHANGED <<lists_state, pruning, cache, taken, index, attempts, prune, others>>

WakePruner(u) ==
    /\ Go(u, "wake", "fill")
    /\ pruning' = TRUE
    /\ UNCHANGED <<lists_state, low, cache, taken, index, attempts, prune, others>>

\* Faulty FillCache: a full batch is counted whatever was taken.
FillCacheCountsFull(u) ==
    /\ Go(u, "fill", "idle")
    /\ cache' = [cache EXCEPT ![u] = taken[u]]
    /\ page_count' = page_count - FreePageCacheSize
    /\ taken' = [taken EXCEPT ![u] = 0]
    /\ UNCHANGED <<free, locked, signals, index, attempts, prune, others>>

FillCache(u) ==
    /\ Go(u, "fill", "idle")
    /\ cache' = [cache EXCEPT ![u] = taken[u]]
    /\ page_count' = page_count - taken[u]
    /\ taken' = [taken EXCEPT ![u] = 0]
    /\ UNCHANGED <<free, locked, signals, index, attempts, prune, others>>

\* Faulty Steal: the batch is not bounded by the cache.
StealUncapped(u) ==
    /\ Go(u, "steal", "idle")
    /\ \/ \E n \in 1..standby :
             /\ standby' = standby - n
             /\ cache' = [cache EXCEPT ![u] = n]
       \/ standby = 0 /\ UNCHANGED <<standby, cache>>
    /\ UNCHANGED <<lists_state, signals, taken, index, attempts, prune, in_use>>

\* No free page: move_batch_from_standby_to_cache, or the fault is tried again.
Steal(u) ==
    /\ Go(u, "steal", "idle")
    /\ \/ \E n \in 1..Least(standby, StealBatch) :
             /\ standby' = standby - n
             /\ cache' = [cache EXCEPT ![u] = n]
       \/ standby = 0 /\ UNCHANGED <<standby, cache>>
    /\ UNCHANGED <<lists_state, signals, taken, index, attempts, prune, in_use>>

\* The rest of the system: pages are trimmed and written, and faulted back.
OtherTraffic ==
    /\ \/ in_use > 0 /\ in_use' = in_use - 1 /\ standby' = standby + 1
       \/ standby > 0 /\ in_use' = in_use + 1 /\ standby' = standby - 1
    /\ UNCHANGED <<lists_state, signals, cache, taken, search, prune>>

-----------------------------------------------------------------------------
(* The pruner: prune_pages_thread.                                         *)

\* WaitForMultipleObjects returns for the auto-reset initiate_pruning_event.
PrunerWake ==
    /\ pruner = "wait" /\ pruner' = "remove"
    /\ pruning /\ pruning' = FALSE
    /\ UNCHANGED <<lists_state, low, cache, taken, search, batch, lists, unclear, fill, stranded, others>>

\* A batch of standby pages; their PTEs go to disk format.  The signal to the writer is
\* left out: nothing here depends on when standby pages are made.
PruneRemove ==
    /\ pruner = "remove"
    /\ \/ \E n \in 1..Least(standby, MaxPruneBatch) :
             standby' = standby - n /\ batch' = n /\ pruner' = "snapshot"
       \/ standby = 0 /\ pruner' = "wait" /\ UNCHANGED <<standby, batch>>
    /\ UNCHANGED <<lists_state, signals, cache, taken, search, lists, unclear, fill, stranded, in_use>>

\* Which lists are low; if none is, the pruner returns, and nothing leads to its pages
\* any more.
PruneSnapshot ==
    /\ pruner = "snapshot"
    /\ lists' = Cardinality(low)
    /\ fill' = low /\ unclear' = low
    /\ IF low = {} THEN pruner' = "wait" /\ batch' = 0 /\ stranded' = stranded + batch
                   ELSE pruner' = "clear" /\ UNCHANGED <<batch, stranded>>
    /\ UNCHANGED <<lists_state, signals, cache, taken, search, others>>

\* Faulty PruneClear: the whole bitmap is cleared at once.
PruneClearAll ==
    /\ pruner = "clear"
    /\ low' = {} /\ unclear' = unclear \ {Min(unclear)}
    /\ pruner' = IF unclear' = {} THEN "insert" ELSE "clear"
    /\ UNCHANGED <<lists_state, pruning, cache, taken, search, batch, lists, fill, stranded, others>>

PruneClear ==
    /\ pruner = "clear"
    /\ LET l == Min(unclear) IN low' = low \ {l} /\ unclear' = unclear \ {l}
    /\ pruner' = IF unclear' = {} THEN "insert" ELSE "clear"
    /\ UNCHANGED <<lists_state, pruning, cache, taken, search, batch, lists, fill, stranded, others>>

\* The last list gets what an even distribution leaves.
Share == batch \div lists + (IF Cardinality(fill) = 1 THEN batch % lists ELSE 0)

AfterList == IF Cardinality(fill) = 1 THEN "count" ELSE "insert"

PruneSkip ==
    /\ pruner = "insert" /\ Share = 0 /\ pruner' = AfterList
    /\ fill' = fill \ {Min(fill)}
    /\ UNCHANGED <<lists_state, signals, cache, taken, search, batch, lists, unclear, stranded, others>>

\* insert_list_to_tail_list takes the list's own lock and that of its head, and
\* does not look at the lock bit.
PruneLock ==
    /\ pruner = "insert" /\ Share > 0 /\ pruner' = "link"
    /\ UNCHANGED <<lists_state, signals, cache, taken, search, batch, lists, unclear, fill, stranded, others>>

PruneLink ==
    /\ pruner = "link" /\ pruner' = AfterList
    /\ free' = [free EXCEPT ![Min(fill)] = @ + Share]
    /\ fill' = fill \ {Min(fill)}
    /\ UNCHANGED <<locked, page_count, signals, cache, taken, search, batch, lists, unclear, stranded, others>>

PruneCount ==
    /\ pruner = "count" /\ pruner' = "wait"
    /\ page_count' = page_count + batch
    /\ batch' = 0
    /\ UNCHANGED <<free, locked, signals, cache, taken, search, lists, unclear, fill, stranded, others>>

-----------------------------------------------------------------------------
UserStep(u) ==
    \/ Pop(u) \/ Keep(u) \/ GiveBack(u) \/ Search(u) \/ LookPages(u) \/ LookEmpty(u)
    \/ LockList(u) \/ LockBusy(u) \/ TakeNothing(u) \/ TakeBatch(u) \/ UnlockList(u)
    \/ MarkLow(u) \/ WakePruner(u) \/ FillCache(u) \/ Steal(u)

PrunerStep ==
    \/ PrunerWake \/ PruneRemove \/ PruneSnapshot \/ PruneClear \/ PruneSkip
    \/ PruneLock \/ PruneLink \/ PruneCount

Searching(u) == user[u] \in {"look", "lock", "locked"}

\* History: the lists that the search of a thread could not have missed.
Offer ==
    offered' = [u \in Users |->
        {l \in FreeLists : /\ free'[l] > 0 /\ locked'[l] \in {Nobody, u}
                           /\ Searching(u) => l \in offered[u]}]

Next ==
    /\ \/ \E u \in Users : UserStep(u)
       \/ OtherTraffic
       \/ PrunerStep
    /\ Offer

\* Two threads change the links of one free list, under different locks: a user thread
\* under the lock bit, the pruner under the locks of the list and of its head.
Overlap == \E u \in Users : /\ user[u] \in {"locked", "unlock"} /\ pruner = "link"
                            /\ List(u) = Min(fill)

\* Behaviours in which that does not happen; the code does not prevent it, and after
\* it the links of the list may be anything.
SeparateSpec == Init /\ [][Next /\ ~Overlap']_vars

-----------------------------------------------------------------------------
\* Types (page_list.h:31-37, threads.h:39-46); a cache never exceeds its array.
TypeOK ==
    /\ free \in [FreeLists -> 0..NumPages]
    /\ locked \in [FreeLists -> Users \cup {Nobody}]
    /\ page_count \in Int
    /\ low \subseteq FreeLists /\ pruning \in BOOLEAN
    /\ cache \in [Users -> 0..FreePageCacheSize]
    /\ taken \in [Users -> 0..FreePageCacheSize]
    /\ user \in [Users -> {"idle", "have", "look", "lock", "locked", "unlock", "low", "wake",
                           "fill", "steal"}]
    /\ index \in [Users -> FreeLists] /\ attempts \in [Users -> 0..NumLists]
    /\ {standby, in_use, batch, stranded} \subseteq 0..NumPages
    /\ pruner \in {"wait", "remove", "snapshot", "clear", "insert", "link", "count"}
    /\ lists \in 0..NumLists /\ unclear \subseteq FreeLists /\ fill \subseteq FreeLists
    /\ offered \in [Users -> SUBSET FreeLists]

\* What the pruner has removed and not yet linked to a list.
InPruner == CASE pruner \in {"snapshot", "clear"} -> batch
              [] pruner \in {"insert", "link"} ->
                     batch - (batch \div lists) * (lists - Cardinality(fill))
              [] OTHER -> 0

\* Every page is on a list, in a cache or in a thread's hands, or in use, except those
\* that the pruner strands when it finds no list to fill.
NoPageIsLost ==
    Sum(free, FreeLists) + Sum(cache, Users) + Sum(taken, Users) + standby + in_use
        + InPruner + stranded = NumPages

\* page_count follows the lists by exactly the updates that are on their way: pages
\* leave the lists before they leave the count and enter them before they enter it.  So
\* a thread that reads zero and gives up at once (page_list.c:77-78) has missed no page
\* but those that the pruner has linked and not yet counted.
PageCountAccounts ==
    page_count = Sum(free, FreeLists)
                 + Sum(taken, {u \in Users : user[u] \in {"unlock", "low", "wake", "fill"}})
                 - (IF pruner \in {"insert", "link", "count"} THEN batch - InPruner ELSE 0)

\* The search looks at every list: it does not fail while one of them has had pages
\* and no lock since it began, whatever the others are subject to.
SearchMissesNothing ==
    [][\A u \in Users : Searching(u) /\ user'[u] = "steal" => offered[u] = {}]_vars

\* The bit that the pruner clears is set (pruner.c:8-10), although other threads change
\* the bitmap at the same time.
ClearFindsBit == unclear \subseteq low
=============================================================================
