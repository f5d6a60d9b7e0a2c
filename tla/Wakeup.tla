------------------------------- MODULE Wakeup ------------------------------
(***************************************************************************)
(* Who wakes whom: the four events, the threads that set, reset and await  *)
(* them, and as much of the page traffic as decides about it, in numbers   *)
(* of pages.  A faulting thread that finds no page asks for trimming and   *)
(* waits for standby pages; the trimmer wakes the writer when standby      *)
(* pages are short; the writer wakes the trimmer when modified pages are,  *)
(* and announces the standby pages it has made; at the end everybody is    *)
(* told to stop.                                                           *)
(*                                                                         *)
(* The estimate of consumption in check_if_list_is_about_to_run_low only   *)
(* makes a list look shorter, so a list that is shorter than the threshold *)
(* is always reported and any other list may be.  A scan of the trimmer    *)
(* reaches every PTE.                                                      *)
(***************************************************************************)
EXTENDS Integers, FiniteSets, Sums

CONSTANTS
    Users,              \* user threads
    Frames,             \* vm.allocated_frame_count
    VAs,                \* VAs that the threads use, of vm.num_ptes
    Slots,              \* usable disk slots: pages_in_page_file - 1
    FreePageCacheSize,  \* FREE_PAGE_CACHE_SIZE; a quarter of it in the code for steals
    MaxWriteBatch,      \* MAX_WRITE_BATCH_SIZE
    MaxTrimBatch,       \* MAX_TRIM_BATCH_SIZE
    RowSurplus,         \* slots that a scanned row may yield beyond the target
    LowPages,           \* LOW_PAGE_THRESHOLD
    DesperatePages      \* LOW_PAGE_THRESHOLD / 8

\* The address space fits into memory and page file.
ASSUME ThresholdAssumption ==
    /\ IsFiniteSet(Users)
    /\ DesperatePages \in Nat /\ LowPages \in Nat /\ DesperatePages <= LowPages
    /\ {Frames, VAs, Slots, FreePageCacheSize, MaxWriteBatch, MaxTrimBatch} \subseteq Nat \ {0}
    /\ RowSurplus \in Nat
    \* VA_SPAN: at most 0.91 of the frames and the slots, slot 0 included
    /\ 100 * VAs <= 91 * (Frames + Slots + 1)

VARIABLES
    ready,              \* standby_pages_ready_event (manual reset)
    trimming,           \* initiate_trimming_event (manual reset)
    writing,            \* initiate_writing_event (auto reset)
    exit,               \* system_exit_event (manual reset)
    user,               \* where each user thread is
    trimmer, writer,    \* where the two workers are
    free, cache,        \* pages on the free lists and in each thread's cache
    active, modified, midwrite, standby,    \* pages in each state
    n_modified, n_standby,                  \* the list_size of the two lists
    empty, stash,       \* pf.empty_disk_slots, pf.num_stashed_slots
    batch, gathered,    \* target_page_count, num_pages_in_write_batch
    trimmed,            \* pages of the trimmer's batch
    plenty,             \* history: when the writer last woke, the modified list was not
                        \* short and trimming was not asked for
    rounds              \* history: how often the workers have woken since the test ended

events == <<ready, trimming, writing, exit>>
pages == <<free, cache, active, modified, midwrite, standby>>
sizes == <<n_modified, n_standby>>
slots == <<empty, stash>>
jobs == <<batch, gathered, trimmed>>
history == <<plenty, rounds>>
work == <<jobs, history>>
vars == <<events, user, trimmer, writer, pages, sizes, slots, work>>

Init == /\ ready = FALSE /\ trimming = FALSE /\ writing = FALSE /\ exit = FALSE
        /\ user = [u \in Users |-> "run"]
        /\ trimmer = "wait" /\ writer = "wait"
        /\ free = Frames /\ cache = [u \in Users |-> 0]
        /\ active = 0 /\ modified = 0 /\ midwrite = 0 /\ standby = 0
        /\ n_modified = 0 /\ n_standby = 0
        /\ empty = Slots /\ stash = 0
        /\ batch = 0 /\ gathered = 0 /\ trimmed = 0
        /\ plenty = FALSE /\ rounds = 0

-----------------------------------------------------------------------------
At(where) == {u \in Users : user[u] = where}

Go(u, from, to) == user[u] = from /\ user' = [user EXCEPT ![u] = to]

AtMost(x, y) == IF x < y THEN x ELSE y

Resident == active + modified + midwrite + standby

\* VAs whose contents are in the page file only: the slots in use that belong
\* to no standby page.
OnDisk == Slots - empty - stash - (standby - Cardinality(At("softStandby")))

Zeroed == VAs - Resident - OnDisk

\* signal_event_if_list_is_about_to_run_low.
SignalIfLow(event, size) == event' = TRUE \/ (size >= LowPages /\ UNCHANGED event)

\* The most wake-ups that the workers need once the test has ended: two of each for
\* every page that the standby list may miss, and for one more.
RoundsToStop == 4 * (DesperatePages + 1)

\* The history stops when there have been too many.
CountRound == rounds' = IF exit THEN AtMost(rounds + 1, RoundsToStop + 1) ELSE rounds

-----------------------------------------------------------------------------
(* User threads: page_fault_handler.                                       *)

HardFault(u) ==
    /\ Go(u, "run", "acquire")
    /\ OnDisk + Zeroed > 0
    /\ UNCHANGED <<events, trimmer, writer, pages, sizes, slots, work>>

\* acquire_free_page, the free lists first.  They may also seem empty because
\* another thread has locked them.
Refill(u) ==
    /\ user[u] = "acquire" /\ cache[u] = 0 /\ free > 0
    /\ cache' = [cache EXCEPT ![u] = AtMost(free, FreePageCacheSize)]
    /\ free' = free - cache'[u]
    /\ UNCHANGED <<events, user, trimmer, writer, active, modified, midwrite, standby,
                   sizes, slots, work>>

NoFreePage(u) ==
    /\ Go(u, "acquire", "steal")
    /\ cache[u] = 0
    /\ free = 0 \/ At("acquire") # {u}
    /\ UNCHANGED <<events, trimmer, writer, pages, sizes, slots, work>>

\* A page of the cache resolves the fault, with a read from the page file or zeroed;
\* or another thread was faster, and the page goes back to the cache.
Resolve(u) ==
    /\ Go(u, "acquire", "run")
    /\ cache[u] > 0
    /\ \/ /\ cache' = [cache EXCEPT ![u] = @ - 1]
          /\ active' = active + 1
          /\ \/ OnDisk > 0 /\ empty' = empty + 1
             \/ Zeroed > 0 /\ UNCHANGED empty
       \/ UNCHANGED <<cache, active, empty>>
    /\ UNCHANGED <<events, trimmer, writer, free, modified, midwrite, standby, sizes, stash,
                   work>>

\* move_batch_from_standby_to_cache.  It waits for a page that a soft fault has
\* locked.
Steal(u) ==
    /\ Go(u, "steal", "stolen")
    /\ \/ /\ \E k \in 1..AtMost(standby - Cardinality(At("softStandby")), FreePageCacheSize) :
                /\ standby' = standby - k
                /\ cache' = [cache EXCEPT ![u] = k]
       \/ standby = 0 /\ UNCHANGED <<standby, cache>>
    /\ UNCHANGED <<events, trimmer, writer, free, active, modified, midwrite, sizes, slots,
                   work>>

CountStolen(u) ==
    /\ Go(u, "stolen", "signal")
    /\ n_standby' = n_standby - cache[u]
    /\ UNCHANGED <<events, trimmer, writer, pages, n_modified, slots, work>>

SignalWriter(u) ==
    /\ Go(u, "signal", IF cache[u] = 0 THEN "reset" ELSE "acquire")
    /\ SignalIfLow(writing, n_standby)
    /\ UNCHANGED <<ready, trimming, exit, trimmer, writer, pages, sizes, slots, work>>

\* No page: reset the event, ask for trimming, wait.
ResetReady(u) ==
    /\ Go(u, "reset", "ask")
    /\ ready' = FALSE
    /\ UNCHANGED <<trimming, writing, exit, trimmer, writer, pages, sizes, slots, work>>

AskForTrimming(u) ==
    /\ Go(u, "ask", "wait")
    /\ trimming' = TRUE
    /\ UNCHANGED <<ready, writing, exit, trimmer, writer, pages, sizes, slots, work>>

PassWait(u) ==
    /\ Go(u, "wait", "run")
    /\ ready
    /\ UNCHANGED <<events, trimmer, writer, pages, sizes, slots, work>>

\* resolve_soft_fault: the event is set before the page leaves its list.
SoftModified(u) ==
    /\ Go(u, "run", "softModified")
    /\ modified > Cardinality(At("softModified"))
    /\ SignalIfLow(trimming, n_modified)
    /\ UNCHANGED <<ready, writing, exit, trimmer, writer, pages, sizes, slots, work>>

\* Faulty SoftStandby: the slot of the page is not cleared.
SoftStandbyKeepsSlot(u) ==
    /\ Go(u, "run", "softStandby")
    /\ standby > Cardinality(At("softStandby"))
    /\ SignalIfLow(writing, n_standby)
    /\ UNCHANGED <<ready, trimming, exit, trimmer, writer, pages, sizes, slots, work>>

SoftStandby(u) ==
    /\ Go(u, "run", "softStandby")
    /\ standby > Cardinality(At("softStandby"))
    /\ empty' = empty + 1
    /\ SignalIfLow(writing, n_standby)
    /\ UNCHANGED <<ready, trimming, exit, trimmer, writer, pages, sizes, stash, work>>

SoftMidWrite(u) ==
    /\ user[u] = "run" /\ midwrite > 0
    /\ midwrite' = midwrite - 1
    /\ active' = active + 1
    /\ UNCHANGED <<events, user, trimmer, writer, free, cache, modified, standby, sizes, slots,
                   work>>

\* remove_page_on_soft_fault: out of the list, then its size, then the event.
RemoveModified(u) ==
    /\ Go(u, "softModified", "countModified")
    /\ modified' = modified - 1
    /\ active' = active + 1
    /\ UNCHANGED <<events, trimmer, writer, free, cache, midwrite, standby, sizes, slots,
                   work>>

CountModified(u) ==
    /\ Go(u, "countModified", "run")
    /\ n_modified' = n_modified - 1
    /\ UNCHANGED <<events, trimmer, writer, pages, n_standby, slots, work>>

RemoveStandby(u) ==
    /\ Go(u, "softStandby", "countStandby")
    /\ standby' = standby - 1
    /\ active' = active + 1
    /\ UNCHANGED <<events, trimmer, writer, free, cache, modified, midwrite, sizes, slots,
                   work>>

CountStandby(u) ==
    /\ Go(u, "countStandby", "emptied?")
    /\ n_standby' = n_standby - 1
    /\ UNCHANGED <<events, trimmer, writer, pages, n_modified, slots, work>>

\* is_page_list_empty, and the reset, which comes a step later.
SeeStandby(u) ==
    /\ Go(u, "emptied?", IF standby = 0 THEN "emptied" ELSE "run")
    /\ UNCHANGED <<events, trimmer, writer, pages, sizes, slots, work>>

ResetEmptied(u) ==
    /\ Go(u, "emptied", "run")
    /\ ready' = FALSE
    /\ UNCHANGED <<trimming, writing, exit, trimmer, writer, pages, sizes, slots, work>>

\* The thread has made its accesses.
Finish(u) ==
    /\ Go(u, "run", "done")
    /\ UNCHANGED <<events, trimmer, writer, pages, sizes, slots, work>>

-----------------------------------------------------------------------------
(* The trimmer: trim_pages_thread.                                         *)

\* WaitForMultipleObjects reports the first event that is set: the request wins
\* over the end.
TrimmerWake ==
    /\ trimmer = "wait" /\ trimmer' = "reset"
    /\ trimming
    /\ CountRound
    /\ UNCHANGED <<events, user, writer, pages, sizes, slots, jobs, plenty>>

TrimmerExit ==
    /\ trimmer = "wait" /\ trimmer' = "done"
    /\ exit /\ ~trimming
    /\ UNCHANGED <<events, user, writer, pages, sizes, slots, work>>


TrimReset ==
    /\ trimmer = "reset" /\ trimmer' = "trim"
    /\ trimming' = FALSE
    /\ UNCHANGED <<ready, writing, exit, user, writer, pages, sizes, slots, work>>

\* A PTE that a user thread has locked is passed over.
TrimPages ==
    /\ trimmer = "trim" /\ trimmer' = "count"
    /\ LET want == AtMost(active, MaxTrimBatch)
           busy == Cardinality(Users \ (At("wait") \cup At("done")))
       IN  \E k \in 0..want :
              /\ k >= want - busy
              /\ active' = active - k
              /\ modified' = modified + k
              /\ trimmed' = k
    /\ UNCHANGED <<events, user, writer, free, cache, midwrite, standby, sizes, slots,
                   batch, gathered, history>>

CountTrimmed ==
    /\ trimmer = "count" /\ trimmer' = "check"
    /\ n_modified' = n_modified + trimmed
    /\ trimmed' = 0
    /\ UNCHANGED <<events, user, writer, pages, n_standby, slots, batch, gathered, history>>

\* Faulty CheckToStartWriter: the writer is not woken.
CheckToStartNobody ==
    /\ trimmer = "check" /\ trimmer' = "wait"
    /\ UNCHANGED <<events, user, writer, pages, sizes, slots, work>>

\* check_to_start_writer.
CheckToStartWriter ==
    /\ trimmer = "check" /\ trimmer' = "wait"
    /\ writing' = (writing \/ n_standby < DesperatePages)
    /\ UNCHANGED <<ready, trimming, exit, user, writer, pages, sizes, slots, work>>

-----------------------------------------------------------------------------
(* The writer: write_pages_thread.                                         *)

WriterWake ==
    /\ writer = "wait" /\ writer' = "signal"
    /\ writing /\ writing' = FALSE
    /\ CountRound
    /\ UNCHANGED <<ready, trimming, exit, user, trimmer, pages, sizes, slots, jobs, plenty>>

WriterExit ==
    /\ writer = "wait" /\ writer' = "done"
    /\ exit /\ ~writing
    /\ UNCHANGED <<events, user, trimmer, pages, sizes, slots, work>>

SignalTrimmer ==
    /\ writer = "signal" /\ writer' = "begin"
    /\ SignalIfLow(trimming, n_modified)
    /\ plenty' = (n_modified >= LowPages /\ ~trimming')
    /\ UNCHANGED <<ready, writing, exit, user, trimmer, pages, sizes, slots, jobs, rounds>>

\* get_size converts to unsigned: a size that is negative for a moment is huge.
Approximate == IF n_modified < 0 THEN MaxWriteBatch ELSE AtMost(n_modified, MaxWriteBatch)

\* No empty slot: nothing is written, whatever is stashed.
WriterHoldsOff ==
    /\ writer = "begin" /\ writer' = "wait"
    /\ empty < 1
    /\ UNCHANGED <<events, user, trimmer, pages, sizes, slots, work>>

\* Faulty Target: not capped by the stash.
TargetUncapped(stashed) == Approximate

\* At most one page for each stashed slot.
Target(stashed) == AtMost(Approximate, stashed)

\* The stash is filled by whole rows of the bitmap.  batch is the target.
TakeSlots ==
    /\ writer = "begin" /\ empty >= 1
    /\ \E grab \in 0..empty :
          /\ IF stash < Approximate
             THEN /\ grab >= AtMost(Approximate - stash, empty)
                  /\ grab <= Approximate - stash + RowSurplus
             ELSE grab = 0
          /\ stash' = stash + grab
          /\ empty' = empty - grab
    /\ batch' = Target(stash')
    /\ writer' = IF batch' = 0 THEN "wait" ELSE "gather"
    /\ UNCHANGED <<events, user, trimmer, pages, sizes, gathered, trimmed, history>>

\* Batches from the modified list until there are enough or the list is empty.
GatherPages ==
    /\ writer = "gather" /\ gathered < batch
    /\ \E k \in 1..AtMost(batch - gathered, modified - Cardinality(At("softModified"))) :
          /\ modified' = modified - k
          /\ n_modified' = n_modified - k
          /\ midwrite' = midwrite + k
          /\ gathered' = gathered + k
    /\ UNCHANGED <<events, user, trimmer, writer, free, cache, active, standby, n_standby, slots,
                   batch, trimmed, history>>

GatherDone ==
    /\ writer = "gather"
    /\ gathered = batch \/ modified = 0
    /\ writer' = IF gathered = 0 THEN "wait" ELSE "write"
    /\ batch' = 0
    /\ UNCHANGED <<events, user, trimmer, pages, sizes, slots, gathered, trimmed, history>>

\* A slot for each page; pages that were faulted back meanwhile give theirs back,
\* the others go to the standby list.
WritePages ==
    /\ writer = "write"
    /\ stash' = stash - gathered
    /\ standby' = standby + midwrite
    /\ midwrite' = 0
    /\ empty' = empty + gathered - midwrite
    /\ gathered' = midwrite
    /\ writer' = IF midwrite = 0 THEN "wait" ELSE "count"
    /\ UNCHANGED <<events, user, trimmer, free, cache, active, modified, sizes, batch,
                   trimmed, history>>

CountWritten ==
    /\ writer = "count" /\ writer' = "announce"
    /\ n_standby' = n_standby + gathered
    /\ gathered' = 0
    /\ UNCHANGED <<events, user, trimmer, pages, n_modified, slots, batch, trimmed, history>>

\* A manual-reset event lets all threads go that wait when it is set.
AnnounceStandby ==
    /\ writer = "announce" /\ writer' = "wait"
    /\ ready' = TRUE
    /\ user' = [u \in Users |-> IF user[u] = "wait" THEN "run" ELSE user[u]]
    /\ UNCHANGED <<trimming, writing, exit, trimmer, pages, sizes, slots, work>>

-----------------------------------------------------------------------------
\* begin_system_test: when the last user thread is done, all others are told to stop.
TellToStop ==
    /\ At("done") = Users /\ ~exit
    /\ exit' = TRUE
    /\ UNCHANGED <<ready, trimming, writing, user, trimmer, writer, pages, sizes, slots, work>>

\* ... and main waits for both.
Stopped == trimmer = "done" /\ writer = "done" /\ UNCHANGED vars

HandleFault(u) ==
    \/ Refill(u) \/ NoFreePage(u) \/ Resolve(u)
    \/ Steal(u) \/ CountStolen(u) \/ SignalWriter(u)
    \/ ResetReady(u) \/ AskForTrimming(u) \/ PassWait(u)
    \/ RemoveModified(u) \/ CountModified(u)
    \/ RemoveStandby(u) \/ CountStandby(u) \/ SeeStandby(u) \/ ResetEmptied(u)

Access(u) == HardFault(u) \/ SoftModified(u) \/ SoftStandby(u) \/ SoftMidWrite(u)

TrimmerStep == \/ TrimmerWake \/ TrimmerExit \/ TrimReset \/ TrimPages \/ CountTrimmed
               \/ CheckToStartWriter

WriterStep == \/ WriterWake \/ WriterExit \/ SignalTrimmer \/ WriterHoldsOff \/ TakeSlots
              \/ GatherPages \/ GatherDone \/ WritePages \/ CountWritten
              \/ AnnounceStandby

Next == \/ \E u \in Users : Access(u) \/ HandleFault(u) \/ Finish(u)
        \/ TrimmerStep \/ WriterStep \/ TellToStop \/ Stopped

Spec == Init /\ [][Next]_vars

-----------------------------------------------------------------------------
\* The type invariant; only the two list sizes that lag behind may be negative.
TypeOK ==
    /\ {ready, trimming, writing, exit, plenty} \subseteq BOOLEAN
    /\ user \in [Users -> {"run", "acquire", "steal", "stolen", "signal", "reset", "ask",
                           "wait", "softModified", "countModified", "softStandby",
                           "countStandby", "emptied?", "emptied", "done"}]
    /\ trimmer \in {"wait", "reset", "trim", "count", "check", "done"}
    /\ writer \in {"wait", "signal", "begin", "gather", "write", "count", "announce", "done"}
    /\ cache \in [Users -> 0..FreePageCacheSize]
    /\ {free, active, modified, midwrite, standby, empty, stash, batch, gathered, trimmed,
        rounds} \subseteq Nat
    /\ {n_modified, n_standby} \subseteq Int

\* No page and no slot is lost between the threads: every frame is free, cached or
\* resident, and the slots in use are those of pages that need one.
NothingIsLost ==
    /\ free + Sum(cache, Users) + Resident = Frames
    /\ OnDisk >= 0 /\ Zeroed >= 0

\* Somebody waits for standby pages, and no other thread can do anything.
Stuck == /\ At("wait") # {} /\ ~ready
         /\ Users = At("wait") \cup At("done")
         /\ trimmer = "wait" /\ ~trimming
         /\ writer = "wait" /\ ~writing

\* Unless the writer found the modified list long enough when it last woke, the two
\* workers keep waking each other until a thread that waits gets a standby page,
\* whatever soft faults take from under them and however late the list sizes are
\* (trimmer.c:6-10, writer.c:199-204).
ShortageKeepsWorkersAwake == Stuck /\ standby = 0 => plenty

\* A thread waits when there are no pages available (page_fault_handler.c:379-380),
\* so that it is not left waiting when there are.
WaitsOnlyWithoutPages == Stuck => standby = 0

=============================================================================
