---------------------------- MODULE WakeupProofs ----------------------------
(***************************************************************************)
(* No page and no slot is lost between the threads of Wakeup, for any      *)
(* number of threads, pages and slots and whatever the thresholds are.     *)
(*                                                                         *)
(* The accounts rest on what the threads have set aside: a page that a soft*)
(* fault is about to take off a list is still counted there, and the writer*)
(* never gathers more pages than it has slots in the stash.                *)
(***************************************************************************)
EXTENDS Wakeup, SumsProofs, FiniteSetTheorems, TLAPS

\* The number of threads at a point of their way.
Marked(where) == Cardinality(At(where))

Places == {"run", "acquire", "steal", "stolen", "signal", "reset", "ask", "wait",
           "softModified", "countModified", "softStandby", "countStandby", "emptied?",
           "emptied", "done"}

\* TypeOK, one variable at a time.
Typed ==
    /\ ready \in BOOLEAN /\ trimming \in BOOLEAN /\ writing \in BOOLEAN /\ exit \in BOOLEAN
    /\ plenty \in BOOLEAN /\ rounds \in Nat
    /\ user \in [Users -> Places]
    /\ trimmer \in {"wait", "reset", "trim", "count", "check", "done"}
    /\ writer \in {"wait", "signal", "begin", "gather", "write", "count", "announce", "done"}
    /\ cache \in [Users -> 0..FreePageCacheSize]
    /\ free \in Nat /\ active \in Nat /\ modified \in Nat /\ midwrite \in Nat
    /\ standby \in Nat /\ empty \in Nat /\ stash \in Nat /\ batch \in Nat
    /\ gathered \in Nat /\ trimmed \in Nat
    /\ n_modified \in Int /\ n_standby \in Int

\* NothingIsLost, in the numbers it is about.
Balanced ==
    /\ free + Sum(cache, Users) + (active + modified + midwrite + standby) = Frames
    /\ Slots - empty - stash - (standby - Marked("softStandby")) >= 0
    /\ VAs - (active + modified + midwrite + standby)
           - (Slots - empty - stash - (standby - Marked("softStandby"))) >= 0

\* The pages that soft faults have locked are still on their lists.
LockedPagesAreListed == Marked("softModified") <= modified /\ Marked("softStandby") <= standby

\* A thread steals only when its cache is empty.
ThievesHaveNothing == \A u \in Users : user[u] = "steal" => cache[u] = 0

\* There is a slot for every page the writer gathers, and pages are mid-write only
\* between gathering and writing.
WriterHasSlots ==
    /\ writer = "gather" => gathered <= batch /\ batch <= stash
    /\ writer \in {"gather", "write"} => midwrite <= gathered /\ gathered <= stash
    /\ writer \notin {"gather", "write"} => midwrite = 0
    /\ writer \notin {"gather", "write", "count"} => gathered = 0

\* The inductive invariant.
WakeInv == /\ Typed
           /\ LockedPagesAreListed
           /\ ThievesHaveNothing
           /\ WriterHasSlots
           /\ Balanced

-----------------------------------------------------------------------------
(* Where the threads are, and what can be reckoned with.                   *)

LEMMA Constants ==
    /\ IsFiniteSet(Users)
    /\ Frames \in Nat /\ VAs \in Nat /\ Slots \in Nat /\ FreePageCacheSize \in Nat
    /\ MaxWriteBatch \in Nat /\ MaxTrimBatch \in Nat /\ RowSurplus \in Nat
BY ThresholdAssumption

\* The sets of threads are finite.
LEMMA MarksAreNumbers == \A w : Marked(w) \in Nat
<1>1. ASSUME NEW w PROVE Marked(w) \in Nat
  <2>1. At(w) \subseteq Users
    BY DEF At
  <2>2. IsFiniteSet(At(w))
    BY <2>1, Constants, FS_Subset
  <2>. QED BY <2>2, FS_CardinalityType DEF Marked
<1>. QED BY <1>1

LEMMA MarksStayNumbers == (\A w : Marked(w) \in Nat)'
BY MarksAreNumbers, PTL

\* A thread that goes on leaves one set and joins another.
LEMMA Moves ==
    ASSUME NEW u \in Users, NEW from, NEW to, from # to, Go(u, from, to),
           user \in [Users -> Places]
    PROVE  /\ Marked(from)' = Marked(from) - 1
           /\ Marked(to)' = Marked(to) + 1
           /\ \A w : w # from /\ w # to => Marked(w)' = Marked(w)
<1>1. /\ At(from)' = At(from) \ {u} /\ u \in At(from)
      /\ At(to)' = At(to) \cup {u} /\ u \notin At(to)
      /\ \A w : w # from /\ w # to => At(w)' = At(w)
  BY DEF At, Go
<1>2. At(from) \subseteq Users /\ At(to) \subseteq Users
  BY DEF At
<1>3. IsFiniteSet(At(from)) /\ IsFiniteSet(At(to))
  BY <1>2, Constants, FS_Subset
<1>4. PICK F, T : F = At(from) /\ T = At(to)
  OBVIOUS
<1>5. Cardinality(F \ {u}) = Cardinality(F) - 1
  BY <1>1, <1>3, <1>4, FS_RemoveElement
<1>6. Cardinality(T \cup {u}) = Cardinality(T) + 1
  BY <1>1, <1>3, <1>4, FS_AddElement
<1>. QED BY <1>1, <1>4, <1>5, <1>6 DEF Marked

\* The threads that a soft fault stops at stay there when others are let go.
LEMMA Released ==
    ASSUME user \in [Users -> Places],
           user' = [u \in Users |-> IF user[u] = "wait" THEN "run" ELSE user[u]]
    PROVE  \A w : w # "wait" /\ w # "run" => Marked(w)' = Marked(w)
<1>1. \A w : w # "wait" /\ w # "run" => At(w)' = At(w)
  BY DEF At
<1>. QED BY <1>1 DEF Marked

\* The invariant says what TypeOK and NothingIsLost say.
LEMMA SameTypes == Typed => TypeOK
<1>1. ready \in BOOLEAN /\ trimming \in BOOLEAN /\ writing \in BOOLEAN /\ exit \in BOOLEAN
      /\ plenty \in BOOLEAN
      => {ready, trimming, writing, exit, plenty} \subseteq BOOLEAN
  BY Zenon
<1>2. n_modified \in Int /\ n_standby \in Int => {n_modified, n_standby} \subseteq Int
  OBVIOUS
<1>3. /\ free \in Nat /\ active \in Nat /\ modified \in Nat /\ midwrite \in Nat
      /\ standby \in Nat /\ empty \in Nat /\ stash \in Nat /\ batch \in Nat
      /\ gathered \in Nat /\ trimmed \in Nat /\ rounds \in Nat
      => {free, active, modified, midwrite, standby, empty, stash, batch, gathered, trimmed,
          rounds} \subseteq Nat
  OBVIOUS
<1>. QED BY <1>1, <1>2, <1>3, Zenon DEF Typed, TypeOK, Places

LEMMA SameAccounts == Balanced => NothingIsLost
BY DEF Balanced, NothingIsLost, Resident, OnDisk, Zeroed, Marked
-----------------------------------------------------------------------------
(* One lemma per step, or per group of steps that differ only in events.   *)

LEMMA InitEstablishes == ASSUME Init PROVE WakeInv
<1>. USE Constants
<1>1. At("softModified") = {} /\ At("softStandby") = {}
  BY DEF Init, At
<1>2. Marked("softModified") = 0 /\ Marked("softStandby") = 0
  BY <1>1, FS_EmptySet DEF Marked
<1>3. Sum(cache, Users) = 0
  BY SumOfZeros DEF Init
<1>4. Typed
  <2>1. Frames \in Nat /\ Slots \in Nat /\ cache \in [Users -> 0..FreePageCacheSize]
    BY DEF Init
  <2>2. user \in [Users -> Places]
    BY DEF Init, Places
  <2>3. ready \in BOOLEAN /\ trimming \in BOOLEAN /\ writing \in BOOLEAN /\ exit \in BOOLEAN
        /\ plenty \in BOOLEAN
    BY Zenon DEF Init
  <2>. QED BY <2>1, <2>2, <2>3 DEF Init, Typed
<1>5. Balanced
  BY <1>2, <1>3 DEF Init, Balanced
<1>. QED BY <1>2, <1>4, <1>5
         DEF Init, WakeInv, LockedPagesAreListed, ThievesHaveNothing, WriterHasSlots

\* A thread goes on, but neither to nor from a page on a list, and leaves pages
\* and slots alone.
PlainStep(u, from, to) ==
    /\ {from, to} \subseteq Places \ {"softModified", "softStandby"}
    /\ from # to /\ Go(u, from, to) /\ (to = "steal" => cache[u] = 0)
    /\ ready' \in BOOLEAN /\ trimming' \in BOOLEAN /\ writing' \in BOOLEAN /\ exit' = exit
    /\ n_modified' \in Int /\ n_standby' \in Int
    /\ UNCHANGED <<trimmer, writer, pages, slots, work>>

LEMMA PlainStepPreserves ==
    ASSUME WakeInv, NEW u \in Users, NEW from, NEW to, PlainStep(u, from, to)
    PROVE  WakeInv'
<1>. USE DEF pages, slots, jobs, history, work
<1>1. Typed /\ LockedPagesAreListed /\ ThievesHaveNothing /\ WriterHasSlots /\ Balanced
  BY DEF WakeInv
<1>2. /\ {from, to} \subseteq Places \ {"softModified", "softStandby"}
      /\ from # to /\ Go(u, from, to) /\ (to = "steal" => cache[u] = 0)
  BY DEF PlainStep
<1>3. Marked("softModified")' = Marked("softModified")
      /\ Marked("softStandby")' = Marked("softStandby")
  BY <1>1, <1>2, Moves DEF Typed
<1>4. user' \in [Users -> Places]
  BY <1>1, <1>2 DEF Typed, Go
<1>5. Typed'
  BY <1>1, <1>4 DEF Typed, PlainStep
<1>6. ThievesHaveNothing'
  BY <1>1, <1>2 DEF ThievesHaveNothing, PlainStep, Go, Typed
<1>7. LockedPagesAreListed'
  BY <1>1, <1>3 DEF LockedPagesAreListed, PlainStep
<1>8. WriterHasSlots'
  BY <1>1 DEF WriterHasSlots, PlainStep
<1>9. Balanced'
  BY <1>1, <1>3 DEF Balanced, PlainStep
<1>. QED BY <1>5, <1>6, <1>7, <1>8, <1>9 DEF WakeInv

\* The steps of a user thread that only look, ask, signal, wait or correct a size.
LEMMA PlainSteps ==
    ASSUME WakeInv, NEW u \in Users,
           \/ HardFault(u) \/ NoFreePage(u) \/ CountStolen(u) \/ SignalWriter(u)
           \/ ResetReady(u) \/ AskForTrimming(u) \/ PassWait(u)
           \/ CountModified(u) \/ CountStandby(u) \/ SeeStandby(u) \/ ResetEmptied(u)
           \/ Finish(u)
    PROVE  WakeInv'
<1>. USE DEF events, pages, slots, jobs, history, work, sizes, Places, PlainStep
<1>1. /\ ready \in BOOLEAN /\ trimming \in BOOLEAN /\ writing \in BOOLEAN /\ exit \in BOOLEAN
      /\ n_modified \in Int /\ n_standby \in Int /\ cache[u] \in Int
  BY DEF WakeInv, Typed
<1>2. ASSUME HardFault(u) PROVE PlainStep(u, "run", "acquire")
  BY <1>1, <1>2 DEF HardFault
<1>3. ASSUME NoFreePage(u) PROVE PlainStep(u, "acquire", "steal")
  BY <1>1, <1>3 DEF NoFreePage
<1>4. ASSUME CountStolen(u) PROVE PlainStep(u, "stolen", "signal")
  BY <1>1, <1>4 DEF CountStolen
<1>5. ASSUME SignalWriter(u)
      PROVE  PlainStep(u, "signal", IF cache[u] = 0 THEN "reset" ELSE "acquire")
  BY <1>1, <1>5 DEF SignalWriter, SignalIfLow
<1>6. ASSUME ResetReady(u) PROVE PlainStep(u, "reset", "ask")
  BY <1>1, <1>6 DEF ResetReady
<1>7. ASSUME AskForTrimming(u) PROVE PlainStep(u, "ask", "wait")
  BY <1>1, <1>7 DEF AskForTrimming
<1>8. ASSUME PassWait(u) PROVE PlainStep(u, "wait", "run")
  BY <1>1, <1>8 DEF PassWait
<1>9. ASSUME CountModified(u) PROVE PlainStep(u, "countModified", "run")
  BY <1>1, <1>9 DEF CountModified
<1>10. ASSUME CountStandby(u) PROVE PlainStep(u, "countStandby", "emptied?")
  BY <1>1, <1>10 DEF CountStandby
<1>11. ASSUME SeeStandby(u)
       PROVE  PlainStep(u, "emptied?", IF standby = 0 THEN "emptied" ELSE "run")
  BY <1>1, <1>11 DEF SeeStandby
<1>12. ASSUME ResetEmptied(u) PROVE PlainStep(u, "emptied", "run")
  BY <1>1, <1>12 DEF ResetEmptied
<1>13. ASSUME Finish(u) PROVE PlainStep(u, "run", "done")
  BY <1>1, <1>13 DEF Finish
<1>. HIDE DEF PlainStep
<1>. QED BY <1>2, <1>3, <1>4, <1>5, <1>6, <1>7, <1>8, <1>9, <1>10, <1>11, <1>12, <1>13,
            PlainStepPreserves
LEMMA CacheSum ==
    ASSUME Typed, cache' \in [Users -> 0..FreePageCacheSize], NEW u \in Users,
           \A w \in Users : w # u => cache'[w] = cache[w]
    PROVE  /\ Sum(cache, Users)' = Sum(cache, Users) - cache[u] + cache'[u]
           /\ Sum(cache, Users) \in Nat
<1>1. PICK f, g : f = cache /\ g = cache'
  OBVIOUS
<1>2. /\ \A w \in Users : f[w] \in Nat
      /\ \A w \in Users : g[w] \in Nat
      /\ \A w \in Users : w # u => g[w] = f[w]
  BY <1>1, Constants DEF Typed
<1>3. Sum(g, Users) = Sum(f, Users) - f[u] + g[u] /\ Sum(f, Users) \in Nat
  BY <1>2, Constants, SumChange, SumType
<1>. QED BY <1>1, <1>3

LEMMA RefillPreserves ==
    ASSUME WakeInv, NEW u \in Users, Refill(u)
    PROVE  WakeInv'
<1>. USE Constants DEF Refill, events, sizes, slots, jobs, history, work
<1>1. Typed /\ LockedPagesAreListed /\ ThievesHaveNothing /\ WriterHasSlots /\ Balanced
  BY DEF WakeInv
<1>2. AtMost(free, FreePageCacheSize) \in 0..FreePageCacheSize
      /\ AtMost(free, FreePageCacheSize) <= free
  BY <1>1 DEF Typed, AtMost
<1>3. /\ cache' \in [Users -> 0..FreePageCacheSize]
      /\ cache'[u] \in 0..free /\ cache'[u] >= 0 /\ cache[u] = 0
      /\ \A w \in Users : w # u => cache'[w] = cache[w]
  BY <1>1, <1>2 DEF Typed
<1>4. Sum(cache, Users)' = Sum(cache, Users) - cache[u] + cache'[u] /\ Sum(cache, Users) \in Nat
  BY <1>1, <1>3, CacheSum
<1>5. \A w : Marked(w)' = Marked(w)
  BY DEF Marked, At
<1>6. Typed'
  <2>1. free' \in Nat
    BY <1>1, <1>3 DEF Typed
  <2>. QED BY <1>1, <1>3, <2>1 DEF Typed
<1>7. ThievesHaveNothing'
  BY <1>1, <1>3 DEF ThievesHaveNothing
<1>8. LockedPagesAreListed' /\ WriterHasSlots'
  BY <1>1, <1>5 DEF LockedPagesAreListed, WriterHasSlots
<1>9. Balanced'
  BY <1>1, <1>3, <1>4, <1>5 DEF Balanced, Typed
<1>. QED BY <1>6, <1>7, <1>8, <1>9 DEF WakeInv

LEMMA ResolvePreserves ==
    ASSUME WakeInv, NEW u \in Users, Resolve(u)
    PROVE  WakeInv'
<1>. USE Constants DEF Resolve, events, sizes, jobs, history, work
<1>1. Typed /\ LockedPagesAreListed /\ ThievesHaveNothing /\ WriterHasSlots /\ Balanced
  BY DEF WakeInv
<1>2. Go(u, "acquire", "run")
  OBVIOUS
<1>3. /\ Marked("softStandby")' = Marked("softStandby")
      /\ Marked("softModified")' = Marked("softModified")
      /\ Marked("softStandby") \in Nat
  BY <1>1, <1>2, Moves, MarksAreNumbers DEF Typed
<1>4. user' \in [Users -> Places] /\ user'[u] = "run"
      /\ \A w \in Users : w # u => user'[w] = user[w]
  BY <1>1, <1>2 DEF Typed, Go, Places
<1>5. /\ cache' \in [Users -> 0..FreePageCacheSize]
      /\ \A w \in Users : w # u => cache'[w] = cache[w]
      /\ cache[u] \in Nat /\ cache'[u] \in {cache[u], cache[u] - 1}
  BY <1>1 DEF Typed
<1>6. Sum(cache, Users)' = Sum(cache, Users) - cache[u] + cache'[u] /\ Sum(cache, Users) \in Nat
  BY <1>1, <1>5, CacheSum
<1>7. Typed'
  <2>1. active' \in Nat /\ empty' \in Nat
    BY <1>1 DEF Typed
  <2>. QED BY <1>1, <1>4, <1>5, <2>1 DEF Typed
<1>8. ThievesHaveNothing'
  BY <1>1, <1>4, <1>5 DEF ThievesHaveNothing
<1>9. LockedPagesAreListed' /\ WriterHasSlots'
  BY <1>1, <1>3 DEF LockedPagesAreListed, WriterHasSlots
<1>10. Balanced'
  <2>1. CASE UNCHANGED <<cache, active, empty>>
    BY <1>1, <1>3, <1>6, <2>1 DEF Balanced, Typed
  <2>2. CASE ~UNCHANGED <<cache, active, empty>>
    <3>1. cache'[u] = cache[u] - 1 /\ active' = active + 1
      BY <1>1, <2>2 DEF Typed
    <3>2. \/ OnDisk > 0 /\ empty' = empty + 1
          \/ Zeroed > 0 /\ empty' = empty
      BY <2>2
    <3>. QED BY <1>1, <1>3, <1>5, <1>6, <3>1, <3>2
             DEF Balanced, Typed, OnDisk, Zeroed, Resident, Marked
  <2>. QED BY <2>1, <2>2
<1>. QED BY <1>7, <1>8, <1>9, <1>10 DEF WakeInv

LEMMA StealPreserves ==
    ASSUME WakeInv, NEW u \in Users, Steal(u)
    PROVE  WakeInv'
<1>. USE Constants DEF Steal, events, sizes, slots, jobs, history, work
<1>1. Typed /\ LockedPagesAreListed /\ ThievesHaveNothing /\ WriterHasSlots /\ Balanced
  BY DEF WakeInv
<1>2. Go(u, "steal", "stolen")
  OBVIOUS
<1>3. /\ Marked("softStandby")' = Marked("softStandby")
      /\ Marked("softModified")' = Marked("softModified")
      /\ Marked("softStandby") \in Nat
  BY <1>1, <1>2, Moves, MarksAreNumbers DEF Typed
<1>4. user' \in [Users -> Places] /\ user'[u] = "stolen"
      /\ \A w \in Users : w # u => user'[w] = user[w]
  BY <1>1, <1>2 DEF Typed, Go, Places
<1>5. cache[u] = 0
  BY <1>1, <1>2 DEF ThievesHaveNothing, Go
<1>6. /\ cache' \in [Users -> 0..FreePageCacheSize]
      /\ \A w \in Users : w # u => cache'[w] = cache[w]
      /\ cache'[u] \in Nat /\ cache'[u] <= standby - Marked("softStandby")
      /\ standby' = standby - cache'[u]
  <2>1. CASE standby = 0 /\ UNCHANGED <<standby, cache>>
    BY <1>1, <1>3, <1>5, <2>1 DEF Typed, LockedPagesAreListed
  <2>2. CASE \E k \in 1..AtMost(standby - Cardinality(At("softStandby")), FreePageCacheSize) :
                 standby' = standby - k /\ cache' = [cache EXCEPT ![u] = k]
    <3>1. PICK k \in 1..AtMost(standby - Marked("softStandby"), FreePageCacheSize) :
                 standby' = standby - k /\ cache' = [cache EXCEPT ![u] = k]
      BY <2>2 DEF Marked
    <3>2. k \in 0..FreePageCacheSize /\ k <= standby - Marked("softStandby")
      BY <1>1, <1>3, <3>1 DEF AtMost, Typed
    <3>. QED BY <1>1, <3>1, <3>2 DEF Typed
  <2>. QED BY <2>1, <2>2
<1>7. Sum(cache, Users)' = Sum(cache, Users) - cache[u] + cache'[u] /\ Sum(cache, Users) \in Nat
  BY <1>1, <1>6, CacheSum
<1>8. Typed'
  <2>1. standby' \in Nat
    BY <1>1, <1>3, <1>6 DEF Typed
  <2>. QED BY <1>1, <1>4, <1>6, <2>1 DEF Typed
<1>9. ThievesHaveNothing'
  BY <1>1, <1>4, <1>6 DEF ThievesHaveNothing
<1>10. LockedPagesAreListed' /\ WriterHasSlots'
  BY <1>1, <1>3, <1>6 DEF LockedPagesAreListed, WriterHasSlots, Typed
<1>11. Balanced'
  <2>1. UNCHANGED <<free, active, modified, midwrite, empty, stash>>
    OBVIOUS
  <2>. HIDE DEF Steal
  <2>. QED BY <1>1, <1>3, <1>5, <1>6, <1>7, <2>1 DEF Balanced, Typed
<1>. QED BY <1>8, <1>9, <1>10, <1>11 DEF WakeInv
\* A soft fault locks a page of a list, and signals; the slot of a standby page is
\* free from then on.
LEMMA SoftModifiedPreserves ==
    ASSUME WakeInv, NEW u \in Users, SoftModified(u)
    PROVE  WakeInv'
<1>. USE Constants DEF SoftModified, events, pages, sizes, slots, jobs, history, work
<1>1. Typed /\ LockedPagesAreListed /\ ThievesHaveNothing /\ WriterHasSlots /\ Balanced
  BY DEF WakeInv
<1>2. Go(u, "run", "softModified")
  OBVIOUS
<1>3. /\ Marked("softModified")' = Marked("softModified") + 1
      /\ Marked("softStandby")' = Marked("softStandby")
      /\ Marked("softModified") \in Nat /\ Marked("softModified") < modified
  BY <1>1, <1>2, Moves, MarksAreNumbers DEF Typed, Marked
<1>4. user' \in [Users -> Places] /\ ThievesHaveNothing'
  BY <1>1, <1>2 DEF Typed, Go, Places, ThievesHaveNothing
<1>5. trimming' \in BOOLEAN
  BY <1>1 DEF Typed, SignalIfLow
<1>6. Typed'
  BY <1>1, <1>4, <1>5 DEF Typed
<1>7. LockedPagesAreListed' /\ WriterHasSlots' /\ Balanced'
  BY <1>1, <1>3 DEF LockedPagesAreListed, WriterHasSlots, Balanced, Typed
<1>. QED BY <1>4, <1>6, <1>7 DEF WakeInv

LEMMA SoftStandbyPreserves ==
    ASSUME WakeInv, NEW u \in Users, SoftStandby(u)
    PROVE  WakeInv'
<1>. USE Constants DEF SoftStandby, events, pages, sizes, jobs, history, work
<1>1. Typed /\ LockedPagesAreListed /\ ThievesHaveNothing /\ WriterHasSlots /\ Balanced
  BY DEF WakeInv
<1>2. Go(u, "run", "softStandby")
  OBVIOUS
<1>3. /\ Marked("softStandby")' = Marked("softStandby") + 1
      /\ Marked("softModified")' = Marked("softModified")
      /\ Marked("softStandby") \in Nat /\ Marked("softStandby") < standby
  BY <1>1, <1>2, Moves, MarksAreNumbers DEF Typed, Marked
<1>4. user' \in [Users -> Places] /\ ThievesHaveNothing'
  BY <1>1, <1>2 DEF Typed, Go, Places, ThievesHaveNothing
<1>5. writing' \in BOOLEAN
  BY <1>1 DEF Typed, SignalIfLow
<1>6. Typed'
  <2>1. empty' \in Nat
    BY <1>1 DEF Typed
  <2>. QED BY <1>1, <1>4, <1>5, <2>1 DEF Typed
<1>7. LockedPagesAreListed' /\ WriterHasSlots'
  BY <1>1, <1>3 DEF LockedPagesAreListed, WriterHasSlots, Typed
<1>8. Balanced'
  BY <1>1, <1>3 DEF Balanced, Typed
<1>. QED BY <1>4, <1>6, <1>7, <1>8 DEF WakeInv

LEMMA SoftMidWritePreserves ==
    ASSUME WakeInv, NEW u \in Users, SoftMidWrite(u)
    PROVE  WakeInv'
<1>. USE DEF SoftMidWrite, events, sizes, slots, jobs, history, work
<1>1. Typed /\ LockedPagesAreListed /\ ThievesHaveNothing /\ WriterHasSlots /\ Balanced
  BY DEF WakeInv
<1>2. \A w : Marked(w)' = Marked(w)
  BY DEF Marked, At
<1>3. Typed'
  <2>1. midwrite' \in Nat /\ active' \in Nat
    BY <1>1 DEF Typed
  <2>. QED BY <1>1, <2>1 DEF Typed
<1>4. ThievesHaveNothing' /\ LockedPagesAreListed'
  BY <1>1, <1>2 DEF ThievesHaveNothing, LockedPagesAreListed
<1>5. WriterHasSlots'
  BY <1>1 DEF WriterHasSlots, Typed
<1>6. Sum(cache, Users) \in Nat
  <2>1. \A w \in Users : cache[w] \in Nat
    BY <1>1, Constants DEF Typed
  <2>. QED BY <2>1, Constants, SumType
<1>7. Balanced'
  BY <1>1, <1>2, <1>6, Constants DEF Balanced, Typed
<1>. QED BY <1>3, <1>4, <1>5, <1>7 DEF WakeInv

\* The page leaves its list.
LEMMA RemoveModifiedPreserves ==
    ASSUME WakeInv, NEW u \in Users, RemoveModified(u)
    PROVE  WakeInv'
<1>. USE Constants DEF RemoveModified, events, sizes, slots, jobs, history, work
<1>1. Typed /\ LockedPagesAreListed /\ ThievesHaveNothing /\ WriterHasSlots /\ Balanced
  BY DEF WakeInv
<1>2. Go(u, "softModified", "countModified")
  OBVIOUS
<1>3. /\ Marked("softModified")' = Marked("softModified") - 1
      /\ Marked("softStandby")' = Marked("softStandby")
      /\ Marked("softModified") \in Nat /\ Marked("softModified")' \in Nat
  BY <1>1, <1>2, Moves, MarksAreNumbers, MarksStayNumbers DEF Typed
<1>4. user' \in [Users -> Places] /\ ThievesHaveNothing'
  BY <1>1, <1>2 DEF Typed, Go, Places, ThievesHaveNothing
<1>5. Typed'
  <2>1. modified' \in Nat /\ active' \in Nat
    BY <1>1, <1>3 DEF Typed, LockedPagesAreListed
  <2>. QED BY <1>1, <1>4, <2>1 DEF Typed
<1>6. LockedPagesAreListed' /\ WriterHasSlots'
  BY <1>1, <1>3 DEF LockedPagesAreListed, WriterHasSlots, Typed
<1>7. Sum(cache, Users) \in Nat
  <2>1. \A w \in Users : cache[w] \in Nat
    BY <1>1 DEF Typed
  <2>. QED BY <2>1, SumType
<1>8. Balanced'
  BY <1>1, <1>3, <1>7 DEF Balanced, Typed
<1>. QED BY <1>4, <1>5, <1>6, <1>8 DEF WakeInv

LEMMA RemoveStandbyPreserves ==
    ASSUME WakeInv, NEW u \in Users, RemoveStandby(u)
    PROVE  WakeInv'
<1>. USE Constants DEF RemoveStandby, events, sizes, slots, jobs, history, work
<1>1. Typed /\ LockedPagesAreListed /\ ThievesHaveNothing /\ WriterHasSlots /\ Balanced
  BY DEF WakeInv
<1>2. Go(u, "softStandby", "countStandby")
  OBVIOUS
<1>3. /\ Marked("softStandby")' = Marked("softStandby") - 1
      /\ Marked("softModified")' = Marked("softModified")
      /\ Marked("softStandby") \in Nat /\ Marked("softStandby")' \in Nat
  BY <1>1, <1>2, Moves, MarksAreNumbers, MarksStayNumbers DEF Typed
<1>4. user' \in [Users -> Places] /\ ThievesHaveNothing'
  BY <1>1, <1>2 DEF Typed, Go, Places, ThievesHaveNothing
<1>5. Typed'
  <2>1. standby' \in Nat /\ active' \in Nat
    BY <1>1, <1>3 DEF Typed, LockedPagesAreListed
  <2>. QED BY <1>1, <1>4, <2>1 DEF Typed
<1>6. LockedPagesAreListed' /\ WriterHasSlots'
  BY <1>1, <1>3 DEF LockedPagesAreListed, WriterHasSlots, Typed
<1>7. Sum(cache, Users) \in Nat
  <2>1. \A w \in Users : cache[w] \in Nat
    BY <1>1 DEF Typed
  <2>. QED BY <2>1, SumType
<1>8. Balanced'
  BY <1>1, <1>3, <1>7 DEF Balanced, Typed
<1>. QED BY <1>4, <1>5, <1>6, <1>8 DEF WakeInv
\* Nobody moves, and no page or slot.
LEMMA WorkerLooksPreserves ==
    ASSUME WakeInv,
           \/ TrimmerWake \/ TrimmerExit \/ TrimReset \/ CountTrimmed \/ CheckToStartWriter
           \/ WriterWake \/ WriterExit \/ SignalTrimmer \/ WriterHoldsOff
           \/ TellToStop \/ Stopped
    PROVE  WakeInv'
<1>. USE DEF TrimmerWake, TrimmerExit, TrimReset, CountTrimmed, CheckToStartWriter,
             WriterWake, WriterExit, SignalTrimmer, WriterHoldsOff, TellToStop, Stopped,
             events, pages, sizes, slots, jobs, history, work, vars
<1>1. Typed /\ LockedPagesAreListed /\ ThievesHaveNothing /\ WriterHasSlots /\ Balanced
  BY DEF WakeInv
<1>2. UNCHANGED <<user, pages, slots, batch, gathered>>
  OBVIOUS
<1>3. \A w : Marked(w)' = Marked(w)
  BY <1>2 DEF Marked, At
<1>4. ready' \in BOOLEAN /\ trimming' \in BOOLEAN /\ writing' \in BOOLEAN /\ exit' \in BOOLEAN
  BY <1>1 DEF Typed, SignalIfLow
<1>5. /\ trimmer' \in {"wait", "reset", "trim", "count", "check", "done"}
      /\ writer' \in {"wait", "signal", "begin", "gather", "write", "count", "announce", "done"}
      /\ trimmed' \in Nat /\ n_modified' \in Int /\ n_standby' \in Int
  BY <1>1 DEF Typed
<1>11. plenty' \in BOOLEAN
  BY <1>1, Zenon DEF Typed
<1>12. rounds' \in Nat
  <2>1. RoundsToStop \in Nat
    BY ThresholdAssumption DEF RoundsToStop
  <2>2. rounds' = rounds \/ CountRound
    OBVIOUS
  <2>. QED BY <1>1, <2>1, <2>2 DEF Typed, CountRound, AtMost
<1>6. writer' = writer \/ {writer, writer'} \subseteq {"wait", "signal", "begin", "done"}
  OBVIOUS
<1>. HIDE DEF TrimmerWake, TrimmerExit, TrimReset, CountTrimmed, CheckToStartWriter,
              WriterWake, WriterExit, SignalTrimmer, WriterHoldsOff, TellToStop, Stopped
<1>7. Typed'
  BY <1>1, <1>2, <1>4, <1>5, <1>11, <1>12 DEF Typed
<1>8. ThievesHaveNothing' /\ LockedPagesAreListed'
  BY <1>1, <1>2, <1>3 DEF ThievesHaveNothing, LockedPagesAreListed
<1>9. WriterHasSlots'
  BY <1>1, <1>2, <1>6 DEF WriterHasSlots
<1>10. Balanced'
  BY <1>1, <1>2, <1>3 DEF Balanced
<1>. QED BY <1>7, <1>8, <1>9, <1>10 DEF WakeInv

LEMMA SumOfCaches == ASSUME Typed PROVE Sum(cache, Users) \in Nat
<1>1. \A w \in Users : cache[w] \in Nat
  BY Constants DEF Typed
<1>. QED BY <1>1, Constants, SumType

LEMMA TrimPagesPreserves == ASSUME WakeInv, TrimPages PROVE WakeInv'
<1>. USE DEF events, sizes, slots, history
<1>1. Typed /\ LockedPagesAreListed /\ ThievesHaveNothing /\ WriterHasSlots /\ Balanced
  BY DEF WakeInv
<1>2. PICK k \in 0..AtMost(active, MaxTrimBatch) :
          active' = active - k /\ modified' = modified + k /\ trimmed' = k
  BY DEF TrimPages
<1>3. k \in Nat /\ k <= active
  BY <1>1, <1>2, Constants DEF AtMost, Typed
<1>4. /\ trimmer' = "count"
      /\ UNCHANGED <<events, user, writer, free, cache, midwrite, standby, sizes, slots, batch,
                     gathered, history>>
  BY DEF TrimPages
<1>5. \A w : Marked(w)' = Marked(w)
  BY <1>4 DEF Marked, At
<1>6. Typed'
  <2>1. active' \in Nat /\ modified' \in Nat /\ trimmed' \in Nat
    BY <1>1, <1>2, <1>3 DEF Typed
  <2>. QED BY <1>1, <1>4, <2>1 DEF Typed
<1>7. ThievesHaveNothing' /\ WriterHasSlots'
  BY <1>1, <1>4 DEF ThievesHaveNothing, WriterHasSlots
<1>8. LockedPagesAreListed'
  BY <1>1, <1>2, <1>3, <1>4, <1>5, MarksAreNumbers DEF LockedPagesAreListed, Typed
<1>9. Balanced'
  BY <1>1, <1>2, <1>3, <1>4, <1>5, MarksAreNumbers, SumOfCaches, Constants DEF Balanced, Typed
<1>. QED BY <1>6, <1>7, <1>8, <1>9 DEF WakeInv

\* The batch is never larger than the stash.
LEMMA TakeSlotsPreserves == ASSUME WakeInv, TakeSlots PROVE WakeInv'
<1>. USE DEF events, pages, sizes, history
<1>1. Typed /\ LockedPagesAreListed /\ ThievesHaveNothing /\ WriterHasSlots /\ Balanced
  BY DEF WakeInv
<1>2. PICK grab \in 0..empty : stash' = stash + grab /\ empty' = empty - grab
  BY DEF TakeSlots
<1>3. /\ writer = "begin" /\ batch' = Target(stash')
      /\ writer' = IF batch' = 0 THEN "wait" ELSE "gather"
      /\ UNCHANGED <<events, user, trimmer, pages, sizes, gathered, trimmed, history>>
  BY DEF TakeSlots
<1>4. stash' \in Nat /\ empty' \in Nat
  BY <1>1, <1>2 DEF Typed
<1>5. batch' \in Nat /\ batch' <= stash'
  <2>1. Approximate \in Nat
    BY <1>1, Constants DEF Approximate, AtMost, Typed
  <2>. QED BY <1>3, <1>4, <2>1 DEF Target, AtMost
<1>6. \A w : Marked(w)' = Marked(w)
  BY <1>3 DEF Marked, At
<1>7. Typed'
  BY <1>1, <1>3, <1>4, <1>5 DEF Typed
<1>8. ThievesHaveNothing' /\ LockedPagesAreListed'
  BY <1>1, <1>3, <1>6 DEF ThievesHaveNothing, LockedPagesAreListed
<1>9. WriterHasSlots'
  BY <1>1, <1>3, <1>4, <1>5 DEF WriterHasSlots, Typed
<1>10. Balanced'
  BY <1>1, <1>2, <1>3, <1>6, MarksAreNumbers, SumOfCaches, Constants DEF Balanced, Typed
<1>. QED BY <1>7, <1>8, <1>9, <1>10 DEF WakeInv

LEMMA GatherPagesPreserves == ASSUME WakeInv, GatherPages PROVE WakeInv'
<1>. USE DEF events, slots, history
<1>1. Typed /\ LockedPagesAreListed /\ ThievesHaveNothing /\ WriterHasSlots /\ Balanced
  BY DEF WakeInv
<1>2. PICK k \in 1..AtMost(batch - gathered, modified - Marked("softModified")) :
          /\ modified' = modified - k /\ n_modified' = n_modified - k
          /\ midwrite' = midwrite + k /\ gathered' = gathered + k
  BY DEF GatherPages, Marked
<1>3. /\ writer = "gather"
      /\ UNCHANGED <<events, user, trimmer, writer, free, cache, active, standby, n_standby, slots,
                     batch, trimmed, history>>
  BY DEF GatherPages
<1>4. k \in Nat /\ k <= batch - gathered /\ k <= modified - Marked("softModified")
  BY <1>1, <1>2, MarksAreNumbers DEF AtMost, Typed
<1>5. \A w : Marked(w)' = Marked(w)
  BY <1>3 DEF Marked, At
<1>6. Typed'
  <2>1. modified' \in Nat /\ n_modified' \in Int /\ midwrite' \in Nat /\ gathered' \in Nat
    BY <1>1, <1>2, <1>4, MarksAreNumbers DEF Typed
  <2>. QED BY <1>1, <1>3, <2>1 DEF Typed
<1>7. ThievesHaveNothing'
  BY <1>1, <1>3 DEF ThievesHaveNothing
<1>8. LockedPagesAreListed'
  BY <1>1, <1>2, <1>3, <1>4, <1>5, MarksAreNumbers DEF LockedPagesAreListed, Typed
<1>9. WriterHasSlots'
  BY <1>1, <1>2, <1>3, <1>4 DEF WriterHasSlots, Typed
<1>10. Balanced'
  BY <1>1, <1>2, <1>3, <1>4, <1>5, MarksAreNumbers, SumOfCaches, Constants DEF Balanced, Typed
<1>. QED BY <1>6, <1>7, <1>8, <1>9, <1>10 DEF WakeInv

LEMMA GatherDonePreserves == ASSUME WakeInv, GatherDone PROVE WakeInv'
<1>. USE DEF GatherDone, events, pages, sizes, slots, history
<1>1. Typed /\ LockedPagesAreListed /\ ThievesHaveNothing /\ WriterHasSlots /\ Balanced
  BY DEF WakeInv
<1>2. \A w : Marked(w)' = Marked(w)
  BY DEF Marked, At
<1>3. Typed'
  BY <1>1 DEF Typed
<1>4. ThievesHaveNothing' /\ LockedPagesAreListed'
  BY <1>1, <1>2 DEF ThievesHaveNothing, LockedPagesAreListed
<1>5. WriterHasSlots'
  BY <1>1 DEF WriterHasSlots, Typed
<1>6. Balanced'
  BY <1>1, <1>2 DEF Balanced
<1>. QED BY <1>3, <1>4, <1>5, <1>6 DEF WakeInv

\* Every page of the batch takes a slot from the stash; the slots of those that are
\* no longer mid-write are free again.
LEMMA WritePagesPreserves == ASSUME WakeInv, WritePages PROVE WakeInv'
<1>. USE DEF WritePages, events, sizes, history
<1>1. Typed /\ LockedPagesAreListed /\ ThievesHaveNothing /\ WriterHasSlots /\ Balanced
  BY DEF WakeInv
<1>2. \A w : Marked(w)' = Marked(w)
  BY DEF Marked, At
<1>3. midwrite <= gathered /\ gathered <= stash
  BY <1>1 DEF WriterHasSlots
<1>4. Typed'
  <2>1. stash' \in Nat /\ standby' \in Nat /\ midwrite' \in Nat /\ empty' \in Nat
        /\ gathered' \in Nat
    BY <1>1, <1>3 DEF Typed
  <2>. QED BY <1>1, <2>1 DEF Typed
<1>5. ThievesHaveNothing'
  BY <1>1 DEF ThievesHaveNothing
<1>6. LockedPagesAreListed'
  BY <1>1, <1>2, MarksAreNumbers DEF LockedPagesAreListed, Typed
<1>7. WriterHasSlots'
  BY <1>1 DEF WriterHasSlots, Typed
<1>8. Balanced'
  BY <1>1, <1>2, MarksAreNumbers, SumOfCaches, Constants DEF Balanced, Typed
<1>. QED BY <1>4, <1>5, <1>6, <1>7, <1>8 DEF WakeInv

LEMMA CountWrittenPreserves == ASSUME WakeInv, CountWritten PROVE WakeInv'
<1>. USE DEF CountWritten, events, pages, slots, history
<1>1. Typed /\ LockedPagesAreListed /\ ThievesHaveNothing /\ WriterHasSlots /\ Balanced
  BY DEF WakeInv
<1>2. \A w : Marked(w)' = Marked(w)
  BY DEF Marked, At
<1>3. Typed'
  <2>1. n_standby' \in Int
    BY <1>1 DEF Typed
  <2>. QED BY <1>1, <2>1 DEF Typed
<1>4. ThievesHaveNothing' /\ LockedPagesAreListed'
  BY <1>1, <1>2 DEF ThievesHaveNothing, LockedPagesAreListed
<1>5. WriterHasSlots'
  BY <1>1 DEF WriterHasSlots
<1>6. Balanced'
  BY <1>1, <1>2 DEF Balanced
<1>. QED BY <1>3, <1>4, <1>5, <1>6 DEF WakeInv

LEMMA AnnounceStandbyPreserves == ASSUME WakeInv, AnnounceStandby PROVE WakeInv'
<1>. USE DEF AnnounceStandby, pages, sizes, slots, jobs, history, work
<1>1. Typed /\ LockedPagesAreListed /\ ThievesHaveNothing /\ WriterHasSlots /\ Balanced
  BY DEF WakeInv
<1>2. /\ Marked("softModified")' = Marked("softModified")
      /\ Marked("softStandby")' = Marked("softStandby")
  BY <1>1, Released DEF Typed
<1>3. user' \in [Users -> Places]
  BY <1>1 DEF Typed, Places
<1>4. Typed'
  BY <1>1, <1>3 DEF Typed
<1>5. ThievesHaveNothing'
  BY <1>1 DEF ThievesHaveNothing
<1>6. LockedPagesAreListed' /\ Balanced'
  BY <1>1, <1>2 DEF LockedPagesAreListed, Balanced
<1>7. WriterHasSlots'
  BY <1>1 DEF WriterHasSlots
<1>. QED BY <1>4, <1>5, <1>6, <1>7 DEF WakeInv

LEMMA StutterPreserves == ASSUME WakeInv, UNCHANGED vars PROVE WakeInv'
BY MarksAreNumbers
   DEF vars, events, pages, sizes, slots, jobs, history, work, WakeInv, Typed, LockedPagesAreListed,
       ThievesHaveNothing, WriterHasSlots, Balanced, Marked, At

-----------------------------------------------------------------------------
(* The workers keep each other awake.                                      *)

\* The pages that a thread has stolen and not yet taken off n_standby.
Uncounted == [u \in Users |-> IF user[u] = "stolen" THEN cache[u] ELSE 0]

\* Each list size differs from its list by the updates that are under way.
SizesLag ==
    /\ n_modified = modified + Marked("countModified")
                    - (IF trimmer = "count" THEN trimmed ELSE 0)
    /\ n_standby = standby + Marked("countStandby") + Sum(Uncounted, Users)
                   - (IF writer = "count" THEN gathered ELSE 0)

\* Somebody is about to look for pages, or to wake one who does.
SomebodyIsOnIt ==
    \/ trimming \/ trimmer \in {"reset", "trim", "count", "check"}
    \/ writing \/ writer = "signal"
    \/ At("stolen") # {} \/ At("signal") # {}

\* While a thread waits, somebody is on it, or a standby page is there that no soft
\* fault has locked, or the writer found enough modified pages when it last woke.
AwakeInv == At("wait") # {} => SomebodyIsOnIt \/ Marked("softStandby") < standby \/ plenty

\* A thread that goes on may change its own share of what is not yet counted.
LEMMA UncountedSum ==
    ASSUME Typed, Typed', NEW u \in Users,
           \A w \in Users : w # u => cache'[w] = cache[w] /\ user'[w] = user[w]
    PROVE  /\ Sum(Uncounted, Users)' = Sum(Uncounted, Users) - Uncounted[u] + Uncounted'[u]
           /\ Sum(Uncounted, Users) \in Nat
<1>1. PICK f, g : f = Uncounted /\ g = Uncounted'
  OBVIOUS
<1>2. /\ \A w \in Users : f[w] \in Nat
      /\ \A w \in Users : g[w] \in Nat
      /\ \A w \in Users : w # u => g[w] = f[w]
  BY <1>1, Constants DEF Typed, Uncounted
<1>3. Sum(g, Users) = Sum(f, Users) - f[u] + g[u] /\ Sum(f, Users) \in Nat
  BY <1>2, Constants, SumChange, SumType
<1>. QED BY <1>1, <1>3

LEMMA InitialSizes == ASSUME Init PROVE SizesLag
<1>1. At("countModified") = {} /\ At("countStandby") = {}
  BY DEF Init, At
<1>2. Marked("countModified") = 0 /\ Marked("countStandby") = 0
  BY <1>1, FS_EmptySet DEF Marked
<1>3. Sum(Uncounted, Users) = 0
  BY SumOfZeros, Constants DEF Init, Uncounted
<1>. QED BY <1>2, <1>3 DEF Init, SizesLag

\* A thread that goes on, neither at a size nor at a batch of stolen pages.
LEMMA SizesLagElsewhere ==
    ASSUME WakeInv, WakeInv', SizesLag, NEW u \in Users, NEW from, NEW to, from # to,
           Go(u, from, to),
           {from, to} \cap {"countModified", "countStandby", "stolen"} = {},
           \A w \in Users : w # u => cache'[w] = cache[w],
           UNCHANGED <<modified, standby, sizes, trimmer, trimmed, writer, gathered>>
    PROVE  SizesLag'
<1>. USE DEF sizes
<1>1. Typed /\ Typed'
  BY DEF WakeInv
<1>2. /\ Marked("countModified")' = Marked("countModified")
      /\ Marked("countStandby")' = Marked("countStandby")
  <2>1. /\ from # "countModified" /\ to # "countModified"
        /\ from # "countStandby" /\ to # "countStandby"
    OBVIOUS
  <2>2. \A w : w # from /\ w # to => Marked(w)' = Marked(w)
    BY <1>1, Moves DEF Typed
  <2>. QED BY <2>1, <2>2
<1>3. /\ \A w \in Users : w # u => cache'[w] = cache[w] /\ user'[w] = user[w]
      /\ Uncounted[u] = 0 /\ Uncounted'[u] = 0
  BY <1>1 DEF Typed, Go, Uncounted
<1>4. Sum(Uncounted, Users)' = Sum(Uncounted, Users)
  BY <1>1, <1>3, UncountedSum
<1>. QED BY <1>1, <1>2, <1>4 DEF SizesLag, Typed

LEMMA SameLag ==
    ASSUME NEW n \in Int, NEW a \in Int, NEW m \in Int, NEW lag \in Int,
           NEW n2 \in Int, NEW a2 \in Int, NEW m2 \in Int,
           n = a + m - lag, n2 - a2 - m2 = n - a - m
    PROVE  n2 = a2 + m2 - lag
OBVIOUS

LEMMA UserStepKeepsLag ==
    ASSUME WakeInv, WakeInv', SizesLag, NEW u \in Users,
           Access(u) \/ HandleFault(u) \/ Finish(u)
    PROVE  SizesLag'
<1>. USE DEF pages, sizes, slots, jobs, history, work
<1>1. Typed /\ Typed' /\ ThievesHaveNothing
  BY DEF WakeInv
<1>2. CASE HardFault(u)
  <2>1. Go(u, "run", "acquire")
    BY <1>2 DEF HardFault
  <2>. QED BY <1>2, <2>1, SizesLagElsewhere DEF HardFault
<1>3. CASE NoFreePage(u)
  <2>1. Go(u, "acquire", "steal")
    BY <1>3 DEF NoFreePage
  <2>. QED BY <1>3, <2>1, SizesLagElsewhere DEF NoFreePage
<1>4. CASE Resolve(u)
  <2>1. Go(u, "acquire", "run")
    BY <1>4 DEF Resolve
  <2>2. \A w \in Users : w # u => cache'[w] = cache[w]
    BY <1>1, <1>4 DEF Resolve, Typed
  <2>. QED BY <1>4, <2>1, <2>2, SizesLagElsewhere DEF Resolve
<1>5. CASE SignalWriter(u)
  <2>1. PICK to \in {"reset", "acquire"} : Go(u, "signal", to)
    BY <1>5 DEF SignalWriter
  <2>2. /\ "signal" # to
        /\ {"signal", to} \cap {"countModified", "countStandby", "stolen"} = {}
    OBVIOUS
  <2>. QED BY <1>5, <2>1, <2>2, SizesLagElsewhere DEF SignalWriter
<1>6. CASE ResetReady(u)
  <2>1. Go(u, "reset", "ask")
    BY <1>6 DEF ResetReady
  <2>. QED BY <1>6, <2>1, SizesLagElsewhere DEF ResetReady
<1>7. CASE AskForTrimming(u)
  <2>1. Go(u, "ask", "wait")
    BY <1>7 DEF AskForTrimming
  <2>. QED BY <1>7, <2>1, SizesLagElsewhere DEF AskForTrimming
<1>8. CASE PassWait(u)
  <2>1. Go(u, "wait", "run")
    BY <1>8 DEF PassWait
  <2>. QED BY <1>8, <2>1, SizesLagElsewhere DEF PassWait
<1>9. CASE SoftModified(u)
  <2>1. Go(u, "run", "softModified")
    BY <1>9 DEF SoftModified
  <2>. QED BY <1>9, <2>1, SizesLagElsewhere DEF SoftModified
<1>10. CASE SoftStandby(u)
  <2>1. Go(u, "run", "softStandby")
    BY <1>10 DEF SoftStandby
  <2>. QED BY <1>10, <2>1, SizesLagElsewhere DEF SoftStandby
<1>11. CASE SeeStandby(u)
  <2>1. PICK to \in {"emptied", "run"} : Go(u, "emptied?", to)
    BY <1>11 DEF SeeStandby
  <2>2. /\ "emptied?" # to
        /\ {"emptied?", to} \cap {"countModified", "countStandby", "stolen"} = {}
    OBVIOUS
  <2>. QED BY <1>11, <2>1, <2>2, SizesLagElsewhere DEF SeeStandby
<1>12. CASE ResetEmptied(u)
  <2>1. Go(u, "emptied", "run")
    BY <1>12 DEF ResetEmptied
  <2>. QED BY <1>12, <2>1, SizesLagElsewhere DEF ResetEmptied
<1>13. CASE Finish(u)
  <2>1. Go(u, "run", "done")
    BY <1>13 DEF Finish
  <2>. QED BY <1>13, <2>1, SizesLagElsewhere DEF Finish
<1>14. CASE Refill(u)
  <2>1. /\ \A w \in Users : w # u => cache'[w] = cache[w] /\ user'[w] = user[w]
        /\ Uncounted[u] = 0 /\ Uncounted'[u] = 0
        /\ UNCHANGED <<user, modified, standby, sizes, trimmer, trimmed, writer, gathered>>
    BY <1>1, <1>14 DEF Refill, Typed, Uncounted
  <2>2. Sum(Uncounted, Users)' = Sum(Uncounted, Users)
    BY <1>1, <2>1, UncountedSum
  <2>3. \A w : Marked(w)' = Marked(w)
    BY <2>1 DEF Marked, At
  <2>. QED BY <2>1, <2>2, <2>3 DEF SizesLag
<1>15. CASE Steal(u)
  <2>1. /\ Go(u, "steal", "stolen")
        /\ UNCHANGED <<modified, sizes, trimmer, trimmed, writer, gathered>>
    BY <1>15 DEF Steal
  <2>2. /\ Marked("countModified")' = Marked("countModified")
        /\ Marked("countStandby")' = Marked("countStandby")
    BY <1>1, <2>1, Moves DEF Typed
  <2>3. cache[u] = 0
    BY <1>1, <2>1 DEF ThievesHaveNothing, Go
  <2>4. /\ \A w \in Users : w # u => cache'[w] = cache[w]
        /\ standby' = standby - cache'[u]
    BY <1>1, <1>15, <2>3 DEF Steal, Typed
  <2>5. /\ \A w \in Users : w # u => cache'[w] = cache[w] /\ user'[w] = user[w]
        /\ Uncounted[u] = 0 /\ Uncounted'[u] = cache'[u] /\ cache'[u] \in Int
    BY <1>1, <2>1, <2>4, Constants DEF Typed, Go, Uncounted
  <2>6. /\ Sum(Uncounted, Users)' = Sum(Uncounted, Users) - Uncounted[u] + Uncounted'[u]
        /\ Sum(Uncounted, Users) \in Nat
    BY <1>1, <2>5, UncountedSum
  <2>. QED BY <1>1, <2>1, <2>2, <2>4, <2>5, <2>6, MarksAreNumbers DEF SizesLag, Typed
<1>16. CASE CountStolen(u)
  <2>1. /\ Go(u, "stolen", "signal") /\ n_standby' = n_standby - cache[u]
        /\ UNCHANGED <<cache, modified, standby, n_modified, trimmer, trimmed, writer, gathered>>
    BY <1>16 DEF CountStolen
  <2>2. /\ Marked("countModified")' = Marked("countModified")
        /\ Marked("countStandby")' = Marked("countStandby")
    BY <1>1, <2>1, Moves DEF Typed
  <2>3. /\ \A w \in Users : w # u => cache'[w] = cache[w] /\ user'[w] = user[w]
        /\ Uncounted[u] = cache[u] /\ Uncounted'[u] = 0 /\ cache[u] \in Int
    BY <1>1, <2>1, Constants DEF Typed, Go, Uncounted
  <2>4. /\ Sum(Uncounted, Users)' = Sum(Uncounted, Users) - Uncounted[u] + Uncounted'[u]
        /\ Sum(Uncounted, Users) \in Nat
    BY <1>1, <2>3, UncountedSum
  <2>. QED BY <1>1, <2>1, <2>2, <2>3, <2>4, MarksAreNumbers DEF SizesLag, Typed
<1>17. CASE SoftMidWrite(u)
  <2>1. UNCHANGED <<user, cache, modified, standby, sizes, trimmer, trimmed, writer, gathered>>
    BY <1>17 DEF SoftMidWrite
  <2>. QED BY <2>1 DEF SizesLag, Uncounted, Marked, At
<1>18. CASE RemoveModified(u) \/ CountModified(u)
  <2>1. /\ UNCHANGED <<cache, standby, n_standby, trimmer, trimmed, writer, gathered>>
        /\ \/ Go(u, "softModified", "countModified")
              /\ modified' = modified - 1 /\ n_modified' = n_modified
           \/ Go(u, "countModified", "run")
              /\ modified' = modified /\ n_modified' = n_modified - 1
    BY <1>18 DEF RemoveModified, CountModified
  <2>2. Marked("countStandby")' = Marked("countStandby")
    BY <1>1, <2>1, Moves DEF Typed
  <2>3. /\ \A w \in Users : w # u => cache'[w] = cache[w] /\ user'[w] = user[w]
        /\ Uncounted[u] = 0 /\ Uncounted'[u] = 0
    BY <1>1, <2>1 DEF Typed, Go, Uncounted
  <2>4. Sum(Uncounted, Users)' = Sum(Uncounted, Users)
    BY <1>1, <2>3, UncountedSum
  <2>5. n_modified' - modified' - Marked("countModified")'
          = n_modified - modified - Marked("countModified")
    BY <1>1, <2>1, Moves, MarksAreNumbers DEF Typed
  <2>6. n_modified' = modified' + Marked("countModified")'
                      - (IF trimmer' = "count" THEN trimmed' ELSE 0)
    <3>1. PICK lag \in Int : lag = IF trimmer = "count" THEN trimmed ELSE 0
      BY <1>1 DEF Typed
    <3>2. n_modified = modified + Marked("countModified") - lag
      BY <3>1 DEF SizesLag
    <3>3. n_modified' = modified' + Marked("countModified")' - lag
      BY <1>1, <2>5, <3>2, SameLag, MarksAreNumbers, MarksStayNumbers DEF Typed
    <3>. QED BY <2>1, <3>1, <3>3
  <2>. QED BY <2>1, <2>2, <2>4, <2>6 DEF SizesLag
<1>19. CASE RemoveStandby(u) \/ CountStandby(u)
  <2>1. /\ UNCHANGED <<cache, modified, n_modified, trimmer, trimmed, writer, gathered>>
        /\ \/ Go(u, "softStandby", "countStandby")
              /\ standby' = standby - 1 /\ n_standby' = n_standby
           \/ Go(u, "countStandby", "emptied?")
              /\ standby' = standby /\ n_standby' = n_standby - 1
    BY <1>19 DEF RemoveStandby, CountStandby
  <2>2. Marked("countModified")' = Marked("countModified")
    BY <1>1, <2>1, Moves DEF Typed
  <2>3. /\ \A w \in Users : w # u => cache'[w] = cache[w] /\ user'[w] = user[w]
        /\ Uncounted[u] = 0 /\ Uncounted'[u] = 0
    BY <1>1, <2>1 DEF Typed, Go, Uncounted
  <2>4. Sum(Uncounted, Users)' = Sum(Uncounted, Users) /\ Sum(Uncounted, Users) \in Nat
    BY <1>1, <2>3, UncountedSum
  <2>5. n_standby' - standby' - Marked("countStandby")'
          = n_standby - standby - Marked("countStandby")
    BY <1>1, <2>1, Moves, MarksAreNumbers DEF Typed
  <2>6. PICK lag \in Int : lag = (IF writer = "count" THEN gathered ELSE 0) - Sum(Uncounted, Users)
    BY <1>1, <2>4 DEF Typed
  <2>7. n_standby = standby + Marked("countStandby") - lag
    BY <1>1, <2>4, <2>6, MarksAreNumbers DEF SizesLag, Typed
  <2>8. n_standby' = standby' + Marked("countStandby")' - lag
    BY <1>1, <2>5, <2>7, SameLag, MarksAreNumbers, MarksStayNumbers DEF Typed
  <2>9. n_standby' = standby' + Marked("countStandby")' + Sum(Uncounted, Users)'
                     - (IF writer' = "count" THEN gathered' ELSE 0)
    BY <1>1, <2>1, <2>4, <2>6, <2>8, MarksStayNumbers DEF Typed
  <2>. QED BY <2>1, <2>2, <2>9 DEF SizesLag
<1>. QED BY <1>2, <1>3, <1>4, <1>5, <1>6, <1>7, <1>8, <1>9, <1>10, <1>11, <1>12, <1>13,
            <1>14, <1>15, <1>16, <1>17, <1>18, <1>19 DEF Access, HandleFault

LEMMA WorkerStepKeepsLag ==
    ASSUME WakeInv, WakeInv', SizesLag,
           TrimmerStep \/ WriterStep \/ TellToStop \/ UNCHANGED vars
    PROVE  SizesLag'
<1>. USE DEF events, pages, sizes, slots, jobs, history, work, vars
<1>1. Typed /\ Typed'
  BY DEF WakeInv
<1>0. /\ modified \in Nat /\ standby \in Nat /\ gathered \in Nat /\ trimmed \in Nat
      /\ n_modified \in Int /\ n_standby \in Int
      /\ modified' \in Nat /\ standby' \in Nat /\ gathered' \in Nat /\ trimmed' \in Nat
      /\ n_modified' \in Int /\ n_standby' \in Int
  BY <1>1 DEF Typed
<1>2. ASSUME UNCHANGED user
      PROVE  \A w : Marked(w)' = Marked(w)
  BY <1>2 DEF Marked, At
<1>3. ASSUME UNCHANGED <<user, cache>>
      PROVE  Sum(Uncounted, Users)' = Sum(Uncounted, Users)
  BY <1>3 DEF Uncounted
<1>4. Sum(Uncounted, Users) \in Nat
  <2>1. \A w \in Users : Uncounted[w] \in Nat
    BY <1>1, Constants DEF Typed, Uncounted
  <2>. QED BY <2>1, Constants, SumType
<1>5. CASE TrimmerStep
  <2>1. /\ UNCHANGED <<user, cache, standby, n_standby, writer, gathered>>
        /\ \/ modified' = modified + trimmed' /\ n_modified' = n_modified
              /\ trimmer = "trim" /\ trimmer' = "count" /\ trimmed' \in Int
           \/ modified' = modified /\ n_modified' = n_modified + trimmed
              /\ trimmer = "count" /\ trimmer' = "check"
           \/ UNCHANGED <<modified, n_modified, trimmed>>
              /\ trimmer # "count" /\ trimmer' # "count"
    BY <1>5 DEF TrimmerStep, TrimmerWake, TrimmerExit, TrimReset, TrimPages, CountTrimmed,
                CheckToStartWriter
  <2>2. n_standby' = standby' + Marked("countStandby")' + Sum(Uncounted, Users)'
                     - (IF writer' = "count" THEN gathered' ELSE 0)
    BY <1>2, <1>3, <2>1 DEF SizesLag
  <2>3. PICK m \in Nat : m = Marked("countModified") /\ m = Marked("countModified")'
    BY <1>2, <2>1, MarksAreNumbers
  <2>4. n_modified = modified + m - (IF trimmer = "count" THEN trimmed ELSE 0)
    BY <2>3 DEF SizesLag
  <2>5. n_modified' = modified' + m - (IF trimmer' = "count" THEN trimmed' ELSE 0)
    <3>1. CASE trimmer = "trim" /\ trimmer' = "count"
      <4>1. modified' = modified + trimmed' /\ n_modified' = n_modified
        BY <2>1, <3>1
      <4>2. n_modified = modified + m
        BY <1>0, <2>4, <3>1
      <4>3. (IF trimmer' = "count" THEN trimmed' ELSE 0) = trimmed'
        BY <3>1
      <4>4. n_modified' = modified' + m - trimmed'
        <5>1. PICK n \in Int, a \in Int, lag \in Int, n2 \in Int, a2 \in Int :
                  /\ n = n_modified /\ a = modified /\ lag = trimmed'
                  /\ n2 = n_modified' /\ a2 = modified'
          BY <1>0
        <5>2. n = a + m /\ n2 = n /\ a2 = a + lag
          BY <4>1, <4>2, <5>1
        <5>3. n2 = a2 + m - lag
          BY <5>2
        <5>. QED BY <5>1, <5>3
      <4>. QED BY <4>3, <4>4
    <3>2. CASE trimmer = "count"
      BY <1>0, <2>1, <2>4, <3>2
    <3>3. CASE trimmer # "count" /\ trimmer' # "count"
      BY <2>1, <2>4, <3>3
    <3>. QED BY <2>1, <3>1, <3>2, <3>3
  <2>6. n_modified' = modified' + Marked("countModified")'
                      - (IF trimmer' = "count" THEN trimmed' ELSE 0)
    BY <2>3, <2>5
  <2>. QED BY <2>2, <2>6 DEF SizesLag
<1>6. CASE WriterStep /\ ~AnnounceStandby
  <2>1. /\ UNCHANGED <<user, cache, trimmer, trimmed>>
        /\ n_modified' - n_modified = modified' - modified
        /\ \/ standby' = standby + gathered' /\ n_standby' = n_standby
              /\ writer = "write" /\ writer' = (IF gathered' = 0 THEN "wait" ELSE "count")
              /\ gathered' \in Int
           \/ standby' = standby /\ n_standby' = n_standby + gathered
              /\ writer = "count" /\ writer' = "announce"
           \/ UNCHANGED <<standby, n_standby>>
              /\ writer # "count" /\ writer' # "count"
    <3>1. CASE GatherPages
      <4>1. PICK k \in Int : modified' = modified - k /\ n_modified' = n_modified - k
        BY <3>1 DEF GatherPages
      <4>. QED BY <1>1, <3>1, <4>1 DEF GatherPages, Typed
    <3>2. CASE WritePages
      BY <1>0, <3>2 DEF WritePages
    <3>3. CASE CountWritten
      BY <1>0, <3>3 DEF CountWritten
    <3>4. CASE WriterWake \/ WriterExit \/ SignalTrimmer \/ WriterHoldsOff \/ GatherDone
      <4>1. /\ UNCHANGED <<user, cache, trimmer, trimmed, modified, n_modified, standby, n_standby>>
            /\ writer # "count" /\ writer' # "count"
        BY <3>4 DEF WriterWake, WriterExit, SignalTrimmer, WriterHoldsOff, GatherDone
      <4>2. n_modified' - n_modified = 0 /\ modified' - modified = 0
        BY <1>0, <4>1
      <4>. QED BY <4>1, <4>2
    <3>5. CASE TakeSlots
      <4>1. /\ UNCHANGED <<user, cache, trimmer, trimmed, modified, n_modified, standby, n_standby>>
            /\ writer = "begin" /\ writer' \in {"wait", "gather"}
        BY <3>5 DEF TakeSlots
      <4>2. n_modified' - n_modified = 0 /\ modified' - modified = 0
        BY <1>0, <4>1
      <4>. QED BY <4>1, <4>2
    <3>. QED BY <1>6, <3>1, <3>2, <3>3, <3>4, <3>5 DEF WriterStep
  <2>2. n_standby' = standby' + Marked("countStandby")' + Sum(Uncounted, Users)'
                     - (IF writer' = "count" THEN gathered' ELSE 0)
    <3>1. PICK m \in Nat : /\ m = Marked("countStandby") + Sum(Uncounted, Users)
                           /\ m = Marked("countStandby")' + Sum(Uncounted, Users)'
      BY <1>2, <1>3, <1>4, <2>1, MarksAreNumbers
    <3>2. n_standby = standby + m - (IF writer = "count" THEN gathered ELSE 0)
      BY <1>1, <1>4, <3>1, MarksAreNumbers DEF SizesLag, Typed
    <3>3. n_standby' = standby' + m - (IF writer' = "count" THEN gathered' ELSE 0)
      <4>1. CASE /\ standby' = standby + gathered' /\ n_standby' = n_standby
                 /\ writer = "write" /\ writer' = (IF gathered' = 0 THEN "wait" ELSE "count")
        <5>1. n_standby = standby + m
          BY <1>0, <3>2, <4>1
        <5>2. PICK n \in Int, a \in Int, lag \in Int, n2 \in Int, a2 \in Int :
                  /\ n = n_standby /\ a = standby /\ lag = gathered'
                  /\ n2 = n_standby' /\ a2 = standby'
          BY <1>0
        <5>3. n = a + m /\ n2 = n /\ a2 = a + lag
          BY <4>1, <5>1, <5>2
        <5>4. n2 = a2 + m - lag
          BY <5>3
        <5>. QED BY <4>1, <5>2, <5>4
      <4>2. CASE writer = "count"
        BY <1>0, <2>1, <3>2, <4>2
      <4>3. CASE writer # "count" /\ writer' # "count" /\ UNCHANGED <<standby, n_standby>>
        BY <3>2, <4>3
      <4>. QED BY <2>1, <4>1, <4>2, <4>3
    <3>. QED BY <1>1, <1>2, <1>3, <1>4, <2>1, <3>1, <3>3, MarksAreNumbers DEF Typed
  <2>3. n_modified' = modified' + Marked("countModified")'
                      - (IF trimmer' = "count" THEN trimmed' ELSE 0)
    <3>1. n_modified' - modified' - Marked("countModified")'
            = n_modified - modified - Marked("countModified")
      BY <1>1, <1>2, <2>1, MarksAreNumbers DEF Typed
    <3>. QED BY <1>1, <2>1, <3>1, SameLag, MarksAreNumbers, MarksStayNumbers DEF SizesLag, Typed
  <2>. QED BY <2>2, <2>3 DEF SizesLag
<1>7. CASE AnnounceStandby
  <2>1. /\ UNCHANGED <<cache, modified, standby, n_modified, n_standby, trimmer, trimmed, gathered>>
        /\ writer # "count" /\ writer' # "count"
        /\ user' = [u \in Users |-> IF user[u] = "wait" THEN "run" ELSE user[u]]
    BY <1>7 DEF AnnounceStandby
  <2>2. /\ Marked("countModified")' = Marked("countModified")
        /\ Marked("countStandby")' = Marked("countStandby")
    BY <1>1, <2>1, Released DEF Typed
  <2>3. Uncounted' = Uncounted
    BY <1>1, <2>1 DEF Uncounted, Typed
  <2>. QED BY <2>1, <2>2, <2>3 DEF SizesLag
<1>8. CASE TellToStop \/ UNCHANGED vars
  <2>1. UNCHANGED <<user, cache, modified, standby, sizes, trimmer, trimmed, writer, gathered>>
    BY <1>8 DEF TellToStop
  <2>. QED BY <1>2, <1>3, <2>1 DEF SizesLag
<1>. QED BY <1>5, <1>6, <1>7, <1>8

\* No thread is at two places.
LEMMA PlacesAreDisjoint ==
    Marked("wait") + Marked("softStandby") + Marked("countStandby") <= Cardinality(Users)
<1>. DEFINE A == At("wait")
            B == At("softStandby")
            C == At("countStandby")
<1>1. /\ A \subseteq Users /\ B \subseteq Users /\ C \subseteq Users
      /\ A \cap B = {} /\ (A \cup B) \cap C = {}
  BY DEF At
<1>2. /\ IsFiniteSet(A) /\ IsFiniteSet(B) /\ IsFiniteSet(C)
  BY <1>1, Constants, FS_Subset
<1>. HIDE DEF A, B, C
<1>3. Cardinality(A \cup B) = Cardinality(A) + Cardinality(B) - 0 /\ IsFiniteSet(A \cup B)
  BY <1>1, <1>2, DisjointUnion, FS_EmptySet
<1>4. Cardinality((A \cup B) \cup C) = Cardinality(A \cup B) + Cardinality(C) - 0
  BY <1>1, <1>2, <1>3, DisjointUnion, FS_EmptySet
<1>5. Cardinality((A \cup B) \cup C) <= Cardinality(Users)
  BY <1>1, Constants, FS_Subset
<1>6. Cardinality(A) \in Nat /\ Cardinality(B) \in Nat /\ Cardinality(C) \in Nat
      /\ Cardinality(Users) \in Nat
  BY <1>2, Constants, FS_CardinalityType
<1>7. Cardinality(A) + Cardinality(B) + Cardinality(C) <= Cardinality(Users)
  BY <1>3, <1>4, <1>5, <1>6
<1>. QED BY <1>7 DEF A, B, C, Marked

\* While one thread waits and none has stolen, a size that is no smaller than the
\* number of threads means a page that no soft fault has locked.
LEMMA SizeIsNotAllLag ==
    WakeInv /\ SizesLag /\ At("wait") # {} /\ At("stolen") = {}
    /\ n_standby >= Cardinality(Users)
    => Marked("softStandby") < standby
<1>. SUFFICES ASSUME WakeInv, SizesLag, At("wait") # {}, At("stolen") = {},
                     n_standby >= Cardinality(Users)
              PROVE  Marked("softStandby") < standby
  OBVIOUS
<1>1. Typed
  BY DEF WakeInv
<1>2. Sum(Uncounted, Users) = 0
  <2>1. \A u \in Users : Uncounted[u] = 0
    BY DEF Uncounted, At
  <2>. QED BY <2>1, Constants, SumOfZeros
<1>3. Marked("wait") # 0 /\ Cardinality(Users) \in Nat
  <2>1. At("wait") \subseteq Users
    BY DEF At
  <2>2. IsFiniteSet(At("wait"))
    BY <2>1, Constants, FS_Subset
  <2>. QED BY <2>2, Constants, FS_EmptySet, FS_CardinalityType DEF Marked
<1>4. PICK a \in Nat, b \in Nat, c \in Nat, n \in Nat :
          /\ a = Marked("wait") /\ b = Marked("softStandby") /\ c = Marked("countStandby")
          /\ n = Cardinality(Users)
  BY <1>3, MarksAreNumbers
<1>5. PICK lag \in Nat : lag = IF writer = "count" THEN gathered ELSE 0
  BY <1>1 DEF Typed
<1>6. PICK s \in Nat, size \in Int : s = standby /\ size = n_standby
  BY <1>1 DEF Typed
<1>7. /\ a + b + c <= n /\ a # 0 /\ size >= n
  BY <1>3, <1>4, <1>6, PlacesAreDisjoint
<1>8. size = s + c + 0 - lag
  BY <1>2, <1>4, <1>5, <1>6 DEF SizesLag
<1>9. b < s
  BY <1>7, <1>8
<1>. QED BY <1>4, <1>6, <1>9

LEMMA SizeIsNotAllLagNext ==
    (WakeInv /\ SizesLag /\ At("wait") # {} /\ At("stolen") = {}
     /\ n_standby >= Cardinality(Users)
     => Marked("softStandby") < standby)'
BY SizeIsNotAllLag, PTL

\* A thread goes on and puts nobody off.
QuietMove(u, from, to) ==
    /\ from # to /\ Go(u, from, to)
    /\ from # "stolen" /\ from # "signal" /\ from # "softStandby"
    /\ to # "wait" /\ to # "softStandby"
    /\ trimming' = trimming \/ trimming' = TRUE
    /\ UNCHANGED <<writing, trimmer, writer, standby, plenty>>

LEMMA QuietMoveKeepsAwake ==
    ASSUME WakeInv, AwakeInv, NEW u \in Users, NEW from, NEW to, QuietMove(u, from, to)
    PROVE  AwakeInv'
<1>1. Typed
  BY DEF WakeInv
<1>2. Marked("softStandby")' = Marked("softStandby")
  BY <1>1, Moves DEF Typed, QuietMove
<1>3. /\ At("wait")' \subseteq At("wait")
      /\ At("stolen") \subseteq At("stolen")' /\ At("signal") \subseteq At("signal")'
  BY DEF QuietMove, Go, At
<1>4. SomebodyIsOnIt => SomebodyIsOnIt'
  BY <1>3 DEF QuietMove, SomebodyIsOnIt
<1>. QED BY <1>2, <1>3, <1>4 DEF AwakeInv, QuietMove

\* Nobody moves; what there was to do is still done, and no standby page leaves.
LEMMA QuietWorkKeepsAwake ==
    ASSUME AwakeInv, UNCHANGED <<user, plenty>>, SomebodyIsOnIt => SomebodyIsOnIt',
           Typed, Typed', standby <= standby'
    PROVE  AwakeInv'
<1>1. UNCHANGED <<At("wait"), Marked("softStandby")>>
  BY DEF At, Marked
<1>2. PICK s \in Nat, s2 \in Nat, m \in Nat :
          s = standby /\ s2 = standby' /\ m = Marked("softStandby")
  BY MarksAreNumbers DEF Typed
<1>3. m < s => m < s2
  BY <1>2
<1>. QED BY <1>1, <1>2, <1>3 DEF AwakeInv

\* The size has been looked at and is not short.
LEMMA LongSizeKeepsAwake ==
    ASSUME WakeInv', SizesLag', n_standby' >= Cardinality(Users)
    PROVE  AwakeInv'
BY SizeIsNotAllLagNext DEF AwakeInv, SomebodyIsOnIt

LEMMA UserStepKeepsAwake ==
    ASSUME WakeInv, WakeInv', SizesLag', AwakeInv, Cardinality(Users) <= DesperatePages,
           NEW u \in Users, Access(u) \/ HandleFault(u) \/ Finish(u)
    PROVE  AwakeInv'
<1>. USE DEF events, pages, sizes, slots, jobs, history, work
<1>1. Typed /\ Typed'
  BY DEF WakeInv
<1>2. LowPages \in Nat /\ Cardinality(Users) \in Nat /\ Cardinality(Users) <= LowPages
      /\ n_standby \in Int
  <2>1. LowPages \in Nat /\ DesperatePages \in Nat /\ DesperatePages <= LowPages
    BY ThresholdAssumption
  <2>2. Cardinality(Users) \in Nat
    BY Constants, FS_CardinalityType
  <2>. QED BY <1>1, <2>1, <2>2 DEF Typed
<1>3. ASSUME SignalIfLow(writing, n_standby), n_standby' = n_standby
      PROVE  AwakeInv'
  <2>1. CASE writing' = TRUE
    BY <2>1 DEF AwakeInv, SomebodyIsOnIt
  <2>2. CASE n_standby >= LowPages
    <3>1. n_standby' >= Cardinality(Users)
      BY <1>2, <1>3, <2>2
    <3>. QED BY <3>1, LongSizeKeepsAwake
  <2>. QED BY <1>3, <2>1, <2>2 DEF SignalIfLow
<1>4. CASE SignalWriter(u) \/ SoftStandby(u)
  BY <1>3, <1>4 DEF SignalWriter, SoftStandby
<1>5. CASE Steal(u)
  <2>1. u \in At("stolen")'
    BY <1>1, <1>5 DEF Steal, Go, At, Typed
  <2>. QED BY <2>1 DEF AwakeInv, SomebodyIsOnIt
<1>6. CASE CountStolen(u)
  <2>1. u \in At("signal")'
    BY <1>1, <1>6 DEF CountStolen, Go, At, Typed
  <2>. QED BY <2>1 DEF AwakeInv, SomebodyIsOnIt
<1>7. CASE AskForTrimming(u)
  BY <1>7 DEF AskForTrimming, AwakeInv, SomebodyIsOnIt
<1>8. CASE Refill(u) \/ SoftMidWrite(u)
  <2>1. UNCHANGED <<events, user, standby, trimmer, writer, plenty>>
    BY <1>8 DEF Refill, SoftMidWrite
  <2>2. SomebodyIsOnIt => SomebodyIsOnIt'
    BY <2>1 DEF SomebodyIsOnIt, At
  <2>3. standby <= standby'
    BY <1>1, <2>1 DEF Typed
  <2>. QED BY <1>1, <2>1, <2>2, <2>3, QuietWorkKeepsAwake
<1>9. CASE RemoveStandby(u)
  <2>1. Go(u, "softStandby", "countStandby") /\ standby' = standby - 1
        /\ UNCHANGED <<events, trimmer, writer, plenty>>
    BY <1>9 DEF RemoveStandby
  <2>2. Marked("softStandby")' = Marked("softStandby") - 1
    BY <1>1, <2>1, Moves DEF Typed
  <2>3. At("wait")' = At("wait") /\ At("stolen")' = At("stolen") /\ At("signal")' = At("signal")
    BY <1>1, <2>1 DEF Go, At, Typed
  <2>4. SomebodyIsOnIt => SomebodyIsOnIt'
    BY <2>1, <2>3 DEF SomebodyIsOnIt
  <2>5. PICK s \in Nat, m \in Nat : s = standby /\ m = Marked("softStandby")
    BY <1>1, MarksAreNumbers DEF Typed
  <2>6. m < s => m - 1 < s - 1
    OBVIOUS
  <2>. QED BY <2>1, <2>2, <2>3, <2>4, <2>5, <2>6 DEF AwakeInv
<1>10. ASSUME HardFault(u) PROVE QuietMove(u, "run", "acquire")
  BY <1>10 DEF HardFault, QuietMove
<1>11. ASSUME NoFreePage(u) PROVE QuietMove(u, "acquire", "steal")
  BY <1>11 DEF NoFreePage, QuietMove
<1>12. ASSUME Resolve(u) PROVE QuietMove(u, "acquire", "run")
  BY <1>12 DEF Resolve, QuietMove
<1>13. ASSUME ResetReady(u) PROVE QuietMove(u, "reset", "ask")
  BY <1>13 DEF ResetReady, QuietMove
<1>14. ASSUME PassWait(u) PROVE QuietMove(u, "wait", "run")
  BY <1>14 DEF PassWait, QuietMove
<1>15. ASSUME SoftModified(u) PROVE QuietMove(u, "run", "softModified")
  BY <1>15 DEF SoftModified, SignalIfLow, QuietMove
<1>16. ASSUME RemoveModified(u) PROVE QuietMove(u, "softModified", "countModified")
  BY <1>16 DEF RemoveModified, QuietMove
<1>17. ASSUME CountModified(u) PROVE QuietMove(u, "countModified", "run")
  BY <1>17 DEF CountModified, QuietMove
<1>18. ASSUME CountStandby(u) PROVE QuietMove(u, "countStandby", "emptied?")
  BY <1>18 DEF CountStandby, QuietMove
<1>19. ASSUME SeeStandby(u)
       PROVE  QuietMove(u, "emptied?", IF standby = 0 THEN "emptied" ELSE "run")
  BY <1>19 DEF SeeStandby, QuietMove
<1>20. ASSUME ResetEmptied(u) PROVE QuietMove(u, "emptied", "run")
  BY <1>20 DEF ResetEmptied, QuietMove
<1>21. ASSUME Finish(u) PROVE QuietMove(u, "run", "done")
  BY <1>21 DEF Finish, QuietMove
<1>. QED BY <1>4, <1>5, <1>6, <1>7, <1>8, <1>9, <1>10, <1>11, <1>12, <1>13, <1>14, <1>15,
            <1>16, <1>17, <1>18, <1>19, <1>20, <1>21, QuietMoveKeepsAwake
         DEF Access, HandleFault

LEMMA WorkerStepKeepsAwake ==
    ASSUME WakeInv, WakeInv', SizesLag', AwakeInv, Cardinality(Users) <= DesperatePages,
           TrimmerStep \/ WriterStep \/ TellToStop \/ UNCHANGED vars
    PROVE  AwakeInv'
<1>. USE DEF events, pages, sizes, slots, jobs, history, work, vars
<1>1. Typed /\ Typed'
  BY DEF WakeInv
<1>2. CASE TrimmerWake \/ TrimReset \/ TrimPages \/ CountTrimmed \/ WriterWake
  <2>1. trimmer' \in {"reset", "trim", "count", "check"} \/ writer' = "signal"
    BY <1>2 DEF TrimmerWake, TrimReset, TrimPages, CountTrimmed, WriterWake
  <2>. QED BY <2>1 DEF AwakeInv, SomebodyIsOnIt
<1>3. CASE CheckToStartWriter
  <2>1. CASE n_standby < DesperatePages
    BY <1>3, <2>1 DEF CheckToStartWriter, AwakeInv, SomebodyIsOnIt
  <2>2. CASE ~(n_standby < DesperatePages)
    <3>1. n_standby' >= Cardinality(Users)
      <4>1. n_standby' = n_standby /\ n_standby \in Int
        BY <1>1, <1>3 DEF CheckToStartWriter, Typed
      <4>2. DesperatePages \in Nat /\ Cardinality(Users) \in Nat
        BY Constants, ThresholdAssumption, FS_CardinalityType
      <4>. QED BY <2>2, <4>1, <4>2
    <3>. QED BY <3>1, LongSizeKeepsAwake
  <2>. QED BY <2>1, <2>2
<1>4. CASE SignalTrimmer
  <2>1. trimming' = TRUE \/ plenty'
    <3>1. trimming' = TRUE \/ n_modified >= LowPages
      BY <1>4, Zenon DEF SignalTrimmer, SignalIfLow
    <3>2. plenty' = (n_modified >= LowPages /\ ~trimming')
      BY <1>4, Zenon DEF SignalTrimmer
    <3>. QED BY <3>1, <3>2, Zenon
  <2>. QED BY <2>1 DEF AwakeInv, SomebodyIsOnIt
<1>5. CASE AnnounceStandby
  <2>1. At("wait")' = {}
    BY <1>5 DEF AnnounceStandby, At
  <2>. QED BY <2>1 DEF AwakeInv
<1>6. CASE TrimmerExit \/ WriterExit \/ WriterHoldsOff \/ TakeSlots \/ GatherPages \/ GatherDone
           \/ WritePages \/ CountWritten \/ TellToStop \/ UNCHANGED vars
  <2>1. /\ UNCHANGED <<user, trimming, writing, plenty>>
        /\ trimmer' = trimmer \/ trimmer = "wait"
        /\ writer' = writer \/ writer # "signal"
    BY <1>6 DEF TrimmerExit, WriterExit, WriterHoldsOff, TakeSlots, GatherPages, GatherDone,
                WritePages, CountWritten, TellToStop
  <2>2. SomebodyIsOnIt => SomebodyIsOnIt'
    BY <2>1 DEF SomebodyIsOnIt, At
  <2>3. standby <= standby'
    <3>1. UNCHANGED standby \/ standby' = standby + midwrite
      BY <1>6 DEF TrimmerExit, WriterExit, WriterHoldsOff, TakeSlots, GatherPages, GatherDone,
                  WritePages, CountWritten, TellToStop
    <3>. QED BY <1>1, <3>1 DEF Typed
  <2>. QED BY <1>1, <2>1, <2>2, <2>3, QuietWorkKeepsAwake
<1>. QED BY <1>2, <1>3, <1>4, <1>5, <1>6 DEF TrimmerStep, WriterStep

-----------------------------------------------------------------------------
(* The theorems.                                                           *)

\* In every state of every behaviour the accounts are right, because locked pages
\* stay on their lists and the writer has a slot for each page of its batch
\* (write_pages, resolve_soft_fault).
THEOREM WakeInvariance == Spec => []WakeInv
<1>1. Init => WakeInv
  BY InitEstablishes
<1>2. ASSUME WakeInv, [Next]_vars PROVE WakeInv'
  <2>1. ASSUME NEW u \in Users, Access(u) PROVE WakeInv'
    BY <1>2, <2>1, PlainSteps, SoftModifiedPreserves, SoftStandbyPreserves,
       SoftMidWritePreserves DEF Access
  <2>2. ASSUME NEW u \in Users, HandleFault(u) PROVE WakeInv'
    BY <1>2, <2>2, PlainSteps, RefillPreserves, ResolvePreserves, StealPreserves,
       RemoveModifiedPreserves, RemoveStandbyPreserves DEF HandleFault
  <2>3. ASSUME NEW u \in Users, Finish(u) PROVE WakeInv'
    BY <1>2, <2>3, PlainSteps
  <2>4. CASE TrimmerStep
    BY <1>2, <2>4, WorkerLooksPreserves, TrimPagesPreserves DEF TrimmerStep
  <2>5. CASE WriterStep
    BY <1>2, <2>5, WorkerLooksPreserves, TakeSlotsPreserves, GatherPagesPreserves,
       GatherDonePreserves, WritePagesPreserves, CountWrittenPreserves,
       AnnounceStandbyPreserves DEF WriterStep
  <2>6. CASE TellToStop \/ Stopped
    BY <1>2, <2>6, WorkerLooksPreserves
  <2>7. CASE UNCHANGED vars
    BY <1>2, <2>7, StutterPreserves
  <2>. QED BY <1>2, <2>1, <2>2, <2>3, <2>4, <2>5, <2>6, <2>7 DEF Next
<1>. QED BY <1>1, <1>2, PTL DEF Spec

\* Every variable keeps its type; no number of pages or slots becomes negative
\* except the two list sizes that lag behind (page_list.c:520).
THEOREM TypesHold == Spec => []TypeOK
<1>1. WakeInv => TypeOK
  BY SameTypes DEF WakeInv
<1>. QED BY <1>1, WakeInvariance, PTL

\* No page and no slot is lost between user threads, trimmer and writer.
THEOREM PagesAndSlotsAreKept == Spec => []NothingIsLost
<1>1. WakeInv => NothingIsLost
  BY SameAccounts DEF WakeInv
<1>. QED BY <1>1, WakeInvariance, PTL

\* Each list size is wrong only by the updates that are under way (page_list.c:520).
THEOREM SizesCatchUp == Spec => []SizesLag
<1>1. Init => SizesLag
  BY InitialSizes
<1>2. WakeInv /\ WakeInv' /\ SizesLag /\ [Next]_vars => SizesLag'
  <2>. SUFFICES ASSUME WakeInv, WakeInv', SizesLag, [Next]_vars PROVE SizesLag'
    OBVIOUS
  <2>1. CASE Stopped
    BY <2>1, WorkerStepKeepsLag DEF Stopped
  <2>. QED BY <2>1, UserStepKeepsLag, WorkerStepKeepsLag DEF Next
<1>. QED BY <1>1, <1>2, WakeInvariance, PTL DEF Spec

\* A thread that waits without standby pages is not forgotten unless the writer found
\* the modified list long enough when it last woke: if there are no more threads than
\* the LOW_PAGE_THRESHOLD / 8 pages below which the trimmer asks for writing
\* (trimmer.c:7; 64 is also the most threads that main can wait for, simulator.c:82).
THEOREM WorkersStayAwake ==
    ASSUME Cardinality(Users) <= DesperatePages
    PROVE  Spec => []ShortageKeepsWorkersAwake
<1>1. Init => AwakeInv
  BY DEF Init, AwakeInv, At
<1>2. WakeInv /\ WakeInv' /\ SizesLag' /\ AwakeInv /\ [Next]_vars => AwakeInv'
  <2>. SUFFICES ASSUME WakeInv, WakeInv', SizesLag', AwakeInv, [Next]_vars
                PROVE  AwakeInv'
    OBVIOUS
  <2>1. CASE Stopped
    BY <2>1, WorkerStepKeepsAwake DEF Stopped
  <2>. QED BY <2>1, UserStepKeepsAwake, WorkerStepKeepsAwake DEF Next
<1>3. WakeInv /\ AwakeInv => ShortageKeepsWorkersAwake
  <2>. SUFFICES ASSUME WakeInv, AwakeInv, Stuck, standby = 0 PROVE plenty
    BY DEF ShortageKeepsWorkersAwake
  <2>1. ~SomebodyIsOnIt /\ At("wait") # {}
    BY DEF Stuck, SomebodyIsOnIt, At
  <2>2. Marked("softStandby") < standby \/ plenty
    BY <2>1 DEF AwakeInv
  <2>3. ~(Marked("softStandby") < standby)
    BY MarksAreNumbers
  <2>. QED BY <2>2, <2>3
<1>. QED BY <1>1, <1>2, <1>3, WakeInvariance, SizesCatchUp, PTL DEF Spec
=============================================================================
