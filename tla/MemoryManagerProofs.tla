------------------------ MODULE MemoryManagerProofs -------------------------
(***************************************************************************)
(* IndInv is an inductive invariant of MemoryManager, and the safety       *)
(* properties that follow from it.                                         *)
(*                                                                         *)
(* First the steps of a user thread u, then those of the trimmer and the   *)
(* writer: one lemma per action.  In each lemma, step <1>1 takes from      *)
(* IndInv the parts that the action relies on, the next steps prove the    *)
(* parts it can disturb, and the last one those it cannot.  The parts about*)
(* u itself and about any other thread w are proved apart.  The theorems   *)
(* are at the end.                                                         *)
(***************************************************************************)
EXTENDS MemoryManagerInvariant, FiniteSetTheorems, TLAPS

-----------------------------------------------------------------------------
(* Outside the handler, and the dispatch.                                  *)

\* The thread gets an address; nothing else changes.
LEMMA RequestPreserves ==
    ASSUME IndInv, NEW u \in Users, Request(u)
    PROVE  IndInv'
<1>. USE DEF Request, tables, lists, memory, disk, trimmer, writer
<1>1. /\ TypeOK /\ PtesNameTheirFrames /\ PfnsNameTheirPtes /\ FreePagesAreFree
      /\ NoFreePageIsLost /\ ListsMatchStatus /\ ActiveInTransitionIsTrimmed
      /\ TrimmerHolds /\ WriterHolds /\ MappingMatchesPte
  BY DEF IndInv
<1>2. FaultsOnPte(u) /\ SoftFaultHolds(u) /\ HardFaultHolds(u) /\ StealHolds(u)
  BY DEF IndInv, UsersHold, UserHolds
<1>3. TypeOK'
  BY <1>1 DEF TypeOK, PteState, PfnState, UserPoints, Threads, Data
<1>4. NoFreePageIsLost'
  BY <1>1 DEF NoFreePageIsLost, HardHeld
<1>5. MappingMatchesPte'
  BY <1>1 DEF MappingMatchesPte, MappingMatches, Filling
<1>6. UserHolds(u)'
  BY <1>1, <1>2
  DEF UserHolds, TypeOK, FaultsOnPte, UserPoints, SoftLocked, HardHeld, Filling,
      SoftFaultHolds, HardFaultHolds, StealHolds
<1>7. ASSUME NEW w \in Users, w # u PROVE UserHolds(w)'
  <2>1. FaultsOnPte(w) /\ SoftFaultHolds(w) /\ HardFaultHolds(w) /\ StealHolds(w)
    BY <1>7 DEF IndInv, UsersHold, UserHolds
  <2>. QED BY <1>1, <1>7, <2>1
         DEF UserHolds, FaultsOnPte, SoftFaultHolds, HardFaultHolds, StealHolds
<1>8. /\ PtesNameTheirFrames' /\ PfnsNameTheirPtes' /\ FreePagesAreFree'
      /\ ListsMatchStatus' /\ ActiveInTransitionIsTrimmed' /\ TrimmerHolds'
      /\ WriterHolds'
  BY <1>1
  DEF PtesNameTheirFrames, PfnsNameTheirPtes, FreePagesAreFree, ListsMatchStatus,
      ActiveInTransitionIsTrimmed, TrimmerHolds, WriterHolds
<1>. QED BY <1>3, <1>4, <1>5, <1>6, <1>7, <1>8 DEF IndInv, UsersHold

\* The thread leaves its address; only contents change besides.
LEMMA StorePreserves ==
    ASSUME IndInv, NEW u \in Users, Store(u)
    PROVE  IndInv'
<1>. USE DEF Store, tables, lists, disk, trimmer, writer
<1>1. /\ TypeOK /\ PtesNameTheirFrames /\ PfnsNameTheirPtes /\ FreePagesAreFree
      /\ NoFreePageIsLost /\ ListsMatchStatus /\ ActiveInTransitionIsTrimmed
      /\ TrimmerHolds /\ WriterHolds /\ MappingMatchesPte
  BY DEF IndInv
<1>2. FaultsOnPte(u) /\ SoftFaultHolds(u) /\ HardFaultHolds(u) /\ StealHolds(u)
  BY DEF IndInv, UsersHold, UserHolds
<1>3. TypeOK'
  BY <1>1, <1>2 DEF TypeOK, FaultsOnPte, PteState, PfnState, UserPoints, Threads, Data
<1>4. NoFreePageIsLost'
  BY <1>1 DEF NoFreePageIsLost, HardHeld
<1>5. MappingMatchesPte'
  BY <1>1 DEF MappingMatchesPte, MappingMatches, Filling
<1>6. UserHolds(u)'
  BY <1>1, <1>2
  DEF UserHolds, TypeOK, FaultsOnPte, UserPoints, InHandler, SoftLocked, HardHeld,
      Filling, SoftFaultHolds, HardFaultHolds, StealHolds
<1>7. ASSUME NEW w \in Users, w # u PROVE UserHolds(w)'
  <2>1. FaultsOnPte(w) /\ SoftFaultHolds(w) /\ HardFaultHolds(w) /\ StealHolds(w)
    BY <1>7 DEF IndInv, UsersHold, UserHolds
  <2>. QED BY <1>1, <1>7, <2>1
         DEF UserHolds, FaultsOnPte, SoftFaultHolds, HardFaultHolds, StealHolds
<1>8. /\ PtesNameTheirFrames' /\ PfnsNameTheirPtes' /\ FreePagesAreFree'
      /\ ListsMatchStatus' /\ ActiveInTransitionIsTrimmed' /\ TrimmerHolds'
      /\ WriterHolds'
  BY <1>1
  DEF PtesNameTheirFrames, PfnsNameTheirPtes, FreePagesAreFree, ListsMatchStatus,
      ActiveInTransitionIsTrimmed, TrimmerHolds, WriterHolds
<1>. QED BY <1>3, <1>4, <1>5, <1>6, <1>7, <1>8 DEF IndInv, UsersHold

\* The address is kept, and the thread holds nothing yet.
LEMMA FaultPreserves ==
    ASSUME IndInv, NEW u \in Users, Fault(u)
    PROVE  IndInv'
<1>. USE DEF Fault, tables, lists, memory, disk, trimmer, writer
<1>1. /\ TypeOK /\ PtesNameTheirFrames /\ PfnsNameTheirPtes /\ FreePagesAreFree
      /\ NoFreePageIsLost /\ ListsMatchStatus /\ ActiveInTransitionIsTrimmed
      /\ TrimmerHolds /\ WriterHolds /\ MappingMatchesPte
  BY DEF IndInv
<1>2. FaultsOnPte(u) /\ SoftFaultHolds(u) /\ HardFaultHolds(u) /\ StealHolds(u)
  BY DEF IndInv, UsersHold, UserHolds
<1>3. TypeOK'
  BY <1>1 DEF TypeOK, PteState, PfnState, UserPoints, Threads, Data
<1>4. NoFreePageIsLost'
  BY <1>1 DEF NoFreePageIsLost, HardHeld
<1>5. MappingMatchesPte'
  BY <1>1 DEF MappingMatchesPte, MappingMatches
<1>6. UserHolds(u)'
  BY <1>1, <1>2
  DEF UserHolds, FaultsOnPte, SoftLocked, HardHeld, Filling, SoftFaultHolds,
      HardFaultHolds, StealHolds
<1>7. ASSUME NEW w \in Users, w # u PROVE UserHolds(w)'
  <2>1. FaultsOnPte(w) /\ SoftFaultHolds(w) /\ HardFaultHolds(w) /\ StealHolds(w)
    BY <1>7 DEF IndInv, UsersHold, UserHolds
  <2>. QED BY <1>1, <1>7, <2>1
         DEF UserHolds, FaultsOnPte, SoftFaultHolds, HardFaultHolds, StealHolds
<1>8. /\ PtesNameTheirFrames' /\ PfnsNameTheirPtes' /\ FreePagesAreFree'
      /\ ListsMatchStatus' /\ ActiveInTransitionIsTrimmed' /\ TrimmerHolds'
      /\ WriterHolds'
  BY <1>1
  DEF PtesNameTheirFrames, PfnsNameTheirPtes, FreePagesAreFree, ListsMatchStatus,
      ActiveInTransitionIsTrimmed, TrimmerHolds, WriterHolds
<1>. QED BY <1>3, <1>4, <1>5, <1>6, <1>7, <1>8 DEF IndInv, UsersHold

\* Only the program point changes, to one that holds nothing.
LEMMA DispatchPreserves ==
    ASSUME IndInv, NEW u \in Users, Dispatch(u)
    PROVE  IndInv'
<1>. USE DEF Dispatch, tables, lists, memory, disk, trimmer, writer
<1>1. /\ TypeOK /\ PtesNameTheirFrames /\ PfnsNameTheirPtes /\ FreePagesAreFree
      /\ NoFreePageIsLost /\ ListsMatchStatus /\ ActiveInTransitionIsTrimmed
      /\ TrimmerHolds /\ WriterHolds /\ MappingMatchesPte
  BY DEF IndInv
<1>2. FaultsOnPte(u) /\ SoftFaultHolds(u) /\ HardFaultHolds(u) /\ StealHolds(u)
  BY DEF IndInv, UsersHold, UserHolds
<1>3. TypeOK'
  BY <1>1 DEF TypeOK, PteState, PfnState, UserPoints, Threads, Data
<1>4. NoFreePageIsLost'
  BY <1>1 DEF NoFreePageIsLost, HardHeld
<1>5. MappingMatchesPte'
  BY <1>1 DEF MappingMatchesPte, MappingMatches, Filling
<1>6. UserHolds(u)'
  BY <1>1, <1>2
  DEF UserHolds, FaultsOnPte, InHandler, SoftLocked, HardHeld, Filling,
      SoftFaultHolds, HardFaultHolds, StealHolds
<1>7. ASSUME NEW w \in Users, w # u PROVE UserHolds(w)'
  <2>1. FaultsOnPte(w) /\ SoftFaultHolds(w) /\ HardFaultHolds(w) /\ StealHolds(w)
    BY <1>7 DEF IndInv, UsersHold, UserHolds
  <2>. QED BY <1>1, <1>7, <2>1
         DEF UserHolds, FaultsOnPte, SoftFaultHolds, HardFaultHolds, StealHolds
<1>8. /\ PtesNameTheirFrames' /\ PfnsNameTheirPtes' /\ FreePagesAreFree'
      /\ ListsMatchStatus' /\ ActiveInTransitionIsTrimmed' /\ TrimmerHolds'
      /\ WriterHolds'
  BY <1>1
  DEF PtesNameTheirFrames, PfnsNameTheirPtes, FreePagesAreFree, ListsMatchStatus,
      ActiveInTransitionIsTrimmed, TrimmerHolds, WriterHolds
<1>. QED BY <1>3, <1>4, <1>5, <1>6, <1>7, <1>8 DEF IndInv, UsersHold

-----------------------------------------------------------------------------
(* Soft faults.                                                            *)

\* The format was checked under the PTE lock, so the PTE names the frame.
LEMMA SoftLockPtePreserves ==
    ASSUME IndInv, NEW u \in Users, SoftLockPte(u)
    PROVE  IndInv'
<1>. USE DEF SoftLockPte, lists, memory, disk, trimmer, writer, InTransition
<1>1. /\ TypeOK /\ PtesNameTheirFrames /\ PfnsNameTheirPtes /\ FreePagesAreFree
      /\ NoFreePageIsLost /\ ListsMatchStatus /\ ActiveInTransitionIsTrimmed
      /\ TrimmerHolds /\ WriterHolds /\ MappingMatchesPte
  BY DEF IndInv
<1>2. FaultsOnPte(u) /\ SoftFaultHolds(u) /\ HardFaultHolds(u) /\ StealHolds(u)
  BY DEF IndInv, UsersHold, UserHolds
<1>3. TypeOK'
  <2>1. va[u] \in Ptes
    BY <1>2 DEF FaultsOnPte, InHandler
  <2>2. pte[va[u]].fmt = "transition" => pte[va[u]].ref \in Frames
    BY <1>1, <2>1 DEF PtesNameTheirFrames
  <2>3. page' \in [Users -> Frames \cup {Nil}]
    BY <1>1, <2>2 DEF TypeOK
  <2>4. pteLock' \in [Ptes -> Users \cup {Trimmer, Nil}]
    BY <1>1, <2>1 DEF TypeOK
  <2>5. pc' \in [Users -> UserPoints]
    BY <1>1 DEF TypeOK, UserPoints
  <2>. QED BY <1>1, <2>3, <2>4, <2>5 DEF TypeOK, PfnState, PteState
<1>4. NoFreePageIsLost'
  <2>1. \A w \in Users : pc[w] \in HardHeld => pc'[w] = pc[w] /\ page'[w] = page[w]
    BY <1>1 DEF TypeOK, HardHeld
  <2>. QED BY <1>1, <2>1 DEF NoFreePageIsLost
<1>5. TrimmerHolds'
  BY <1>1 DEF TypeOK, TrimmerHolds
<1>6. MappingMatchesPte'
  <2>1. \A w \in Users : pc[w] \in Filling \cup {"softDone"} =>
            pc'[w] = pc[w] /\ page'[w] = page[w]
    BY <1>1 DEF TypeOK, Filling
  <2>. QED BY <1>1, <2>1 DEF MappingMatchesPte, MappingMatches
<1>7. UserHolds(u)'
  BY <1>1, <1>2
  DEF UserHolds, FaultsOnPte, InHandler, SoftLocked, HardHeld, Filling, TransitionPte,
      TypeOK, SoftFaultHolds, PtesNameTheirFrames, PteState, PfnState, UserPoints,
      HardFaultHolds, StealHolds
<1>8. ASSUME NEW w \in Users, w # u PROVE UserHolds(w)'
  <2>1. FaultsOnPte(w) /\ SoftFaultHolds(w) /\ HardFaultHolds(w) /\ StealHolds(w)
    BY <1>8 DEF IndInv, UsersHold, UserHolds
  <2>. QED BY <1>1, <1>2, <1>8, <2>1, DistinctAssumption
         DEF UserHolds, TypeOK, FaultsOnPte, UserPoints, InHandler, SoftLocked,
             Filling, SoftFaultHolds, HardFaultHolds, StealHolds
<1>9. /\ PtesNameTheirFrames' /\ PfnsNameTheirPtes' /\ FreePagesAreFree'
      /\ ListsMatchStatus' /\ ActiveInTransitionIsTrimmed' /\ WriterHolds'
  BY <1>1
  DEF PtesNameTheirFrames, PfnsNameTheirPtes, FreePagesAreFree, ListsMatchStatus,
      ActiveInTransitionIsTrimmed, WriterHolds
<1>. QED BY <1>3, <1>4, <1>5, <1>6, <1>7, <1>8, <1>9 DEF IndInv, UsersHold

\* With the PFN unlocked the page is not the trimmer's, so it is on its way out.
LEMMA SoftLockPfnPreserves ==
    ASSUME IndInv, NEW u \in Users, SoftLockPfn(u)
    PROVE  IndInv'
<1>. USE DEF SoftLockPfn, lists, memory, trimmer, writer
<1>1. /\ TypeOK /\ PtesNameTheirFrames /\ PfnsNameTheirPtes /\ FreePagesAreFree
      /\ NoFreePageIsLost /\ ListsMatchStatus /\ ActiveInTransitionIsTrimmed
      /\ TrimmerHolds /\ WriterHolds /\ MappingMatchesPte
  BY DEF IndInv
<1>2. FaultsOnPte(u) /\ SoftFaultHolds(u) /\ HardFaultHolds(u) /\ StealHolds(u)
  BY DEF IndInv, UsersHold, UserHolds
<1>3. TypeOK'
  <2>1. va[u] \in Ptes /\ page[u] \in Frames
    BY <1>2 DEF FaultsOnPte, SoftFaultHolds, InHandler
  <2>2. pfnLock' \in [Frames -> Threads \cup {Nil}]
    BY <1>1, <2>1 DEF TypeOK, Threads
  <2>3. pteLock' \in [Ptes -> Users \cup {Trimmer, Nil}]
    BY <1>1, <2>1 DEF TypeOK
  <2>4. pc' \in [Users -> UserPoints]
    BY <1>1 DEF TypeOK, UserPoints
  <2>5. page' \in [Users -> Frames \cup {Nil}] /\ inUse' \in SUBSET Slots
    BY <1>1 DEF TypeOK
  <2>. QED BY <1>1, <2>2, <2>3, <2>4, <2>5 DEF TypeOK, PfnState, PteState
<1>4. FreePagesAreFree'
  BY <1>1, <1>2
  DEF TypeOK, FaultsOnPte, SoftFaultHolds, PtesNameTheirFrames, FreePagesAreFree,
      InHandler, TransitionPte
<1>5. NoFreePageIsLost'
  <2>1. \A w \in Users : pc[w] \in HardHeld => pc'[w] = pc[w] /\ page'[w] = page[w]
    BY <1>1 DEF TypeOK, HardHeld
  <2>. QED BY <1>1, <2>1 DEF NoFreePageIsLost
<1>6. TrimmerHolds'
  BY <1>1, DistinctAssumption DEF TypeOK, TrimmerHolds
<1>7. WriterHolds'
  BY <1>1, DistinctAssumption DEF TypeOK, WriterHolds
<1>8. MappingMatchesPte'
  <2>1. \A w \in Users : pc[w] \in Filling \cup {"softDone"} =>
            pc'[w] = pc[w] /\ page'[w] = page[w]
    BY <1>1 DEF TypeOK, Filling
  <2>. QED BY <1>1, <2>1 DEF MappingMatchesPte, MappingMatches
<1>9. UserHolds(u)'
  <2>1. FaultsOnPte(u)' /\ HardFaultHolds(u)' /\ StealHolds(u)'
    BY <1>1, <1>2
    DEF FaultsOnPte, InHandler, HardHeld, Filling, TypeOK, HardFaultHolds, StealHolds
  <2>2. SoftFaultHolds(u)'
      <3>1. va[u] \in Ptes /\ page[u] \in Frames
        BY <1>2 DEF FaultsOnPte, SoftFaultHolds, InHandler
      <3>2. CASE pte[va[u]].fmt = "disk"
        BY <1>1, <3>1, <3>2 DEF TypeOK, SoftFaultHolds, SoftLocked
      <3>3. CASE pte[va[u]].fmt # "disk"
        <4>1. pte[va[u]] = TransitionPte(page[u])
          BY <1>2, <3>1, <3>3 DEF SoftFaultHolds
        <4>2. pfn[page[u]].status # "ACTIVE"
          <5>1. SUFFICES ASSUME pfn[page[u]].status = "ACTIVE" PROVE FALSE
            OBVIOUS
          <5>2. [va |-> va[u], page |-> page[u]] \in trimBatch
            BY <1>1, <3>1, <4>1, <5>1 DEF ActiveInTransitionIsTrimmed, TransitionPte
          <5>3. pfnLock[page[u]] = Trimmer
            BY <1>1, <5>2 DEF TrimmerHolds
          <5>. QED BY <5>3, DistinctAssumption
        <4>3. pfn[page[u]].status \in {"MODIFIED", "MID_WRITE", "STANDBY"}
          BY <1>1, <3>1, <4>1, <4>2
          DEF PtesNameTheirFrames, TransitionPte, TypeOK, PfnState
        <4>. QED BY <1>1, <1>2, <3>1, <3>3, <4>1, <4>3
                 DEF TypeOK, SoftFaultHolds, SoftLocked, ListsMatchStatus, TransitionPte
      <3>. QED BY <3>2, <3>3
  <2>. QED BY <2>1, <2>2 DEF UserHolds
<1>10. ASSUME NEW w \in Users, w # u PROVE UserHolds(w)'
  <2>1. FaultsOnPte(w) /\ SoftFaultHolds(w) /\ HardFaultHolds(w) /\ StealHolds(w)
    BY <1>10 DEF IndInv, UsersHold, UserHolds
  <2>. QED BY <1>1, <1>2, <1>10, <2>1, DistinctAssumption
         DEF UserHolds, TypeOK, FaultsOnPte, UserPoints, InHandler, SoftLocked,
             Filling, SoftFaultHolds, HardFaultHolds, StealHolds
<1>11. /\ PtesNameTheirFrames' /\ PfnsNameTheirPtes' /\ ListsMatchStatus'
       /\ ActiveInTransitionIsTrimmed'
  BY <1>1
  DEF PtesNameTheirFrames, PfnsNameTheirPtes, ListsMatchStatus,
      ActiveInTransitionIsTrimmed
<1>. QED BY <1>3, <1>4, <1>5, <1>6, <1>7, <1>8, <1>9, <1>10, <1>11 DEF IndInv, UsersHold

\* The page is on one list at most, the one its status names.
LEMMA SoftUnlistPreserves ==
    ASSUME IndInv, NEW u \in Users, SoftUnlist(u)
    PROVE  IndInv'
<1>. USE DEF SoftUnlist, tables, memory, disk, trimmer, writer
<1>1. /\ TypeOK /\ PtesNameTheirFrames /\ PfnsNameTheirPtes /\ FreePagesAreFree
      /\ NoFreePageIsLost /\ ListsMatchStatus /\ ActiveInTransitionIsTrimmed
      /\ TrimmerHolds /\ WriterHolds /\ MappingMatchesPte
  BY DEF IndInv
<1>2. FaultsOnPte(u) /\ SoftFaultHolds(u) /\ HardFaultHolds(u) /\ StealHolds(u)
  BY DEF IndInv, UsersHold, UserHolds
<1>3. TypeOK'
  BY <1>1 DEF TypeOK, PteState, PfnState, UserPoints, Threads, Data
<1>4. NoFreePageIsLost'
  BY <1>1 DEF NoFreePageIsLost, HardHeld
<1>5. ListsMatchStatus'
  BY <1>1 DEF ListsMatchStatus
<1>6. WriterHolds'
  BY <1>1 DEF WriterHolds
<1>7. MappingMatchesPte'
  BY <1>1 DEF MappingMatchesPte, MappingMatches, Filling
<1>8. UserHolds(u)'
  BY <1>1, <1>2
  DEF UserHolds, FaultsOnPte, InHandler, SoftLocked, HardHeld, Filling, TypeOK,
      SoftFaultHolds, ListsMatchStatus, UserPoints, HardFaultHolds, StealHolds
<1>9. ASSUME NEW w \in Users, w # u PROVE UserHolds(w)'
  <2>1. FaultsOnPte(w) /\ SoftFaultHolds(w) /\ HardFaultHolds(w) /\ StealHolds(w)
    BY <1>9 DEF IndInv, UsersHold, UserHolds
  <2>. QED BY <1>1, <1>9, <2>1
         DEF UserHolds, FaultsOnPte, SoftFaultHolds, HardFaultHolds, StealHolds
<1>10. /\ PtesNameTheirFrames' /\ PfnsNameTheirPtes' /\ FreePagesAreFree'
       /\ ActiveInTransitionIsTrimmed' /\ TrimmerHolds'
  BY <1>1
  DEF PtesNameTheirFrames, PfnsNameTheirPtes, FreePagesAreFree,
      ActiveInTransitionIsTrimmed, TrimmerHolds
<1>. QED BY <1>3, <1>4, <1>5, <1>6, <1>7, <1>8, <1>9, <1>10 DEF IndInv, UsersHold

\* The PTE still names the page that the thread has locked.
LEMMA SoftMapPreserves ==
    ASSUME IndInv, NEW u \in Users, SoftMap(u)
    PROVE  IndInv'
<1>. USE DEF SoftMap, tables, lists, disk, trimmer, writer
<1>1. /\ TypeOK /\ PtesNameTheirFrames /\ PfnsNameTheirPtes /\ FreePagesAreFree
      /\ NoFreePageIsLost /\ ListsMatchStatus /\ ActiveInTransitionIsTrimmed
      /\ TrimmerHolds /\ WriterHolds /\ MappingMatchesPte
  BY DEF IndInv
<1>2. FaultsOnPte(u) /\ SoftFaultHolds(u) /\ HardFaultHolds(u) /\ StealHolds(u)
  BY DEF IndInv, UsersHold, UserHolds
<1>3. TypeOK'
  BY <1>1, <1>2
  DEF TypeOK, FaultsOnPte, SoftFaultHolds, PteState, PfnState, UserPoints, Threads,
      Data, InHandler, SoftLocked, TransitionPte
<1>4. NoFreePageIsLost'
  BY <1>1 DEF NoFreePageIsLost, HardHeld
<1>5. MappingMatchesPte'
  <2>1. va[u] \in Ptes /\ pte[va[u]] = TransitionPte(page[u])
    BY <1>2 DEF FaultsOnPte, SoftFaultHolds, InHandler, SoftLocked
  <2>2. \A w \in Users : pc[w] \in Filling \cup {"softDone"} => pc'[w] = pc[w]
    BY <1>1 DEF TypeOK, Filling
  <2>3. SUFFICES ASSUME NEW p \in Ptes PROVE MappingMatches(p)'
    BY DEF MappingMatchesPte
  <2>4. CASE p = va[u]
    BY <1>1, <2>1, <2>4 DEF MappingMatches, TransitionPte, TypeOK
  <2>5. CASE p # va[u]
    <3>1. mapped'[p] = mapped[p]
      BY <1>1, <2>1, <2>5 DEF TypeOK
    <3>2. MappingMatches(p)
      BY <1>1 DEF MappingMatchesPte
    <3>. QED BY <2>2, <3>1, <3>2 DEF MappingMatches
  <2>. QED BY <2>4, <2>5
<1>6. UserHolds(u)'
  BY <1>1, <1>2
  DEF UserHolds, FaultsOnPte, InHandler, SoftLocked, HardHeld, Filling, TransitionPte,
      TypeOK, SoftFaultHolds, UserPoints, HardFaultHolds, StealHolds
<1>7. ASSUME NEW w \in Users, w # u PROVE UserHolds(w)'
  <2>1. FaultsOnPte(w) /\ SoftFaultHolds(w) /\ HardFaultHolds(w) /\ StealHolds(w)
    BY <1>7 DEF IndInv, UsersHold, UserHolds
  <2>. QED BY <1>1, <1>2, <1>7, <2>1
         DEF UserHolds, FaultsOnPte, SoftLocked, SoftFaultHolds, TypeOK,
             HardFaultHolds, UserPoints, StealHolds
<1>8. /\ PtesNameTheirFrames' /\ PfnsNameTheirPtes' /\ FreePagesAreFree'
      /\ ListsMatchStatus' /\ ActiveInTransitionIsTrimmed' /\ TrimmerHolds'
      /\ WriterHolds'
  BY <1>1
  DEF PtesNameTheirFrames, PfnsNameTheirPtes, FreePagesAreFree, ListsMatchStatus,
      ActiveInTransitionIsTrimmed, TrimmerHolds, WriterHolds
<1>. QED BY <1>3, <1>4, <1>5, <1>6, <1>7, <1>8 DEF IndInv, UsersHold

\* PTE and PFN become active together.
LEMMA SoftDonePreserves ==
    ASSUME IndInv, NEW u \in Users, SoftDone(u)
    PROVE  IndInv'
<1>. USE DEF SoftDone, lists, memory, disk, trimmer, writer, ValidPte, PfnActive
<1>1. /\ TypeOK /\ PtesNameTheirFrames /\ PfnsNameTheirPtes /\ FreePagesAreFree
      /\ NoFreePageIsLost /\ ListsMatchStatus /\ ActiveInTransitionIsTrimmed
      /\ TrimmerHolds /\ WriterHolds /\ MappingMatchesPte
  BY DEF IndInv
<1>2. FaultsOnPte(u) /\ SoftFaultHolds(u) /\ HardFaultHolds(u) /\ StealHolds(u)
  BY DEF IndInv, UsersHold, UserHolds
<1>3. TypeOK'
  <2>1. va[u] \in Ptes /\ page[u] \in Frames
    BY <1>2 DEF FaultsOnPte, InHandler, SoftFaultHolds, SoftLocked
  <2>2. pte' \in [Ptes -> PteState]
    BY <1>1, <1>2, <2>1 DEF TypeOK, PteState, SoftFaultHolds, SoftLocked, TransitionPte
  <2>3. pfn' \in [Frames -> PfnState]
    BY <1>1, <2>1 DEF TypeOK, PfnState
  <2>4. pfnLock' \in [Frames -> Threads \cup {Nil}]
    BY <1>1, <2>1 DEF TypeOK
  <2>5. pteLock' \in [Ptes -> Users \cup {Trimmer, Nil}]
    BY <1>1, <2>1 DEF TypeOK
  <2>6. page' \in [Users -> Frames \cup {Nil}] /\ pc' \in [Users -> UserPoints]
    BY <1>1 DEF TypeOK, UserPoints
  <2>. QED BY <1>1, <2>2, <2>3, <2>4, <2>5, <2>6 DEF TypeOK
<1>4. PtesNameTheirFrames'
  BY <1>1, <1>2
  DEF TypeOK, FaultsOnPte, SoftFaultHolds, PtesNameTheirFrames, InHandler, SoftLocked,
      TransitionPte
<1>5. PfnsNameTheirPtes'
  BY <1>1, <1>2
  DEF TypeOK, FaultsOnPte, SoftFaultHolds, PfnsNameTheirPtes, InHandler, SoftLocked,
      TransitionPte
<1>6. FreePagesAreFree'
  BY <1>1, <1>2 DEF TypeOK, FaultsOnPte, SoftFaultHolds, FreePagesAreFree, SoftLocked
<1>7. NoFreePageIsLost'
  BY <1>1 DEF NoFreePageIsLost, HardHeld
<1>8. ListsMatchStatus'
  BY <1>1, <1>2 DEF TypeOK, FaultsOnPte, SoftFaultHolds, ListsMatchStatus
<1>9. ActiveInTransitionIsTrimmed'
  BY <1>1, <1>2
  DEF TypeOK, FaultsOnPte, SoftFaultHolds, PtesNameTheirFrames,
      ActiveInTransitionIsTrimmed, InHandler, SoftLocked, TransitionPte
<1>10. TrimmerHolds'
  BY <1>1, <1>2, DistinctAssumption
  DEF TypeOK, FaultsOnPte, SoftFaultHolds, TrimmerHolds, SoftLocked, TransitionPte
<1>11. WriterHolds'
  BY <1>1, <1>2, DistinctAssumption
  DEF TypeOK, FaultsOnPte, SoftFaultHolds, WriterHolds, SoftLocked
<1>12. MappingMatchesPte'
  BY <1>1, <1>2
  DEF TypeOK, FaultsOnPte, SoftFaultHolds, MappingMatchesPte, MappingMatches,
      SoftLocked, TransitionPte
<1>13. UserHolds(u)'
  BY <1>1, <1>2
  DEF UserHolds, FaultsOnPte, InHandler, SoftLocked, HardHeld, Filling, TypeOK,
      SoftFaultHolds, UserPoints, HardFaultHolds, StealHolds
<1>14. ASSUME NEW w \in Users, w # u PROVE UserHolds(w)'
  <2>1. FaultsOnPte(w) /\ SoftFaultHolds(w) /\ HardFaultHolds(w) /\ StealHolds(w)
    BY <1>14 DEF IndInv, UsersHold, UserHolds
  <2>. QED BY <1>1, <1>2, <1>14, <2>1
         DEF UserHolds, FaultsOnPte, SoftLocked, TypeOK, SoftFaultHolds, UserPoints,
             HardFaultHolds, StealHolds
<1>. QED BY <1>3, <1>4, <1>5, <1>6, <1>7, <1>8, <1>9, <1>10, <1>11, <1>12,
            <1>13, <1>14 DEF IndInv, UsersHold

-----------------------------------------------------------------------------
(* Hard faults: getting a page.                                            *)

\* The free page goes from the cache to the thread's hands.
LEMMA TakeCachedPreserves ==
    ASSUME IndInv, NEW u \in Users, TakeCached(u)
    PROVE  IndInv'
<1>. USE DEF TakeCached, memory, disk, trimmer, writer, Unlocked
<1>1. /\ TypeOK /\ PtesNameTheirFrames /\ PfnsNameTheirPtes /\ FreePagesAreFree
      /\ NoFreePageIsLost /\ ListsMatchStatus /\ ActiveInTransitionIsTrimmed
      /\ TrimmerHolds /\ WriterHolds /\ MappingMatchesPte
  BY DEF IndInv
<1>2. FaultsOnPte(u) /\ SoftFaultHolds(u) /\ HardFaultHolds(u) /\ StealHolds(u)
  BY DEF IndInv, UsersHold, UserHolds
<1>3. TypeOK'
  BY <1>1 DEF TypeOK, PteState, PfnState, UserPoints, Threads, Data
<1>4. FreePagesAreFree'
  BY <1>1 DEF TypeOK, FreePagesAreFree
<1>5. NoFreePageIsLost'
  <2>1. PICK f \in cache[u] : /\ cache' = [cache EXCEPT ![u] = @ \ {f}]
                              /\ page' = [page EXCEPT ![u] = f]
    OBVIOUS
  <2>2. pc'[u] \in HardHeld /\ page'[u] = f
    BY <1>1, <2>1 DEF TypeOK, HardHeld
  <2>3. \A w \in Users : pc[w] \in HardHeld => pc'[w] = pc[w] /\ page'[w] = page[w]
    BY <1>1, <2>1 DEF TypeOK, HardHeld
  <2>4. \A w \in Users : cache'[w] = IF w = u THEN cache[w] \ {f} ELSE cache[w]
    BY <1>1, <2>1 DEF TypeOK
  <2>5. SUFFICES ASSUME NEW g \in Frames, pfn[g].status = "FREE"
                 PROVE  \/ g \in free
                        \/ \E w \in Users : g \in cache'[w]
                        \/ \E w \in Users : pc'[w] \in HardHeld /\ page'[w] = g
    BY DEF NoFreePageIsLost
  <2>6. CASE \E w \in Users : g \in cache[w]
    BY <2>2, <2>4, <2>6
  <2>7. CASE \E w \in Users : pc[w] \in HardHeld /\ page[w] = g
    BY <2>3, <2>7
  <2>. QED BY <1>1, <2>5, <2>6, <2>7 DEF NoFreePageIsLost
<1>6. TrimmerHolds'
  BY <1>1, DistinctAssumption DEF TrimmerHolds
<1>7. WriterHolds'
  BY <1>1, DistinctAssumption DEF WriterHolds
<1>8. MappingMatchesPte'
  BY <1>1 DEF MappingMatchesPte, MappingMatches, Filling
<1>9. UserHolds(u)'
  BY <1>1, <1>2
  DEF UserHolds, FaultsOnPte, InHandler, SoftLocked, Filling, SoftFaultHolds, TypeOK,
      HardFaultHolds, FreePagesAreFree, UserPoints, StealHolds
<1>10. ASSUME NEW w \in Users, w # u PROVE UserHolds(w)'
  <2>1. FaultsOnPte(w) /\ SoftFaultHolds(w) /\ HardFaultHolds(w) /\ StealHolds(w)
    BY <1>10 DEF IndInv, UsersHold, UserHolds
  <2>. QED BY <1>1, <1>10, <2>1, DistinctAssumption
         DEF UserHolds, FaultsOnPte, SoftFaultHolds, HardFaultHolds, StealHolds
<1>11. /\ PtesNameTheirFrames' /\ PfnsNameTheirPtes' /\ ListsMatchStatus'
       /\ ActiveInTransitionIsTrimmed'
  BY <1>1
  DEF PtesNameTheirFrames, PfnsNameTheirPtes, ListsMatchStatus,
      ActiveInTransitionIsTrimmed
<1>. QED BY <1>3, <1>4, <1>5, <1>6, <1>7, <1>8, <1>9, <1>10, <1>11 DEF IndInv, UsersHold

\* Free pages go from a free list to the cache.
LEMMA RefillCachePreserves ==
    ASSUME IndInv, NEW u \in Users, RefillCache(u)
    PROVE  IndInv'
<1>. USE DEF RefillCache, tables, memory, disk, user, trimmer, writer,
             BatchesOf, Unlocked
<1>1. /\ TypeOK /\ PtesNameTheirFrames /\ PfnsNameTheirPtes /\ FreePagesAreFree
      /\ NoFreePageIsLost /\ ListsMatchStatus /\ UsersHold
      /\ ActiveInTransitionIsTrimmed /\ TrimmerHolds /\ WriterHolds
      /\ MappingMatchesPte
  BY DEF IndInv
<1>2. TypeOK'
  BY <1>1 DEF TypeOK, PteState, PfnState, UserPoints, Threads, Data
<1>3. FreePagesAreFree'
  BY <1>1 DEF FreePagesAreFree
<1>4. NoFreePageIsLost'
  BY <1>1 DEF TypeOK, NoFreePageIsLost
<1>5. /\ PtesNameTheirFrames' /\ PfnsNameTheirPtes' /\ ListsMatchStatus'
      /\ UsersHold' /\ ActiveInTransitionIsTrimmed' /\ TrimmerHolds' /\ WriterHolds'
      /\ MappingMatchesPte'
  BY <1>1
  DEF PtesNameTheirFrames, PfnsNameTheirPtes, ListsMatchStatus, UsersHold,
      ActiveInTransitionIsTrimmed, TrimmerHolds, WriterHolds, MappingMatchesPte,
      UserHolds, FaultsOnPte, SoftFaultHolds, HardFaultHolds, StealHolds,
      MappingMatches
<1>. QED BY <1>2, <1>3, <1>4, <1>5 DEF IndInv

\* Only the program point changes.
LEMMA RefillFailsPreserves ==
    ASSUME IndInv, NEW u \in Users, RefillFails(u)
    PROVE  IndInv'
<1>. USE DEF RefillFails, tables, lists, memory, disk, trimmer, writer
<1>1. /\ TypeOK /\ PtesNameTheirFrames /\ PfnsNameTheirPtes /\ FreePagesAreFree
      /\ NoFreePageIsLost /\ ListsMatchStatus /\ ActiveInTransitionIsTrimmed
      /\ TrimmerHolds /\ WriterHolds /\ MappingMatchesPte
  BY DEF IndInv
<1>2. FaultsOnPte(u) /\ SoftFaultHolds(u) /\ HardFaultHolds(u) /\ StealHolds(u)
  BY DEF IndInv, UsersHold, UserHolds
<1>3. TypeOK'
  BY <1>1 DEF TypeOK, PteState, PfnState, UserPoints, Threads, Data
<1>4. NoFreePageIsLost'
  BY <1>1 DEF NoFreePageIsLost, HardHeld
<1>5. MappingMatchesPte'
  BY <1>1 DEF MappingMatchesPte, MappingMatches, Filling
<1>6. UserHolds(u)'
  BY <1>1, <1>2
  DEF UserHolds, FaultsOnPte, InHandler, SoftLocked, HardHeld, Filling,
      SoftFaultHolds, HardFaultHolds, StealHolds
<1>7. ASSUME NEW w \in Users, w # u PROVE UserHolds(w)'
  <2>1. FaultsOnPte(w) /\ SoftFaultHolds(w) /\ HardFaultHolds(w) /\ StealHolds(w)
    BY <1>7 DEF IndInv, UsersHold, UserHolds
  <2>. QED BY <1>1, <1>7, <2>1
         DEF UserHolds, FaultsOnPte, SoftFaultHolds, HardFaultHolds, StealHolds
<1>8. /\ PtesNameTheirFrames' /\ PfnsNameTheirPtes' /\ FreePagesAreFree'
      /\ ListsMatchStatus' /\ ActiveInTransitionIsTrimmed' /\ TrimmerHolds'
      /\ WriterHolds'
  BY <1>1
  DEF PtesNameTheirFrames, PfnsNameTheirPtes, FreePagesAreFree, ListsMatchStatus,
      ActiveInTransitionIsTrimmed, TrimmerHolds, WriterHolds
<1>. QED BY <1>3, <1>4, <1>5, <1>6, <1>7, <1>8 DEF IndInv, UsersHold

\* The pages leave the standby list locked.
LEMMA StealBeginPreserves ==
    ASSUME IndInv, NEW u \in Users, StealBegin(u)
    PROVE  IndInv'
<1>. USE DEF StealBegin, memory, disk, trimmer, writer, BatchesOf, Unlocked
<1>1. /\ TypeOK /\ PtesNameTheirFrames /\ PfnsNameTheirPtes /\ FreePagesAreFree
      /\ NoFreePageIsLost /\ ListsMatchStatus /\ ActiveInTransitionIsTrimmed
      /\ TrimmerHolds /\ WriterHolds /\ MappingMatchesPte
  BY DEF IndInv
<1>2. FaultsOnPte(u) /\ SoftFaultHolds(u) /\ HardFaultHolds(u) /\ StealHolds(u)
  BY DEF IndInv, UsersHold, UserHolds
<1>3. TypeOK'
  BY <1>1 DEF TypeOK, PteState, PfnState, UserPoints, Threads, Data
<1>4. FreePagesAreFree'
  BY <1>1, <1>2
  DEF TypeOK, FaultsOnPte, StealHolds, ListsMatchStatus, FreePagesAreFree
<1>5. NoFreePageIsLost'
  BY <1>1 DEF NoFreePageIsLost, HardHeld
<1>6. ListsMatchStatus'
  BY <1>1 DEF ListsMatchStatus
<1>7. TrimmerHolds'
  BY <1>1, DistinctAssumption DEF TypeOK, TrimmerHolds
<1>8. WriterHolds'
  BY <1>1, DistinctAssumption DEF TypeOK, WriterHolds
<1>9. MappingMatchesPte'
  BY <1>1 DEF MappingMatchesPte, MappingMatches, Filling
<1>10. UserHolds(u)'
  BY <1>1, <1>2
  DEF UserHolds, FaultsOnPte, InHandler, SoftLocked, HardHeld, Filling,
      SoftFaultHolds, HardFaultHolds, TypeOK, StealHolds, ListsMatchStatus, UserPoints
<1>11. ASSUME NEW w \in Users, w # u PROVE UserHolds(w)'
  <2>1. FaultsOnPte(w) /\ SoftFaultHolds(w) /\ HardFaultHolds(w) /\ StealHolds(w)
    BY <1>11 DEF IndInv, UsersHold, UserHolds
  <2>. QED BY <1>1, <1>11, <2>1, DistinctAssumption
         DEF UserHolds, FaultsOnPte, SoftFaultHolds, HardFaultHolds, TypeOK,
             StealHolds, UserPoints
<1>12. PtesNameTheirFrames' /\ PfnsNameTheirPtes' /\ ActiveInTransitionIsTrimmed'
  BY <1>1 DEF PtesNameTheirFrames, PfnsNameTheirPtes, ActiveInTransitionIsTrimmed
<1>. QED BY <1>3, <1>4, <1>5, <1>6, <1>7, <1>8, <1>9, <1>10, <1>11, <1>12 DEF IndInv, UsersHold

\* Only the program point changes.
LEMMA StealFailsPreserves ==
    ASSUME IndInv, NEW u \in Users, StealFails(u)
    PROVE  IndInv'
<1>. USE DEF StealFails, tables, lists, memory, disk, trimmer, writer
<1>1. /\ TypeOK /\ PtesNameTheirFrames /\ PfnsNameTheirPtes /\ FreePagesAreFree
      /\ NoFreePageIsLost /\ ListsMatchStatus /\ ActiveInTransitionIsTrimmed
      /\ TrimmerHolds /\ WriterHolds /\ MappingMatchesPte
  BY DEF IndInv
<1>2. FaultsOnPte(u) /\ SoftFaultHolds(u) /\ HardFaultHolds(u) /\ StealHolds(u)
  BY DEF IndInv, UsersHold, UserHolds
<1>3. TypeOK'
  BY <1>1 DEF TypeOK, PteState, PfnState, UserPoints, Threads, Data
<1>4. NoFreePageIsLost'
  BY <1>1 DEF NoFreePageIsLost, HardHeld
<1>5. MappingMatchesPte'
  BY <1>1 DEF MappingMatchesPte, MappingMatches, Filling
<1>6. UserHolds(u)'
  BY <1>1, <1>2
  DEF UserHolds, FaultsOnPte, InHandler, SoftLocked, HardHeld, Filling,
      SoftFaultHolds, HardFaultHolds, StealHolds
<1>7. ASSUME NEW w \in Users, w # u PROVE UserHolds(w)'
  <2>1. FaultsOnPte(w) /\ SoftFaultHolds(w) /\ HardFaultHolds(w) /\ StealHolds(w)
    BY <1>7 DEF IndInv, UsersHold, UserHolds
  <2>. QED BY <1>1, <1>7, <2>1
         DEF UserHolds, FaultsOnPte, SoftFaultHolds, HardFaultHolds, StealHolds
<1>8. /\ PtesNameTheirFrames' /\ PfnsNameTheirPtes' /\ FreePagesAreFree'
      /\ ListsMatchStatus' /\ ActiveInTransitionIsTrimmed' /\ TrimmerHolds'
      /\ WriterHolds'
  BY <1>1
  DEF PtesNameTheirFrames, PfnsNameTheirPtes, FreePagesAreFree, ListsMatchStatus,
      ActiveInTransitionIsTrimmed, TrimmerHolds, WriterHolds
<1>. QED BY <1>3, <1>4, <1>5, <1>6, <1>7, <1>8 DEF IndInv, UsersHold

\* The page's PTE is in transition and nobody has mapped it.
LEMMA StealPagePreserves ==
    ASSUME IndInv, NEW u \in Users, StealPage(u)
    PROVE  IndInv'
<1>. USE DEF StealPage, memory, disk, trimmer, writer, DiskPte, PfnFree
<1>1. /\ TypeOK /\ PtesNameTheirFrames /\ PfnsNameTheirPtes /\ FreePagesAreFree
      /\ NoFreePageIsLost /\ ListsMatchStatus /\ UsersHold
      /\ ActiveInTransitionIsTrimmed /\ TrimmerHolds /\ WriterHolds
      /\ MappingMatchesPte
  BY DEF IndInv
<1>2. FaultsOnPte(u) /\ SoftFaultHolds(u) /\ HardFaultHolds(u) /\ StealHolds(u)
  BY DEF IndInv, UsersHold, UserHolds
<1>3. TypeOK'
  BY <1>1, <1>2
  DEF TypeOK, FaultsOnPte, StealHolds, PfnsNameTheirPtes, PteState, PfnState,
      UserPoints, Threads, Data
<1>4. PtesNameTheirFrames'
  BY <1>1, <1>2
  DEF TypeOK, FaultsOnPte, StealHolds, PfnsNameTheirPtes, PtesNameTheirFrames
<1>5. PfnsNameTheirPtes'
  BY <1>1, <1>2 DEF TypeOK, FaultsOnPte, StealHolds, PfnsNameTheirPtes
<1>6. FreePagesAreFree'
  BY <1>1, <1>2 DEF TypeOK, FaultsOnPte, StealHolds, FreePagesAreFree
<1>7. NoFreePageIsLost'
  <2>1. PICK f \in batch[u] : /\ cache' = [cache EXCEPT ![u] = @ \cup {f}]
                              /\ pfn' = [pfn EXCEPT ![f] = PfnFree]
    OBVIOUS
  <2>2. f \in cache'[u] /\ \A w \in Users : cache[w] \subseteq cache'[w]
    BY <1>1, <2>1 DEF TypeOK
  <2>3. \A w \in Users : pc[w] \in HardHeld => pc'[w] = pc[w]
    BY <1>1 DEF TypeOK, HardHeld
  <2>4. \A g \in Frames : g # f => pfn'[g] = pfn[g]
    BY <1>1, <2>1 DEF TypeOK
  <2>5. free' = free /\ page' = page
    OBVIOUS
  <2>. QED BY <1>1, <2>2, <2>3, <2>4, <2>5 DEF NoFreePageIsLost
<1>8. ListsMatchStatus'
  BY <1>1, <1>2 DEF TypeOK, FaultsOnPte, StealHolds, ListsMatchStatus
<1>9. ActiveInTransitionIsTrimmed'
  BY <1>1 DEF ActiveInTransitionIsTrimmed
<1>10. TrimmerHolds'
  BY <1>1, <1>2
  DEF TypeOK, FaultsOnPte, StealHolds, PtesNameTheirFrames, PfnsNameTheirPtes,
      TrimmerHolds, TransitionPte
<1>11. WriterHolds'
  BY <1>1, <1>2, DistinctAssumption DEF TypeOK, FaultsOnPte, StealHolds, WriterHolds
<1>12. MappingMatchesPte'
  <2>1. PICK f \in batch[u] :
               /\ pte' = [pte EXCEPT ![pfn[f].pte] = DiskPte(pfn[f].slot)]
               /\ pc' = [pc EXCEPT ![u] = IF batch[u] = {f} THEN "hard" ELSE @]
    OBVIOUS
  <2>2. f \in Frames /\ pfnLock[f] = u /\ pfn[f].status = "STANDBY"
    BY <1>1, <1>2 DEF TypeOK, StealHolds
  <2>3. /\ pfn[f].pte \in Ptes
        /\ pte[pfn[f].pte].fmt \in {"valid", "transition"}
        /\ pte[pfn[f].pte].ref = f
    BY <1>1, <2>2 DEF PfnsNameTheirPtes
  <2>4. \A w \in Users : pc[w] \in Filling \cup {"softDone"} => pc'[w] = pc[w]
    BY <1>1, <2>1 DEF TypeOK, Filling
  <2>5. UNCHANGED <<mapped, va, page, tpc, trimBatch>>
    OBVIOUS
  <2>6. SUFFICES ASSUME NEW p \in Ptes PROVE MappingMatches(p)'
    BY DEF MappingMatchesPte
  <2>7. CASE p # pfn[f].pte
    <3>1. pte'[p] = pte[p]
      BY <1>1, <2>1, <2>7 DEF TypeOK
    <3>2. MappingMatches(p)
      BY <1>1 DEF MappingMatchesPte
    <3>. QED BY <3>1, <3>2, <2>4, <2>5 DEF MappingMatches
  <2>8. CASE p = pfn[f].pte
    <3>1. pte'[p].fmt = "disk"
      BY <1>1, <2>1, <2>3, <2>8 DEF TypeOK, DiskPte
    <3>2. ASSUME mapped[p] # Nil,
                 ~\E w \in Users : pc[w] \in Filling /\ va[w] = p /\ page[w] = mapped[p]
          PROVE  FALSE
      <4>1. pte[p].fmt # "valid"
        BY <1>1, <2>2, <2>3, <2>8 DEF PtesNameTheirFrames
      <4>2. pte[p] # ValidPte(mapped[p])
        BY <4>1 DEF ValidPte
      <4>3. /\ pte[p] = TransitionPte(mapped[p])
            /\ \/ [va |-> p, page |-> mapped[p]] \in trimBatch
               \/ \E w \in Users : pc[w] = "softDone" /\ va[w] = p
        BY <1>1, <3>2, <4>2, Zenon DEF MappingMatchesPte, MappingMatches
      <4>4. mapped[p] = f
        BY <4>3, <2>3, <2>8 DEF TransitionPte
      <4>5. [va |-> p, page |-> f] \notin trimBatch
        BY <1>1, <2>2 DEF TrimmerHolds
      <4>6. ASSUME NEW w \in Users, pc[w] = "softDone", va[w] = p PROVE FALSE
        <5>1. SoftFaultHolds(w)
          BY <1>1 DEF UsersHold, UserHolds
        <5>2. pfnLock[f] = w
          BY <4>6, <5>1, <4>3, <4>4, <2>2 DEF SoftFaultHolds, SoftLocked, TransitionPte
        <5>. QED BY <4>6, <5>2, <2>2
      <4>. QED BY <4>3, <4>4, <4>5, <4>6
    <3>. QED BY <2>4, <2>5, <3>1, <3>2 DEF MappingMatches, ValidPte, TransitionPte
  <2>. QED BY <2>7, <2>8
<1>13. UserHolds(u)'
  BY <1>1, <1>2
  DEF UserHolds, FaultsOnPte, InHandler, SoftLocked, HardHeld, Filling,
      SoftFaultHolds, HardFaultHolds, TypeOK, StealHolds, UserPoints
<1>14. ASSUME NEW w \in Users, w # u PROVE UserHolds(w)'
  <2>1. FaultsOnPte(w) /\ SoftFaultHolds(w) /\ HardFaultHolds(w) /\ StealHolds(w)
    BY <1>14 DEF IndInv, UsersHold, UserHolds
  <2>. QED BY <1>1, <1>2, <1>14, <2>1
         DEF UserHolds, FaultsOnPte, TransitionPte, TypeOK, StealHolds,
             PfnsNameTheirPtes, SoftFaultHolds, UserPoints, HardFaultHolds
<1>. QED BY <1>3, <1>4, <1>5, <1>6, <1>7, <1>8, <1>9, <1>10, <1>11, <1>12,
            <1>13, <1>14 DEF IndInv, UsersHold

-----------------------------------------------------------------------------
(* Hard faults: using the page.                                            *)

\* The PTE is checked again under its lock, so its address is not mapped.
LEMMA HardLockPtePreserves ==
    ASSUME IndInv, NEW u \in Users, HardLockPte(u)
    PROVE  IndInv'
<1>. USE DEF HardLockPte, lists, disk, trimmer, writer, NeedsPage
<1>1. /\ TypeOK /\ PtesNameTheirFrames /\ PfnsNameTheirPtes /\ FreePagesAreFree
      /\ NoFreePageIsLost /\ ListsMatchStatus /\ ActiveInTransitionIsTrimmed
      /\ TrimmerHolds /\ WriterHolds /\ MappingMatchesPte
  BY DEF IndInv
<1>2. FaultsOnPte(u) /\ SoftFaultHolds(u) /\ HardFaultHolds(u) /\ StealHolds(u)
  BY DEF IndInv, UsersHold, UserHolds
<1>3. TypeOK'
  BY <1>1, <1>2
  DEF TypeOK, FaultsOnPte, HardFaultHolds, PteState, PfnState, UserPoints, Threads,
      Data
<1>4. NoFreePageIsLost'
  BY <1>1 DEF NoFreePageIsLost, HardHeld
<1>5. TrimmerHolds'
  BY <1>1 DEF TrimmerHolds
<1>6. MappingMatchesPte'
  BY <1>1 DEF TypeOK, MappingMatchesPte, MappingMatches, Filling
<1>7. UserHolds(u)'
  BY <1>1, <1>2
  DEF UserHolds, FaultsOnPte, InHandler, SoftLocked, HardHeld, SoftFaultHolds, TypeOK,
      HardFaultHolds, UserPoints, StealHolds
<1>8. ASSUME NEW w \in Users, w # u PROVE UserHolds(w)'
  <2>1. FaultsOnPte(w) /\ SoftFaultHolds(w) /\ HardFaultHolds(w) /\ StealHolds(w)
    BY <1>8 DEF IndInv, UsersHold, UserHolds
  <2>. QED BY <1>1, <1>8, <2>1, DistinctAssumption
         DEF UserHolds, FaultsOnPte, SoftLocked, SoftFaultHolds, HardFaultHolds,
             StealHolds
<1>9. /\ PtesNameTheirFrames' /\ PfnsNameTheirPtes' /\ FreePagesAreFree'
      /\ ListsMatchStatus' /\ ActiveInTransitionIsTrimmed' /\ WriterHolds'
  BY <1>1
  DEF PtesNameTheirFrames, PfnsNameTheirPtes, FreePagesAreFree, ListsMatchStatus,
      ActiveInTransitionIsTrimmed, WriterHolds
<1>. QED BY <1>3, <1>4, <1>5, <1>6, <1>7, <1>8, <1>9 DEF IndInv, UsersHold

\* The free page goes back to the cache or to a free list.
LEMMA HardGiveBackPreserves ==
    ASSUME IndInv, NEW u \in Users, HardGiveBack(u)
    PROVE  IndInv'
<1>. USE DEF HardGiveBack, memory, disk, trimmer, writer, PfnFree, NeedsPage
<1>1. /\ TypeOK /\ PtesNameTheirFrames /\ PfnsNameTheirPtes /\ FreePagesAreFree
      /\ NoFreePageIsLost /\ ListsMatchStatus /\ ActiveInTransitionIsTrimmed
      /\ TrimmerHolds /\ WriterHolds /\ MappingMatchesPte
  BY DEF IndInv
<1>2. FaultsOnPte(u) /\ SoftFaultHolds(u) /\ HardFaultHolds(u) /\ StealHolds(u)
  BY DEF IndInv, UsersHold, UserHolds
<1>3. TypeOK'
  <2>1. page[u] \in Frames
    BY <1>2 DEF HardFaultHolds, HardHeld
  <2>2. cache' \in [Users -> SUBSET Frames] /\ free' \in SUBSET Frames
    BY <1>1, <2>1 DEF TypeOK
  <2>3. pfn' \in [Frames -> PfnState] /\ pfnLock' \in [Frames -> Threads \cup {Nil}]
    BY <1>1, <2>1 DEF TypeOK, PfnState, Threads
  <2>4. page' \in [Users -> Frames \cup {Nil}]
    BY <1>1 DEF TypeOK
  <2>5. pc' \in [Users -> UserPoints]
    BY <1>1 DEF TypeOK, UserPoints
  <2>. QED BY <1>1, <2>2, <2>3, <2>4, <2>5 DEF TypeOK, PteState
<1>4. PtesNameTheirFrames'
  BY <1>1, <1>2 DEF TypeOK, FaultsOnPte, HardFaultHolds, PtesNameTheirFrames, HardHeld
<1>5. PfnsNameTheirPtes'
  BY <1>1 DEF PfnsNameTheirPtes
<1>6. FreePagesAreFree'
  BY <1>1, <1>2, DistinctAssumption
  DEF TypeOK, FaultsOnPte, HardFaultHolds, FreePagesAreFree, HardHeld
<1>7. NoFreePageIsLost'
  <2>1. page[u] \in Frames
    BY <1>2 DEF HardFaultHolds, HardHeld
  <2>2. page[u] \in free' \/ page[u] \in cache'[u]
    BY <1>1 DEF TypeOK
  <2>3. free \subseteq free' /\ \A w \in Users : cache[w] \subseteq cache'[w]
    BY <1>1 DEF TypeOK
  <2>4. \A w \in Users \ {u} : pc'[w] = pc[w] /\ page'[w] = page[w]
    BY <1>1 DEF TypeOK
  <2>5. \A f \in Frames \ {page[u]} : pfn'[f] = pfn[f]
    BY <1>1, <2>1 DEF TypeOK
  <2>. QED BY <1>1, <2>2, <2>3, <2>4, <2>5 DEF NoFreePageIsLost
<1>8. ListsMatchStatus'
  BY <1>1, <1>2 DEF TypeOK, FaultsOnPte, HardFaultHolds, ListsMatchStatus, HardHeld
<1>9. ActiveInTransitionIsTrimmed'
  BY <1>1 DEF ActiveInTransitionIsTrimmed
<1>10. TrimmerHolds'
  BY <1>1, <1>2 DEF TypeOK, FaultsOnPte, HardFaultHolds, TrimmerHolds, HardHeld
<1>11. WriterHolds'
  BY <1>1, <1>2 DEF TypeOK, FaultsOnPte, HardFaultHolds, WriterHolds, HardHeld
<1>12. MappingMatchesPte'
  BY <1>1 DEF MappingMatchesPte, MappingMatches, Filling
<1>13. UserHolds(u)'
  BY <1>1, <1>2
  DEF UserHolds, FaultsOnPte, InHandler, SoftLocked, HardHeld, Filling,
      SoftFaultHolds, TypeOK, HardFaultHolds, UserPoints, StealHolds
<1>14. ASSUME NEW w \in Users, w # u PROVE UserHolds(w)'
  <2>1. FaultsOnPte(w) /\ SoftFaultHolds(w) /\ HardFaultHolds(w) /\ StealHolds(w)
    BY <1>14 DEF IndInv, UsersHold, UserHolds
  <2>. QED BY <1>1, <1>2, <1>14, <2>1
         DEF UserHolds, FaultsOnPte, HardHeld, TypeOK, HardFaultHolds, SoftFaultHolds,
             UserPoints, StealHolds
<1>. QED BY <1>3, <1>4, <1>5, <1>6, <1>7, <1>8, <1>9, <1>10, <1>11, <1>12,
            <1>13, <1>14 DEF IndInv, UsersHold

\* Only the content of the free page and the slot's bit change.
LEMMA HardFillPreserves ==
    ASSUME IndInv, NEW u \in Users, HardFill(u)
    PROVE  IndInv'
<1>. USE DEF HardFill, tables, lists, trimmer, writer
<1>1. /\ TypeOK /\ PtesNameTheirFrames /\ PfnsNameTheirPtes /\ FreePagesAreFree
      /\ NoFreePageIsLost /\ ListsMatchStatus /\ ActiveInTransitionIsTrimmed
      /\ TrimmerHolds /\ WriterHolds /\ MappingMatchesPte
  BY DEF IndInv
<1>2. FaultsOnPte(u) /\ SoftFaultHolds(u) /\ HardFaultHolds(u) /\ StealHolds(u)
  BY DEF IndInv, UsersHold, UserHolds
<1>3. TypeOK'
  <2>1. va[u] \in Ptes /\ page[u] \in Frames
    BY <1>2 DEF FaultsOnPte, HardFaultHolds, InHandler, HardHeld
  <2>2. pte[va[u]].fmt = "disk" => pte[va[u]].ref \in Slots
    BY <1>1, <2>1 DEF PtesNameTheirFrames
  <2>3. contents' \in [Frames -> Data] /\ inUse' \in SUBSET Slots
    BY <1>1, <2>1, <2>2 DEF TypeOK, Data
  <2>4. pc' \in [Users -> UserPoints]
    BY <1>1 DEF TypeOK, UserPoints
  <2>. QED BY <1>1, <2>3, <2>4 DEF TypeOK, PfnState, PteState
<1>4. NoFreePageIsLost'
  BY <1>1 DEF NoFreePageIsLost, HardHeld
<1>5. MappingMatchesPte'
  BY <1>1 DEF MappingMatchesPte, MappingMatches, Filling
<1>6. UserHolds(u)'
  BY <1>1, <1>2
  DEF UserHolds, FaultsOnPte, InHandler, SoftLocked, HardHeld, Filling,
      SoftFaultHolds, HardFaultHolds, StealHolds
<1>7. ASSUME NEW w \in Users, w # u PROVE UserHolds(w)'
  <2>1. FaultsOnPte(w) /\ SoftFaultHolds(w) /\ HardFaultHolds(w) /\ StealHolds(w)
    BY <1>7 DEF IndInv, UsersHold, UserHolds
  <2>. QED BY <1>1, <1>7, <2>1
         DEF UserHolds, FaultsOnPte, SoftFaultHolds, HardFaultHolds, StealHolds
<1>8. /\ PtesNameTheirFrames' /\ PfnsNameTheirPtes' /\ FreePagesAreFree'
      /\ ListsMatchStatus' /\ ActiveInTransitionIsTrimmed' /\ TrimmerHolds'
      /\ WriterHolds'
  BY <1>1
  DEF PtesNameTheirFrames, PfnsNameTheirPtes, FreePagesAreFree, ListsMatchStatus,
      ActiveInTransitionIsTrimmed, TrimmerHolds, WriterHolds
<1>. QED BY <1>3, <1>4, <1>5, <1>6, <1>7, <1>8 DEF IndInv, UsersHold

\* The free page becomes the active page of the PTE.
LEMMA HardDonePreserves ==
    ASSUME IndInv, NEW u \in Users, HardDone(u)
    PROVE  IndInv'
<1>. USE DEF HardDone, lists, memory, disk, trimmer, writer, ValidPte, PfnActive
<1>1. /\ TypeOK /\ PtesNameTheirFrames /\ PfnsNameTheirPtes /\ FreePagesAreFree
      /\ NoFreePageIsLost /\ ListsMatchStatus /\ ActiveInTransitionIsTrimmed
      /\ TrimmerHolds /\ WriterHolds /\ MappingMatchesPte
  BY DEF IndInv
<1>2. FaultsOnPte(u) /\ SoftFaultHolds(u) /\ HardFaultHolds(u) /\ StealHolds(u)
  BY DEF IndInv, UsersHold, UserHolds
<1>3. TypeOK'
  <2>1. va[u] \in Ptes /\ page[u] \in Frames
    BY <1>2 DEF FaultsOnPte, InHandler, HardFaultHolds, HardHeld
  <2>2. pte' \in [Ptes -> PteState]
    BY <1>1, <1>2, <2>1 DEF TypeOK, PteState
  <2>3. pfn' \in [Frames -> PfnState]
    BY <1>1, <2>1 DEF TypeOK, PfnState
  <2>4. pfnLock' \in [Frames -> Threads \cup {Nil}]
    BY <1>1, <2>1 DEF TypeOK
  <2>5. pteLock' \in [Ptes -> Users \cup {Trimmer, Nil}]
    BY <1>1, <2>1 DEF TypeOK
  <2>6. page' \in [Users -> Frames \cup {Nil}] /\ pc' \in [Users -> UserPoints]
    BY <1>1 DEF TypeOK, UserPoints
  <2>. QED BY <1>1, <2>2, <2>3, <2>4, <2>5, <2>6 DEF TypeOK
<1>4. PtesNameTheirFrames'
  BY <1>1, <1>2 DEF TypeOK, FaultsOnPte, HardFaultHolds, PtesNameTheirFrames, HardHeld
<1>5. PfnsNameTheirPtes'
  BY <1>1, <1>2
  DEF TypeOK, FaultsOnPte, HardFaultHolds, PfnsNameTheirPtes, InHandler, Filling
<1>6. FreePagesAreFree'
  BY <1>1, <1>2, DistinctAssumption
  DEF TypeOK, FaultsOnPte, HardFaultHolds, FreePagesAreFree, HardHeld
<1>7. NoFreePageIsLost'
  BY <1>1 DEF TypeOK, NoFreePageIsLost
<1>8. ListsMatchStatus'
  BY <1>1, <1>2 DEF TypeOK, FaultsOnPte, HardFaultHolds, ListsMatchStatus, HardHeld
<1>9. ActiveInTransitionIsTrimmed'
  BY <1>1, <1>2
  DEF TypeOK, FaultsOnPte, HardFaultHolds, PtesNameTheirFrames,
      ActiveInTransitionIsTrimmed, HardHeld
<1>10. TrimmerHolds'
  BY <1>1, <1>2
  DEF TypeOK, FaultsOnPte, HardFaultHolds, TrimmerHolds, HardHeld, Filling,
      TransitionPte
<1>11. WriterHolds'
  BY <1>1, <1>2 DEF TypeOK, FaultsOnPte, HardFaultHolds, WriterHolds, HardHeld
<1>12. MappingMatchesPte'
  BY <1>1, <1>2
  DEF TypeOK, FaultsOnPte, HardFaultHolds, MappingMatchesPte, MappingMatches, Filling
<1>13. UserHolds(u)'
  BY <1>1, <1>2
  DEF UserHolds, FaultsOnPte, InHandler, SoftLocked, HardHeld, Filling,
      SoftFaultHolds, TypeOK, HardFaultHolds, UserPoints, StealHolds
<1>14. ASSUME NEW w \in Users, w # u PROVE UserHolds(w)'
  <2>1. FaultsOnPte(w) /\ SoftFaultHolds(w) /\ HardFaultHolds(w) /\ StealHolds(w)
    BY <1>14 DEF IndInv, UsersHold, UserHolds
  <2>. QED BY <1>1, <1>2, <1>14, <2>1
         DEF UserHolds, FaultsOnPte, HardHeld, Filling, TypeOK, HardFaultHolds,
             SoftFaultHolds, UserPoints, StealHolds
<1>. QED BY <1>3, <1>4, <1>5, <1>6, <1>7, <1>8, <1>9, <1>10, <1>11, <1>12,
            <1>13, <1>14 DEF IndInv, UsersHold

-----------------------------------------------------------------------------
(* The trimmer and the writer.                                             *)

\* Changing a PFN's status, or its slot to a slot, leaves it a PFN.
LEMMA PfnStays ==
    ASSUME TypeOK, NEW f \in Frames
    PROVE  /\ PfnModified(f) \in PfnState
           /\ PfnMidWrite(f) \in PfnState
           /\ \A s \in Slots : PfnStandby(f, s) \in PfnState
<1>1. pfn[f] \in PfnState
  BY DEF TypeOK
<1>. QED BY <1>1 DEF PfnState, PfnModified, PfnMidWrite, PfnStandby

\* A batch of the modified list is a sequence of frames.
LEMMA ArraysAreSequences ==
    ASSUME TypeOK, NEW q \in ArraysOf(modified, target - Len(writeBatch))
    PROVE  q \in Seq(Frames)
<1>1. PICK k \in 1..(target - Len(writeBatch)) : q \in [1..k -> Unlocked(modified)]
  BY DEF ArraysOf
<1>2. Len(writeBatch) \in Nat /\ target \in Nat
  BY DEF TypeOK
<1>3. k \in Nat
  BY <1>2
<1>4. Unlocked(modified) \subseteq Frames
  BY DEF Unlocked, TypeOK
<1>. QED BY <1>1, <1>3, <1>4

\* The trimmer's pages are locked by it and named by PTEs in transition.
LEMMA TrimBatchHeld ==
    ASSUME TypeOK, TrimmerHolds, NEW t \in trimBatch
    PROVE  /\ t.va \in Ptes /\ t.page \in Frames
           /\ pte[t.va].fmt = "transition" /\ pte[t.va].ref = t.page
           /\ pfnLock[t.page] = Trimmer
           /\ pfn[t.page].status = IF tpc = "unlock" THEN "MODIFIED" ELSE "ACTIVE"
<1>1. t \in [va : Ptes, page : Frames]
  BY DEF TypeOK
<1>2. t.va \in Ptes /\ t.page \in Frames
  BY <1>1
<1>3. pte[t.va] = TransitionPte(t.page)
  BY DEF TrimmerHolds
<1>. QED BY <1>2, <1>3 DEF TrimmerHolds, TransitionPte

\* TrimInsert touches only the status of the pages of the batch.
LEMMA TrimInsertEffect ==
    ASSUME TypeOK, TrimInsert
    PROVE  \A f \in Frames :
               IF \E t \in trimBatch : t.page = f
               THEN /\ pfn'[f].status = "MODIFIED"
                    /\ pfn'[f].pte = pfn[f].pte
                    /\ pfn'[f].slot = pfn[f].slot
               ELSE pfn'[f] = pfn[f]
  BY DEF TrimInsert, TypeOK, PfnState, PfnModified

-----------------------------------------------------------------------------
(* The trimmer.                                                            *)

\* Only the trimmer's program point and its PTE change.
LEMMA TrimPickPreserves ==
    ASSUME IndInv, TrimPick
    PROVE  IndInv'
<1>. USE DEF TrimPick, tables, lists, memory, disk, user, writer
<1>1. /\ TypeOK /\ PtesNameTheirFrames /\ PfnsNameTheirPtes /\ FreePagesAreFree
      /\ NoFreePageIsLost /\ ListsMatchStatus /\ ActiveInTransitionIsTrimmed
      /\ TrimmerHolds /\ WriterHolds /\ MappingMatchesPte
  BY DEF IndInv
<1>2. TypeOK'
  BY <1>1 DEF TypeOK, PteState, PfnState, UserPoints, Threads, Data
<1>3. ActiveInTransitionIsTrimmed'
  BY <1>1 DEF ActiveInTransitionIsTrimmed
<1>4. TrimmerHolds'
  BY <1>1 DEF TypeOK, TrimmerHolds
<1>5. MappingMatchesPte'
  BY <1>1 DEF MappingMatchesPte, MappingMatches
<1>6. ASSUME NEW w \in Users PROVE UserHolds(w)'
  <2>1. FaultsOnPte(w) /\ SoftFaultHolds(w) /\ HardFaultHolds(w) /\ StealHolds(w)
    BY <1>6 DEF IndInv, UsersHold, UserHolds
  <2>. QED BY <1>1, <1>6, <2>1
         DEF UserHolds, SoftFaultHolds, TransitionPte, HardFaultHolds, FaultsOnPte,
             StealHolds
<1>7. /\ PtesNameTheirFrames' /\ PfnsNameTheirPtes' /\ FreePagesAreFree'
      /\ NoFreePageIsLost' /\ ListsMatchStatus' /\ WriterHolds'
  BY <1>1
  DEF PtesNameTheirFrames, PfnsNameTheirPtes, FreePagesAreFree, NoFreePageIsLost,
      ListsMatchStatus, WriterHolds
<1>. QED BY <1>2, <1>3, <1>4, <1>5, <1>6, <1>7 DEF IndInv, UsersHold

\* The PTE is locked, and still as it was when the trimmer looked at it.
LEMMA TrimLockPtePreserves ==
    ASSUME IndInv, TrimLockPte
    PROVE  IndInv'
<1>. USE DEF TrimLockPte, lists, memory, disk, user, writer
<1>1. /\ TypeOK /\ PtesNameTheirFrames /\ PfnsNameTheirPtes /\ FreePagesAreFree
      /\ NoFreePageIsLost /\ ListsMatchStatus /\ ActiveInTransitionIsTrimmed
      /\ TrimmerHolds /\ WriterHolds /\ MappingMatchesPte
  BY DEF IndInv
<1>2. TypeOK'
  BY <1>1 DEF TypeOK, PteState, PfnState, UserPoints, Threads, Data
<1>3. ActiveInTransitionIsTrimmed'
  BY <1>1 DEF ActiveInTransitionIsTrimmed
<1>4. TrimmerHolds'
  BY <1>1 DEF TypeOK, TrimmerHolds
<1>5. MappingMatchesPte'
  BY <1>1 DEF MappingMatchesPte, MappingMatches
<1>6. ASSUME NEW w \in Users PROVE UserHolds(w)'
  <2>1. FaultsOnPte(w) /\ SoftFaultHolds(w) /\ HardFaultHolds(w) /\ StealHolds(w)
    BY <1>6 DEF IndInv, UsersHold, UserHolds
  <2>2. \A p \in Ptes : pteLock[p] = w => pteLock'[p] = w
    BY <1>1, <1>6, DistinctAssumption DEF TypeOK, TrimmerHolds
  <2>3. pc[w] \in {"softLockPfn"} \cup SoftLocked \cup Filling => va[w] \in Ptes
    BY <2>1 DEF FaultsOnPte, InHandler, SoftLocked, Filling
  <2>4. SoftFaultHolds(w)'
    BY <2>1, <2>2, <2>3 DEF SoftFaultHolds, SoftLocked, TransitionPte
  <2>5. HardFaultHolds(w)'
    BY <2>1, <2>2, <2>3 DEF HardFaultHolds
  <2>. QED BY <2>1, <2>4, <2>5 DEF UserHolds, FaultsOnPte, StealHolds
<1>7. /\ PtesNameTheirFrames' /\ PfnsNameTheirPtes' /\ FreePagesAreFree'
      /\ NoFreePageIsLost' /\ ListsMatchStatus' /\ WriterHolds'
  BY <1>1
  DEF PtesNameTheirFrames, PfnsNameTheirPtes, FreePagesAreFree, NoFreePageIsLost,
      ListsMatchStatus, WriterHolds
<1>. QED BY <1>2, <1>3, <1>4, <1>5, <1>6, <1>7 DEF IndInv, UsersHold

\* The PTE enters transition while its page, locked, stays active.
LEMMA TrimLockPfnPreserves ==
    ASSUME IndInv, TrimLockPfn
    PROVE  IndInv'
<1>. USE DEF TrimLockPfn, lists, memory, disk, user, writer, TransitionPte
<1>1. /\ TypeOK /\ PtesNameTheirFrames /\ PfnsNameTheirPtes /\ FreePagesAreFree
      /\ NoFreePageIsLost /\ ListsMatchStatus /\ ActiveInTransitionIsTrimmed
      /\ TrimmerHolds /\ WriterHolds /\ MappingMatchesPte
  BY DEF IndInv
<1>2. TypeOK'
  BY <1>1
  DEF TypeOK, TrimmerHolds, PtesNameTheirFrames, PteState, PfnState, UserPoints,
      Threads, Data
<1>3. PtesNameTheirFrames'
  BY <1>1 DEF TypeOK, TrimmerHolds, PtesNameTheirFrames
<1>4. PfnsNameTheirPtes'
  BY <1>1 DEF PfnsNameTheirPtes
<1>5. FreePagesAreFree'
  BY <1>1 DEF TypeOK, TrimmerHolds, PtesNameTheirFrames, FreePagesAreFree
<1>6. ActiveInTransitionIsTrimmed'
  BY <1>1 DEF TypeOK, TrimmerHolds, ActiveInTransitionIsTrimmed
<1>7. TrimmerHolds'
  BY <1>1 DEF TypeOK, TrimmerHolds, PtesNameTheirFrames
<1>8. WriterHolds'
  BY <1>1, DistinctAssumption DEF WriterHolds
<1>9. MappingMatchesPte'
  BY <1>1 DEF TypeOK, TrimmerHolds, MappingMatchesPte, MappingMatches, ValidPte
<1>10. ASSUME NEW w \in Users PROVE UserHolds(w)'
  <2>1. FaultsOnPte(w) /\ SoftFaultHolds(w) /\ HardFaultHolds(w) /\ StealHolds(w)
    BY <1>10 DEF IndInv, UsersHold, UserHolds
  <2>. QED BY <1>1, <1>10, <2>1, DistinctAssumption
         DEF UserHolds, TypeOK, TrimmerHolds, FaultsOnPte, SoftFaultHolds, UserPoints,
             HardFaultHolds, StealHolds
<1>11. NoFreePageIsLost' /\ ListsMatchStatus'
  BY <1>1 DEF NoFreePageIsLost, ListsMatchStatus
<1>. QED BY <1>2, <1>3, <1>4, <1>5, <1>6, <1>7, <1>8, <1>9, <1>10, <1>11 DEF IndInv, UsersHold

\* No page of the batch is being filled or has been soft-faulted.
LEMMA TrimUnmapPreserves ==
    ASSUME IndInv, TrimUnmap
    PROVE  IndInv'
<1>. USE DEF TrimUnmap, tables, lists, disk, user, writer, Unmapped
<1>1. /\ TypeOK /\ PtesNameTheirFrames /\ PfnsNameTheirPtes /\ FreePagesAreFree
      /\ NoFreePageIsLost /\ ListsMatchStatus /\ ActiveInTransitionIsTrimmed
      /\ TrimmerHolds /\ WriterHolds /\ MappingMatchesPte
  BY DEF IndInv
<1>2. TypeOK'
  BY <1>1 DEF TypeOK, PteState, PfnState, UserPoints, Threads, Data
<1>3. ActiveInTransitionIsTrimmed'
  BY <1>1 DEF ActiveInTransitionIsTrimmed
<1>4. TrimmerHolds'
  BY <1>1 DEF TrimmerHolds
<1>5. MappingMatchesPte'
  <2>1. SUFFICES ASSUME NEW p \in Ptes PROVE MappingMatches(p)'
    BY DEF MappingMatchesPte
  <2>2. MappingMatches(p)
    BY <1>1 DEF MappingMatchesPte
  <2>3. CASE \E t \in trimBatch : t.va = p
    BY <1>1, <2>3, TrimBatchHeld DEF MappingMatches
  <2>4. CASE ~\E t \in trimBatch : t.va = p
    <3>1. mapped'[p] = mapped[p] /\ [va |-> p, page |-> mapped[p]] \notin trimBatch
      BY <2>4
    <3>. QED BY <2>2, <3>1 DEF MappingMatches
  <2>. QED BY <2>3, <2>4
<1>6. ASSUME NEW w \in Users PROVE UserHolds(w)'
  <2>1. FaultsOnPte(w) /\ SoftFaultHolds(w) /\ HardFaultHolds(w) /\ StealHolds(w)
    BY <1>6 DEF IndInv, UsersHold, UserHolds
  <2>2. SoftFaultHolds(w)'
      <3>1. pc[w] = "softDone" => mapped'[va[w]] = mapped[va[w]]
        <4>1. SUFFICES ASSUME pc[w] = "softDone", NEW t \in trimBatch, t.va = va[w]
                       PROVE  FALSE
          BY <1>1, <2>1 DEF TypeOK, FaultsOnPte, InHandler
        <4>2. pte[va[w]].ref = page[w] /\ pfnLock[page[w]] = w
          BY <2>1, <4>1 DEF SoftFaultHolds, SoftLocked, TransitionPte
        <4>3. pte[va[w]].ref = t.page /\ pfnLock[t.page] = Trimmer
          BY <1>1, <4>1, TrimBatchHeld
        <4>. QED BY <4>2, <4>3, DistinctAssumption
      <3>. QED BY <2>1, <3>1 DEF SoftFaultHolds
  <2>3. HardFaultHolds(w)'
      <3>1. pc[w] \in Filling => mapped'[va[w]] = mapped[va[w]]
        <4>1. SUFFICES ASSUME pc[w] \in Filling, NEW t \in trimBatch, t.va = va[w]
                       PROVE  FALSE
          BY <1>1, <2>1 DEF TypeOK, FaultsOnPte, InHandler, Filling
        <4>2. pte[va[w]].fmt \in {"zero", "disk"}
          BY <2>1, <4>1 DEF HardFaultHolds
        <4>. QED BY <1>1, <4>1, <4>2, TrimBatchHeld
      <3>. QED BY <2>1, <3>1 DEF HardFaultHolds
  <2>4. FaultsOnPte(w)' /\ StealHolds(w)'
    BY <2>1
    DEF FaultsOnPte, StealHolds, InHandler, SoftLocked, HardHeld, Filling,
        TransitionPte
  <2>. QED BY <2>2, <2>3, <2>4 DEF UserHolds
<1>7. /\ PtesNameTheirFrames' /\ PfnsNameTheirPtes' /\ FreePagesAreFree'
      /\ NoFreePageIsLost' /\ ListsMatchStatus' /\ WriterHolds'
  BY <1>1
  DEF PtesNameTheirFrames, PfnsNameTheirPtes, FreePagesAreFree, NoFreePageIsLost,
      ListsMatchStatus, WriterHolds
<1>. QED BY <1>2, <1>3, <1>4, <1>5, <1>6, <1>7 DEF IndInv, UsersHold

\* The pages of the batch become modified under their locks.
LEMMA TrimInsertPreserves ==
    ASSUME IndInv, TrimInsert
    PROVE  IndInv'
<1>. USE DEF TrimInsert, memory, disk, user, writer, PfnModified
<1>1. /\ TypeOK /\ PtesNameTheirFrames /\ PfnsNameTheirPtes /\ FreePagesAreFree
      /\ NoFreePageIsLost /\ ListsMatchStatus /\ ActiveInTransitionIsTrimmed
      /\ TrimmerHolds /\ WriterHolds /\ MappingMatchesPte
  BY DEF IndInv
<1>2. TypeOK'
  <2>1. pfn' \in [Frames -> PfnState]
    BY <1>1, PfnStays DEF TypeOK
  <2>2. modified' \in SUBSET Frames
    BY <1>1, TrimBatchHeld DEF TypeOK
  <2>. QED BY <1>1, <2>1, <2>2 DEF TypeOK
<1>3. PtesNameTheirFrames'
  <2>1. SUFFICES ASSUME NEW p \in Ptes, pte[p].fmt \in {"valid", "transition"}
                 PROVE  /\ pfn'[pte[p].ref].pte = p
                        /\ pfn'[pte[p].ref].status # "FREE"
                        /\ pte[p].fmt = "valid" => pfn'[pte[p].ref].status = "ACTIVE"
    BY <1>1 DEF PtesNameTheirFrames
  <2>2. pte[p].ref \in Frames /\ pfn[pte[p].ref].pte = p
    BY <1>1, <2>1 DEF PtesNameTheirFrames
  <2>3. CASE \E t \in trimBatch : t.page = pte[p].ref
    <3>1. PICK t \in trimBatch : t.page = pte[p].ref
      BY <2>3
    <3>2. pfn'[pte[p].ref].pte = p /\ pfn'[pte[p].ref].status = "MODIFIED"
      BY <1>1, <2>2, <2>3, TrimInsertEffect
    <3>3. t.va = p
      BY <1>1, <2>2, <3>1, TrimBatchHeld DEF PtesNameTheirFrames
    <3>. QED BY <1>1, <3>2, <3>3, TrimBatchHeld
  <2>4. CASE ~\E t \in trimBatch : t.page = pte[p].ref
    BY <1>1, <2>1, <2>2, <2>4, TrimInsertEffect DEF PtesNameTheirFrames
  <2>. QED BY <2>3, <2>4
<1>4. PfnsNameTheirPtes'
  <2>1. \A f \in Frames :
            /\ pfn'[f].pte = pfn[f].pte /\ pfn'[f].slot = pfn[f].slot
            /\ pfn'[f].status # "FREE" => pfn[f].status # "FREE"
            /\ pfn'[f].status = "STANDBY" => pfn[f].status = "STANDBY"
    BY <1>1, TrimInsertEffect, TrimBatchHeld
  <2>. QED BY <1>1, <2>1 DEF PfnsNameTheirPtes
<1>5. FreePagesAreFree'
  <2>1. \A f \in Frames : pfn[f].status = "FREE" => pfn'[f] = pfn[f]
    BY <1>1, TrimInsertEffect, TrimBatchHeld
  <2>. QED BY <1>1, <2>1 DEF FreePagesAreFree, TypeOK
<1>6. NoFreePageIsLost'
  BY <1>1 DEF NoFreePageIsLost
<1>7. ListsMatchStatus'
  <2>1. \A f \in Frames : f \in modified' =>
            f \in modified \/ \E t \in trimBatch : t.page = f
    OBVIOUS
  <2>2. \A f \in modified' : pfn'[f].status = "MODIFIED"
    BY <1>1, <2>1, TrimInsertEffect, TrimBatchHeld DEF ListsMatchStatus, TypeOK
  <2>3. \A f \in standby : pfn'[f].status = "STANDBY"
    BY <1>1, TrimInsertEffect, TrimBatchHeld DEF ListsMatchStatus, TypeOK
  <2>. QED BY <2>2, <2>3 DEF ListsMatchStatus
<1>8. ActiveInTransitionIsTrimmed'
  <2>1. SUFFICES ASSUME NEW p \in Ptes, pte[p].fmt = "transition",
                        pfn'[pte[p].ref].status = "ACTIVE"
                 PROVE  FALSE
    BY DEF ActiveInTransitionIsTrimmed
  <2>2. pte[p].ref \in Frames
    BY <1>1, <2>1 DEF PtesNameTheirFrames
  <2>3. ~\E t \in trimBatch : t.page = pte[p].ref
    BY <1>1, <2>1, <2>2, TrimInsertEffect
  <2>4. pfn[pte[p].ref].status = "ACTIVE"
    BY <1>1, <2>1, <2>2, <2>3, TrimInsertEffect
  <2>5. [va |-> p, page |-> pte[p].ref] \in trimBatch
    BY <1>1, <2>1, <2>4 DEF ActiveInTransitionIsTrimmed
  <2>. QED BY <2>3, <2>5
<1>9. TrimmerHolds'
  BY <1>1 DEF TypeOK, TrimmerHolds
<1>10. WriterHolds'
  BY <1>1
  DEF TypeOK, TrimmerHolds, PtesNameTheirFrames, PfnsNameTheirPtes, WriterHolds,
      PteState, PfnState
<1>11. MappingMatchesPte'
  BY <1>1 DEF MappingMatchesPte, MappingMatches
<1>12. ASSUME NEW w \in Users PROVE UserHolds(w)'
  <2>1. FaultsOnPte(w) /\ SoftFaultHolds(w) /\ HardFaultHolds(w) /\ StealHolds(w)
    BY <1>12 DEF IndInv, UsersHold, UserHolds
  <2>2. SoftFaultHolds(w)'
    BY <1>1, <1>12, <2>1
    DEF TypeOK, TrimmerHolds, FaultsOnPte, SoftFaultHolds, SoftLocked
  <2>3. StealHolds(w)'
    BY <1>1, <1>12, <2>1, DistinctAssumption
    DEF TypeOK, TrimmerHolds, FaultsOnPte, PtesNameTheirFrames, PfnsNameTheirPtes,
        ListsMatchStatus, StealHolds, PteState, PfnState, InHandler
  <2>4. HardFaultHolds(w)'
      <3>1. \A f \in Frames : pfn[f].status = "FREE" => pfn'[f] = pfn[f]
        BY <1>1, TrimInsertEffect, TrimBatchHeld
      <3>. QED BY <2>1, <3>1 DEF HardFaultHolds
  <2>5. FaultsOnPte(w)'
    BY <2>1 DEF FaultsOnPte, InHandler, SoftLocked, HardHeld, Filling, TransitionPte
  <2>. QED BY <2>2, <2>3, <2>4, <2>5 DEF UserHolds
<1>. QED BY <1>2, <1>3, <1>4, <1>5, <1>6, <1>7, <1>8, <1>9, <1>10, <1>11, <1>12 DEF IndInv, UsersHold

\* The page is modified by now, so anyone may take it.
LEMMA TrimUnlockPreserves ==
    ASSUME IndInv, TrimUnlock
    PROVE  IndInv'
<1>. USE DEF TrimUnlock, lists, memory, disk, user, writer
<1>1. /\ TypeOK /\ PtesNameTheirFrames /\ PfnsNameTheirPtes /\ FreePagesAreFree
      /\ NoFreePageIsLost /\ ListsMatchStatus /\ ActiveInTransitionIsTrimmed
      /\ TrimmerHolds /\ WriterHolds /\ MappingMatchesPte
  BY DEF IndInv
<1>2. TypeOK'
  BY <1>1 DEF TypeOK, PteState, PfnState, UserPoints, Threads, Data
<1>3. FreePagesAreFree'
  BY <1>1 DEF FreePagesAreFree
<1>4. ActiveInTransitionIsTrimmed'
  BY <1>1 DEF ActiveInTransitionIsTrimmed
<1>5. TrimmerHolds'
  BY <1>1, DistinctAssumption
  DEF TypeOK, TrimmerHolds, PtesNameTheirFrames, TransitionPte
<1>6. WriterHolds'
  BY <1>1
  DEF TypeOK, TrimmerHolds, PtesNameTheirFrames, PfnsNameTheirPtes, WriterHolds,
      PteState, PfnState
<1>7. MappingMatchesPte'
  BY <1>1 DEF MappingMatchesPte, MappingMatches
<1>8. ASSUME NEW w \in Users PROVE UserHolds(w)'
  <2>1. FaultsOnPte(w) /\ SoftFaultHolds(w) /\ HardFaultHolds(w) /\ StealHolds(w)
    BY <1>8 DEF IndInv, UsersHold, UserHolds
  <2>2. SoftFaultHolds(w)' /\ StealHolds(w)'
    BY <1>1, <1>8, <2>1, DistinctAssumption
    DEF TypeOK, TrimmerHolds, FaultsOnPte, SoftFaultHolds, PteState, PfnState,
        PtesNameTheirFrames, PfnsNameTheirPtes, StealHolds
  <2>3. HardFaultHolds(w)'
      <3>1. PICK t \in trimBatch : pfnLock' = [pfnLock EXCEPT ![t.page] = Nil]
        OBVIOUS
      <3>2. pc[w] \in HardHeld => page[w] # t.page
        BY <1>1, <2>1, TrimBatchHeld, DistinctAssumption DEF HardFaultHolds
      <3>. QED BY <1>1, <2>1, <3>1, <3>2 DEF HardFaultHolds, TypeOK
  <2>4. FaultsOnPte(w)'
    BY <2>1 DEF FaultsOnPte, InHandler, SoftLocked, HardHeld, Filling, TransitionPte
  <2>. QED BY <2>2, <2>3, <2>4 DEF UserHolds
<1>9. /\ PtesNameTheirFrames' /\ PfnsNameTheirPtes' /\ NoFreePageIsLost'
      /\ ListsMatchStatus'
  BY <1>1
  DEF PtesNameTheirFrames, PfnsNameTheirPtes, NoFreePageIsLost, ListsMatchStatus
<1>. QED BY <1>2, <1>3, <1>4, <1>5, <1>6, <1>7, <1>8, <1>9 DEF IndInv, UsersHold

-----------------------------------------------------------------------------
(* The writer.                                                             *)

\* Slots move to the stash; the batch is bounded.
LEMMA WriteBeginPreserves ==
    ASSUME IndInv, WriteBegin
    PROVE  IndInv'
<1>. USE DEF WriteBegin, tables, lists, memory, user, trimmer, BatchSize
<1>1. /\ TypeOK /\ PtesNameTheirFrames /\ PfnsNameTheirPtes /\ FreePagesAreFree
      /\ NoFreePageIsLost /\ ListsMatchStatus /\ UsersHold
      /\ ActiveInTransitionIsTrimmed /\ TrimmerHolds /\ WriterHolds
      /\ MappingMatchesPte
  BY DEF IndInv
<1>2. TypeOK'
  BY <1>1, BatchAssumption, FiniteAssumption, FS_Subset, FS_CardinalityType
  DEF TypeOK, PteState, PfnState, UserPoints, Threads, Data
<1>3. WriterHolds'
  BY <1>1 DEF WriterHolds
<1>4. /\ PtesNameTheirFrames' /\ PfnsNameTheirPtes' /\ FreePagesAreFree'
      /\ NoFreePageIsLost' /\ ListsMatchStatus' /\ UsersHold'
      /\ ActiveInTransitionIsTrimmed' /\ TrimmerHolds' /\ MappingMatchesPte'
  BY <1>1
  DEF PtesNameTheirFrames, PfnsNameTheirPtes, FreePagesAreFree, NoFreePageIsLost,
      ListsMatchStatus, UsersHold, ActiveInTransitionIsTrimmed, TrimmerHolds,
      MappingMatchesPte, UserHolds, FaultsOnPte, SoftFaultHolds, HardFaultHolds,
      StealHolds, MappingMatches
<1>. QED BY <1>2, <1>3, <1>4 DEF IndInv

\* Pages leave the modified list as mid-write.
LEMMA WriteGatherPreserves ==
    ASSUME IndInv, WriteGather
    PROVE  IndInv'
<1>. USE DEF WriteGather, memory, disk, user, trimmer, PfnMidWrite, ArraysOf,
             Elems, Unlocked
<1>1. /\ TypeOK /\ PtesNameTheirFrames /\ PfnsNameTheirPtes /\ FreePagesAreFree
      /\ NoFreePageIsLost /\ ListsMatchStatus /\ ActiveInTransitionIsTrimmed
      /\ TrimmerHolds /\ WriterHolds /\ MappingMatchesPte
  BY DEF IndInv
<1>2. TypeOK'
  <2>1. PICK q \in ArraysOf(modified, target - Len(writeBatch)) :
          /\ modified' = modified \ Elems(q)
          /\ pfn' = [f \in Frames |-> IF f \in Elems(q) THEN PfnMidWrite(f) ELSE pfn[f]]
          /\ writeBatch' = writeBatch \o q
    OBVIOUS
  <2>2. q \in Seq(Frames)
    BY <1>1, <2>1, ArraysAreSequences
  <2>3. writeBatch' \in Seq(Frames) /\ modified' \in SUBSET Frames
    BY <1>1, <2>1, <2>2 DEF TypeOK
  <2>4. pfn' \in [Frames -> PfnState]
    BY <1>1, <2>1, PfnStays DEF TypeOK
  <2>. QED BY <1>1, <2>3, <2>4 DEF TypeOK
<1>3. PtesNameTheirFrames'
  BY <1>1 DEF TypeOK, WriterHolds, ListsMatchStatus, PtesNameTheirFrames
<1>4. PfnsNameTheirPtes'
  BY <1>1 DEF TypeOK, WriterHolds, ListsMatchStatus, PfnsNameTheirPtes
<1>5. FreePagesAreFree'
  BY <1>1 DEF TypeOK, WriterHolds, ListsMatchStatus, FreePagesAreFree
<1>6. NoFreePageIsLost'
  BY <1>1 DEF NoFreePageIsLost
<1>7. ListsMatchStatus'
  BY <1>1 DEF TypeOK, ListsMatchStatus
<1>8. ActiveInTransitionIsTrimmed'
  BY <1>1 DEF TypeOK, WriterHolds, PtesNameTheirFrames, ActiveInTransitionIsTrimmed
<1>9. TrimmerHolds'
  BY <1>1, DistinctAssumption DEF TypeOK, TrimmerHolds
<1>10. WriterHolds'
  BY <1>1, DistinctAssumption DEF TypeOK, WriterHolds
<1>11. ASSUME NEW w \in Users PROVE UserHolds(w)'
  <2>1. FaultsOnPte(w) /\ SoftFaultHolds(w) /\ HardFaultHolds(w) /\ StealHolds(w)
    BY <1>11 DEF IndInv, UsersHold, UserHolds
  <2>. QED BY <1>1, <1>11, <2>1, DistinctAssumption
         DEF UserHolds, SoftFaultHolds, HardFaultHolds, TypeOK, StealHolds,
             UserPoints, FaultsOnPte
<1>12. MappingMatchesPte'
  BY <1>1 DEF MappingMatchesPte, MappingMatches
<1>. QED BY <1>2, <1>3, <1>4, <1>5, <1>6, <1>7, <1>8, <1>9, <1>10, <1>11, <1>12 DEF IndInv, UsersHold

\* Nothing is gathered, or the batch is not empty.
LEMMA WriteStartPreserves ==
    ASSUME IndInv, WriteStart
    PROVE  IndInv'
<1>. USE DEF WriteStart, tables, lists, memory, disk, user, trimmer
<1>1. /\ TypeOK /\ PtesNameTheirFrames /\ PfnsNameTheirPtes /\ FreePagesAreFree
      /\ NoFreePageIsLost /\ ListsMatchStatus /\ UsersHold
      /\ ActiveInTransitionIsTrimmed /\ TrimmerHolds /\ WriterHolds
      /\ MappingMatchesPte
  BY DEF IndInv
<1>2. TypeOK'
  <2>1. target' \in 0..MaxWriteBatch
    BY BatchAssumption
  <2>. QED BY <1>1, <2>1 DEF TypeOK
<1>3. WriterHolds'
  BY <1>1 DEF WriterHolds
<1>4. /\ PtesNameTheirFrames' /\ PfnsNameTheirPtes' /\ FreePagesAreFree'
      /\ NoFreePageIsLost' /\ ListsMatchStatus' /\ UsersHold'
      /\ ActiveInTransitionIsTrimmed' /\ TrimmerHolds' /\ MappingMatchesPte'
  BY <1>1
  DEF PtesNameTheirFrames, PfnsNameTheirPtes, FreePagesAreFree, NoFreePageIsLost,
      ListsMatchStatus, UsersHold, ActiveInTransitionIsTrimmed, TrimmerHolds,
      MappingMatchesPte, UserHolds, FaultsOnPte, SoftFaultHolds, HardFaultHolds,
      StealHolds, MappingMatches
<1>. QED BY <1>2, <1>3, <1>4 DEF IndInv

\* A slot moves from the stash to the writer.
LEMMA WriteCopyPreserves ==
    ASSUME IndInv, WriteCopy
    PROVE  IndInv'
<1>. USE DEF WriteCopy, tables, lists, user, trimmer
<1>1. /\ TypeOK /\ PtesNameTheirFrames /\ PfnsNameTheirPtes /\ FreePagesAreFree
      /\ NoFreePageIsLost /\ ListsMatchStatus /\ UsersHold
      /\ ActiveInTransitionIsTrimmed /\ TrimmerHolds /\ WriterHolds
      /\ MappingMatchesPte
  BY DEF IndInv
<1>2. TypeOK'
  BY <1>1 DEF TypeOK, WriterHolds, PteState, PfnState, UserPoints, Threads, Data
<1>3. WriterHolds'
  BY <1>1 DEF TypeOK, WriterHolds
<1>4. /\ PtesNameTheirFrames' /\ PfnsNameTheirPtes' /\ FreePagesAreFree'
      /\ NoFreePageIsLost' /\ ListsMatchStatus' /\ UsersHold'
      /\ ActiveInTransitionIsTrimmed' /\ TrimmerHolds' /\ MappingMatchesPte'
  BY <1>1
  DEF PtesNameTheirFrames, PfnsNameTheirPtes, FreePagesAreFree, NoFreePageIsLost,
      ListsMatchStatus, UsersHold, ActiveInTransitionIsTrimmed, TrimmerHolds,
      MappingMatchesPte, UserHolds, FaultsOnPte, SoftFaultHolds, HardFaultHolds,
      StealHolds, MappingMatches
<1>. QED BY <1>2, <1>3, <1>4 DEF IndInv

\* The status was checked under the PFN lock: the page is still in transition.
LEMMA WriteCommitPreserves ==
    ASSUME IndInv, WriteCommit
    PROVE  IndInv'
<1>. USE DEF WriteCommit, lists, memory, disk, user, trimmer, PfnStandby,
             AfterPage, StillMidWrite
<1>1. /\ TypeOK /\ PtesNameTheirFrames /\ PfnsNameTheirPtes /\ FreePagesAreFree
      /\ NoFreePageIsLost /\ ListsMatchStatus /\ ActiveInTransitionIsTrimmed
      /\ TrimmerHolds /\ WriterHolds /\ MappingMatchesPte
  BY DEF IndInv
<1>2. TypeOK'
  <2>1. cur \in Frames /\ curSlot \in Slots
    BY <1>1 DEF WriterHolds
  <2>2. pfnLock' \in [Frames -> Threads \cup {Nil}]
    BY <1>1, <2>1 DEF TypeOK, Threads
  <2>3. pfn' \in [Frames -> PfnState]
    BY <1>1, <2>1, PfnStays DEF TypeOK
  <2>4. written' \in SUBSET Frames /\ cur' \in Frames \cup {Nil} /\ curSlot' \in Slots \cup {Nil}
    BY <1>1, <2>1 DEF TypeOK
  <2>5. wpc' \in {"idle", "gather", "copy", "relock", "insert", "unlock"}
    BY DEF AfterPage
  <2>. QED BY <1>1, <2>2, <2>3, <2>4, <2>5 DEF TypeOK
<1>3. PtesNameTheirFrames'
  BY <1>1 DEF PtesNameTheirFrames
<1>4. PfnsNameTheirPtes'
  BY <1>1 DEF TypeOK, WriterHolds, PfnsNameTheirPtes
<1>5. FreePagesAreFree'
  BY <1>1 DEF FreePagesAreFree
<1>6. NoFreePageIsLost'
  BY <1>1 DEF NoFreePageIsLost
<1>7. ListsMatchStatus'
  BY <1>1 DEF ListsMatchStatus
<1>8. ActiveInTransitionIsTrimmed'
  BY <1>1 DEF ActiveInTransitionIsTrimmed
<1>9. TrimmerHolds'
  BY <1>1 DEF TrimmerHolds
<1>10. WriterHolds'
  BY <1>1 DEF TypeOK, WriterHolds, ListsMatchStatus
<1>11. ASSUME NEW w \in Users PROVE UserHolds(w)'
  <2>1. FaultsOnPte(w) /\ SoftFaultHolds(w) /\ HardFaultHolds(w) /\ StealHolds(w)
    BY <1>11 DEF IndInv, UsersHold, UserHolds
  <2>. QED BY <1>1, <1>11, <2>1, DistinctAssumption
         DEF UserHolds, SoftFaultHolds, HardFaultHolds, StealHolds, FaultsOnPte
<1>12. MappingMatchesPte'
  BY <1>1 DEF MappingMatchesPte, MappingMatches
<1>. QED BY <1>2, <1>3, <1>4, <1>5, <1>6, <1>7, <1>8, <1>9, <1>10, <1>11, <1>12 DEF IndInv, UsersHold

\* Only the slot's bit changes.
LEMMA WriteAbandonPreserves ==
    ASSUME IndInv, WriteAbandon
    PROVE  IndInv'
<1>. USE DEF WriteAbandon, tables, lists, memory, user, trimmer, AfterPage,
             StillMidWrite
<1>1. /\ TypeOK /\ PtesNameTheirFrames /\ PfnsNameTheirPtes /\ FreePagesAreFree
      /\ NoFreePageIsLost /\ ListsMatchStatus /\ UsersHold
      /\ ActiveInTransitionIsTrimmed /\ TrimmerHolds /\ WriterHolds
      /\ MappingMatchesPte
  BY DEF IndInv
<1>2. TypeOK'
  BY <1>1 DEF TypeOK, PteState, PfnState, UserPoints, Threads, Data
<1>3. WriterHolds'
  BY <1>1 DEF WriterHolds
<1>4. /\ PtesNameTheirFrames' /\ PfnsNameTheirPtes' /\ FreePagesAreFree'
      /\ NoFreePageIsLost' /\ ListsMatchStatus' /\ UsersHold'
      /\ ActiveInTransitionIsTrimmed' /\ TrimmerHolds' /\ MappingMatchesPte'
  BY <1>1
  DEF PtesNameTheirFrames, PfnsNameTheirPtes, FreePagesAreFree, NoFreePageIsLost,
      ListsMatchStatus, UsersHold, ActiveInTransitionIsTrimmed, TrimmerHolds,
      MappingMatchesPte, UserHolds, FaultsOnPte, SoftFaultHolds, HardFaultHolds,
      StealHolds, MappingMatches
<1>. QED BY <1>2, <1>3, <1>4 DEF IndInv

\* The written pages join the standby list under their locks.
LEMMA WriteInsertPreserves ==
    ASSUME IndInv, WriteInsert
    PROVE  IndInv'
<1>. USE DEF WriteInsert, tables, memory, disk, user, trimmer
<1>1. /\ TypeOK /\ PtesNameTheirFrames /\ PfnsNameTheirPtes /\ FreePagesAreFree
      /\ NoFreePageIsLost /\ ListsMatchStatus /\ ActiveInTransitionIsTrimmed
      /\ TrimmerHolds /\ WriterHolds /\ MappingMatchesPte
  BY DEF IndInv
<1>2. TypeOK'
  BY <1>1 DEF TypeOK, PteState, PfnState, UserPoints, Threads, Data
<1>3. ListsMatchStatus'
  BY <1>1 DEF TypeOK, WriterHolds, ListsMatchStatus
<1>4. WriterHolds'
  BY <1>1 DEF WriterHolds
<1>5. ASSUME NEW w \in Users PROVE UserHolds(w)'
  <2>1. FaultsOnPte(w) /\ SoftFaultHolds(w) /\ HardFaultHolds(w) /\ StealHolds(w)
    BY <1>5 DEF IndInv, UsersHold, UserHolds
  <2>. QED BY <1>1, <1>5, <2>1, DistinctAssumption
         DEF UserHolds, TypeOK, WriterHolds, FaultsOnPte, SoftFaultHolds, UserPoints,
             SoftLocked, StealHolds, HardFaultHolds
<1>6. /\ PtesNameTheirFrames' /\ PfnsNameTheirPtes' /\ FreePagesAreFree'
      /\ NoFreePageIsLost' /\ ActiveInTransitionIsTrimmed' /\ TrimmerHolds'
      /\ MappingMatchesPte'
  BY <1>1
  DEF PtesNameTheirFrames, PfnsNameTheirPtes, FreePagesAreFree, NoFreePageIsLost,
      ActiveInTransitionIsTrimmed, TrimmerHolds, MappingMatchesPte, MappingMatches
<1>. QED BY <1>2, <1>3, <1>4, <1>5, <1>6 DEF IndInv, UsersHold

\* The page is on the standby list by now.
LEMMA WriteUnlockPreserves ==
    ASSUME IndInv, WriteUnlock
    PROVE  IndInv'
<1>. USE DEF WriteUnlock, lists, memory, disk, user, trimmer
<1>1. /\ TypeOK /\ PtesNameTheirFrames /\ PfnsNameTheirPtes /\ FreePagesAreFree
      /\ NoFreePageIsLost /\ ListsMatchStatus /\ ActiveInTransitionIsTrimmed
      /\ TrimmerHolds /\ WriterHolds /\ MappingMatchesPte
  BY DEF IndInv
<1>2. TypeOK'
  BY <1>1 DEF TypeOK, PteState, PfnState, UserPoints, Threads, Data
<1>3. FreePagesAreFree'
  BY <1>1 DEF FreePagesAreFree
<1>4. TrimmerHolds'
  BY <1>1 DEF TypeOK, WriterHolds, TrimmerHolds
<1>5. WriterHolds'
  BY <1>1 DEF WriterHolds
<1>6. ASSUME NEW w \in Users PROVE UserHolds(w)'
  <2>1. FaultsOnPte(w) /\ SoftFaultHolds(w) /\ HardFaultHolds(w) /\ StealHolds(w)
    BY <1>6 DEF IndInv, UsersHold, UserHolds
  <2>. QED BY <1>1, <1>6, <2>1, DistinctAssumption
         DEF UserHolds, TypeOK, WriterHolds, FaultsOnPte, SoftFaultHolds, UserPoints,
             HardFaultHolds, StealHolds
<1>7. /\ PtesNameTheirFrames' /\ PfnsNameTheirPtes' /\ NoFreePageIsLost'
      /\ ListsMatchStatus' /\ ActiveInTransitionIsTrimmed' /\ MappingMatchesPte'
  BY <1>1
  DEF PtesNameTheirFrames, PfnsNameTheirPtes, NoFreePageIsLost, ListsMatchStatus,
      ActiveInTransitionIsTrimmed, MappingMatchesPte, MappingMatches
<1>. QED BY <1>2, <1>3, <1>4, <1>5, <1>6, <1>7 DEF IndInv, UsersHold

-----------------------------------------------------------------------------
(* The invariant and what follows from it.                                 *)

\* In the initial states nothing is held and every page is free.
LEMMA InitEstablishes == ASSUME Init PROVE IndInv
<1>. USE DEF Init
<1>1. TypeOK
  <2>1. free \in SUBSET Frames /\ cache \in [Users -> SUBSET Frames]
    OBVIOUS
  <2>2. writeBatch \in Seq(Frames) /\ target \in 0..MaxWriteBatch
    BY BatchAssumption
  <2>3. pte \in [Ptes -> PteState] /\ pfn \in [Frames -> PfnState]
    BY DEF PteState, PfnState, ZeroPte, PfnFree
  <2>. QED BY <2>1, <2>2, <2>3 DEF TypeOK, UserPoints, Data, Threads
<1>2. PtesNameTheirFrames /\ PfnsNameTheirPtes
  BY DEF PtesNameTheirFrames, PfnsNameTheirPtes, ZeroPte, PfnFree
<1>3. FreePagesAreFree /\ NoFreePageIsLost
  BY DEF FreePagesAreFree, NoFreePageIsLost, PfnFree
<1>4. ListsMatchStatus
  BY DEF ListsMatchStatus
<1>5. UsersHold
  BY DEF UsersHold, UserHolds, FaultsOnPte, SoftFaultHolds, HardFaultHolds, StealHolds,
         InHandler, SoftLocked, HardHeld, Filling
<1>6. TrimmerHolds /\ ActiveInTransitionIsTrimmed /\ WriterHolds
  BY DEF TrimmerHolds, ActiveInTransitionIsTrimmed, WriterHolds, ZeroPte
<1>7. MappingMatchesPte
  BY DEF MappingMatchesPte, MappingMatches, ZeroPte
<1>. QED BY <1>1, <1>2, <1>3, <1>4, <1>5, <1>6, <1>7 DEF IndInv

\* Every step of a user thread preserves the invariant.
LEMMA UserStepPreserves == ASSUME IndInv, NEW u \in Users, UserStep(u) PROVE IndInv'
  BY RequestPreserves, StorePreserves, FaultPreserves, DispatchPreserves,
     SoftLockPtePreserves, SoftLockPfnPreserves, SoftUnlistPreserves,
     SoftMapPreserves, SoftDonePreserves, TakeCachedPreserves,
     RefillCachePreserves, RefillFailsPreserves, StealBeginPreserves,
     StealFailsPreserves, StealPagePreserves, HardLockPtePreserves,
     HardGiveBackPreserves, HardFillPreserves, HardDonePreserves
  DEF UserStep

\* Every step preserves the invariant.
LEMMA StepPreserves == ASSUME IndInv, [OrderlyNext]_vars PROVE IndInv'
<1>1. CASE \E u \in Users : UserStep(u)
  BY <1>1, UserStepPreserves
<1>2. CASE TrimmerStep
  BY <1>2, TrimPickPreserves, TrimLockPtePreserves, TrimLockPfnPreserves, TrimUnmapPreserves,
     TrimInsertPreserves, TrimUnlockPreserves DEF TrimmerStep
<1>3. CASE WriterStep
  BY <1>3, WriteBeginPreserves, WriteGatherPreserves, WriteStartPreserves,
     WriteCopyPreserves, WriteCommitPreserves, WriteAbandonPreserves,
     WriteInsertPreserves, WriteUnlockPreserves DEF WriterStep
<1>4. CASE UNCHANGED vars
  <2>. USE <1>4 DEF vars
  <2>1. TypeOK'
    BY DEF IndInv, TypeOK
  <2>2. PtesNameTheirFrames' /\ PfnsNameTheirPtes' /\ FreePagesAreFree' /\ NoFreePageIsLost'
    BY DEF IndInv, PtesNameTheirFrames, PfnsNameTheirPtes, FreePagesAreFree, NoFreePageIsLost
  <2>3. ListsMatchStatus' /\ TrimmerHolds' /\ ActiveInTransitionIsTrimmed' /\ WriterHolds'
    BY DEF IndInv, ListsMatchStatus, TrimmerHolds, ActiveInTransitionIsTrimmed, WriterHolds
  <2>4. UsersHold'
    BY DEF IndInv, UsersHold, UserHolds, FaultsOnPte, SoftFaultHolds, HardFaultHolds,
           StealHolds
  <2>5. MappingMatchesPte'
    BY DEF IndInv, MappingMatchesPte, MappingMatches
  <2>. QED BY <2>1, <2>2, <2>3, <2>4, <2>5 DEF IndInv
<1>. QED BY <1>1, <1>2, <1>3, <1>4 DEF OrderlyNext

\* In every reachable state of every instance, the PTEs, the PFNs, the lists, the
\* locks and the threads' program points agree as IndInv says.
THEOREM InductiveInvariant == OrderlySpec => []IndInv
<1>1. Init => IndInv
  BY InitEstablishes
<1>2. IndInv /\ [OrderlyNext]_vars => IndInv'
  BY StepPreserves
<1>. QED BY <1>1, <1>2, PTL DEF OrderlySpec

-----------------------------------------------------------------------------
(* What follows from it.                                                   *)

\* Every variable keeps its type: no PFN lock has an owner that is not a thread,
\* no frame number is a disk index, no write batch outgrows its bound.
THEOREM TypeCorrect == OrderlySpec => []TypeOK
<1>1. IndInv => TypeOK
  BY DEF IndInv
<1>. QED BY <1>1, InductiveInvariant, PTL

\* A free frame is on a free list, in a cache or in a thread's hands, never in two.
LEMMA FreeFrameHasOneHome ==
    ASSUME IndInv, NEW f \in Frames, pfn[f].status = "FREE"
    PROVE  \E x : Homes(f) = {x}
<1>1. /\ PtesNameTheirFrames /\ FreePagesAreFree /\ NoFreePageIsLost
      /\ \A u \in Users : HardFaultHolds(u)
  BY DEF IndInv, UsersHold, UserHolds
<1>2. \A p \in Ptes : ~(pte[p].fmt \in {"valid", "transition"} /\ pte[p].ref = f)
  BY <1>1 DEF PtesNameTheirFrames
<1>3. \A u \in Users : pc[u] \in HardHeld /\ page[u] = f => pfnLock[f] = u
  BY <1>1 DEF HardFaultHolds
<1>4. CASE f \in free
  <2>1. \A u \in Users : f \notin cache[u]
    BY <1>1, <1>4 DEF FreePagesAreFree
  <2>2. \A u \in Users : ~(pc[u] \in HardHeld /\ page[u] = f)
    BY <1>1, <1>3, <1>4, DistinctAssumption DEF FreePagesAreFree
  <2>3. Homes(f) = {<<"free", "list">>}
    BY <1>2, <1>4, <2>1, <2>2 DEF Homes
  <2>. QED BY <2>3
<1>5. CASE \E u \in Users : f \in cache[u]
  <2>1. PICK u \in Users : f \in cache[u]
    BY <1>5
  <2>2. f \notin free /\ \A w \in Users : f \in cache[w] => w = u
    BY <1>1, <2>1 DEF FreePagesAreFree
  <2>3. \A w \in Users : ~(pc[w] \in HardHeld /\ page[w] = f)
    BY <1>1, <1>3, <2>1, DistinctAssumption DEF FreePagesAreFree
  <2>4. Homes(f) = {<<"cache", u>>}
    BY <1>2, <2>1, <2>2, <2>3 DEF Homes
  <2>. QED BY <2>4
<1>6. CASE \E u \in Users : pc[u] \in HardHeld /\ page[u] = f
  <2>1. PICK u \in Users : pc[u] \in HardHeld /\ page[u] = f
    BY <1>6
  <2>2. pfnLock[f] = u /\ \A w \in Users : pc[w] \in HardHeld /\ page[w] = f => w = u
    BY <1>3, <2>1
  <2>3. f \notin free /\ \A w \in Users : f \notin cache[w]
    BY <1>1, <2>2, DistinctAssumption DEF FreePagesAreFree
  <2>4. Homes(f) = {<<"held", u>>}
    BY <1>2, <2>1, <2>2, <2>3 DEF Homes
  <2>. QED BY <2>4
<1>. QED BY <1>1, <1>4, <1>5, <1>6 DEF NoFreePageIsLost

\* A frame in use is at home in the PTE that its PFN names.
LEMMA UsedFrameHasOneHome ==
    ASSUME IndInv, NEW f \in Frames, pfn[f].status # "FREE"
    PROVE  Homes(f) = {<<"pte", pfn[f].pte>>}
<1>1. /\ PtesNameTheirFrames /\ PfnsNameTheirPtes /\ FreePagesAreFree
      /\ \A u \in Users : HardFaultHolds(u)
  BY DEF IndInv, UsersHold, UserHolds
<1>2. /\ pfn[f].pte \in Ptes
      /\ pte[pfn[f].pte].fmt \in {"valid", "transition"}
      /\ pte[pfn[f].pte].ref = f
  BY <1>1 DEF PfnsNameTheirPtes
<1>3. \A p \in Ptes : pte[p].fmt \in {"valid", "transition"} /\ pte[p].ref = f
                         => p = pfn[f].pte
  BY <1>1 DEF PtesNameTheirFrames
<1>4. f \notin free /\ \A u \in Users : f \notin cache[u]
  BY <1>1 DEF FreePagesAreFree
<1>5. \A u \in Users : ~(pc[u] \in HardHeld /\ page[u] = f)
  BY <1>1 DEF HardFaultHolds
<1>. QED BY <1>2, <1>3, <1>4, <1>5 DEF Homes

\* No frame is ever lost and none is ever in two places, for any number of
\* threads, pages and slots: PTEs, caches and free lists partition the frames.
THEOREM FramesHaveOneHome == OrderlySpec => []FrameHasOneHome
<1>1. ASSUME IndInv PROVE FrameHasOneHome
  <2>1. SUFFICES ASSUME NEW f \in Frames PROVE Cardinality(Homes(f)) = 1
    BY DEF FrameHasOneHome
  <2>2. \E x : Homes(f) = {x}
    BY <1>1, FreeFrameHasOneHome, UsedFrameHasOneHome
  <2>. QED BY <2>2, FS_Singleton
<1>. QED BY <1>1, InductiveInvariant, PTL

\* An address is mapped only to its own frame, and always when its PTE is valid.
THEOREM MappingIsRight == OrderlySpec => []MappedToOwnFrame
<1>1. IndInv => MappedToOwnFrame
  BY DEF IndInv, MappingMatchesPte, MappingMatches, MappedToOwnFrame, Filling
<1>. QED BY <1>1, InductiveInvariant, PTL

\* The page the trimmer locks is the active page of the PTE it chose, although it
\* read the PTE's format before it locked the PTE.
THEOREM TrimmerFindsActivePage == OrderlySpec => []TrimmedPageIsActive
<1>1. ASSUME IndInv PROVE TrimmedPageIsActive
  <2>1. TypeOK /\ PtesNameTheirFrames /\ TrimmerHolds
    BY <1>1 DEF IndInv
  <2>. QED BY <2>1
         DEF TypeOK, PteState, ValidPte, PtesNameTheirFrames, TrimmerHolds,
             TrimmedPageIsActive
<1>. QED BY <1>1, InductiveInvariant, PTL

\* A behaviour in which no removal gives up is orderly: no thread is ever in a walk.
THEOREM OrderlyUnlessARemovalGivesUp == Spec /\ [][~RemovalGivesUp]_vars => OrderlySpec
<1>1. Init => IndInv
  BY InitEstablishes
<1>2. ASSUME IndInv, [Next]_vars, [~RemovalGivesUp]_vars PROVE [OrderlyNext]_vars
  <2>1. \A u \in Users : pc[u] # "stealWalk"
    BY <1>2 DEF IndInv, TypeOK, UserPoints
  <2>2. wpc # "walk"
    BY <1>2 DEF IndInv, TypeOK
  <2>. QED BY <1>2, <2>1, <2>2 DEF Next, StealWalk, StealDetach, WriteWalk, WriteDetach
<1>3. IndInv /\ [OrderlyNext]_vars => IndInv'
  BY StepPreserves
<1>. QED BY <1>1, <1>2, <1>3, PTL DEF Spec, OrderlySpec

\* resolve_soft_fault's assertions (page_fault_handler.c:80, 89, 113) hold whenever it gets
\* the PFN lock it waited for, as long as no removal from a list gives up and lists do not
\* lose links (soft faults take their pages off at once); the run core_notes shows that one
\* removal that gives up makes them fail.
THEOREM SoftFaultAssertionsHold == Spec /\ [][~RemovalGivesUp]_vars => []SoftFaultAssertions
<1>1. ASSUME IndInv PROVE SoftFaultAssertions
  <2>1. SUFFICES ASSUME NEW u \in Users, pc[u] = "softLockPfn", pfnLock[page[u]] = Nil,
                        pte[va[u]].fmt # "disk"
                 PROVE  /\ pte[va[u]].fmt = "transition"
                        /\ pfn[page[u]].status \in {"MODIFIED", "MID_WRITE", "STANDBY"}
    BY DEF SoftFaultAssertions
  <2>2. /\ TypeOK /\ PtesNameTheirFrames /\ TrimmerHolds /\ ActiveInTransitionIsTrimmed
        /\ FaultsOnPte(u) /\ SoftFaultHolds(u)
    BY <1>1 DEF IndInv, UsersHold, UserHolds
  <2>3. va[u] \in Ptes /\ page[u] \in Frames /\ pte[va[u]] = TransitionPte(page[u])
    BY <2>1, <2>2 DEF FaultsOnPte, SoftFaultHolds, InHandler
  <2>4. pfn[page[u]].pte = va[u] /\ pfn[page[u]].status # "FREE"
    BY <2>2, <2>3 DEF PtesNameTheirFrames, TransitionPte
  <2>5. ASSUME pfn[page[u]].status = "ACTIVE" PROVE FALSE
    <3>1. [va |-> va[u], page |-> page[u]] \in trimBatch
      BY <2>2, <2>3, <2>5 DEF ActiveInTransitionIsTrimmed, TransitionPte
    <3>2. pfnLock[page[u]] = Trimmer
      BY <2>2, <3>1 DEF TrimmerHolds
    <3>. QED BY <2>1, <3>2, DistinctAssumption
  <2>. QED BY <2>2, <2>3, <2>4, <2>5 DEF TypeOK, PfnState, TransitionPte
<1>. QED BY <1>1, InductiveInvariant, OrderlyUnlessARemovalGivesUp, PTL

-----------------------------------------------------------------------------
(* Locks: who holds them, and who waits for whom.                          *)

\* A fault handler holds a lock only for the PTE and the page it works on, or for the
\* pages it steals, and keeps none when it goes on to something else.
LEMMA UserKeepsLocks ==
    ASSUME IndInv, LocksAreHeld, NEW u \in Users, UserStep(u)
    PROVE  LocksAreHeld'
<1>. USE DistinctAssumption DEF tables, lists, memory, disk, user, trimmer, writer
<1>1. /\ TypeOK /\ FaultsOnPte(u) /\ SoftFaultHolds(u) /\ HardFaultHolds(u) /\ StealHolds(u)
      /\ FreePagesAreFree /\ TrimmerHolds /\ WriterHolds
  BY DEF IndInv, UsersHold, UserHolds
<1>2. CASE Request(u)
  BY <1>1, <1>2
  DEF Request, LocksAreHeld, PteHeld, PfnHeld, TypeOK, SoftLocked, HardHeld, Filling,
      FaultsOnPte, InHandler, SoftFaultHolds, HardFaultHolds, StealHolds, FreePagesAreFree,
      UserPoints, Threads, Unlocked, BatchesOf
<1>3. CASE Store(u)
  BY <1>1, <1>3
  DEF Store, LocksAreHeld, PteHeld, PfnHeld, TypeOK, SoftLocked, HardHeld, Filling,
      FaultsOnPte, InHandler, SoftFaultHolds, HardFaultHolds, StealHolds, FreePagesAreFree,
      UserPoints, Threads, Unlocked, BatchesOf
<1>4. CASE Fault(u)
  BY <1>1, <1>4
  DEF Fault, LocksAreHeld, PteHeld, PfnHeld, TypeOK, SoftLocked, HardHeld, Filling,
      FaultsOnPte, InHandler, SoftFaultHolds, HardFaultHolds, StealHolds, FreePagesAreFree,
      UserPoints, Threads, Unlocked, BatchesOf
<1>5. CASE Dispatch(u)
  BY <1>1, <1>5
  DEF Dispatch, LocksAreHeld, PteHeld, PfnHeld, TypeOK, SoftLocked, HardHeld, Filling,
      FaultsOnPte, InHandler, SoftFaultHolds, HardFaultHolds, StealHolds, FreePagesAreFree,
      UserPoints, Threads, Unlocked, BatchesOf
<1>6. CASE SoftLockPte(u)
  <2>1. CASE UNCHANGED pteLock
    BY <1>1, <1>6, <2>1
    DEF SoftLockPte, LocksAreHeld, PteHeld, PfnHeld, TypeOK, SoftLocked, HardHeld, Filling,
        UserPoints
  <2>2. CASE pteLock' = [pteLock EXCEPT ![va[u]] = u] /\ pc' = [pc EXCEPT ![u] = "softLockPfn"]
    <3>1. UNCHANGED <<pfnLock, batch, trimBatch, written, va>>
      BY <1>6 DEF SoftLockPte
    <3>2. \A w \in Users : w # u => pc'[w] = pc[w] /\ page'[w] = page[w]
      BY <1>1, <1>6 DEF SoftLockPte, TypeOK
    <3>3. pc[u] = "soft" /\ pc'[u] = "softLockPfn"
      BY <1>1, <1>6, <2>2 DEF SoftLockPte, TypeOK
    <3>4. \A p \in Ptes, w \in Users : pteLock'[p] = w => PteHeld(w, p)'
      BY <1>1, <2>2, <3>1, <3>2, <3>3 DEF LocksAreHeld, PteHeld, TypeOK
    <3>5. \A f \in Frames, w \in Users : pfnLock'[f] = w => PfnHeld(w, f)'
      BY <3>1, <3>2, <3>3 DEF LocksAreHeld, PfnHeld, SoftLocked, HardHeld
    <3>. QED BY <3>1, <3>4, <3>5 DEF LocksAreHeld
  <2>. QED BY <1>6, <2>1, <2>2 DEF SoftLockPte
<1>7. CASE SoftLockPfn(u)
  <2>1. /\ UNCHANGED <<batch, trimBatch, written, va>>
        /\ pc[u] = "softLockPfn" /\ pc'[u] \in {"fault", "softMap", "softUnlist"}
        /\ \A w \in Users : w # u => pc'[w] = pc[w] /\ page'[w] = page[w]
    BY <1>1, <1>7 DEF SoftLockPfn, TypeOK
  <2>2. CASE /\ pteLock' = [pteLock EXCEPT ![va[u]] = Nil] /\ UNCHANGED pfnLock
    <3>1. \A p \in Ptes, w \in Users : pteLock'[p] = w => pteLock[p] = w /\ p # va[u]
      BY <1>1, <2>2 DEF TypeOK
    <3>2. \A p \in Ptes, w \in Users : pteLock'[p] = w => PteHeld(w, p)'
      BY <2>1, <3>1 DEF LocksAreHeld, PteHeld
    <3>3. \A f \in Frames, w \in Users : pfnLock'[f] = w => PfnHeld(w, f)'
      BY <2>1, <2>2 DEF LocksAreHeld, PfnHeld, SoftLocked, HardHeld
    <3>. QED BY <2>1, <2>2, <3>2, <3>3 DEF LocksAreHeld
  <2>3. CASE /\ pfnLock' = [pfnLock EXCEPT ![page[u]] = u] /\ UNCHANGED <<pteLock, page>>
             /\ pc'[u] # "fault"
    <3>1. \A f \in Frames : pfnLock'[f] = IF f = page[u] THEN u ELSE pfnLock[f]
      BY <1>1, <2>3 DEF TypeOK
    <3>2. \A p \in Ptes, w \in Users : pteLock'[p] = w => PteHeld(w, p)'
      BY <2>1, <2>3 DEF LocksAreHeld, PteHeld, SoftLocked
    <3>3. \A f \in Frames, w \in Users : pfnLock'[f] = w => PfnHeld(w, f)'
      BY <2>1, <2>3, <3>1 DEF LocksAreHeld, PfnHeld, SoftLocked, HardHeld
    <3>4. u # Trimmer /\ u # Writer
      OBVIOUS
    <3>. QED BY <2>1, <3>1, <3>2, <3>3, <3>4 DEF LocksAreHeld
  <2>. QED BY <1>1, <1>7, <2>2, <2>3 DEF SoftLockPfn, TypeOK
<1>8. CASE SoftUnlist(u)
  BY <1>1, <1>8
  DEF SoftUnlist, LocksAreHeld, PteHeld, PfnHeld, TypeOK, SoftLocked, HardHeld, Filling,
      FaultsOnPte, InHandler, SoftFaultHolds, HardFaultHolds, StealHolds, FreePagesAreFree,
      UserPoints, Threads, Unlocked, BatchesOf
<1>9. CASE SoftMap(u)
  BY <1>1, <1>9
  DEF SoftMap, LocksAreHeld, PteHeld, PfnHeld, TypeOK, SoftLocked, HardHeld, Filling,
      FaultsOnPte, InHandler, SoftFaultHolds, HardFaultHolds, StealHolds, FreePagesAreFree,
      UserPoints, Threads, Unlocked, BatchesOf
<1>10. CASE SoftDone(u)
  BY <1>1, <1>10
  DEF SoftDone, LocksAreHeld, PteHeld, PfnHeld, TypeOK, SoftLocked, HardHeld, Filling,
      FaultsOnPte, InHandler, SoftFaultHolds, HardFaultHolds, StealHolds, FreePagesAreFree,
      UserPoints, Threads, Unlocked, BatchesOf
<1>11. CASE TakeCached(u)
  BY <1>1, <1>11
  DEF TakeCached, LocksAreHeld, PteHeld, PfnHeld, TypeOK, SoftLocked, HardHeld, Filling,
      FaultsOnPte, InHandler, SoftFaultHolds, HardFaultHolds, StealHolds, FreePagesAreFree,
      UserPoints, Threads, Unlocked, BatchesOf
<1>12. CASE RefillCache(u)
  BY <1>1, <1>12
  DEF RefillCache, LocksAreHeld, PteHeld, PfnHeld, TypeOK, SoftLocked, HardHeld, Filling,
      FaultsOnPte, InHandler, SoftFaultHolds, HardFaultHolds, StealHolds, FreePagesAreFree,
      UserPoints, Threads, Unlocked, BatchesOf
<1>13. CASE RefillFails(u)
  BY <1>1, <1>13
  DEF RefillFails, LocksAreHeld, PteHeld, PfnHeld, TypeOK, SoftLocked, HardHeld, Filling,
      FaultsOnPte, InHandler, SoftFaultHolds, HardFaultHolds, StealHolds, FreePagesAreFree,
      UserPoints, Threads, Unlocked, BatchesOf
<1>14. CASE StealBegin(u)
  BY <1>1, <1>14
  DEF StealBegin, LocksAreHeld, PteHeld, PfnHeld, TypeOK, SoftLocked, HardHeld, Filling,
      FaultsOnPte, InHandler, SoftFaultHolds, HardFaultHolds, StealHolds, FreePagesAreFree,
      UserPoints, Threads, Unlocked, BatchesOf
<1>15. CASE StealFails(u)
  BY <1>1, <1>15
  DEF StealFails, LocksAreHeld, PteHeld, PfnHeld, TypeOK, SoftLocked, HardHeld, Filling,
      FaultsOnPte, InHandler, SoftFaultHolds, HardFaultHolds, StealHolds, FreePagesAreFree,
      UserPoints, Threads, Unlocked, BatchesOf
<1>16. CASE StealPage(u)
  BY <1>1, <1>16
  DEF StealPage, LocksAreHeld, PteHeld, PfnHeld, TypeOK, SoftLocked, HardHeld, Filling,
      FaultsOnPte, InHandler, SoftFaultHolds, HardFaultHolds, StealHolds, FreePagesAreFree,
      UserPoints, Threads, Unlocked, BatchesOf
<1>17. CASE HardLockPte(u)
  BY <1>1, <1>17
  DEF HardLockPte, LocksAreHeld, PteHeld, PfnHeld, TypeOK, SoftLocked, HardHeld, Filling,
      FaultsOnPte, InHandler, SoftFaultHolds, HardFaultHolds, StealHolds, FreePagesAreFree,
      UserPoints, Threads, Unlocked, BatchesOf
<1>18. CASE HardGiveBack(u)
  BY <1>1, <1>18
  DEF HardGiveBack, LocksAreHeld, PteHeld, PfnHeld, TypeOK, SoftLocked, HardHeld, Filling,
      FaultsOnPte, InHandler, SoftFaultHolds, HardFaultHolds, StealHolds, FreePagesAreFree,
      UserPoints, Threads, Unlocked, BatchesOf
<1>19. CASE HardFill(u)
  BY <1>1, <1>19
  DEF HardFill, LocksAreHeld, PteHeld, PfnHeld, TypeOK, SoftLocked, HardHeld, Filling,
      FaultsOnPte, InHandler, SoftFaultHolds, HardFaultHolds, StealHolds, FreePagesAreFree,
      UserPoints, Threads, Unlocked, BatchesOf
<1>20. CASE HardDone(u)
  BY <1>1, <1>20
  DEF HardDone, LocksAreHeld, PteHeld, PfnHeld, TypeOK, SoftLocked, HardHeld, Filling,
      FaultsOnPte, InHandler, SoftFaultHolds, HardFaultHolds, StealHolds, FreePagesAreFree,
      UserPoints, Threads, Unlocked, BatchesOf
<1>. QED BY <1>2, <1>3, <1>4, <1>5, <1>6, <1>7, <1>8, <1>9, <1>10, <1>11, <1>12, <1>13,
            <1>14, <1>15, <1>16, <1>17, <1>18, <1>19, <1>20 DEF UserStep

\* Between two steps the trimmer holds the pages of its batch and no others.
LEMMA TrimmerKeepsLocks ==
    ASSUME IndInv, LocksAreHeld, TrimmerStep
    PROVE  LocksAreHeld'
<1>. USE DistinctAssumption DEF tables, lists, memory, disk, user, trimmer, writer
<1>1. TypeOK /\ TrimmerHolds /\ PtesNameTheirFrames
  BY DEF IndInv
<1>2. CASE TrimPick
  BY <1>1, <1>2
  DEF TrimPick, LocksAreHeld, PteHeld, PfnHeld, TypeOK, TrimmerHolds, PtesNameTheirFrames, Threads
<1>3. CASE TrimLockPte
  BY <1>1, <1>3
  DEF TrimLockPte, LocksAreHeld, PteHeld, PfnHeld, TypeOK, TrimmerHolds, PtesNameTheirFrames, Threads
<1>4. CASE TrimLockPfn
  <2>1. [va |-> trimPte, page |-> trimPage] \in trimBatch' /\ trimBatch \subseteq trimBatch'
    BY <1>4 DEF TrimLockPfn
  <2>2. /\ \A f \in Frames : pfnLock'[f] = IF f = trimPage THEN Trimmer ELSE pfnLock[f]
        /\ \A p \in Ptes : pteLock'[p] \in {pteLock[p], Nil}
        /\ UNCHANGED <<va, pc, page, batch, written>>
    BY <1>1, <1>4 DEF TrimLockPfn, TypeOK
  <2>. QED BY <2>1, <2>2 DEF LocksAreHeld, PteHeld, PfnHeld
<1>5. CASE TrimUnmap
  BY <1>1, <1>5
  DEF TrimUnmap, LocksAreHeld, PteHeld, PfnHeld, TypeOK, TrimmerHolds, PtesNameTheirFrames, Threads
<1>6. CASE TrimInsert
  BY <1>1, <1>6
  DEF TrimInsert, LocksAreHeld, PteHeld, PfnHeld, TypeOK, TrimmerHolds, PtesNameTheirFrames, Threads
<1>7. CASE TrimUnlock
  BY <1>1, <1>7
  DEF TrimUnlock, LocksAreHeld, PteHeld, PfnHeld, TypeOK, TrimmerHolds, PtesNameTheirFrames, Threads
<1>. QED BY <1>2, <1>3, <1>4, <1>5, <1>6, <1>7 DEF TrimmerStep

\* The writer holds the pages it has written and no others.
LEMMA WriterKeepsLocks ==
    ASSUME IndInv, LocksAreHeld, WriterStep
    PROVE  LocksAreHeld'
<1>. USE DistinctAssumption DEF tables, lists, memory, disk, user, trimmer, writer
<1>1. TypeOK /\ WriterHolds
  BY DEF IndInv
<1>2. CASE WriteBegin
  BY <1>1, <1>2
  DEF WriteBegin, LocksAreHeld, PteHeld, PfnHeld, TypeOK, WriterHolds, Threads
<1>3. CASE WriteGather
  BY <1>1, <1>3
  DEF WriteGather, LocksAreHeld, PteHeld, PfnHeld, TypeOK, WriterHolds, Threads
<1>4. CASE WriteStart
  BY <1>1, <1>4
  DEF WriteStart, LocksAreHeld, PteHeld, PfnHeld, TypeOK, WriterHolds, Threads
<1>5. CASE WriteCopy
  BY <1>1, <1>5
  DEF WriteCopy, LocksAreHeld, PteHeld, PfnHeld, TypeOK, WriterHolds, Threads
<1>6. CASE WriteCommit
  BY <1>1, <1>6
  DEF WriteCommit, LocksAreHeld, PteHeld, PfnHeld, TypeOK, WriterHolds, Threads
<1>7. CASE WriteAbandon
  BY <1>1, <1>7
  DEF WriteAbandon, LocksAreHeld, PteHeld, PfnHeld, TypeOK, WriterHolds, Threads
<1>8. CASE WriteInsert
  BY <1>1, <1>8
  DEF WriteInsert, LocksAreHeld, PteHeld, PfnHeld, TypeOK, WriterHolds, Threads
<1>9. CASE WriteUnlock
  BY <1>1, <1>9
  DEF WriteUnlock, LocksAreHeld, PteHeld, PfnHeld, TypeOK, WriterHolds, Threads
<1>. QED BY <1>2, <1>3, <1>4, <1>5, <1>6, <1>7, <1>8, <1>9 DEF WriterStep

\* The page of a valid PTE that the trimmer has locked is locked by nobody: a fault handler
\* has only pages that are free or on their way out, and so has the writer.
LEMMA TrimmerNeverWaits ==
    ASSUME IndInv, LocksAreHeld
    PROVE  WaitsFor(Trimmer) = Nil
<1>. USE DistinctAssumption
<1>1. TypeOK /\ TrimmerHolds /\ PtesNameTheirFrames /\ UsersHold /\ WriterHolds
  BY DEF IndInv
<1>2. CASE tpc # "lockPfn"
  BY <1>2 DEF WaitsFor
<1>3. CASE tpc = "lockPfn"
  <2>1. /\ trimPage \in Frames /\ pfn[trimPage].status = "ACTIVE" /\ pfn[trimPage].pte = trimPte
        /\ trimPte \in Ptes /\ pte[trimPte].fmt = "valid"
    BY <1>1, <1>3 DEF TrimmerHolds, PtesNameTheirFrames
  <2>2. ASSUME NEW u \in Users, pfnLock[trimPage] = u PROVE FALSE
    <3>1. PfnHeld(u, trimPage)
      BY <2>1, <2>2 DEF LocksAreHeld
    <3>2. SoftFaultHolds(u) /\ HardFaultHolds(u) /\ StealHolds(u) /\ FaultsOnPte(u)
      BY <1>1 DEF UsersHold, UserHolds
    <3>. QED BY <2>1, <3>1, <3>2
         DEF PfnHeld, SoftFaultHolds, HardFaultHolds, StealHolds
  <2>3. pfnLock[trimPage] # Trimmer
    <3>1. SUFFICES ASSUME NEW t \in trimBatch, t.page = trimPage PROVE FALSE
      BY <2>1 DEF LocksAreHeld
    <3>2. t.va \in Ptes /\ pte[t.va] = TransitionPte(trimPage) /\ pfn[trimPage].pte = t.va
      BY <1>1, <2>1, <3>1 DEF TypeOK, TrimmerHolds, PtesNameTheirFrames, TransitionPte
    <3>. QED BY <2>1, <3>2 DEF TransitionPte
  <2>4. pfnLock[trimPage] # Writer
    BY <1>1, <2>1 DEF LocksAreHeld, WriterHolds
  <2>5. WaitsFor(Trimmer) = pfnLock[trimPage]
    BY <1>3 DEF WaitsFor
  <2>. QED BY <1>1, <2>1, <2>2, <2>3, <2>4, <2>5 DEF TypeOK, Threads
<1>. QED BY <1>2, <1>3

\* Whoever holds the page that the writer waits for has all the locks it needs.
LEMMA WriterWaitsForNoWaiter ==
    ASSUME IndInv, LocksAreHeld, NEW t \in Threads, t = WaitsFor(Writer), t # Writer
    PROVE  WaitsFor(t) = Nil
<1>. USE DistinctAssumption
<1>1. TypeOK /\ UsersHold /\ WriterHolds
  BY DEF IndInv
<1>2. t = pfnLock[cur] /\ cur \in Frames
  BY <1>1 DEF WaitsFor, Threads, WriterHolds
<1>3. CASE t = Trimmer
  BY <1>3, TrimmerNeverWaits
<1>4. CASE t \in Users
  <2>1. PfnHeld(t, cur)
    BY <1>2, <1>4 DEF LocksAreHeld
  <2>2. StealHolds(t)
    BY <1>1, <1>4 DEF UsersHold, UserHolds
  <2>. QED BY <1>4, <2>1, <2>2 DEF PfnHeld, StealHolds, SoftLocked, HardHeld, WaitsFor
<1>. QED BY <1>3, <1>4 DEF Threads

\* A soft fault that has its PTE waits for the writer or for somebody who does not wait.
LEMMA PageWaiterWaitsForLater ==
    ASSUME IndInv, LocksAreHeld, NEW u \in Users, pc[u] = "softLockPfn",
           NEW t \in Threads, t = WaitsFor(u)
    PROVE  t = Writer \/ WaitsFor(t) = Nil
<1>. USE DistinctAssumption
<1>1. TypeOK /\ UsersHold
  BY DEF IndInv
<1>2. t = pfnLock[page[u]] /\ page[u] \in Frames
  BY <1>1 DEF WaitsFor, UsersHold, UserHolds, SoftFaultHolds
<1>3. CASE t = Trimmer
  BY <1>3, TrimmerNeverWaits
<1>4. CASE t \in Users
  <2>1. PfnHeld(t, page[u])
    BY <1>2, <1>4 DEF LocksAreHeld
  <2>2. StealHolds(t)
    BY <1>1, <1>4 DEF UsersHold, UserHolds
  <2>. QED BY <1>4, <2>1, <2>2 DEF PfnHeld, StealHolds, SoftLocked, HardHeld, WaitsFor
<1>. QED BY <1>3, <1>4 DEF Threads

\* One that has not waits for another fault handler that has, or for one that does not wait.
LEMMA PteWaiterWaitsForLater ==
    ASSUME IndInv, LocksAreHeld, NEW u \in Users, pc[u] = "soft",
           NEW t \in Threads, t = WaitsFor(u)
    PROVE  WaitsFor(t) = Nil \/ (t \in Users /\ pc[t] = "softLockPfn")
<1>. USE DistinctAssumption
<1>1. TypeOK /\ UsersHold
  BY DEF IndInv
<1>2. t = pteLock[va[u]] /\ va[u] \in Ptes
  BY <1>1 DEF WaitsFor, UsersHold, UserHolds, FaultsOnPte, InHandler
<1>3. CASE t = Trimmer
  BY <1>3, TrimmerNeverWaits
<1>4. CASE t \in Users
  <2>1. PteHeld(t, va[u])
    BY <1>2, <1>4 DEF LocksAreHeld
  <2>. QED BY <1>4, <2>1 DEF PteHeld, SoftLocked, Filling, WaitsFor
<1>. QED BY <1>1, <1>2, <1>3, <1>4 DEF TypeOK, Threads

\* So waiting leads from PTE to page, to the writer, and ends there.
LEMMA NobodyWaitsInACircle == IndInv /\ LocksAreHeld => NoCircularWait
<1>. USE DistinctAssumption
<1>1. SUFFICES ASSUME IndInv, LocksAreHeld, NEW S \in SUBSET Threads, S # {},
                      \A t \in S : WaitsFor(t) \in S \ {t}
               PROVE  FALSE
  BY DEF NoCircularWait
<1>2. Nil \notin S
  BY <1>1 DEF Threads
<1>3. Trimmer \notin S
  BY <1>1, <1>2, TrimmerNeverWaits
<1>4. Writer \notin S
  BY <1>1, <1>2, WriterWaitsForNoWaiter
<1>5. \A u \in Users : u \in S => pc[u] # "softLockPfn"
  BY <1>1, <1>2, <1>4, PageWaiterWaitsForLater
<1>6. \A u \in Users : u \in S => pc[u] # "soft"
  BY <1>1, <1>2, <1>5, PteWaiterWaitsForLater
<1>7. PICK u \in Users : u \in S
  BY <1>1, <1>3, <1>4 DEF Threads
<1>8. WaitsFor(u) = Nil
  BY <1>5, <1>6, <1>7 DEF WaitsFor
<1>. QED BY <1>1, <1>2, <1>7, <1>8

\* The owner of every lock is at a point where the code has a use for it, so that fault
\* handlers, trimmer and writer never wait for each other in a circle, whatever batches
\* they keep locked: no deadlock, but for the writer's own (NoRecursiveLock).
THEOREM NoDeadlock == OrderlySpec => []NoCircularWait
<1>1. Init => LocksAreHeld
  BY DistinctAssumption DEF Init, LocksAreHeld
<1>2. IndInv /\ LocksAreHeld /\ [OrderlyNext]_vars => LocksAreHeld'
  <2>. SUFFICES ASSUME IndInv, LocksAreHeld, [OrderlyNext]_vars PROVE LocksAreHeld'
    OBVIOUS
  <2>1. CASE UNCHANGED vars
    BY <2>1 DEF vars, LocksAreHeld, PteHeld, PfnHeld
  <2>. QED BY <2>1, UserKeepsLocks, TrimmerKeepsLocks, WriterKeepsLocks DEF OrderlyNext
<1>3. OrderlySpec => []LocksAreHeld
  BY <1>1, <1>2, InductiveInvariant, PTL DEF OrderlySpec
<1>. QED BY <1>3, NobodyWaitsInACircle, InductiveInvariant, PTL

-----------------------------------------------------------------------------
(* Steps.                                                                  *)

\* Only four actions write the page table.
LEMMA PteChangers ==
    ASSUME [OrderlyNext]_vars
    PROVE  \/ UNCHANGED pte
           \/ TrimLockPfn
           \/ \E u \in Users : SoftDone(u) \/ StealPage(u) \/ HardDone(u)
<1>1. ASSUME NEW u \in Users, UserStep(u), ~(SoftDone(u) \/ StealPage(u) \/ HardDone(u))
      PROVE  UNCHANGED pte
  <2>1. CASE \/ Request(u) \/ Store(u) \/ Fault(u) \/ Dispatch(u)
             \/ SoftLockPte(u) \/ SoftLockPfn(u) \/ SoftUnlist(u) \/ SoftMap(u)
    BY <2>1 DEF tables, Request, Store, Fault, Dispatch, SoftLockPte, SoftLockPfn,
                SoftUnlist, SoftMap
  <2>2. CASE TakeCached(u) \/ RefillCache(u) \/ RefillFails(u) \/ StealBegin(u) \/ StealFails(u)
    BY <2>2 DEF tables, TakeCached, RefillCache, RefillFails, StealBegin, StealFails
  <2>3. CASE HardLockPte(u) \/ HardGiveBack(u) \/ HardFill(u)
    BY <2>3 DEF tables, HardLockPte, HardGiveBack, HardFill
  <2>. QED BY <1>1, <2>1, <2>2, <2>3 DEF UserStep
<1>2. ASSUME TrimmerStep, ~TrimLockPfn PROVE UNCHANGED pte
  BY <1>2 DEF TrimmerStep, tables, TrimPick, TrimLockPte, TrimUnmap, TrimInsert, TrimUnlock
<1>3. ASSUME WriterStep PROVE UNCHANGED pte
  BY <1>3 DEF WriterStep, tables, WriteBegin, WriteGather, WriteStart, WriteCopy,
              WriteCommit, WriteAbandon, WriteInsert, WriteUnlock
<1>. QED BY <1>1, <1>2, <1>3 DEF OrderlyNext, vars

\* While a PTE stays locked it changes only from transition to disk, when its
\* page is stolen, and it leaves disk format only under its lock.
THEOREM LockedPtesOnlyGoToDisk == OrderlySpec => LockedPteOnlyGoesToDisk
<1>. DEFINE Kept(p) == pte'[p] # pte[p] =>
                /\ pteLock[p] # Nil /\ pteLock'[p] = pteLock[p]
                      => pte[p].fmt = "transition" /\ pte'[p].fmt = "disk"
                /\ pte[p].fmt = "disk" => pteLock[p] # Nil
<1>1. ASSUME IndInv, [OrderlyNext]_vars, NEW p \in Ptes PROVE Kept(p)
  <2>1. /\ TypeOK /\ PtesNameTheirFrames /\ PfnsNameTheirPtes /\ TrimmerHolds
        /\ \A u \in Users : FaultsOnPte(u) /\ SoftFaultHolds(u) /\ HardFaultHolds(u)
                            /\ StealHolds(u)
    BY <1>1 DEF IndInv, UsersHold, UserHolds
  <2>2. CASE UNCHANGED pte
    BY <2>2
  <2>3. CASE TrimLockPfn
    <3>1. trimPte \in Ptes /\ pteLock[trimPte] = Trimmer /\ pte[trimPte].fmt = "valid"
      BY <2>1, <2>3 DEF TrimLockPfn, TrimmerHolds
    <3>2. /\ pte' = [pte EXCEPT ![trimPte] = TransitionPte(pte[trimPte].ref)]
          /\ pteLock' = [pteLock EXCEPT ![trimPte] = Nil]
      BY <2>3 DEF TrimLockPfn
    <3>. QED BY <1>1, <2>1, <3>1, <3>2, DistinctAssumption DEF TypeOK
  <2>4. ASSUME NEW u \in Users, SoftDone(u) \/ HardDone(u) PROVE Kept(p)
    <3>1. va[u] \in Ptes /\ pteLock[va[u]] = u
      BY <2>1, <2>4 DEF SoftDone, HardDone, FaultsOnPte, SoftFaultHolds, HardFaultHolds,
                        InHandler, SoftLocked, Filling
    <3>2. \A q \in Ptes : q # va[u] => pte'[q] = pte[q]
      BY <2>1, <2>4 DEF SoftDone, HardDone, TypeOK
    <3>3. pteLock'[va[u]] = Nil
      BY <2>1, <2>4, <3>1 DEF SoftDone, HardDone, TypeOK
    <3>. QED BY <1>1, <3>1, <3>2, <3>3, DistinctAssumption
  <2>5. ASSUME NEW u \in Users, StealPage(u) PROVE Kept(p)
    <3>1. PICK f \in batch[u] : pte' = [pte EXCEPT ![pfn[f].pte] = DiskPte(pfn[f].slot)]
      BY <2>5 DEF StealPage
    <3>2. f \in Frames /\ pfn[f].status = "STANDBY"
      BY <2>1 DEF TypeOK, StealHolds
    <3>3. /\ pfn[f].pte \in Ptes
          /\ pte[pfn[f].pte].fmt \in {"valid", "transition"}
          /\ pte[pfn[f].pte].ref = f
      BY <2>1, <3>2 DEF PfnsNameTheirPtes
    <3>4. pte[pfn[f].pte].fmt = "transition"
      BY <2>1, <3>2, <3>3 DEF PtesNameTheirFrames
    <3>5. pte'[pfn[f].pte].fmt = "disk" /\ \A q \in Ptes : q # pfn[f].pte => pte'[q] = pte[q]
      BY <2>1, <3>1, <3>3 DEF TypeOK, DiskPte
    <3>. QED BY <1>1, <3>3, <3>4, <3>5
  <2>. QED BY <1>1, <2>2, <2>3, <2>4, <2>5, PteChangers
<1>2. IndInv /\ [OrderlyNext]_vars => [\A p \in Ptes : Kept(p)]_vars
  BY <1>1
<1>. QED BY <1>2, InductiveInvariant, PTL DEF OrderlySpec, LockedPteOnlyGoesToDisk
=============================================================================
