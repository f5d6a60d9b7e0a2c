--------------------------- MODULE TrimScanProofs ---------------------------
(***************************************************************************)
(* The trimmer's hand is fair for every page table, batch and number of    *)
(* attempts.  Distances are counted in the direction in which the hand     *)
(* goes; what was trimmed since a page came to be there to be trimmed lies *)
(* between that page and the hand.                                         *)
(***************************************************************************)
EXTENDS TrimScan, FiniteSetTheorems, TLAPS

Distance(p, q) == IF p <= q THEN q - p ELSE q + NumPtes - p

\* The last PTE that the trimmer is done with.
Hand(p) == CASE trimmer = "scan" -> Distance(p, pte)
             [] trimmer = "trim" -> IF p = pte THEN NumPtes - 1 ELSE Distance(p, pte) - 1
             [] OTHER            -> Distance(p, pte_to_trim)

\* The PTE that the trimmer tries to lock is still valid, and the batch has room for it.
PteIsValid == trimmer = "trim" => format[pte] = "valid" /\ Cardinality(batch) < MaxTrimBatch

\* No thread makes a page of the batch valid before the batch is unlocked.
BatchIsTrimmed == /\ trimmer = "wait" => batch = {}
                  /\ \A p \in batch : format[p] = "trimmed"

\* Pages that cannot be trimmed have not been passed; what passed the others lies
\* behind the hand, and a scan that has trimmed nothing can be begun again.
PassedIsBehind ==
    \A p \in Ptes :
        /\ format[p] # "valid" => passed[p] = {}
        /\ \A q \in passed[p] :
              /\ p # q
              /\ Distance(p, q) <= Hand(p)
              /\ batch = {} => Distance(p, q) <= Distance(p, pte_to_trim)

ScanInv == TypeOK /\ PteIsValid /\ BatchIsTrimmed /\ PassedIsBehind

-----------------------------------------------------------------------------
(* Distances.                                                              *)

\* Distances are numbers below NumPtes, and the hand's next step adds one to all but
\* one of them.
LEMMA Distances ==
    ASSUME NEW p \in Ptes, NEW q \in Ptes
    PROVE  /\ Distance(p, q) \in 0..(NumPtes - 1)
           /\ Distance(p, q) = 0 <=> p = q
           /\ Following(q) \in Ptes
           /\ p # Following(q) => Distance(p, Following(q)) = Distance(p, q) + 1
           /\ p = Following(q) => Distance(p, q) = NumPtes - 1
  BY ScanAssumption DEF Distance, Following, Ptes

\* The batch is finite.
LEMMA BatchIsFinite ==
    ASSUME TypeOK
    PROVE  /\ IsFiniteSet(batch) /\ Cardinality(batch) \in Nat
           /\ \A p \in Ptes : Cardinality(batch \cup {p}) <= Cardinality(batch) + 1
<1>1. IsFiniteSet(Ptes)
  BY ScanAssumption, FS_Interval DEF Ptes
<1>2. IsFiniteSet(batch)
  BY <1>1, FS_Subset DEF TypeOK
<1>3. Cardinality(batch) \in Nat
  BY <1>2, FS_CardinalityType
<1>. QED BY <1>2, <1>3, FS_AddElement

\* In the beginning the trimmer waits and nothing is valid.
LEMMA ScanInvInitially == Init => ScanInv
<1>. SUFFICES ASSUME Init PROVE ScanInv
  OBVIOUS
<1>1. TypeOK
  BY ScanAssumption, FS_EmptySet DEF Init, TypeOK, Ptes
<1>. QED BY <1>1 DEF Init, ScanInv, PteIsValid, BatchIsTrimmed, PassedIsBehind

-----------------------------------------------------------------------------
(* Steps.                                                                  *)

\* User threads make PTEs valid; nothing has passed such a PTE yet.
LEMMA UserStepPreserves ==
    ASSUME ScanInv, NEW u \in Users, Fault(u) \/ LockPte(u) \/ Resolve(u)
    PROVE  ScanInv'
<1>1. TypeOK /\ PteIsValid /\ BatchIsTrimmed /\ PassedIsBehind
  BY DEF ScanInv
<1>2. UNCHANGED <<scan, passed>>
  BY DEF Fault, LockPte, Resolve
<1>3. \A p \in Ptes : \/ format'[p] = format[p]
                      \/ format[p] = "other" /\ format'[p] = "valid"
  BY <1>1 DEF Fault, LockPte, Resolve, TypeOK
<1>4. TypeOK'
  BY <1>1 DEF Fault, LockPte, Resolve, scan, TypeOK
<1>5. PteIsValid' /\ BatchIsTrimmed'
  BY <1>1, <1>2, <1>3 DEF PteIsValid, BatchIsTrimmed, scan, TypeOK
<1>6. PassedIsBehind'
  BY <1>1, <1>2, <1>3 DEF PassedIsBehind, Hand, scan
<1>. QED BY <1>4, <1>5, <1>6 DEF ScanInv

\* The hand stays where the last batch ended.
LEMMA ScanBeginPreserves == ASSUME ScanInv, ScanBegin PROVE ScanInv'
<1>1. TypeOK'
  BY ScanAssumption DEF ScanInv, ScanBegin, TypeOK
<1>2. PteIsValid' /\ BatchIsTrimmed'
  BY DEF ScanInv, ScanBegin, PteIsValid, BatchIsTrimmed
<1>3. PassedIsBehind'
  BY DEF ScanInv, ScanBegin, PassedIsBehind, Hand
<1>. QED BY <1>1, <1>2, <1>3 DEF ScanInv

\* The hand moves on; the PTE that it comes to has not been passed, or is now tried.
LEMMA ScanNextPreserves == ASSUME ScanInv, ScanNext PROVE ScanInv'
<1>1. TypeOK /\ PassedIsBehind
  BY DEF ScanInv
<1>2. pte \in Ptes /\ pte' = Following(pte) /\ pte' \in Ptes
  BY <1>1, Distances DEF ScanNext, TypeOK
<1>3. TypeOK'
  BY <1>1, <1>2, ScanAssumption DEF ScanNext, ScanGoesOn, TypeOK
<1>4. PteIsValid' /\ BatchIsTrimmed'
  BY <1>2 DEF ScanInv, ScanNext, ScanGoesOn, PteIsValid, BatchIsTrimmed
<1>5. /\ trimmer = "scan" /\ UNCHANGED <<format, passed, batch, pte_to_trim>>
      /\ trimmer' = IF format[pte'] = "valid" THEN "trim" ELSE "scan"
  BY <1>2 DEF ScanNext
<1>6. ASSUME NEW p \in Ptes, NEW q \in passed[p] PROVE Distance(p, q) <= Hand(p)'
  <2>1. q \in Ptes /\ Distance(p, q) <= Distance(p, pte) /\ format[p] = "valid"
    BY <1>1, <1>5, <1>6 DEF PassedIsBehind, Hand, TypeOK
  <2>2. Distance(p, q) \in 0..(NumPtes - 1) /\ Distance(p, pte) \in 0..(NumPtes - 1)
    BY <1>2, <2>1, Distances
  <2>3. CASE p = pte'
    BY <1>5, <2>1, <2>2, <2>3 DEF Hand
  <2>4. CASE p # pte'
    <3>1. Distance(p, pte') = Distance(p, pte) + 1
      BY <1>2, <2>4, Distances
    <3>2. Hand(p)' = Distance(p, pte') \/ Hand(p)' = Distance(p, pte') - 1
      BY <1>5, <2>4 DEF Hand, Distance
    <3>. QED BY <2>1, <2>2, <3>1, <3>2
  <2>. QED BY <2>3, <2>4
<1>7. PassedIsBehind'
  BY <1>1, <1>5, <1>6 DEF PassedIsBehind, Distance
<1>. QED BY <1>3, <1>4, <1>7 DEF ScanInv

\* A trimmed page has passed the others; a locked one starts afresh.
LEMMA TrimPtePreserves == ASSUME ScanInv, TrimPte PROVE ScanInv'
<1>1. TypeOK /\ PteIsValid /\ PassedIsBehind
  BY DEF ScanInv
<1>2. /\ pte \in Ptes /\ format[pte] = "valid" /\ Cardinality(batch) < MaxTrimBatch
      /\ trimmer = "trim" /\ trimmer' = "scan" /\ UNCHANGED <<pte, pte_to_trim>>
  BY <1>1 DEF TrimPte, PteIsValid, TypeOK
<1>3. TypeOK'
  <2>1. Cardinality(batch') <= MaxTrimBatch
    <3>1. Cardinality(batch) \in Nat /\ Cardinality(batch \cup {pte}) <= Cardinality(batch) + 1
      BY <1>1, <1>2, BatchIsFinite
    <3>2. Cardinality(batch \cup {pte}) \in Nat
      BY <1>1, BatchIsFinite, FS_AddElement, FS_CardinalityType
    <3>3. batch' = batch \/ batch' = batch \cup {pte}
      BY DEF TrimPte
    <3>4. Cardinality(batch) + 1 <= MaxTrimBatch
      BY <1>2, <3>1, ScanAssumption
    <3>5. Cardinality(batch \cup {pte}) <= MaxTrimBatch /\ Cardinality(batch) <= MaxTrimBatch
      BY <3>1, <3>2, <3>4, ScanAssumption
    <3>. QED BY <3>3, <3>5
  <2>2. /\ batch' \subseteq Ptes /\ format' \in [Ptes -> {"valid", "trimmed", "other"}]
        /\ passed' \in [Ptes -> SUBSET Ptes]
    BY <1>1, <1>2 DEF TrimPte, TypeOK
  <2>. QED BY <1>1, <1>2, <2>1, <2>2 DEF TrimPte, TypeOK
<1>4. PteIsValid' /\ BatchIsTrimmed'
  BY <1>1, <1>2 DEF ScanInv, TrimPte, TypeOK, PteIsValid, BatchIsTrimmed
<1>5. ASSUME NEW p \in Ptes, NEW q \in passed'[p]
      PROVE  /\ p # pte /\ format'[p] = "valid"
             /\ q \in passed[p] \/ (q = pte /\ batch' # {})
             /\ batch' = {} => batch = {}
  <2>1. CASE lock[pte] = Nobody
    <3>1. /\ passed' = [r \in Ptes |-> IF r # pte /\ format[r] = "valid"
                                     THEN passed[r] \cup {pte} ELSE {}]
          /\ format' = [format EXCEPT ![pte] = "trimmed"] /\ batch' = batch \cup {pte}
      BY <2>1 DEF TrimPte
    <3>2. p # pte /\ format[p] = "valid" /\ q \in passed[p] \cup {pte}
      BY <1>5, <3>1
    <3>. QED BY <1>1, <3>1, <3>2 DEF TypeOK
  <2>2. CASE lock[pte] # Nobody
    <3>1. passed' = [passed EXCEPT ![pte] = {}] /\ format' = format /\ batch' = batch
      BY <2>2 DEF TrimPte
    <3>2. p # pte /\ q \in passed[p]
      BY <1>1, <1>5, <3>1 DEF TypeOK
    <3>3. format[p] = "valid"
      BY <1>1, <3>2 DEF PassedIsBehind
    <3>. QED BY <3>1, <3>2, <3>3
  <2>. QED BY <2>1, <2>2
<1>6. ASSUME NEW p \in Ptes, NEW q \in passed'[p]
      PROVE  /\ p # q /\ Distance(p, q) <= Hand(p)'
             /\ batch' = {} => Distance(p, q) <= Distance(p, pte_to_trim)
  <2>1. Hand(p)' = Distance(p, pte) /\ Distance(p, pte) \in 0..(NumPtes - 1)
    BY <1>2, Distances DEF Hand, Distance
  <2>2. CASE q \in passed[p]
    <3>1. p # q /\ Distance(p, q) <= Distance(p, pte) - 1 /\ q \in Ptes
      BY <1>1, <1>2, <1>5, <1>6, <2>2 DEF PassedIsBehind, Hand, TypeOK
    <3>2. Distance(p, q) \in 0..(NumPtes - 1)
      BY <3>1, Distances
    <3>. QED BY <1>1, <1>5, <1>6, <2>1, <2>2, <3>1, <3>2 DEF PassedIsBehind
  <2>3. CASE q = pte /\ batch' # {}
    BY <1>5, <1>6, <2>1, <2>3
  <2>. QED BY <1>5, <1>6, <2>2, <2>3
<1>7. ASSUME NEW p \in Ptes, format'[p] # "valid" PROVE passed'[p] = {}
  BY <1>5, <1>7
<1>8. PassedIsBehind'
  BY <1>2, <1>6, <1>7 DEF PassedIsBehind, Distance
<1>. QED BY <1>3, <1>4, <1>8 DEF ScanInv

\* A batch without pages is begun again where it was begun.
LEMMA ScanEndPreserves == ASSUME ScanInv, ScanEnd PROVE ScanInv'
<1>1. TypeOK'
  BY DEF ScanInv, ScanEnd, NextStart, TypeOK
<1>2. PteIsValid' /\ BatchIsTrimmed'
  BY DEF ScanInv, ScanEnd, PteIsValid, BatchIsTrimmed
<1>3. ASSUME NEW p \in Ptes PROVE Hand(p)' = IF batch = {} THEN Distance(p, pte_to_trim) ELSE Hand(p)
  BY DEF ScanEnd, NextStart, Hand, Distance
<1>4. UNCHANGED <<format, passed, batch>> /\ (batch = {} => pte_to_trim' = pte_to_trim)
  BY DEF ScanEnd, NextStart
<1>5. PassedIsBehind'
  BY <1>3, <1>4 DEF ScanInv, PassedIsBehind, Distance
<1>. QED BY <1>1, <1>2, <1>5 DEF ScanInv

\* The pages of the batch were not valid.
LEMMA UnlockBatchPreserves == ASSUME ScanInv, UnlockBatch PROVE ScanInv'
<1>1. TypeOK /\ BatchIsTrimmed /\ PassedIsBehind
  BY DEF ScanInv
<1>2. TypeOK'
  BY <1>1, ScanAssumption, FS_EmptySet DEF UnlockBatch, TypeOK
<1>3. PteIsValid' /\ BatchIsTrimmed'
  BY DEF UnlockBatch, PteIsValid, BatchIsTrimmed
<1>4. \A p \in Ptes : format'[p] # "valid" => format[p] # "valid"
  BY <1>1 DEF UnlockBatch, BatchIsTrimmed
<1>5. UNCHANGED <<passed, pte_to_trim>> /\ \A p \in Ptes : Hand(p)' = Hand(p)
  BY DEF UnlockBatch, Hand, Distance
<1>6. \A p \in Ptes : Hand(p) = Distance(p, pte_to_trim)
  BY DEF UnlockBatch, Hand
<1>7. PassedIsBehind'
  BY <1>1, <1>4, <1>5, <1>6 DEF PassedIsBehind, Distance
<1>. QED BY <1>2, <1>3, <1>7 DEF ScanInv

\* Every step preserves the invariant.
LEMMA ScanInvPreserved == ScanInv /\ [Next]_vars => ScanInv'
<1>. SUFFICES ASSUME ScanInv, [Next]_vars PROVE ScanInv'
  OBVIOUS
<1>1. CASE UNCHANGED vars
  BY <1>1 DEF vars, ScanInv, TypeOK, PteIsValid, BatchIsTrimmed, PassedIsBehind, Hand, Distance
<1>. QED
  BY <1>1, UserStepPreserves, ScanBeginPreserves, ScanNextPreserves, TrimPtePreserves,
     ScanEndPreserves, UnlockBatchPreserves DEF Next, TrimmerStep

-----------------------------------------------------------------------------
(* What follows.                                                           *)

\* What passed a page that is there to be trimmed lies between it and the hand.
THEOREM HandInvariant == Spec => []ScanInv
  BY ScanInvInitially, ScanInvPreserved, PTL DEF Spec

\* The hand stays in the page table, and a batch within its array.
THEOREM HandStaysInside == Spec => []TypeOK
<1>1. ScanInv => TypeOK
  BY DEF ScanInv
<1>. QED BY <1>1, HandInvariant, PTL

\* The hand is fair: between two times that one page is trimmed, the trimmer tries
\* every page that is there to be trimmed all the while, whatever scans end early or
\* find nothing and whatever threads fault pages in.
THEOREM NoPageIsOvertaken == Spec => NoneIsOvertaken
<1>1. ASSUME ScanInv, Next, NEW p \in Ptes, NEW q \in Ptes, Trimmed(q), p # q,
             format[p] = "valid"
      PROVE  q \notin passed[p]
  <2>1. TypeOK /\ PteIsValid /\ PassedIsBehind
    BY <1>1 DEF ScanInv
  <2>2. TrimPte /\ q = pte
    <3>1. CASE \E u \in Users : Fault(u) \/ LockPte(u) \/ Resolve(u)
      BY <1>1, <2>1, <3>1 DEF Fault, LockPte, Resolve, Trimmed, TypeOK
    <3>2. CASE ScanBegin \/ ScanNext \/ ScanEnd \/ UnlockBatch
      BY <1>1, <2>1, <3>2 DEF ScanBegin, ScanNext, ScanEnd, UnlockBatch, Trimmed
    <3>3. CASE TrimPte
      BY <1>1, <2>1, <3>3 DEF TrimPte, Trimmed, TypeOK
    <3>. QED BY <1>1, <3>1, <3>2, <3>3 DEF Next, TrimmerStep
  <2>3. Hand(p) = Distance(p, q) - 1 /\ Distance(p, q) \in 0..(NumPtes - 1)
    BY <1>1, <2>2, Distances DEF TrimPte, Hand
  <2>. QED BY <2>1, <2>3 DEF PassedIsBehind
<1>2. ScanInv /\ [Next]_vars =>
        [\A p, q \in Ptes : Trimmed(q) /\ p # q /\ format[p] = "valid" => q \notin passed[p]]_vars
  BY <1>1
<1>. QED BY <1>2, HandInvariant, PTL DEF Spec, NoneIsOvertaken
=============================================================================
