------------------------------ MODULE TrimScan ------------------------------
(***************************************************************************)
(* The trimmer's hand over the page table: trim_pages walks the PTEs in a  *)
(* circle from where its last batch ended, and trims those that are valid  *)
(* and not locked, until the batch is full or it has tried often enough.   *)
(* User threads meanwhile lock PTEs and make them valid again.             *)
(***************************************************************************)
EXTENDS Naturals, FiniteSets

CONSTANTS
    Users,              \* user threads
    Nobody,             \* an unlocked PTE
    NumPtes,            \* vm.num_ptes
    MaxTrimBatch,       \* MAX_TRIM_BATCH_SIZE
    MaxTrimAttempts     \* MAX_TRIM_ATTEMPTS: four times the batch

\* The scan may look at as many PTEs as a batch holds.
ASSUME ScanAssumption ==
    /\ NumPtes \in Nat \ {0} /\ MaxTrimBatch \in Nat \ {0}
    /\ MaxTrimAttempts \in Nat /\ MaxTrimAttempts >= MaxTrimBatch
    /\ Nobody \notin Users

Ptes == 0..(NumPtes - 1)

VARIABLES
    format,         \* of each PTE: valid, trimmed (its PFN still locked), or neither
    lock,           \* the user thread that holds the lock of each PTE
    fault,          \* the PTE that each user thread resolves a fault on, or none
    trimmer,        \* where the trimmer is
    pte_to_trim,    \* where the last batch ended
    pte, attempts,  \* the scan: the PTE at hand, PTEs tried
    batch,          \* PTEs of trimmed_VAs
    passed          \* what has been trimmed while each PTE was there to be trimmed

vars == <<format, lock, fault, trimmer, pte_to_trim, pte, attempts, batch, passed>>
scan == <<trimmer, pte_to_trim, pte, attempts, batch>>

Init ==
    /\ format = [p \in Ptes |-> "other"]
    /\ lock = [p \in Ptes |-> Nobody]
    /\ fault = [u \in Users |-> {}]
    /\ trimmer = "wait"
    /\ pte_to_trim = 0
    /\ pte = 0 /\ attempts = 0 /\ batch = {}
    /\ passed = [p \in Ptes |-> {}]

-----------------------------------------------------------------------------
(* User threads.                                                           *)

\* The handler has seen a PTE that is not valid.
Fault(u) ==
    /\ fault[u] = {}
    /\ \E p \in Ptes : format[p] # "valid" /\ fault' = [fault EXCEPT ![u] = {p}]
    /\ UNCHANGED <<format, lock, scan, passed>>

LockPte(u) ==
    /\ \E p \in fault[u] :
          /\ lock[p] = Nobody
          /\ lock' = [lock EXCEPT ![p] = u]
    /\ UNCHANGED <<format, fault, scan, passed>>

\* The PTE becomes valid, or turns out to be so already.  A soft fault waits for the
\* PFN of a page that is just being trimmed.
Resolve(u) ==
    /\ \E p \in fault[u] :
          /\ lock[p] = u
          /\ format[p] # "trimmed"
          /\ format' = [format EXCEPT ![p] = "valid"]
          /\ lock' = [lock EXCEPT ![p] = Nobody]
    /\ fault' = [fault EXCEPT ![u] = {}]
    /\ UNCHANGED <<scan, passed>>

-----------------------------------------------------------------------------
(* trim_pages.                                                             *)

\* A request for trimming arrived.
ScanBegin ==
    /\ trimmer = "wait" /\ trimmer' = "scan"
    /\ pte' = pte_to_trim
    /\ attempts' = 0
    /\ UNCHANGED <<format, lock, fault, pte_to_trim, batch, passed>>

\* Faulty ScanGoesOn: one attempt too many.
ScanGoesOnLonger == Cardinality(batch) < MaxTrimBatch /\ attempts <= MaxTrimAttempts

ScanGoesOn == Cardinality(batch) < MaxTrimBatch /\ attempts < MaxTrimAttempts

\* Faulty Following: the wrap-around comes one PTE early.
FollowingShort(p) == IF p + 2 >= NumPtes THEN 0 ELSE p + 1

Following(p) == IF p + 1 = NumPtes THEN 0 ELSE p + 1

\* Look at the next PTE without its lock.  The accessed bit, which would spare it, is
\* never set: set_accessed_bit compares the PTE with the address of its snapshot, and
\* a valid PTE is odd where that address is even (pte.c:133-135).
ScanNext ==
    LET p == Following(pte) IN
    /\ trimmer = "scan" /\ ScanGoesOn
    /\ pte' = p
    /\ attempts' = attempts + 1
    /\ trimmer' = IF format[p] = "valid" THEN "trim" ELSE "scan"
    /\ UNCHANGED <<format, lock, fault, pte_to_trim, batch, passed>>

\* Try its lock and take the page; a locked PTE is passed over.
TrimPte ==
    /\ trimmer = "trim" /\ trimmer' = "scan"
    /\ \/ /\ lock[pte] = Nobody
          /\ format' = [format EXCEPT ![pte] = "trimmed"]
          /\ batch' = batch \cup {pte}
          /\ passed' = [p \in Ptes |-> IF p # pte /\ format[p] = "valid"
                                       THEN passed[p] \cup {pte} ELSE {}]
       \/ /\ lock[pte] # Nobody
          /\ passed' = [passed EXCEPT ![pte] = {}]
          /\ UNCHANGED <<format, batch>>
    /\ UNCHANGED <<lock, fault, pte_to_trim, pte, attempts>>

\* Faulty NextStart: a batch is begun where the last one was.
NextStartSame == pte_to_trim

\* Nothing trimmed: the next scan starts at the same place.
NextStart == IF batch = {} THEN pte_to_trim ELSE pte

ScanEnd ==
    /\ trimmer = "scan" /\ ~ScanGoesOn
    /\ pte_to_trim' = NextStart
    /\ trimmer' = IF batch = {} THEN "wait" ELSE "unlock"
    /\ UNCHANGED <<format, lock, fault, pte, attempts, batch, passed>>

\* The pages of the batch are on the modified list and are unlocked.
UnlockBatch ==
    /\ trimmer = "unlock" /\ trimmer' = "wait"
    /\ format' = [p \in Ptes |-> IF p \in batch THEN "other" ELSE format[p]]
    /\ batch' = {}
    /\ UNCHANGED <<lock, fault, pte_to_trim, pte, attempts, passed>>

-----------------------------------------------------------------------------
TrimmerStep == ScanBegin \/ ScanNext \/ TrimPte \/ ScanEnd \/ UnlockBatch

Next == \/ \E u \in Users : Fault(u) \/ LockPte(u) \/ Resolve(u)
        \/ TrimmerStep

Spec == Init /\ [][Next]_vars

\* Trimming is requested again and again, and threads that resolve a fault go on.
FairSpec ==
    /\ Spec
    /\ WF_vars(TrimmerStep)
    /\ \A u \in Users : WF_vars(Resolve(u))

\* Types (pte.h:33-71); the hand stays inside the page table and the batch within its
\* array (trimmer.c:17-18, 35).
TypeOK ==
    /\ format \in [Ptes -> {"valid", "trimmed", "other"}]
    /\ lock \in [Ptes -> Users \cup {Nobody}]
    /\ fault \in [Users -> SUBSET Ptes]
    /\ trimmer \in {"wait", "scan", "trim", "unlock"}
    /\ {pte_to_trim, pte} \subseteq Ptes
    /\ attempts \in 0..MaxTrimAttempts
    /\ batch \subseteq Ptes /\ Cardinality(batch) <= MaxTrimBatch
    /\ passed \in [Ptes -> SUBSET Ptes]

-----------------------------------------------------------------------------
Trimmed(p) == format[p] # "trimmed" /\ format'[p] = "trimmed"

\* The hand is fair: no page is trimmed twice while another one was there to be
\* trimmed all the time, whatever batches end early, scans find nothing, and
\* threads fault pages in behind the hand or hold PTE locks as it comes by.
NoneIsOvertaken ==
    [][\A p, q \in Ptes : Trimmed(q) /\ p # q /\ format[p] = "valid" => q \notin passed[p]]_vars

\* The PTEs that a scan from where the last batch ended can look at.
InReach(p) == \E n \in 1..MaxTrimAttempts : p = (pte_to_trim + n) % NumPtes

\* While trimming is asked for, a page stays valid for ever only if scans at last find
\* nothing any more and it lies out of their reach, so that the hand rests where it is
\* (trimmer.c:28, 72-75): as long as some page is trimmed, the hand comes to each.
ReachableIsTrimmed ==
    \A p \in Ptes : []<>(format[p] # "valid") \/ <>[](batch = {} /\ ~InReach(p))
=============================================================================
