----------------------------- MODULE PageQueue -----------------------------
(***************************************************************************)
(* What a page list promises: a queue of pages.  Batches join at the tail  *)
(* and leave at the head, a soft fault takes its page out of the middle,   *)
(* and each of them happens at once.  It promises that until a thread      *)
(* works on the list without the locks it needs, and nothing afterwards.   *)
(***************************************************************************)
EXTENDS Naturals, Sequences

CONSTANT QPages         \* the pages that can be on the list

VARIABLES queue,
          broken        \* such a thread has been at work

QueueInit == queue = <<>> /\ ~broken

\* A batch of pages that were not on the list joins at the tail.
BatchAppended(old, new) ==
    /\ Len(new) > Len(old)
    /\ SubSeq(new, 1, Len(old)) = old
    /\ \A i, j \in 1..Len(new) : i # j => new[i] # new[j]
    /\ \A i \in 1..Len(new) : new[i] \in QPages

\* The first k pages leave.
BatchTaken(old, new) == \E k \in 1..Len(old) : new = SubSeq(old, k + 1, Len(old))

\* One page leaves, wherever it is.
PageTakenOut(old, new) ==
    \E k \in 1..Len(old) : new = SubSeq(old, 1, k - 1) \o SubSeq(old, k + 1, Len(old))

\* The queue before and after a step.
QueueOperation == \E old \in {queue}, new \in {queue'} :
                     BatchAppended(old, new) \/ BatchTaken(old, new) \/ PageTakenOut(old, new)

QueueNext == \/ broken'
             \/ ~broken /\ ~broken' /\ QueueOperation

QueueSpec == QueueInit /\ [][QueueNext]_<<queue, broken>>
=============================================================================
