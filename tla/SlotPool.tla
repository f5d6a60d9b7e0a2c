------------------------------ MODULE SlotPool ------------------------------
(***************************************************************************)
(* What the page file promises the rest of the manager: a pool of slots.   *)
(* A slot is free, stashed for a later write, or in use by one page; it    *)
(* goes round in that order and never belongs to two pages.                *)
(***************************************************************************)
CONSTANT PoolSlots      \* the slots of the pool

VARIABLES free, stash, used
pool == <<free, stash, used>>

PoolInit == /\ free = PoolSlots
            /\ stash = {}
            /\ used = {}

\* Slots are found free and put aside, one or several at a time.
Reserve == \E S \in SUBSET free :
              /\ S # {}
              /\ free' = free \ S
              /\ stash' = stash \cup S
              /\ UNCHANGED used

\* A stashed slot is given to a page that is being written.
Assign == \E s \in stash :
              /\ stash' = stash \ {s}
              /\ used' = used \cup {s}
              /\ UNCHANGED free

\* The page no longer needs its slot.
Release == \E s \in used :
              /\ used' = used \ {s}
              /\ free' = free \cup {s}
              /\ UNCHANGED stash

PoolNext == Reserve \/ Assign \/ Release

PoolSpec == PoolInit /\ [][PoolNext]_pool
=============================================================================
