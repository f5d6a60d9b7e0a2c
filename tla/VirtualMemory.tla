--------------------------- MODULE VirtualMemory ---------------------------
(***************************************************************************)
(* What the memory manager promises its user threads: a flat memory of     *)
(* pages, larger than physical memory, in which a page holds what was last *)
(* stored to it, and Zero before the first store.  Trimming, writing and   *)
(* faulting are invisible here.                                            *)
(*                                                                         *)
(* The promise has one hole.  resolve_hard_fault maps the faulting virtual *)
(* address before it fills the frame, and until the frame is filled the    *)
(* page is in "window": a store that another thread makes meanwhile is     *)
(* accepted and then overwritten.                                          *)
(***************************************************************************)
CONSTANTS Users,    \* user threads
          Pages,    \* virtual pages
          Vals,     \* what a thread can store in a page
          Zero,     \* what a page holds before the first store
          Nil       \* no page

VARIABLES mem,      \* mem[p]: the content of virtual page p
          pending,  \* pending[u]: the page thread u is trying to store to
          window    \* pages that are mapped and not yet filled

vmVars == <<mem, pending, window>>

Init == /\ mem = [p \in Pages |-> Zero]
        /\ pending = [u \in Users |-> Nil]
        /\ window = {}

Request(u) == /\ pending[u] = Nil
              /\ \E p \in Pages : pending' = [pending EXCEPT ![u] = p]
              /\ UNCHANGED <<mem, window>>

Store(u) == /\ pending[u] \in Pages \ window
            /\ \E v \in Vals : mem' = [mem EXCEPT ![pending[u]] = v]
            /\ pending' = [pending EXCEPT ![u] = Nil]
            /\ UNCHANGED window

\* A store in the window of another thread's fill.
StoreLost(u) == /\ pending[u] \in window
                /\ pending' = [pending EXCEPT ![u] = Nil]
                /\ UNCHANGED <<mem, window>>

\* Only a thread that is itself waiting for page p opens and closes p's window.
OpenWindow(u) == /\ pending[u] \in Pages \ window
                 /\ window' = window \cup {pending[u]}
                 /\ UNCHANGED <<mem, pending>>

CloseWindow(u) == /\ pending[u] \in window
                  /\ window' = window \ {pending[u]}
                  /\ UNCHANGED <<mem, pending>>

Next == \E u \in Users : \/ Request(u)
                         \/ Store(u)
                         \/ StoreLost(u)
                         \/ OpenWindow(u)
                         \/ CloseWindow(u)

Spec == Init /\ [][Next]_vmVars
=============================================================================
