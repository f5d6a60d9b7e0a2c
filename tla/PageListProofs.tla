--------------------------- MODULE PageListProofs ---------------------------
(***************************************************************************)
(* One page list, for any pages, any number of threads and any sizes of    *)
(* batches: the list is a ring of pages, but for the writes that are on    *)
(* their way, and each thread holds and knows what it needs for its own    *)
(* writes.  The invariant is ListInv; each action has a lemma of its own.  *)
(***************************************************************************)
EXTENDS PageList, SumsProofs, FiniteSetTheorems, SequenceTheorems, TLAPS

-----------------------------------------------------------------------------
(* The list as it should be: its pages in their order, and the neighbours  *)
(* of each.                                                                *)

\* o is the order of the pages, S their set; sc and pv lead to the next node and to
\* the previous one.
Ring(o, S, sc, pv) ==
    /\ o \in Seq(Pages) /\ S = {o[k] : k \in 1..Len(o)}
    /\ \A j, k \in 1..Len(o) : o[j] = o[k] => j = k
    /\ sc \in [Nodes -> Nodes] /\ pv \in [Nodes -> Nodes]
    /\ sc[ListHead] = IF Len(o) = 0 THEN ListHead ELSE o[1]
    /\ pv[ListHead] = IF Len(o) = 0 THEN ListHead ELSE o[Len(o)]
    /\ \A k \in 1..Len(o) : /\ sc[o[k]] = IF k = Len(o) THEN ListHead ELSE o[k + 1]
                            /\ pv[o[k]] = IF k = 1 THEN ListHead ELSE o[k - 1]

On(S) == S \cup {ListHead}

\* The last page of a batch whose first page has been linked to the list.
Loose(n) == \E i \in Inserters : pc[i] = "link2" /\ fwd[i] = n

\* A node whose blink is still to be written.
Owed(n) == \/ \E t \in Faulters : pc[t] = "unlink2" /\ fwd[t] = n
           \/ \E r \in Removers : pc[r] = "detach2" /\ fwd[r] = n
           \/ n = ListHead /\ \E i \in Inserters : pc[i] = "link2"

\* The links, but for the writes that are on their way.
LinksAre(S, sc, pv) ==
    /\ \A n \in On(S) : flink[n] = sc[n] \/ Loose(n)
    /\ \A n \in On(S) : blink[n] = pv[n] \/ Owed(n)

-----------------------------------------------------------------------------
(* What the threads hold and know.                                         *)

\* t has the locks of the nodes in K and no others.
Owns(t, K) == \A n \in Nodes : pfnLock[n] = t <=> n \in K

Elems(c) == {c[k] : k \in 1..Len(c)}

\* A soft fault that has looked at the neighbours of its page and not yet removed it.
Viewing(t) == pc[t] \in {"share", "retry", "exclusive", "flink", "blink", "unlink"}

FaulterHolds(t) ==
    /\ pc[t] \in {"idle", "share", "retry", "exclusive", "flink", "blink", "unlink",
                  "unlink2", "count"}
    /\ pc[t] = "idle" => Owns(t, {})
    /\ pc[t] \in {"share", "retry", "exclusive", "flink", "count"} => Owns(t, {page[t]})
    /\ pc[t] = "blink" => Owns(t, {page[t], fwd[t]})
    /\ pc[t] = "unlink" /\ exclusive # t => Owns(t, {page[t], fwd[t], bck[t]})
    /\ pc[t] = "unlink2" => pfnLock[page[t]] = t
    /\ exclusive = t => pc[t] \in {"unlink", "unlink2"} /\ Owns(t, {page[t]})
    /\ t \in readers <=> \/ pc[t] \in {"flink", "blink"}
                         \/ pc[t] \in {"unlink", "unlink2"} /\ exclusive # t

\* What it has seen of its neighbours may be old; two of them were never the same page.
FaulterSees(t, S) ==
    /\ pc[t] # "idle" => page[t] \in listed
    /\ Viewing(t) => /\ page[t] \in S
                     /\ fwd[t] \in Nodes \ {page[t]} /\ bck[t] \in Nodes \ {page[t]}
                     /\ fwd[t] = bck[t] => fwd[t] = ListHead
    /\ pc[t] \in {"unlink2", "count"} => page[t] \notin S

\* Between its two writes the neighbours are those it has just read; without the list
\* to itself it has locked one of them at least.
FaulterUnlinks(t, S, sc, pv) ==
    pc[t] = "unlink2" =>
        /\ fwd[t] \in On(S) /\ bck[t] \in On(S)
        /\ sc[bck[t]] = fwd[t] /\ pv[fwd[t]] = bck[t]
        /\ blink[fwd[t]] = page[t]
        /\ exclusive # t => pfnLock[fwd[t]] = t \/ pfnLock[bck[t]] = t

\* A batch c that leads from page[t] along the flinks.
BatchIs(t, c) ==
    /\ c \in Seq(Pages) /\ Len(c) = count[t] /\ count[t] > 0
    /\ c[1] = page[t]
    /\ \A k \in 1..(Len(c) - 1) : flink[c[k]] = c[k + 1]
    /\ \A j, k \in 1..Len(c) : c[j] = c[k] => j = k

RemoverHolds(t, c) ==
    /\ pc[t] \in {"idle", "again", "retry", "head", "first", "next", "extend", "detach",
                  "detach2", "size", "consume"}
    /\ exclusive # t
    /\ t \in readers <=> pc[t] \in {"head", "first", "next", "extend", "detach", "detach2"}
    /\ pc[t] \in {"idle", "again", "retry", "head"} => Owns(t, {})
    /\ pc[t] = "first" => Owns(t, {ListHead})
    /\ pc[t] = "next" => Owns(t, {ListHead, page[t]})
    /\ pc[t] \in {"extend", "detach", "detach2"} => Owns(t, {ListHead, fwd[t]} \cup Elems(c))
    /\ pc[t] \in {"size", "consume"} => Owns(t, Elems(c))

\* The batch is the beginning of the list until it is detached.
RemoverTakes(t, c, o, S, sc) ==
    /\ pc[t] = "next" => Len(o) > 0 /\ page[t] = o[1]
    /\ pc[t] \in {"extend", "detach", "detach2", "size", "consume"} =>
          BatchIs(t, c) /\ Len(c) <= BatchCapacity /\ Elems(c) \subseteq listed
    /\ pc[t] \in {"extend", "detach"} =>
          /\ Len(c) <= Len(o) /\ \A k \in 1..Len(c) : c[k] = o[k]
          /\ fwd[t] = IF Len(c) = Len(o) THEN ListHead ELSE o[Len(c) + 1]
    /\ pc[t] = "extend" => fwd[t] # ListHead
    /\ pc[t] = "detach2" => fwd[t] = sc[ListHead]
    /\ pc[t] \in {"detach2", "size", "consume"} => Elems(c) \cap S = {}

InserterHolds(t, c) ==
    /\ pc[t] \in {"idle", "share", "head", "tail", "link", "link2", "size", "unlock"}
    /\ exclusive # t
    /\ t \in readers <=> pc[t] \in {"head", "tail", "link", "link2"}
    /\ pc[t] = "idle" => Owns(t, {})
    /\ pc[t] \in {"share", "head", "size", "unlock"} => Owns(t, Elems(c))
    /\ pc[t] = "tail" => Owns(t, {ListHead} \cup Elems(c))
    /\ pc[t] \in {"link", "link2"} => Owns(t, {ListHead, bck[t]} \cup Elems(c))

\* The batch is chained in both directions before it is linked to the list.
InserterBrings(t, c, S, pv) ==
    /\ pc[t] # "idle" => BatchIs(t, c) /\ Elems(c) \cap listed = {}
    /\ pc[t] \in {"share", "head", "tail", "link", "link2"} =>
          fwd[t] = c[Len(c)] /\ flink[fwd[t]] = Nil
    /\ pc[t] \in {"share", "head", "tail", "link"} =>
          /\ Elems(c) \cap S = {}
          /\ \A k \in 1..(Len(c) - 1) : blink[c[k + 1]] = c[k]
    /\ pc[t] = "link" => bck[t] = pv[ListHead]
    /\ pc[t] = "link2" => pv[ListHead] = fwd[t] /\ bck[t] \notin Elems(c)
    /\ pc[t] \in {"link2", "size", "unlock"} => Elems(c) \subseteq S

-----------------------------------------------------------------------------
(* What is true of several threads.                                        *)

\* A page is on the list and listed, or neither, but for the pages that a thread has
\* just put on the list or taken off it.
StatusAgrees(S, ch) ==
    /\ \A p \in S : \/ p \in listed
                    \/ \E i \in Inserters : pc[i] \in {"link2", "size", "unlock"} /\ p \in Elems(ch[i])
    /\ \A p \in listed :
          \/ p \in S
          \/ \E t \in Faulters : pc[t] \in {"unlink2", "count"} /\ page[t] = p
          \/ \E r \in Removers : pc[r] \in {"detach2", "size", "consume"} /\ p \in Elems(ch[r])

\* The list lock.
ListLock == exclusive # NoThread => exclusive \in Faulters /\ readers = {}

\* Views are old at one place of the list only: between g and the node after it, where
\* a page has been removed by a thread that did not lock its neighbours.
OneGap(g, S, sc, pv) ==
    /\ g \in On(S)
    /\ \A t \in Faulters : Viewing(t) => /\ fwd[t] # sc[page[t]] => page[t] = g
                                         /\ bck[t] # pv[page[t]] => pv[page[t]] = g
    /\ \A t \in Faulters : pc[t] = "unlink2" => pfnLock[fwd[t]] = t \/ bck[t] = g

\* Two soft faults on neighbours want one lock, at least, that the other one has or
\* wants too; so they never unlink their pages at the same time.
NeighboursMeet(sc) ==
    \A t, u \in Faulters : Viewing(t) /\ Viewing(u) /\ sc[page[t]] = page[u] =>
        fwd[t] = page[u] \/ bck[u] = page[t] \/ fwd[t] = bck[u]

NeighboursWait ==
    \A s, u \in Faulters : pc[s] = "unlink2" /\ exclusive # s /\ Viewing(u) =>
        /\ page[u] = bck[s] => pfnLock[fwd[u]] = s
        /\ page[u] = fwd[s] => pfnLock[bck[u]] = s

\* A thread that has the list to itself.
ExclusiveIsAlone(sc, pv) ==
    \A s, u \in Faulters : exclusive = s /\ u # s /\ Viewing(u) =>
        /\ pc[s] = "unlink" => fwd[u] = sc[page[u]] /\ bck[u] = pv[page[u]]
        /\ pc[s] = "unlink2" /\ page[u] = bck[s] => fwd[u] \in {page[s], fwd[s]}

\* list_size, and the pages that are on their way to be counted.
JoiningOf(t) == IF t \in Inserters /\ pc[t] \in {"link2", "size"} THEN count[t] ELSE 0
LeavingOf(t) == IF t \in Removers /\ pc[t] \in {"detach2", "size"} THEN count[t]
                ELSE IF t \in Faulters /\ pc[t] \in {"unlink2", "count"} THEN 1 ELSE 0
Joining == [t \in Threads |-> JoiningOf(t)]
Leaving == [t \in Threads |-> LeavingOf(t)]

Sizes(o) == list_size + Sum(Joining, Threads) - Sum(Leaving, Threads) = Len(o)

-----------------------------------------------------------------------------
\* All of it; ch are the batches of the threads.
Shape(o, S, sc, pv, ch, g) ==
    /\ FieldsOK
    /\ Ring(o, S, sc, pv)
    /\ LinksAre(S, sc, pv)
    /\ \A t \in Faulters : FaulterHolds(t) /\ FaulterSees(t, S) /\ FaulterUnlinks(t, S, sc, pv)
    /\ \A t \in Removers : RemoverHolds(t, ch[t]) /\ RemoverTakes(t, ch[t], o, S, sc)
    /\ \A t \in Inserters : InserterHolds(t, ch[t]) /\ InserterBrings(t, ch[t], S, pv)
    /\ StatusAgrees(S, ch)
    /\ ListLock
    /\ OneGap(g, S, sc, pv)
    /\ NeighboursMeet(sc)
    /\ NeighboursWait
    /\ ExclusiveIsAlone(sc, pv)
    /\ Sizes(o)

ListInv == \E o, S, sc, pv, ch, g : Shape(o, S, sc, pv, ch, g)

-----------------------------------------------------------------------------
(* Sequences and functions.                                                *)

\* Counting up to n.
LEMMA CountingUp ==
    ASSUME NEW n \in Nat, NEW G, 0 \in G, \A k \in 1..n : k - 1 \in G => k \in G
    PROVE  0..n \subseteq G
<1>. DEFINE N == 0..n
            I == {T \in SUBSET N : \A k \in 0..n : T = 0..k => k \in G}
<1>1. ASSUME NEW T \in SUBSET N, \A U \in SUBSET T : U # T => U \in I PROVE T \in I
  <2>. SUFFICES ASSUME NEW k \in 0..n, T = 0..k PROVE k \in G
    OBVIOUS
  <2>1. CASE k = 0
    BY <2>1
  <2>2. CASE k \in 1..n
    <3>1. 0..(k - 1) \in SUBSET T /\ k \in T /\ k \notin 0..(k - 1)
      BY <2>2
    <3>2. 0..(k - 1) \in I
      BY <1>1, <3>1
    <3>. QED BY <2>2, <3>2
  <2>. QED BY <2>1, <2>2
<1>2. IsFiniteSet(N)
  BY FS_Interval
<1>3. SUBSET N \subseteq I
  <2>. HIDE DEF I, N
  <2>. QED BY <1>1, <1>2, SubsetInduction
<1>4. ASSUME NEW k \in 0..n PROVE k \in G
  <2>1. 0..k \in SUBSET N
    OBVIOUS
  <2>2. 0..k \in I
    BY <1>3, <2>1
  <2>. QED BY <2>2
<1>. QED BY <1>4

\* What Along and Way are, once there is a function of their kind.
LEMMA AlongIs ==
    ASSUME NEW c \in Seq(Pages), Len(c) > 0,
           \A k \in 1..(Len(c) - 1) : flink[c[k]] = c[k + 1]
    PROVE  Along(c[1], Len(c)) = c
<1>. DEFINE n == Len(c)
            P(f) == f = [k \in 1..n |-> IF k = 1 THEN c[1] ELSE flink[f[k - 1]]]
<1>1. P(c)
  <2>1. c = [k \in 1..n |-> c[k]]
    OBVIOUS
  <2>2. \A k \in 1..n : c[k] = IF k = 1 THEN c[1] ELSE flink[c[k - 1]]
    OBVIOUS
  <2>. QED BY <2>1, <2>2
<1>2. P(CHOOSE f : P(f))
  BY <1>1, Zenon
<1>3. Along(c[1], n) = CHOOSE f : P(f)
  BY Zenon DEF Along
<1>4. PICK f : f = Along(c[1], n) /\ P(f)
  BY <1>2, <1>3, Zenon
<1>. DEFINE G == {k \in 0..n : k = 0 \/ f[k] = c[k]}
<1>5. ASSUME NEW k \in 1..n, k - 1 \in G PROVE k \in G
  BY <1>4, <1>5, <1>1
<1>6. 0..n \subseteq G
  <2>1. 0 \in G /\ n \in Nat
    OBVIOUS
  <2>. HIDE DEF G
  <2>. QED BY <1>5, <2>1, CountingUp
<1>7. \A k \in 1..n : f[k] = c[k]
  BY <1>6
<1>8. DOMAIN f = 1..n /\ f = [k \in 1..n |-> f[k]]
  BY <1>4
<1>9. c = [k \in 1..n |-> c[k]]
  OBVIOUS
<1>. QED BY <1>4, <1>7, <1>8, <1>9

\* A walk along the flinks that comes to an end leads along the order of the list.
LEMMA WayIs ==
    ASSUME NEW f, f = [k \in 0..(MaxLength + 1) |->
                          IF k = 0 THEN flink[ListHead]
                          ELSE IF f[k - 1] \in Pages THEN flink[f[k - 1]] ELSE f[k - 1]],
           MaxLength \in Nat
    PROVE  Way = f
<1>. DEFINE n == MaxLength + 1
            P(h) == h = [k \in 0..n |-> IF k = 0 THEN flink[ListHead]
                                        ELSE LET before == h[k - 1]
                                             IN  IF before \in Pages THEN flink[before] ELSE before]
<1>1. P(f)
  BY Zenon
<1>2. P(CHOOSE h : P(h))
  BY <1>1, Zenon
<1>3. Way = CHOOSE h : P(h)
  BY Zenon DEF Way
<1>4. PICK h : h = Way /\ P(h)
  BY <1>2, <1>3, Zenon
<1>. DEFINE G == {k \in 0..n : h[k] = f[k]}
<1>5. 0 \in G /\ n \in Nat
  BY <1>1, <1>4
<1>6. ASSUME NEW k \in 1..n, k - 1 \in G PROVE k \in G
  <2>1. k \in 0..n /\ k # 0 /\ h[k - 1] = f[k - 1]
    BY <1>6
  <2>2. h[k] = IF h[k - 1] \in Pages THEN flink[h[k - 1]] ELSE h[k - 1]
    BY <1>4, <2>1
  <2>3. f[k] = IF f[k - 1] \in Pages THEN flink[f[k - 1]] ELSE f[k - 1]
    BY <1>1, <2>1
  <2>. QED BY <2>1, <2>2, <2>3
<1>7. 0..n \subseteq G
  <2>. HIDE DEF G
  <2>. QED BY <1>5, <1>6, CountingUp
<1>8. \A k \in 0..n : h[k] = f[k]
  BY <1>7
<1>9. f = [k \in 0..n |-> f[k]] /\ h = [k \in 0..n |-> h[k]]
  BY <1>1, <1>4
<1>. QED BY <1>4, <1>8, <1>9

-----------------------------------------------------------------------------
(* Lists as they should be.                                                *)

\* The head is no page, and no thread and no page is the sentinel of the others.
LEMMA Heads == ListHead \notin Pages /\ Nil \notin Nodes /\ Nil \notin Pages /\ ListHead \in Nodes
               /\ Pages \subseteq Nodes /\ NoThread \notin Threads
               /\ \A n \in Nodes : n \in Pages \/ n = ListHead
  BY ListAssumption DEF Nodes

\* Next and previous are inverse, and no page is its own neighbour.
LEMMA RingFacts ==
    ASSUME NEW o, NEW S, NEW sc, NEW pv, Ring(o, S, sc, pv)
    PROVE  /\ S \subseteq Pages /\ On(S) \subseteq Nodes
           /\ \A n \in On(S) : /\ sc[n] \in On(S) /\ pv[n] \in On(S)
                               /\ pv[sc[n]] = n /\ sc[pv[n]] = n
           /\ \A p \in S : /\ sc[p] # p /\ pv[p] # p
                           /\ sc[p] = pv[p] => sc[p] = ListHead
<1>0. /\ Len(o) \in Nat
      /\ \A i \in 1..Len(o) : o[i] \in Pages /\ o[i] \in On(S) /\ o[i] # ListHead
      /\ \A i, j \in 1..Len(o) : o[i] = o[j] => i = j
      /\ ListHead \in On(S)
      /\ sc[ListHead] = IF Len(o) = 0 THEN ListHead ELSE o[1]
      /\ pv[ListHead] = IF Len(o) = 0 THEN ListHead ELSE o[Len(o)]
      /\ \A i \in 1..Len(o) : /\ sc[o[i]] = IF i = Len(o) THEN ListHead ELSE o[i + 1]
                              /\ pv[o[i]] = IF i = 1 THEN ListHead ELSE o[i - 1]
  BY Heads DEF Ring, On
<1>1. S \subseteq Pages /\ On(S) \subseteq Nodes
  BY Heads DEF Ring, On
<1>2. ASSUME NEW n \in On(S)
      PROVE  sc[n] \in On(S) /\ pv[n] \in On(S) /\ pv[sc[n]] = n /\ sc[pv[n]] = n
  <2>1. CASE n = ListHead
    BY <2>1 DEF Ring, On
  <2>2. CASE n \in S
    <3>1. PICK k \in 1..Len(o) : n = o[k]
      BY <2>2 DEF Ring
    <3>2. sc[n] \in On(S) /\ pv[sc[n]] = n
      BY <1>0, <3>1
    <3>3. pv[n] \in On(S) /\ sc[pv[n]] = n
      BY <1>0, <3>1
    <3>. QED BY <3>2, <3>3
  <2>. QED BY <2>1, <2>2 DEF On
<1>3. ASSUME NEW p \in S PROVE sc[p] # p /\ pv[p] # p /\ (sc[p] = pv[p] => sc[p] = ListHead)
  <2>1. PICK k \in 1..Len(o) : p = o[k]
    BY DEF Ring
  <2>2. sc[p] # p /\ pv[p] # p
    BY <1>0, <2>1
  <2>3. sc[p] = pv[p] => sc[p] = ListHead
    BY <1>0, <2>1
  <2>. QED BY <2>2, <2>3
<1>. QED BY <1>1, <1>2, <1>3

\* A page is taken out of the middle.
LEMMA RingUnlink ==
    ASSUME NEW o, NEW S, NEW sc, NEW pv, Ring(o, S, sc, pv), NEW k \in 1..Len(o)
    PROVE  Ring([i \in 1..(Len(o) - 1) |-> IF i < k THEN o[i] ELSE o[i + 1]], S \ {o[k]},
                [sc EXCEPT ![pv[o[k]]] = sc[o[k]]], [pv EXCEPT ![sc[o[k]]] = pv[o[k]]])
<1>. DEFINE n == Len(o)
            q == [i \in 1..(n - 1) |-> IF i < k THEN o[i] ELSE o[i + 1]]
            p == o[k]
            L == pv[p]
            R == sc[p]
            sc2 == [sc EXCEPT ![L] = R]
            pv2 == [pv EXCEPT ![R] = L]
<1>1. /\ o \in Seq(Pages) /\ n \in Nat /\ n > 0
      /\ \A i \in 1..n : o[i] \in Pages
      /\ \A i, j \in 1..n : o[i] = o[j] => i = j
      /\ sc \in [Nodes -> Nodes] /\ pv \in [Nodes -> Nodes]
      /\ sc[ListHead] = o[1] /\ pv[ListHead] = o[n]
      /\ \A i \in 1..n : /\ sc[o[i]] = IF i = n THEN ListHead ELSE o[i + 1]
                         /\ pv[o[i]] = IF i = 1 THEN ListHead ELSE o[i - 1]
  BY DEF Ring
<1>2. q \in Seq(Pages) /\ Len(q) = n - 1 /\ \A i \in 1..(n - 1) : q[i] = IF i < k THEN o[i] ELSE o[i + 1]
  BY <1>1
<1>3. S \ {p} = {q[i] : i \in 1..Len(q)}
  <2>1. ASSUME NEW i \in 1..n, i # k PROVE \E j \in 1..(n - 1) : q[j] = o[i]
    <3>1. CASE i < k
      BY <3>1, <1>1
    <3>2. CASE i > k
      <4>1. i - 1 \in 1..(n - 1) /\ ~(i - 1 < k) /\ (i - 1) + 1 = i
        BY <3>2, <1>1
      <4>. QED BY <4>1, <1>2
    <3>. QED BY <3>1, <3>2, <2>1
  <2>2. ASSUME NEW i \in 1..(n - 1) PROVE q[i] \in S \ {p}
    BY <1>1, <1>2 DEF Ring
  <2>3. ASSUME NEW x \in S \ {p} PROVE \E j \in 1..(n - 1) : q[j] = x
    <3>1. PICK i \in 1..n : x = o[i]
      BY DEF Ring
    <3>. QED BY <3>1, <2>1
  <2>. HIDE DEF q
  <2>. QED BY <1>2, <2>2, <2>3
<1>4. \A i, j \in 1..(n - 1) : q[i] = q[j] => i = j
  BY <1>1, <1>2, SMTT(30)
<1>5. L \in Nodes /\ R \in Nodes /\ p \in Pages /\ p \in Nodes
  BY <1>1, Heads
<1>6. sc2 \in [Nodes -> Nodes] /\ pv2 \in [Nodes -> Nodes]
      /\ (\A m \in Nodes : sc2[m] = IF m = L THEN R ELSE sc[m])
      /\ (\A m \in Nodes : pv2[m] = IF m = R THEN L ELSE pv[m])
  BY <1>1, <1>5
<1>7. L = (IF k = 1 THEN ListHead ELSE o[k - 1]) /\ R = (IF k = n THEN ListHead ELSE o[k + 1])
  BY <1>1
<1>8. \A i \in 1..n : o[i] \in Nodes /\ o[i] # ListHead
  BY <1>1, Heads
<1>. HIDE DEF q, sc2, pv2, L, R
<1>9. /\ sc2[ListHead] = IF n - 1 = 0 THEN ListHead ELSE q[1]
      /\ pv2[ListHead] = IF n - 1 = 0 THEN ListHead ELSE q[n - 1]
  <2>1. L = ListHead <=> k = 1
    BY <1>1, <1>7, <1>8
  <2>2. R = ListHead <=> k = n
    BY <1>1, <1>7, <1>8
  <2>3. sc2[ListHead] = IF n - 1 = 0 THEN ListHead ELSE q[1]
    <3>1. CASE k = 1
      <4>1. sc2[ListHead] = R
        BY <3>1, <2>1, <1>6, Heads
      <4>. QED BY <4>1, <3>1, <1>1, <1>2, <1>7
    <3>2. CASE k > 1
      <4>1. sc2[ListHead] = sc[ListHead]
        BY <3>2, <2>1, <1>6, Heads
      <4>2. n - 1 > 0 /\ q[1] = o[1]
        BY <3>2, <1>1, <1>2
      <4>. QED BY <4>1, <4>2, <1>1
    <3>. QED BY <3>1, <3>2
  <2>4. pv2[ListHead] = IF n - 1 = 0 THEN ListHead ELSE q[n - 1]
    BY <1>1, <1>2, <1>6, <1>7, <2>2, Heads
  <2>. QED BY <2>3, <2>4
<1>10. ASSUME NEW i \in 1..(n - 1)
       PROVE  /\ sc2[q[i]] = IF i = n - 1 THEN ListHead ELSE q[i + 1]
              /\ pv2[q[i]] = IF i = 1 THEN ListHead ELSE q[i - 1]
  <2>1. CASE i < k
    <3>1. q[i] = o[i] /\ i \in 1..n /\ o[i] \in Nodes /\ o[i] # ListHead
      BY <2>1, <1>1, <1>2, <1>8
    <3>2. o[i] = L <=> i = k - 1
      BY <2>1, <3>1, <1>1, <1>7
    <3>3. o[i] # R
      BY <2>1, <3>1, <1>1, <1>7
    <3>4. sc2[q[i]] = IF i = n - 1 THEN ListHead ELSE q[i + 1]
      <4>1. CASE i = k - 1
        <5>1. sc2[q[i]] = R
          BY <4>1, <3>1, <3>2, <1>6
        <5>2. i # n - 1 => q[i + 1] = o[i + 2] /\ i + 2 = k + 1
          BY <4>1, <1>1, <1>2
        <5>. QED BY <4>1, <5>1, <5>2, <1>1, <1>7
      <4>2. CASE i < k - 1
        <5>1. sc2[q[i]] = sc[o[i]]
          BY <4>2, <3>1, <3>2, <1>6
        <5>2. i # n - 1 /\ i # n /\ i + 1 \in 1..(n - 1) /\ i + 1 < k
          BY <4>2, <1>1
        <5>3. q[i + 1] = o[i + 1]
          BY <5>2, <1>2
        <5>. QED BY <5>1, <5>2, <5>3, <3>1, <1>1
      <4>. QED BY <4>1, <4>2, <2>1
    <3>5. pv2[q[i]] = IF i = 1 THEN ListHead ELSE q[i - 1]
      BY <2>1, <3>1, <3>3, <1>1, <1>2, <1>6
    <3>. QED BY <3>4, <3>5
  <2>2. CASE i >= k
    <3>1. q[i] = o[i + 1] /\ i + 1 \in 1..n /\ o[i + 1] \in Nodes /\ o[i + 1] # ListHead
      BY <2>2, <1>1, <1>2, <1>8
    <3>2. o[i + 1] # L
      BY <2>2, <3>1, <1>1, <1>7
    <3>3. o[i + 1] = R <=> i = k
      BY <2>2, <3>1, <1>1, <1>7
    <3>4. sc2[q[i]] = IF i = n - 1 THEN ListHead ELSE q[i + 1]
      BY <2>2, <3>1, <3>2, <1>1, <1>2, <1>6
    <3>5. pv2[q[i]] = IF i = 1 THEN ListHead ELSE q[i - 1]
      BY <2>2, <3>1, <3>3, <1>1, <1>2, <1>6, <1>7
    <3>. QED BY <3>4, <3>5
  <2>. QED BY <2>1, <2>2
<1>11. Ring(q, S \ {p}, sc2, pv2)
  BY <1>2, <1>3, <1>4, <1>6, <1>9, <1>10 DEF Ring
<1>. QED BY <1>11 DEF q, sc2, pv2, L, R

\* The first m pages are taken off.
LEMMA RingDetach ==
    ASSUME NEW o, NEW S, NEW sc, NEW pv, Ring(o, S, sc, pv), NEW m \in 1..Len(o),
           NEW R, R = IF m = Len(o) THEN ListHead ELSE o[m + 1]
    PROVE  Ring([i \in 1..(Len(o) - m) |-> o[i + m]], S \ {o[i] : i \in 1..m},
                [sc EXCEPT ![ListHead] = R], [pv EXCEPT ![R] = ListHead])
<1>. DEFINE n == Len(o)
            q == [i \in 1..(n - m) |-> o[i + m]]
            T == {o[i] : i \in 1..m}
            sc2 == [sc EXCEPT ![ListHead] = R]
            pv2 == [pv EXCEPT ![R] = ListHead]
<1>1. /\ o \in Seq(Pages) /\ n \in Nat /\ n > 0
      /\ \A i \in 1..n : o[i] \in Pages
      /\ \A i, j \in 1..n : o[i] = o[j] => i = j
      /\ sc \in [Nodes -> Nodes] /\ pv \in [Nodes -> Nodes]
      /\ sc[ListHead] = o[1] /\ pv[ListHead] = o[n]
      /\ \A i \in 1..n : /\ sc[o[i]] = IF i = n THEN ListHead ELSE o[i + 1]
                         /\ pv[o[i]] = IF i = 1 THEN ListHead ELSE o[i - 1]
  BY DEF Ring
<1>2. q \in Seq(Pages) /\ Len(q) = n - m /\ \A i \in 1..(n - m) : q[i] = o[i + m]
  BY <1>1
<1>3. S \ T = {q[i] : i \in 1..Len(q)}
  <2>1. ASSUME NEW i \in 1..n, o[i] \notin T PROVE \E j \in 1..(n - m) : q[j] = o[i]
    <3>1. i > m
      BY <2>1
    <3>2. i - m \in 1..(n - m) /\ (i - m) + m = i
      BY <3>1, <1>1
    <3>. QED BY <3>2, <1>2
  <2>2. ASSUME NEW i \in 1..(n - m) PROVE q[i] \in S \ T
    <3>1. i + m \in 1..n /\ \A j \in 1..m : i + m # j
      BY <1>1
    <3>2. q[i] \in S
      BY <1>2, <3>1 DEF Ring
    <3>3. \A j \in 1..m : j \in 1..n
      BY <1>1
    <3>4. \A j \in 1..m : o[i + m] # o[j]
      BY <1>1, <3>1, <3>3
    <3>. QED BY <1>2, <3>2, <3>4
  <2>3. ASSUME NEW x \in S \ T PROVE \E j \in 1..(n - m) : q[j] = x
    <3>1. PICK i \in 1..n : x = o[i]
      BY DEF Ring
    <3>. QED BY <3>1, <2>1
  <2>. HIDE DEF q, T
  <2>. QED BY <1>2, <2>2, <2>3
<1>4. \A i, j \in 1..(n - m) : q[i] = q[j] => i = j
  <2>1. \A i \in 1..(n - m) : i + m \in 1..n
    BY <1>1
  <2>. HIDE DEF q
  <2>2. ASSUME NEW i \in 1..(n - m), NEW j \in 1..(n - m), q[i] = q[j] PROVE i = j
    <3>1. i + m = j + m
      BY <1>1, <1>2, <2>1, <2>2, SMTT(30)
    <3>. QED BY <3>1
  <2>. QED BY <2>2
<1>5. R \in Nodes
  BY <1>1, Heads
<1>6. sc2 \in [Nodes -> Nodes] /\ pv2 \in [Nodes -> Nodes]
      /\ (\A x \in Nodes : sc2[x] = IF x = ListHead THEN R ELSE sc[x])
      /\ (\A x \in Nodes : pv2[x] = IF x = R THEN ListHead ELSE pv[x])
  BY <1>1, <1>5, Heads
<1>8. \A i \in 1..n : o[i] \in Nodes /\ o[i] # ListHead
  BY <1>1, Heads
<1>. HIDE DEF q, sc2, pv2
<1>9. /\ sc2[ListHead] = IF n - m = 0 THEN ListHead ELSE q[1]
      /\ pv2[ListHead] = IF n - m = 0 THEN ListHead ELSE q[n - m]
  <2>1. CASE m = n
    BY <2>1, <1>6, Heads
  <2>2. CASE m < n
    <3>0. n - m > 0 /\ 1 \in 1..(n - m) /\ n - m \in 1..(n - m) /\ (n - m) + m = n
          /\ 1 + m = m + 1 /\ m + 1 \in 1..n
      BY <2>2, <1>1
    <3>1. q[1] = o[1 + m]
      BY <3>0, <1>2
    <3>2. q[n - m] = o[(n - m) + m]
      BY <3>0, <1>2
    <3>3. R = o[m + 1] /\ R # ListHead
      <4>1. m # Len(o)
        BY <2>2, <1>1
      <4>2. o[m + 1] # ListHead
        BY <3>0, <1>8
      <4>. QED BY <4>1, <4>2
    <3>4. q[1] = R /\ q[n - m] = o[n]
      BY <3>0, <3>1, <3>2, <3>3
    <3>5. n - m # 0
      BY <2>2, <1>1
    <3>6. ListHead \in Nodes
      BY Heads
    <3>. QED BY <3>3, <3>4, <3>5, <3>6, <1>1, <1>6
  <2>. QED BY <2>1, <2>2, <1>1
<1>10. ASSUME NEW i \in 1..(n - m)
       PROVE  /\ sc2[q[i]] = IF i = n - m THEN ListHead ELSE q[i + 1]
              /\ pv2[q[i]] = IF i = 1 THEN ListHead ELSE q[i - 1]
  <2>1. q[i] = o[i + m] /\ i + m \in 1..n /\ o[i + m] \in Nodes /\ o[i + m] # ListHead
    BY <1>1, <1>2, <1>8
  <2>2. o[i + m] = R <=> i = 1
    BY <2>1, <1>1
  <2>3. sc2[q[i]] = IF i = n - m THEN ListHead ELSE q[i + 1]
    <3>1. sc2[q[i]] = sc[o[i + m]] /\ (i = n - m <=> i + m = n)
      BY <2>1, <1>6, <1>1
    <3>2. i # n - m => q[i + 1] = o[(i + m) + 1]
      BY <1>1, <1>2
    <3>. QED BY <3>1, <3>2, <2>1, <1>1
  <2>4. pv2[q[i]] = IF i = 1 THEN ListHead ELSE q[i - 1]
    <3>1. CASE i = 1
      BY <3>1, <2>1, <2>2, <1>6
    <3>2. CASE i # 1
      <4>1. pv2[q[i]] = pv[o[i + m]] /\ i + m # 1
        BY <3>2, <2>1, <2>2, <1>6, <1>1
      <4>2. q[i - 1] = o[(i + m) - 1]
        <5>1. i - 1 \in 1..(n - m) /\ (i - 1) + m = (i + m) - 1
          BY <3>2, <1>1
        <5>. QED BY <5>1, <1>2
      <4>. QED BY <3>2, <4>1, <4>2, <2>1, <1>1
    <3>. QED BY <3>1, <3>2
  <2>. QED BY <2>3, <2>4
<1>11. Ring(q, S \ T, sc2, pv2)
  BY <1>2, <1>3, <1>4, <1>6, <1>9, <1>10, ZenonT(30) DEF Ring
<1>. QED BY <1>11 DEF q, sc2, pv2

\* Any order of pages is the order of a list.
LEMMA RingExists ==
    ASSUME NEW q \in Seq(Pages), \A j, k \in 1..Len(q) : q[j] = q[k] => j = k
    PROVE  \E sc, pv : Ring(q, Elems(q), sc, pv)
<1>. DEFINE n == Len(q)
            At(x) == CHOOSE k \in 1..n : q[k] = x
            sc == [x \in Nodes |-> IF x = ListHead THEN IF n = 0 THEN ListHead ELSE q[1]
                                   ELSE IF x \notin Elems(q) \/ At(x) = n THEN ListHead
                                   ELSE q[At(x) + 1]]
            pv == [x \in Nodes |-> IF x = ListHead THEN IF n = 0 THEN ListHead ELSE q[n]
                                   ELSE IF x \notin Elems(q) \/ At(x) = 1 THEN ListHead
                                   ELSE q[At(x) - 1]]
<1>1. n \in Nat /\ \A k \in 1..n : q[k] \in Pages /\ q[k] \in Nodes /\ q[k] # ListHead /\ q[k] \in Elems(q)
  BY Heads DEF Elems
<1>2. \A k \in 1..n : At(q[k]) = k
  OBVIOUS
<1>3. \A x \in Elems(q) : At(x) \in 1..n
  BY <1>2 DEF Elems
<1>. HIDE DEF At
<1>4. ASSUME NEW x \in Nodes PROVE sc[x] \in Nodes /\ pv[x] \in Nodes
  <2>1. ListHead \in Nodes
    BY Heads
  <2>2. CASE x = ListHead
    BY <2>1, <2>2, <1>1
  <2>3. CASE x # ListHead /\ x \in Elems(q)
    <3>1. At(x) \in 1..n
      BY <2>3, <1>3
    <3>. QED BY <2>1, <2>3, <1>1, <3>1
  <2>4. CASE x # ListHead /\ x \notin Elems(q)
    BY <2>1, <2>4
  <2>. QED BY <2>2, <2>3, <2>4
<1>5. sc \in [Nodes -> Nodes] /\ pv \in [Nodes -> Nodes]
  BY <1>4
<1>6. /\ sc[ListHead] = IF n = 0 THEN ListHead ELSE q[1]
      /\ pv[ListHead] = IF n = 0 THEN ListHead ELSE q[n]
  BY Heads
<1>7. ASSUME NEW k \in 1..n
      PROVE  /\ sc[q[k]] = IF k = n THEN ListHead ELSE q[k + 1]
             /\ pv[q[k]] = IF k = 1 THEN ListHead ELSE q[k - 1]
  <2>1. q[k] \in Nodes /\ q[k] # ListHead /\ q[k] \in Elems(q) /\ At(q[k]) = k
    BY <1>1, <1>2
  <2>. QED BY <2>1
<1>8. Ring(q, Elems(q), sc, pv)
  <2>. HIDE DEF sc, pv
  <2>. QED BY <1>5, <1>6, <1>7 DEF Ring, Elems
<1>. QED BY <1>8

\* The list (q, sc2, pv2) with the batch c at its tail.
WithBatch(o, S, sc, pv, c, q, S2, sc2, pv2) ==
    /\ q = o \o c /\ S2 = S \cup Elems(c) /\ Ring(q, S2, sc2, pv2)
    /\ \A x \in On(S) : x # pv[ListHead] => sc2[x] = sc[x]
    /\ sc2[pv[ListHead]] = c[1]
    /\ \A k \in 1..Len(c) : sc2[c[k]] = IF k = Len(c) THEN ListHead ELSE c[k + 1]
    /\ \A x \in S : pv2[x] = pv[x]
    /\ pv2[ListHead] = c[Len(c)]
    /\ \A k \in 1..Len(c) : pv2[c[k]] = IF k = 1 THEN pv[ListHead] ELSE c[k - 1]

\* A batch of other pages joins at the tail.
LEMMA RingAppend ==
    ASSUME NEW o, NEW S, NEW sc, NEW pv, Ring(o, S, sc, pv),
           NEW c \in Seq(Pages), Len(c) > 0, \A j, k \in 1..Len(c) : c[j] = c[k] => j = k,
           Elems(c) \cap S = {}
    PROVE  \E q, S2, sc2, pv2 : WithBatch(o, S, sc, pv, c, q, S2, sc2, pv2)
<1>. DEFINE n == Len(o)
            m == Len(c)
            q == o \o c
<1>1. /\ o \in Seq(Pages) /\ n \in Nat /\ m \in Nat /\ m > 0
      /\ \A i \in 1..n : o[i] \in Pages
      /\ \A i \in 1..m : c[i] \in Pages
      /\ \A i, j \in 1..n : o[i] = o[j] => i = j
      /\ S = {o[i] : i \in 1..n}
      /\ sc[ListHead] = IF n = 0 THEN ListHead ELSE o[1]
      /\ pv[ListHead] = IF n = 0 THEN ListHead ELSE o[n]
      /\ \A i \in 1..n : /\ sc[o[i]] = IF i = n THEN ListHead ELSE o[i + 1]
                         /\ pv[o[i]] = IF i = 1 THEN ListHead ELSE o[i - 1]
  BY DEF Ring
<1>2. /\ q \in Seq(Pages) /\ Len(q) = n + m
      /\ \A i \in 1..n : i \in 1..(n + m) /\ q[i] = o[i]
      /\ \A i \in 1..m : i + n \in 1..(n + m) /\ q[i + n] = c[i]
  <2>1. q \in Seq(Pages) /\ Len(q) = n + m
    BY <1>1
  <2>2. \A i \in 1..n : i \in 1..(n + m) /\ q[i] = o[i]
    BY <1>1
  <2>3. ASSUME NEW i \in 1..m PROVE i + n \in 1..(n + m) /\ q[i + n] = c[i]
    <3>1. i + n \in 1..(n + m) /\ ~(i + n <= n) /\ (i + n) - n = i
      BY <1>1
    <3>. QED BY <3>1, <1>1
  <2>. QED BY <2>1, <2>2, <2>3
<1>3. \A k \in 1..(n + m) : k \in 1..n \/ \E i \in 1..m : k = i + n
  <2>1. ASSUME NEW k \in 1..(n + m), k \notin 1..n PROVE k - n \in 1..m /\ k = (k - n) + n
    BY <1>1, <2>1
  <2>. QED BY <2>1
<1>4. Elems(q) = S \cup Elems(c)
  <2>. HIDE DEF q
  <2>1. ASSUME NEW k \in 1..(n + m) PROVE q[k] \in S \cup Elems(c)
    <3>1. CASE k \in 1..n
      <4>1. q[k] = o[k]
        BY <3>1, <1>2
      <4>. QED BY <3>1, <4>1, <1>1
    <3>2. CASE k \notin 1..n
      <4>1. PICK i \in 1..m : k = i + n
        BY <3>2, <1>3
      <4>2. q[k] = c[i]
        BY <4>1, <1>2
      <4>3. c[i] \in Elems(c)
        BY DEF Elems
      <4>. QED BY <4>2, <4>3
    <3>. QED BY <3>1, <3>2
  <2>2. \A x \in S : x \in Elems(q)
    BY <1>1, <1>2 DEF Elems
  <2>3. \A x \in Elems(c) : x \in Elems(q)
    BY <1>1, <1>2, SMTT(30) DEF Elems
  <2>4. Elems(q) = {q[k] : k \in 1..(n + m)}
    BY <1>2 DEF Elems
  <2>. QED BY <2>1, <2>2, <2>3, <2>4
<1>5. ASSUME NEW j \in 1..(n + m), NEW k \in 1..(n + m), q[j] = q[k] PROVE j = k
  <2>. HIDE DEF q
  <2>1. ASSUME NEW i \in 1..n, NEW l \in 1..m PROVE o[i] # c[l]
    <3>1. o[i] \in S /\ c[l] \in Elems(c)
      BY <1>1 DEF Elems
    <3>. QED BY <3>1
  <2>2. CASE j \in 1..n /\ k \in 1..n
    BY <2>2, <1>1, <1>2, <1>5
  <2>3. CASE j \in 1..n /\ k \notin 1..n
    <3>1. PICK l \in 1..m : k = l + n
      BY <2>3, <1>3
    <3>2. q[j] = o[j] /\ q[k] = c[l]
      BY <2>3, <3>1, <1>2
    <3>. QED BY <2>1, <2>3, <3>2, <1>5
  <2>4. CASE j \notin 1..n /\ k \in 1..n
    <3>1. PICK l \in 1..m : j = l + n
      BY <2>4, <1>3
    <3>2. q[k] = o[k] /\ q[j] = c[l]
      BY <2>4, <3>1, <1>2
    <3>. QED BY <2>1, <2>4, <3>2, <1>5
  <2>5. CASE j \notin 1..n /\ k \notin 1..n
    <3>1. PICK i \in 1..m : j = i + n
      BY <2>5, <1>3
    <3>2. PICK l \in 1..m : k = l + n
      BY <2>5, <1>3
    <3>3. c[i] = c[l]
      BY <3>1, <3>2, <1>2, <1>5
    <3>. QED BY <3>1, <3>2, <3>3
  <2>. QED BY <2>2, <2>3, <2>4, <2>5
<1>6. PICK sc2, pv2 : Ring(q, S \cup Elems(c), sc2, pv2)
  <2>1. \A j, k \in 1..Len(q) : q[j] = q[k] => j = k
    BY <1>2, <1>5
  <2>2. q \in Seq(Pages)
    BY <1>2
  <2>. HIDE DEF q
  <2>3. \E sc2, pv2 : Ring(q, Elems(q), sc2, pv2)
    BY <2>1, <2>2, RingExists
  <2>. QED BY <2>3, <1>4
<1>. HIDE DEF q
<1>7. /\ sc2[ListHead] = q[1] /\ pv2[ListHead] = q[n + m]
      /\ \A i \in 1..(n + m) : /\ sc2[q[i]] = IF i = n + m THEN ListHead ELSE q[i + 1]
                               /\ pv2[q[i]] = IF i = 1 THEN ListHead ELSE q[i - 1]
  BY <1>1, <1>2, <1>6 DEF Ring
<1>8. ASSUME NEW i \in 1..n, i # n PROVE sc2[o[i]] = sc[o[i]]
  <2>1. i + 1 \in 1..n /\ i # n + m
    BY <1>1, <1>8
  <2>. QED BY <2>1, <1>1, <1>2, <1>7, <1>8
<1>9. q[n + 1] = c[1]
  <2>1. 1 \in 1..m /\ 1 + n = n + 1
    BY <1>1
  <2>. QED BY <2>1, <1>2
<1>10. sc2[pv[ListHead]] = c[1]
  <2>1. CASE n = 0
    BY <2>1, <1>1, <1>7, <1>9
  <2>2. CASE n # 0
    <3>1. n \in 1..n /\ n # n + m
      BY <2>2, <1>1
    <3>. QED BY <2>2, <3>1, <1>1, <1>2, <1>7, <1>9, SMTT(30)
  <2>. QED BY <2>1, <2>2
<1>11. ASSUME NEW x \in On(S), x # pv[ListHead] PROVE sc2[x] = sc[x]
  <2>1. CASE x = ListHead
    <3>1. n # 0 /\ 1 \in 1..n
      BY <2>1, <1>1, <1>11
    <3>. QED BY <2>1, <3>1, <1>1, <1>2, <1>7
  <2>2. CASE x \in S
    <3>1. PICK i \in 1..n : x = o[i]
      BY <2>2, <1>1
    <3>2. i # n
      BY <3>1, <1>1, <1>11
    <3>. QED BY <3>1, <3>2, <1>8
  <2>. QED BY <2>1, <2>2 DEF On
<1>12. ASSUME NEW k \in 1..m PROVE sc2[c[k]] = IF k = m THEN ListHead ELSE c[k + 1]
  <2>1. k + n \in 1..(n + m) /\ q[k + n] = c[k] /\ (k + n = n + m <=> k = m)
    BY <1>1, <1>2
  <2>2. k # m => k + 1 \in 1..m /\ (k + 1) + n = (k + n) + 1
    BY <1>1
  <2>3. k # m => q[(k + n) + 1] = c[k + 1]
    BY <2>2, <1>2
  <2>. QED BY <2>1, <2>3, <1>7
<1>13. ASSUME NEW x \in S PROVE pv2[x] = pv[x]
  <2>1. PICK i \in 1..n : x = o[i]
    BY <1>1
  <2>2. i \in 1..(n + m) /\ q[i] = o[i]
    BY <1>2
  <2>3. i # 1 => q[i - 1] = o[i - 1]
    <3>1. i # 1 => i - 1 \in 1..n
      BY <1>1
    <3>. QED BY <3>1, <1>2
  <2>4. pv2[x] = IF i = 1 THEN ListHead ELSE q[i - 1]
    BY <2>1, <2>2, <1>7
  <2>5. pv[x] = IF i = 1 THEN ListHead ELSE o[i - 1]
    BY <2>1, <1>1
  <2>. QED BY <2>3, <2>4, <2>5
<1>14. pv2[ListHead] = c[m]
  <2>1. m \in 1..m /\ m + n = n + m
    BY <1>1
  <2>. QED BY <2>1, <1>2, <1>7
<1>15. ASSUME NEW k \in 1..m PROVE pv2[c[k]] = IF k = 1 THEN pv[ListHead] ELSE c[k - 1]
  <2>1. k + n \in 1..(n + m) /\ q[k + n] = c[k]
    BY <1>2
  <2>2. pv2[c[k]] = IF k + n = 1 THEN ListHead ELSE q[(k + n) - 1]
    BY <2>1, <1>7
  <2>3. CASE k = 1
    <3>1. CASE n = 0
      BY <2>2, <2>3, <3>1, <1>1
    <3>2. CASE n # 0
      <4>1. k + n # 1 /\ (k + n) - 1 = n /\ n \in 1..n
        BY <2>3, <3>2, <1>1
      <4>2. pv2[c[k]] = q[n] /\ q[n] = o[n]
        BY <2>2, <4>1, <1>2
      <4>. QED BY <2>3, <3>2, <4>2, <1>1
    <3>. QED BY <3>1, <3>2
  <2>4. CASE k # 1
    <3>1. k - 1 \in 1..m /\ (k - 1) + n = (k + n) - 1 /\ k + n # 1
      BY <2>4, <1>1
    <3>2. q[(k + n) - 1] = c[k - 1]
      BY <3>1, <1>2
    <3>. QED BY <2>2, <2>4, <3>1, <3>2
  <2>. QED BY <2>3, <2>4
<1>16. WithBatch(o, S, sc, pv, c, q, S \cup Elems(c), sc2, pv2)
  <2>1. q = o \o c
    BY DEF q
  <2>. QED BY <1>6, <1>10, <1>11, <1>12, <1>13, <1>14, <1>15, <2>1 DEF WithBatch
<1>. QED BY <1>16

\* What the flinks lead along is the order of the list, even while the last link is
\* not yet written.
LEMMA ForwardIs ==
    ASSUME NEW o, NEW S, NEW sc, NEW pv, Ring(o, S, sc, pv),
           \A n \in On(S) : flink[n] = sc[n] \/ (n \in S /\ n = pv[ListHead] /\ flink[n] = Nil)
    PROVE  Forward = o /\ OnList = S /\ Len(o) <= MaxLength
<1>. DEFINE n == Len(o)
            last == IF n = 0 THEN ListHead ELSE flink[o[n]]
            f == [k \in 0..(MaxLength + 1) |-> IF k < n THEN o[k + 1] ELSE last]
<1>1. /\ o \in Seq(Pages) /\ n \in Nat
      /\ \A i \in 1..n : o[i] \in Pages /\ o[i] \in S /\ o[i] \in On(S)
      /\ \A i, j \in 1..n : o[i] = o[j] => i = j
      /\ S = {o[i] : i \in 1..n}
      /\ sc[ListHead] = IF n = 0 THEN ListHead ELSE o[1]
      /\ pv[ListHead] = IF n = 0 THEN ListHead ELSE o[n]
      /\ \A i \in 1..n : sc[o[i]] = IF i = n THEN ListHead ELSE o[i + 1]
      /\ ListHead \in On(S)
  BY DEF Ring, On
<1>2. MaxLength \in Nat /\ n <= MaxLength
  <2>1. IsFiniteSet(Pages) /\ MaxLength \in Nat
    BY FS_CardinalityType, ListAssumption DEF MaxLength
  <2>2. IsFiniteSet(1..n) /\ Cardinality(1..n) = n
    BY <1>1, FS_Interval, SMTT(30)
  <2>3. SUFFICES ASSUME MaxLength < n PROVE FALSE
    BY <1>1, <2>1
  <2>4. o \in [1..n -> Pages]
    BY <1>1
  <2>5. \E i, j \in 1..n : i # j /\ o[i] = o[j]
    <3>1. Cardinality(Pages) < Cardinality(1..n)
      BY <2>2, <2>3 DEF MaxLength
    <3>. QED BY <2>1, <2>2, <2>4, <3>1, FS_PigeonHole
  <2>. QED BY <1>1, <2>5
<1>3. last \notin Pages
  <2>1. CASE n = 0
    BY <2>1, Heads
  <2>2. CASE n # 0
    <3>1. n \in 1..n
      BY <2>2, <1>1
    <3>2. flink[o[n]] = sc[o[n]] \/ flink[o[n]] = Nil
      BY <3>1, <1>1
    <3>. QED BY <2>2, <3>1, <3>2, <1>1, Heads
  <2>. QED BY <2>1, <2>2
<1>4. flink[ListHead] = IF n = 0 THEN ListHead ELSE o[1]
  <2>1. ListHead \notin S
    BY <1>1, Heads
  <2>. QED BY <2>1, <1>1
<1>5. ASSUME NEW i \in 1..n, i < n PROVE flink[o[i]] = o[i + 1]
  <2>1. n \in 1..n /\ pv[ListHead] = o[n] /\ i # n
    BY <1>1, <1>5
  <2>2. o[i] # pv[ListHead]
    BY <1>1, <2>1
  <2>. QED BY <1>1, <2>1, <2>2
<1>6. ASSUME NEW k \in 0..(MaxLength + 1)
      PROVE  f[k] = IF k = 0 THEN flink[ListHead]
                    ELSE IF f[k - 1] \in Pages THEN flink[f[k - 1]] ELSE f[k - 1]
  <2>. HIDE DEF last
  <2>1. CASE k = 0
    <3>1. f[k] = IF 0 < n THEN o[1] ELSE last
      BY <2>1, <1>2
    <3>2. n = 0 => last = ListHead
      BY DEF last
    <3>. QED BY <2>1, <3>1, <3>2, <1>1, <1>4
  <2>2. CASE k # 0
    <3>1. k - 1 \in 0..(MaxLength + 1) /\ (k - 1) + 1 = k
      BY <2>2, <1>2
    <3>2. f[k - 1] = IF k - 1 < n THEN o[k] ELSE last
      BY <3>1
    <3>3. CASE k - 1 < n
      <4>1. k \in 1..n /\ f[k - 1] = o[k] /\ o[k] \in Pages
        BY <2>2, <3>2, <3>3, <1>1
      <4>2. f[k] = flink[o[k]]
        <5>1. CASE k < n
          BY <5>1, <4>1, <1>5
        <5>2. CASE k = n
          <6>1. f[k] = last
            BY <5>2, <1>1
          <6>2. n # 0
            BY <2>2, <5>2
          <6>. QED BY <5>2, <6>1, <6>2 DEF last
        <5>. QED BY <5>1, <5>2, <4>1
      <4>. QED BY <2>2, <4>1, <4>2
    <3>4. CASE ~(k - 1 < n)
      <4>1. f[k] = last /\ f[k - 1] = last
        BY <3>2, <3>4, <1>1
      <4>. QED BY <2>2, <4>1, <1>3
    <3>. QED BY <3>3, <3>4
  <2>. QED BY <2>1, <2>2
<1>7. Way = f
  <2>1. f = [k \in 0..(MaxLength + 1) |->
                IF k = 0 THEN flink[ListHead]
                ELSE IF f[k - 1] \in Pages THEN flink[f[k - 1]] ELSE f[k - 1]]
    <3>1. \A k \in 0..(MaxLength + 1) :
             f[k] = IF k = 0 THEN flink[ListHead]
                    ELSE IF f[k - 1] \in Pages THEN flink[f[k - 1]] ELSE f[k - 1]
      BY <1>6
    <3>2. f = [k \in 0..(MaxLength + 1) |-> f[k]]
      OBVIOUS
    <3>. HIDE DEF f
    <3>. QED BY <3>1, <3>2
  <2>. HIDE DEF f
  <2>. QED BY <1>2, <2>1, WayIs
<1>8. \A k \in 0..(MaxLength + 1) : f[k] \in Pages <=> k < n
  <2>1. ASSUME NEW k \in 0..(MaxLength + 1) PROVE f[k] \in Pages <=> k < n
    <3>1. CASE k < n
      <4>1. k + 1 \in 1..n /\ f[k] = o[k + 1]
        BY <3>1, <1>1
      <4>. QED BY <3>1, <4>1, <1>1
    <3>2. CASE ~(k < n)
      BY <3>2, <1>3
    <3>. QED BY <3>1, <3>2
  <2>. QED BY <2>1
<1>9. {k \in 0..(MaxLength + 1) : Way[k] \in Pages} = 0..(n - 1)
  <2>. HIDE DEF f
  <2>. QED BY <1>1, <1>2, <1>7, <1>8
<1>10. Cardinality(0..(n - 1)) = n
  <2>1. 0 \in Int /\ n - 1 \in Int
    BY <1>1
  <2>2. Cardinality(0..(n - 1)) = IF 0 > n - 1 THEN 0 ELSE (n - 1) - 0 + 1
    BY <2>1, FS_Interval
  <2>. QED BY <1>1, <2>2
<1>11. Forward = [k \in 1..n |-> Way[k - 1]]
  BY <1>9, <1>10 DEF Forward
<1>12. \A k \in 1..n : Way[k - 1] = o[k]
  BY <1>1, <1>2, <1>7
<1>13. o = [k \in 1..n |-> o[k]]
  BY <1>1
<1>14. Forward = o
  BY <1>11, <1>12, <1>13
<1>15. OnList = S
  BY <1>1, <1>14 DEF OnList
<1>. QED BY <1>2, <1>14, <1>15

-----------------------------------------------------------------------------
(* A step of one thread.                                                   *)

\* The other threads stay where they are, and keep their locks.
Others(t) ==
    \A u \in Threads \ {t} :
        /\ pc'[u] = pc[u] /\ page'[u] = page[u] /\ fwd'[u] = fwd[u] /\ bck'[u] = bck[u]
        /\ count'[u] = count[u]
        /\ \A n \in Nodes : pfnLock'[n] = u <=> pfnLock[n] = u
        /\ u \in readers' <=> u \in readers
        /\ exclusive' = u <=> exclusive = u

\* What a step leads to: the list in its shape, with the same order or one that the
\* abstract queue allows.
Steps(o) == \E o2, S2, sc2, pv2, ch2, g2 :
    /\ Shape(o2, S2, sc2, pv2, ch2, g2)'
    /\ \/ o2 = o
       \/ Queue!BatchAppended(o, o2) \/ Queue!BatchTaken(o, o2) \/ Queue!PageTakenOut(o, o2)

\* A thread faults, removes pages or inserts them, and never two of these.
LEMMA Kinds ==
    /\ \A t \in Faulters : t \in Threads /\ t \notin Removers /\ t \notin Inserters
    /\ \A t \in Removers : t \in Threads /\ t \notin Faulters /\ t \notin Inserters
    /\ \A t \in Inserters : t \in Threads /\ t \notin Faulters /\ t \notin Removers
    /\ \A t \in Threads : t # NoThread
  BY ListAssumption DEF Threads

\* Who holds which locks.
LEMMA FaulterFacts ==
    ASSUME NEW o, NEW S, NEW sc, NEW pv, NEW ch, NEW g, Shape(o, S, sc, pv, ch, g),
           NEW t \in Faulters
    PROVE  /\ pc[t] # "idle" => /\ page[t] \in Pages /\ page[t] \in Nodes
                                /\ page[t] # ListHead /\ pfnLock[page[t]] = t
           /\ Viewing(t) => page[t] \in S /\ fwd[t] \in Nodes /\ bck[t] \in Nodes
           /\ pc[t] = "unlink2" => /\ fwd[t] \in Nodes /\ bck[t] \in Nodes
                                   /\ fwd[t] \in On(S) /\ bck[t] \in On(S)
                                   /\ sc[bck[t]] = fwd[t] /\ pv[fwd[t]] = bck[t]
                                   /\ blink[fwd[t]] = page[t] /\ page[t] \notin S
           /\ pc[t] = "unlink" /\ exclusive # t => pfnLock[fwd[t]] = t /\ pfnLock[bck[t]] = t
           /\ pc[t] \in {"unlink", "unlink2"} /\ exclusive # t => t \in readers
<1>1. FaulterHolds(t) /\ FaulterSees(t, S) /\ FaulterUnlinks(t, S, sc, pv) /\ FieldsOK
      /\ Ring(o, S, sc, pv)
  BY DEF Shape
<1>2. On(S) \subseteq Nodes
  BY <1>1, RingFacts
<1>3. pc[t] # "idle" => page[t] \in Pages /\ page[t] \in Nodes /\ page[t] # ListHead
  BY <1>1, Heads DEF FaulterSees, FieldsOK
<1>4. pc[t] # "idle" => pfnLock[page[t]] = t
  BY <1>1, <1>3 DEF FaulterHolds, Owns
<1>5. Viewing(t) => page[t] \in S /\ fwd[t] \in Nodes /\ bck[t] \in Nodes
  BY <1>1 DEF FaulterSees
<1>6. pc[t] = "unlink2" => /\ fwd[t] \in Nodes /\ bck[t] \in Nodes
                           /\ fwd[t] \in On(S) /\ bck[t] \in On(S)
                           /\ sc[bck[t]] = fwd[t] /\ pv[fwd[t]] = bck[t]
                           /\ blink[fwd[t]] = page[t] /\ page[t] \notin S
  BY <1>1, <1>2 DEF FaulterSees, FaulterUnlinks
<1>7. pc[t] = "unlink" /\ exclusive # t => pfnLock[fwd[t]] = t /\ pfnLock[bck[t]] = t
  <2>1. pc[t] = "unlink" => Viewing(t)
    BY DEF Viewing
  <2>. QED BY <1>1, <1>5, <2>1 DEF FaulterHolds, Owns
<1>8. pc[t] \in {"unlink", "unlink2"} /\ exclusive # t => t \in readers
  BY <1>1 DEF FaulterHolds
<1>. QED BY <1>3, <1>4, <1>5, <1>6, <1>7, <1>8

\* What a remover has locked: the head, the page after its batch, and its batch.
LEMMA RemoverFacts ==
    ASSUME NEW o, NEW S, NEW sc, NEW pv, NEW ch, NEW g, Shape(o, S, sc, pv, ch, g),
           NEW t \in Removers
    PROVE  /\ pc[t] \in {"first", "next", "extend", "detach", "detach2"} =>
                 pfnLock[ListHead] = t /\ t \in readers
           /\ pc[t] \in {"extend", "detach", "detach2"} =>
                 fwd[t] \in On(S) /\ pfnLock[fwd[t]] = t
           /\ pc[t] \in {"extend", "detach", "detach2", "size", "consume"} =>
                 /\ ch[t] \in Seq(Pages) /\ Len(ch[t]) \in Nat /\ Len(ch[t]) > 0
                 /\ Len(ch[t]) = count[t]
                 /\ \A p \in Elems(ch[t]) : /\ p \in Pages /\ p \in Nodes /\ p # ListHead
                                            /\ pfnLock[p] = t /\ p \in listed
                 /\ \A k \in 1..Len(ch[t]) : ch[t][k] \in Elems(ch[t])
<1>. DEFINE c == ch[t]
<1>1. RemoverHolds(t, c) /\ RemoverTakes(t, c, o, S, sc) /\ FieldsOK /\ Ring(o, S, sc, pv)
  BY DEF Shape
<1>2. pc[t] \in {"first", "next", "extend", "detach", "detach2"} =>
         pfnLock[ListHead] = t /\ t \in readers
  BY <1>1, Heads DEF RemoverHolds, Owns
<1>3. pc[t] \in {"extend", "detach", "detach2"} => fwd[t] \in On(S) /\ pfnLock[fwd[t]] = t
  <2>1. ListHead \in On(S) /\ On(S) \subseteq Nodes /\ sc[ListHead] \in On(S)
    BY <1>1, RingFacts DEF On
  <2>2. /\ \A k \in 1..Len(o) : o[k] \in On(S)
        /\ Len(o) \in Nat
    BY <1>1 DEF Ring, On
  <2>3. ASSUME pc[t] \in {"extend", "detach"} PROVE fwd[t] \in On(S)
    <3>1. /\ Len(c) <= Len(o) /\ fwd[t] = IF Len(c) = Len(o) THEN ListHead ELSE o[Len(c) + 1]
          /\ c \in Seq(Pages)
      BY <1>1, <2>3 DEF RemoverTakes, BatchIs
    <3>2. Len(c) # Len(o) => Len(c) + 1 \in 1..Len(o)
      BY <3>1, <2>2
    <3>. QED BY <3>1, <3>2, <2>1, <2>2
  <2>4. pc[t] = "detach2" => fwd[t] \in On(S)
    BY <1>1, <2>1 DEF RemoverTakes
  <2>5. pc[t] \in {"extend", "detach", "detach2"} => fwd[t] \in On(S) /\ fwd[t] \in Nodes
    BY <2>1, <2>3, <2>4
  <2>. QED BY <1>1, <2>5 DEF RemoverHolds, Owns
<1>4. ASSUME pc[t] \in {"extend", "detach", "detach2", "size", "consume"}
      PROVE  /\ c \in Seq(Pages) /\ Len(c) \in Nat /\ Len(c) > 0 /\ Len(c) = count[t]
             /\ \A p \in Elems(c) : /\ p \in Pages /\ p \in Nodes /\ p # ListHead
                                    /\ pfnLock[p] = t /\ p \in listed
             /\ \A k \in 1..Len(c) : c[k] \in Elems(c)
  <2>1. BatchIs(t, c) /\ Elems(c) \subseteq listed
    BY <1>1, <1>4 DEF RemoverTakes
  <2>2. c \in Seq(Pages) /\ Len(c) \in Nat /\ Len(c) > 0 /\ Len(c) = count[t]
    BY <2>1 DEF BatchIs
  <2>3. \A p \in Elems(c) : p \in Pages /\ p \in Nodes /\ p # ListHead /\ p \in listed
    BY <2>1, <2>2, Heads DEF Elems
  <2>4. \A p \in Elems(c) : pfnLock[p] = t
    BY <1>1, <1>4, <2>3 DEF RemoverHolds, Owns
  <2>. QED BY <2>2, <2>3, <2>4 DEF Elems
<1>. QED BY <1>2, <1>3, <1>4

\* What an inserter has locked: its batch and, once it links it, both ends of the list.
LEMMA InserterFacts ==
    ASSUME NEW o, NEW S, NEW sc, NEW pv, NEW ch, NEW g, Shape(o, S, sc, pv, ch, g),
           NEW t \in Inserters
    PROVE  /\ pc[t] \in {"tail", "link", "link2"} => pfnLock[ListHead] = t /\ t \in readers
           /\ pc[t] = "link" => bck[t] \in On(S) /\ bck[t] \in Nodes /\ pfnLock[bck[t]] = t
           /\ pc[t] \in {"share", "head", "tail", "link", "link2"} =>
                 fwd[t] \in Elems(ch[t]) /\ flink[fwd[t]] = Nil
           /\ pc[t] # "idle" =>
                 /\ ch[t] \in Seq(Pages) /\ Len(ch[t]) \in Nat /\ Len(ch[t]) > 0
                 /\ Len(ch[t]) = count[t]
                 /\ \A p \in Elems(ch[t]) : /\ p \in Pages /\ p \in Nodes /\ p # ListHead
                                            /\ pfnLock[p] = t /\ p \notin listed
                 /\ \A k \in 1..Len(ch[t]) : ch[t][k] \in Elems(ch[t])
<1>. DEFINE c == ch[t]
<1>1. InserterHolds(t, c) /\ InserterBrings(t, c, S, pv) /\ Ring(o, S, sc, pv)
  BY DEF Shape
<1>2. pc[t] \in {"tail", "link", "link2"} => pfnLock[ListHead] = t /\ t \in readers
  BY <1>1, Heads DEF InserterHolds, Owns
<1>3. pc[t] = "link" => bck[t] \in On(S) /\ bck[t] \in Nodes /\ pfnLock[bck[t]] = t
  <2>1. pv[ListHead] \in On(S) /\ On(S) \subseteq Nodes
    BY <1>1, RingFacts DEF On
  <2>2. pc[t] = "link" => bck[t] \in On(S) /\ bck[t] \in Nodes
    BY <1>1, <2>1 DEF InserterBrings
  <2>. QED BY <1>1, <2>2 DEF InserterHolds, Owns
<1>4. ASSUME pc[t] # "idle"
      PROVE  /\ c \in Seq(Pages) /\ Len(c) \in Nat /\ Len(c) > 0 /\ Len(c) = count[t]
             /\ \A p \in Elems(c) : /\ p \in Pages /\ p \in Nodes /\ p # ListHead
                                    /\ pfnLock[p] = t /\ p \notin listed
             /\ \A k \in 1..Len(c) : c[k] \in Elems(c)
  <2>1. BatchIs(t, c) /\ Elems(c) \cap listed = {}
    BY <1>1, <1>4 DEF InserterBrings
  <2>2. c \in Seq(Pages) /\ Len(c) \in Nat /\ Len(c) > 0 /\ Len(c) = count[t]
    BY <2>1 DEF BatchIs
  <2>3. \A p \in Elems(c) : p \in Pages /\ p \in Nodes /\ p # ListHead /\ p \notin listed
    BY <2>1, <2>2, Heads DEF Elems
  <2>4. \A p \in Elems(c) : pfnLock[p] = t
    BY <1>1, <1>4, <2>3 DEF InserterHolds, Owns
  <2>. QED BY <2>2, <2>3, <2>4 DEF Elems
<1>5. ASSUME pc[t] \in {"share", "head", "tail", "link", "link2"}
      PROVE  fwd[t] \in Elems(c) /\ flink[fwd[t]] = Nil
  <2>1. fwd[t] = c[Len(c)] /\ flink[fwd[t]] = Nil
    BY <1>1, <1>5 DEF InserterBrings
  <2>2. Len(c) \in 1..Len(c)
    BY <1>4, <1>5
  <2>. QED BY <1>4, <1>5, <2>1, <2>2
<1>. QED BY <1>2, <1>3, <1>4, <1>5

\* A reader of the list excludes an exclusive owner.
LEMMA ReadersExclude ==
    ASSUME NEW o, NEW S, NEW sc, NEW pv, NEW ch, NEW g, Shape(o, S, sc, pv, ch, g),
           NEW t \in readers
    PROVE  exclusive = NoThread
  BY DEF Shape, ListLock

\* Only the page at the tail can be without its flink.
LEMMA LooseFacts ==
    ASSUME NEW o, NEW S, NEW sc, NEW pv, NEW ch, NEW g, Shape(o, S, sc, pv, ch, g),
           NEW n, Loose(n)
    PROVE  /\ n \in Pages /\ n \in S /\ n = pv[ListHead] /\ flink[n] = Nil
           /\ \E i \in Inserters : pc[i] = "link2" /\ pfnLock[n] = i
<1>1. PICK i \in Inserters : pc[i] = "link2" /\ fwd[i] = n
  BY DEF Loose
<1>2. n \in Elems(ch[i]) /\ flink[n] = Nil /\ \A p \in Elems(ch[i]) : p \in Pages /\ pfnLock[p] = i
  BY <1>1, InserterFacts
<1>3. InserterBrings(i, ch[i], S, pv)
  BY DEF Shape
<1>4. n = pv[ListHead] /\ Elems(ch[i]) \subseteq S
  BY <1>1, <1>3 DEF InserterBrings
<1>. QED BY <1>1, <1>2, <1>4

\* The writes that are on their way stay there, but for those of the thread that acts.
LEMMA DebtsKept ==
    ASSUME NEW t \in Threads, Others(t), NEW n
    PROVE  /\ Loose(n) => Loose(n)' \/ (t \in Inserters /\ pc[t] = "link2" /\ fwd[t] = n)
           /\ Owed(n) => \/ Owed(n)'
                         \/ t \in Faulters /\ pc[t] = "unlink2" /\ fwd[t] = n
                         \/ t \in Removers /\ pc[t] = "detach2" /\ fwd[t] = n
                         \/ n = ListHead /\ t \in Inserters /\ pc[t] = "link2"
<1>1. \A u \in Threads \ {t} : pc'[u] = pc[u] /\ fwd'[u] = fwd[u]
  BY DEF Others
<1>. QED BY <1>1, Kinds DEF Loose, Owed

\* What the other threads hold.
LEMMA OthersHold ==
    ASSUME NEW o, NEW S, NEW sc, NEW pv, NEW ch, NEW g, Shape(o, S, sc, pv, ch, g),
           NEW t \in Threads, Others(t), NEW ch2, \A u \in Threads \ {t} : ch2[u] = ch[u]
    PROVE  /\ \A u \in Faulters \ {t} : FaulterHolds(u)'
           /\ \A u \in Removers \ {t} : RemoverHolds(u, ch2[u])'
           /\ \A u \in Inserters \ {t} : InserterHolds(u, ch2[u])'
<1>1. ASSUME NEW u \in Faulters \ {t} PROVE FaulterHolds(u)'
  <2>1. u \in Threads \ {t} /\ FaulterHolds(u)
    BY Kinds DEF Shape
  <2>2. /\ pc'[u] = pc[u] /\ page'[u] = page[u] /\ fwd'[u] = fwd[u] /\ bck'[u] = bck[u]
        /\ \A n \in Nodes : pfnLock'[n] = u <=> pfnLock[n] = u
        /\ u \in readers' <=> u \in readers
        /\ exclusive' = u <=> exclusive = u
    BY <2>1 DEF Others
  <2>3. pc'[u] = "idle" => Owns(u, {})'
    BY <2>1, <2>2 DEF FaulterHolds, Owns
  <2>4. pc'[u] \in {"share", "retry", "exclusive", "flink", "count"} => Owns(u, {page[u]})'
    BY <2>1, <2>2 DEF FaulterHolds, Owns
  <2>5. pc'[u] = "blink" => Owns(u, {page[u], fwd[u]})'
    BY <2>1, <2>2 DEF FaulterHolds, Owns
  <2>6. pc'[u] = "unlink" /\ exclusive' # u => Owns(u, {page[u], fwd[u], bck[u]})'
    BY <2>1, <2>2 DEF FaulterHolds, Owns
  <2>7. pc'[u] = "unlink2" => pfnLock'[page'[u]] = u
    <3>1. pc[u] # "idle" => page[u] \in Nodes
      BY FaulterFacts
    <3>. QED BY <2>1, <2>2, <3>1 DEF FaulterHolds
  <2>8. exclusive' = u => pc'[u] \in {"unlink", "unlink2"} /\ Owns(u, {page[u]})'
    BY <2>1, <2>2 DEF FaulterHolds, Owns
  <2>9. u \in readers' <=> \/ pc'[u] \in {"flink", "blink"}
                           \/ pc'[u] \in {"unlink", "unlink2"} /\ exclusive' # u
    BY <2>1, <2>2 DEF FaulterHolds
  <2>10. pc'[u] \in {"idle", "share", "retry", "exclusive", "flink", "blink", "unlink",
                     "unlink2", "count"}
    BY <2>1, <2>2 DEF FaulterHolds
  <2>. QED BY <2>3, <2>4, <2>5, <2>6, <2>7, <2>8, <2>9, <2>10 DEF FaulterHolds
<1>2. ASSUME NEW u \in Removers \ {t} PROVE RemoverHolds(u, ch2[u])'
  <2>1. u \in Threads \ {t} /\ RemoverHolds(u, ch2[u])
    BY Kinds DEF Shape
  <2>. QED BY <2>1 DEF Others, RemoverHolds, Owns
<1>3. ASSUME NEW u \in Inserters \ {t} PROVE InserterHolds(u, ch2[u])'
  <2>1. u \in Threads \ {t} /\ InserterHolds(u, ch2[u])
    BY Kinds DEF Shape
  <2>. QED BY <2>1 DEF Others, InserterHolds, Owns
<1>. QED BY <1>1, <1>2, <1>3

\* What the other soft faults see.
LEMMA OthersSee ==
    ASSUME NEW o, NEW S, NEW sc, NEW pv, NEW ch, NEW g, Shape(o, S, sc, pv, ch, g),
           NEW t \in Threads, Others(t), NEW S2,
           \A u \in Faulters \ {t} : /\ pc[u] # "idle" => page[u] \in listed'
                                     /\ Viewing(u) => page[u] \in S2
                                     /\ pc[u] \in {"unlink2", "count"} => page[u] \notin S2
    PROVE  \A u \in Faulters \ {t} : FaulterSees(u, S2)'
<1>1. ASSUME NEW u \in Faulters \ {t} PROVE FaulterSees(u, S2)'
  <2>1. u \in Threads \ {t} /\ FaulterSees(u, S)
    BY Kinds DEF Shape
  <2>2. pc'[u] = pc[u] /\ page'[u] = page[u] /\ fwd'[u] = fwd[u] /\ bck'[u] = bck[u]
    BY <2>1 DEF Others
  <2>. QED BY <2>1, <2>2 DEF FaulterSees, Viewing
<1>. QED BY <1>1

\* A soft fault between its two writes keeps its neighbours through the step of another
\* thread.
LEMMA OtherUnlinks ==
    ASSUME NEW o, NEW S, NEW sc, NEW pv, NEW ch, NEW g, Shape(o, S, sc, pv, ch, g),
           NEW t \in Threads, Others(t), NEW u \in Faulters \ {t}, NEW S2, NEW sc2, NEW pv2,
           pc[u] = "unlink2" => /\ fwd[u] \in On(S2) /\ bck[u] \in On(S2)
                                /\ sc2[bck[u]] = fwd[u] /\ pv2[fwd[u]] = bck[u]
                                /\ blink'[fwd[u]] = blink[fwd[u]]
    PROVE  FaulterUnlinks(u, S2, sc2, pv2)'
<1>1. FaulterUnlinks(u, S2, sc2, pv2)'
  <2>1. u \in Threads \ {t} /\ FaulterUnlinks(u, S, sc, pv)
    BY Kinds DEF Shape
  <2>2. pc'[u] = pc[u] /\ page'[u] = page[u] /\ fwd'[u] = fwd[u] /\ bck'[u] = bck[u]
        /\ (exclusive' = u <=> exclusive = u)
        /\ \A n \in Nodes : pfnLock'[n] = u <=> pfnLock[n] = u
    BY <2>1 DEF Others
  <2>3. pc[u] = "unlink2" => fwd[u] \in Nodes /\ bck[u] \in Nodes
    BY FaulterFacts
  <2>. QED BY <2>1, <2>2, <2>3 DEF FaulterUnlinks
<1>. QED BY <1>1

\* The batches of the other removals.
LEMMA OtherTakes ==
    ASSUME NEW o, NEW S, NEW sc, NEW pv, NEW ch, NEW g, Shape(o, S, sc, pv, ch, g),
           NEW t \in Threads, Others(t), NEW u \in Removers \ {t}, NEW o2, NEW S2, NEW sc2,
           pc[u] \in {"next", "extend", "detach", "detach2"} => o2 = o /\ sc2 = sc,
           pc[u] \in {"extend", "detach", "detach2", "size", "consume"} =>
              \A p \in Elems(ch[u]) : flink'[p] = flink[p] /\ p \in listed',
           pc[u] \in {"detach2", "size", "consume"} => Elems(ch[u]) \cap S2 = {}
    PROVE  RemoverTakes(u, ch[u], o2, S2, sc2)'
<1>1. RemoverTakes(u, ch[u], o2, S2, sc2)'
  <2>. DEFINE c == ch[u]
  <2>1. u \in Threads \ {t} /\ RemoverTakes(u, c, o, S, sc)
    BY Kinds DEF Shape
  <2>2. pc'[u] = pc[u] /\ page'[u] = page[u] /\ fwd'[u] = fwd[u] /\ bck'[u] = bck[u]
        /\ count'[u] = count[u]
    BY <2>1 DEF Others
  <2>3. ASSUME pc[u] \in {"extend", "detach", "detach2", "size", "consume"}
        PROVE  BatchIs(u, c)' /\ Elems(c) \subseteq listed'
    <3>1. BatchIs(u, c)
      BY <2>1, <2>3 DEF RemoverTakes
    <3>2. /\ Len(c) \in Nat /\ \A k \in 1..Len(c) : c[k] \in Elems(c)
          /\ \A p \in Elems(c) : flink'[p] = flink[p] /\ p \in listed'
      BY <2>3, RemoverFacts
    <3>. HIDE DEF c
    <3>3. \A k \in 1..(Len(c) - 1) : flink'[c[k]] = flink[c[k]]
      BY <3>2
    <3>. QED BY <2>2, <3>1, <3>2, <3>3 DEF BatchIs
  <2>4. RemoverTakes(u, c, o2, S2, sc2)'
    <3>1. pc[u] = "next" => Len(o2) > 0 /\ page[u] = o2[1]
      BY <2>1 DEF RemoverTakes
    <3>2. pc[u] \in {"extend", "detach", "detach2", "size", "consume"} => Len(c) <= BatchCapacity
      BY <2>1 DEF RemoverTakes
    <3>3. pc[u] \in {"extend", "detach"} =>
             /\ Len(c) <= Len(o2) /\ \A k \in 1..Len(c) : c[k] = o2[k]
             /\ fwd[u] = IF Len(c) = Len(o2) THEN ListHead ELSE o2[Len(c) + 1]
      BY <2>1 DEF RemoverTakes
    <3>4. pc[u] = "extend" => fwd[u] # ListHead
      BY <2>1 DEF RemoverTakes
    <3>5. pc[u] = "detach2" => fwd[u] = sc2[ListHead]
      BY <2>1 DEF RemoverTakes
    <3>6. pc[u] \in {"detach2", "size", "consume"} => Elems(c) \cap S2 = {}
      OBVIOUS
    <3>. HIDE DEF c
    <3>. QED BY <2>2, <2>3, <3>1, <3>2, <3>3, <3>4, <3>5, <3>6 DEF RemoverTakes
  <2>. QED BY <2>1, <2>4
<1>. QED BY <1>1

\* The batches of the other insertions.
LEMMA OtherBrings ==
    ASSUME NEW o, NEW S, NEW sc, NEW pv, NEW ch, NEW g, Shape(o, S, sc, pv, ch, g),
           NEW t \in Threads, Others(t), NEW u \in Inserters \ {t}, NEW S2, NEW pv2,
           pc[u] # "idle" => \A p \in Elems(ch[u]) : flink'[p] = flink[p] /\ p \notin listed',
           pc[u] \in {"share", "head", "tail", "link"} =>
              Elems(ch[u]) \cap S2 = {} /\ \A p \in Elems(ch[u]) : blink'[p] = blink[p],
           pc[u] \in {"link", "link2"} => pv2[ListHead] = pv[ListHead],
           pc[u] \in {"link2", "size", "unlock"} => Elems(ch[u]) \subseteq S2
    PROVE  InserterBrings(u, ch[u], S2, pv2)'
<1>1. InserterBrings(u, ch[u], S2, pv2)'
  <2>. DEFINE c == ch[u]
  <2>1. u \in Threads \ {t} /\ InserterBrings(u, c, S, pv)
    BY Kinds DEF Shape
  <2>2. pc'[u] = pc[u] /\ page'[u] = page[u] /\ fwd'[u] = fwd[u] /\ bck'[u] = bck[u]
        /\ count'[u] = count[u]
    BY <2>1 DEF Others
  <2>3. pc[u] # "idle" =>
           /\ Len(c) \in Nat /\ \A k \in 1..Len(c) : c[k] \in Elems(c)
           /\ \A p \in Elems(c) : flink'[p] = flink[p] /\ p \notin listed'
    BY InserterFacts
  <2>4. ASSUME pc[u] # "idle" PROVE BatchIs(u, c)' /\ Elems(c) \cap listed' = {}
    <3>1. BatchIs(u, c)
      BY <2>1, <2>4 DEF InserterBrings
    <3>. HIDE DEF c
    <3>2. \A k \in 1..(Len(c) - 1) : flink'[c[k]] = flink[c[k]]
      BY <2>3, <2>4
    <3>. QED BY <2>2, <2>3, <2>4, <3>1, <3>2 DEF BatchIs
  <2>5. ASSUME pc[u] \in {"share", "head", "tail", "link", "link2"}
        PROVE  fwd[u] = c[Len(c)] /\ flink'[fwd[u]] = Nil
    BY <2>1, <2>3, <2>5, InserterFacts DEF InserterBrings
  <2>6. ASSUME pc[u] \in {"share", "head", "tail", "link"}
        PROVE  Elems(c) \cap S2 = {} /\ \A k \in 1..(Len(c) - 1) : blink'[c[k + 1]] = c[k]
    <3>1. \A k \in 1..(Len(c) - 1) : blink[c[k + 1]] = c[k]
      BY <2>1, <2>6 DEF InserterBrings
    <3>2. \A p \in Elems(c) : blink'[p] = blink[p]
      BY <2>6
    <3>3. Elems(c) \cap S2 = {}
      BY <2>6
    <3>. HIDE DEF c
    <3>4. \A k \in 1..(Len(c) - 1) : k + 1 \in 1..Len(c)
      BY <2>3, <2>6
    <3>. QED BY <2>3, <2>6, <3>1, <3>2, <3>3, <3>4
  <2>7. pc[u] = "link" => bck[u] = pv2[ListHead]
    BY <2>1 DEF InserterBrings
  <2>8. pc[u] = "link2" => pv2[ListHead] = fwd[u] /\ bck[u] \notin Elems(c)
    BY <2>1 DEF InserterBrings
  <2>9. pc[u] \in {"link2", "size", "unlock"} => Elems(c) \subseteq S2
    OBVIOUS
  <2>10. InserterBrings(u, c, S2, pv2)'
    <3>. HIDE DEF c
    <3>. QED BY <2>2, <2>4, <2>5, <2>6, <2>7, <2>8, <2>9 DEF InserterBrings
  <2>. QED BY <2>1, <2>10
<1>. QED BY <1>1

\* What two soft faults know of each other, if none looks at the list.
LEMMA ViewsKept ==
    ASSUME NEW o, NEW S, NEW sc, NEW pv, NEW ch, NEW g, Shape(o, S, sc, pv, ch, g),
           NEW t \in Threads, Others(t),
           t \in Faulters => /\ Viewing(t)' => /\ Viewing(t) /\ page'[t] = page[t]
                                               /\ fwd'[t] = fwd[t] /\ bck'[t] = bck[t]
                             /\ pc'[t] # "unlink2" /\ exclusive' # t
    PROVE  OneGap(g, S, sc, pv)' /\ NeighboursMeet(sc)' /\ NeighboursWait' /\ ExclusiveIsAlone(sc, pv)'
<1>0. OneGap(g, S, sc, pv) /\ NeighboursMeet(sc) /\ NeighboursWait /\ ExclusiveIsAlone(sc, pv)
  BY DEF Shape
<1>1. \A u \in Faulters : Viewing(u)' =>
         Viewing(u) /\ page'[u] = page[u] /\ fwd'[u] = fwd[u] /\ bck'[u] = bck[u]
  BY Kinds DEF Others, Viewing
<1>2. \A u \in Faulters : Viewing(u) => fwd[u] \in Nodes /\ bck[u] \in Nodes
  BY FaulterFacts
<1>3. ASSUME NEW u \in Faulters, pc'[u] = "unlink2"
      PROVE  /\ pc[u] = "unlink2" /\ page'[u] = page[u] /\ fwd'[u] = fwd[u] /\ bck'[u] = bck[u]
             /\ exclusive' # u => exclusive # u
             /\ \A n \in Nodes : pfnLock'[n] = u <=> pfnLock[n] = u
             /\ fwd[u] \in Nodes
  <2>1. u \in Threads \ {t}
    BY <1>3, Kinds
  <2>2. pc[u] = "unlink2" => fwd[u] \in Nodes
    BY FaulterFacts
  <2>. QED BY <1>3, <2>1, <2>2 DEF Others
<1>4. ASSUME NEW u \in Faulters, exclusive' = u
      PROVE  exclusive = u /\ pc'[u] = pc[u] /\ page'[u] = page[u] /\ fwd'[u] = fwd[u] /\ bck'[u] = bck[u]
  <2>1. u \in Threads \ {t}
    BY <1>4, Kinds
  <2>. QED BY <1>4, <2>1 DEF Others
<1>5. OneGap(g, S, sc, pv)'
  BY <1>0, <1>1, <1>3 DEF OneGap
<1>6. NeighboursMeet(sc)'
  BY <1>0, <1>1 DEF NeighboursMeet
<1>7. NeighboursWait'
  BY <1>0, <1>1, <1>2, <1>3 DEF NeighboursWait
<1>8. ExclusiveIsAlone(sc, pv)'
  BY <1>0, <1>1, <1>4 DEF ExclusiveIsAlone
<1>. QED BY <1>5, <1>6, <1>7, <1>8

\* Arithmetic: both sums change by what the stepping thread adds to them.
LEMMA Balance ==
    ASSUME NEW s \in Int, NEW s2 \in Int, NEW F \in Nat, NEW X \in Nat, NEW n \in Nat, NEW n2 \in Nat,
           NEW a \in Nat, NEW a2 \in Nat, NEW b \in Nat, NEW b2 \in Nat,
           s + F - X = n, n2 - n = (s2 - s) + (a2 - a) - (b2 - b)
    PROVE  s2 + (F - a + a2) - (X - b + b2) = n2
  OBVIOUS

\* The size of the list, after a step of one thread.
LEMMA SizesStep ==
    ASSUME FieldsOK, FieldsOK', NEW t \in Threads, Others(t),
           NEW o, Len(o) \in Nat, Sizes(o), NEW o2, Len(o2) \in Nat,
           Len(o2) - Len(o) = (list_size' - list_size) + (JoiningOf(t)' - JoiningOf(t))
                              - (LeavingOf(t)' - LeavingOf(t))
    PROVE  Sizes(o2)'
<1>1. IsFiniteSet(Threads)
  BY ListAssumption
<1>2. \A u \in Threads : /\ JoiningOf(u) \in Nat /\ LeavingOf(u) \in Nat
                         /\ JoiningOf(u)' \in Nat /\ LeavingOf(u)' \in Nat
  BY DEF JoiningOf, LeavingOf, FieldsOK
<1>3. \A u \in Threads : u # t => JoiningOf(u)' = JoiningOf(u) /\ LeavingOf(u)' = LeavingOf(u)
  BY DEF Others, JoiningOf, LeavingOf
<1>4. PICK f, g : f = Joining /\ g = Joining'
  OBVIOUS
<1>5. /\ \A u \in Threads : f[u] = JoiningOf(u) /\ g[u] = JoiningOf(u)'
  BY <1>4 DEF Joining
<1>6. Sum(g, Threads) = Sum(f, Threads) - f[t] + g[t] /\ Sum(f, Threads) \in Nat
  <2>1. \A u \in Threads : f[u] \in Nat
    BY <1>2, <1>5
  <2>2. \A u \in Threads : g[u] \in Nat
    BY <1>2, <1>5
  <2>3. \A u \in Threads : u # t => g[u] = f[u]
    BY <1>3, <1>5
  <2>. QED BY <1>1, <2>1, <2>2, <2>3, SumChange, SumType
<1>7. PICK x, y : x = Leaving /\ y = Leaving'
  OBVIOUS
<1>8. /\ \A u \in Threads : x[u] = LeavingOf(u) /\ y[u] = LeavingOf(u)'
  BY <1>7 DEF Leaving
<1>9. Sum(y, Threads) = Sum(x, Threads) - x[t] + y[t] /\ Sum(x, Threads) \in Nat
  <2>1. \A u \in Threads : x[u] \in Nat
    BY <1>2, <1>8
  <2>2. \A u \in Threads : y[u] \in Nat
    BY <1>2, <1>8
  <2>3. \A u \in Threads : u # t => y[u] = x[u]
    BY <1>3, <1>8
  <2>. QED BY <1>1, <2>1, <2>2, <2>3, SumChange, SumType
<1>10. list_size + Sum(f, Threads) - Sum(x, Threads) = Len(o)
  BY <1>4, <1>7 DEF Sizes
<1>11. list_size' + Sum(g, Threads) - Sum(y, Threads) = Len(o2)
  <2>1. list_size \in Int /\ list_size' \in Int
    BY DEF FieldsOK
  <2>2. f[t] = JoiningOf(t) /\ g[t] = JoiningOf(t)' /\ x[t] = LeavingOf(t) /\ y[t] = LeavingOf(t)'
    BY <1>5, <1>8
  <2>3. f[t] \in Nat /\ g[t] \in Nat /\ x[t] \in Nat /\ y[t] \in Nat
    BY <1>2, <2>2
  <2>4. Len(o2) - Len(o) = (list_size' - list_size) + (g[t] - f[t]) - (y[t] - x[t])
    BY <2>2
  <2>5. PICK F, G, X, Y, a, a2, b, b2, s, s2, n, n2 :
              /\ F = Sum(f, Threads) /\ G = Sum(g, Threads)
              /\ X = Sum(x, Threads) /\ Y = Sum(y, Threads)
              /\ a = f[t] /\ a2 = g[t] /\ b = x[t] /\ b2 = y[t]
              /\ s = list_size /\ s2 = list_size' /\ n = Len(o) /\ n2 = Len(o2)
    OBVIOUS
  <2>6. F \in Nat /\ X \in Nat /\ G = F - a + a2 /\ Y = X - b + b2 /\ s + F - X = n
    BY <1>6, <1>9, <1>10, <2>5
  <2>7. /\ a \in Nat /\ a2 \in Nat /\ b \in Nat /\ b2 \in Nat /\ s \in Int /\ s2 \in Int
        /\ n \in Nat /\ n2 \in Nat
    BY <2>1, <2>3, <2>5
  <2>8. n2 - n = (s2 - s) + (a2 - a) - (b2 - b)
    BY <2>4, <2>5
  <2>9. s2 + (F - a + a2) - (X - b + b2) = n2
    BY <2>6, <2>7, <2>8, Balance
  <2>10. s2 + G - Y = n2
    BY <2>6, <2>9
  <2>. QED BY <2>5, <2>10
<1>12. (list_size + Sum(Joining, Threads) - Sum(Leaving, Threads) = Len(o2))'
  BY <1>4, <1>7, <1>11
<1>. QED BY <1>12 DEF Sizes

\* A step that changes no link and no page's status leaves the other threads what they
\* have, and the list as it is.
LEMMA QuietStep ==
    ASSUME NEW o, NEW S, NEW sc, NEW pv, NEW ch, NEW g, Shape(o, S, sc, pv, ch, g),
           NEW t \in Threads, Others(t), FieldsOK',
           flink' = flink, blink' = blink, listed' = listed,
           NEW ch2, \A u \in Threads \ {t} : ch2[u] = ch[u],
           ListLock',
           t \in Faulters => /\ FaulterHolds(t)' /\ FaulterSees(t, S)'
                             /\ pc[t] \notin {"unlink2", "count"} /\ pc'[t] # "unlink2",
           t \in Removers => /\ RemoverHolds(t, ch2[t])' /\ RemoverTakes(t, ch2[t], o, S, sc)'
                             /\ pc[t] # "detach2"
                             /\ pc[t] \in {"size", "consume"} =>
                                   pc'[t] \in {"size", "consume"} /\ ch2[t] = ch[t],
           t \in Inserters => /\ InserterHolds(t, ch2[t])' /\ InserterBrings(t, ch2[t], S, pv)'
                              /\ pc[t] # "link2"
                              /\ pc[t] \in {"size", "unlock"} =>
                                   pc'[t] \in {"size", "unlock"} /\ ch2[t] = ch[t],
           OneGap(g, S, sc, pv)', NeighboursMeet(sc)', NeighboursWait', ExclusiveIsAlone(sc, pv)',
           Sizes(o)'
    PROVE  Steps(o)
<1>1. /\ FieldsOK /\ Ring(o, S, sc, pv) /\ LinksAre(S, sc, pv) /\ StatusAgrees(S, ch)
      /\ \A u \in Faulters : FaulterSees(u, S) /\ FaulterUnlinks(u, S, sc, pv)
      /\ \A u \in Removers : RemoverTakes(u, ch[u], o, S, sc)
      /\ \A u \in Inserters : InserterBrings(u, ch[u], S, pv)
  BY DEF Shape
<1>2. LinksAre(S, sc, pv)'
  <2>1. \A n : (Loose(n) => Loose(n)') /\ (Owed(n) => Owed(n)')
    BY DebtsKept
  <2>. QED BY <1>1, <2>1 DEF LinksAre
<1>3. /\ \A u \in Faulters \ {t} : FaulterHolds(u)'
      /\ \A u \in Removers \ {t} : RemoverHolds(u, ch2[u])'
      /\ \A u \in Inserters \ {t} : InserterHolds(u, ch2[u])'
  BY OthersHold
<1>4. \A u \in Faulters \ {t} : FaulterSees(u, S)'
  <2>1. \A u \in Faulters \ {t} : /\ pc[u] # "idle" => page[u] \in listed'
                                  /\ Viewing(u) => page[u] \in S
                                  /\ pc[u] \in {"unlink2", "count"} => page[u] \notin S
    BY <1>1 DEF FaulterSees
  <2>. QED BY <2>1, OthersSee
<1>5. \A u \in Faulters : FaulterUnlinks(u, S, sc, pv)'
  <2>1. ASSUME NEW u \in Faulters \ {t} PROVE FaulterUnlinks(u, S, sc, pv)'
    <3>1. pc[u] = "unlink2" => /\ fwd[u] \in On(S) /\ bck[u] \in On(S)
                               /\ sc[bck[u]] = fwd[u] /\ pv[fwd[u]] = bck[u]
                               /\ blink'[fwd[u]] = blink[fwd[u]]
      BY <1>1 DEF FaulterUnlinks
    <3>. QED BY <3>1, OtherUnlinks
  <2>2. t \in Faulters => FaulterUnlinks(t, S, sc, pv)'
    BY DEF FaulterUnlinks
  <2>. QED BY <2>1, <2>2
<1>6. ASSUME NEW u \in Removers \ {t} PROVE RemoverTakes(u, ch2[u], o, S, sc)'
  <2>1. pc[u] \in {"extend", "detach", "detach2", "size", "consume"} =>
           \A p \in Elems(ch[u]) : flink'[p] = flink[p] /\ p \in listed'
    BY RemoverFacts
  <2>2. pc[u] \in {"detach2", "size", "consume"} => Elems(ch[u]) \cap S = {}
    BY <1>1 DEF RemoverTakes
  <2>3. RemoverTakes(u, ch[u], o, S, sc)'
    BY <2>1, <2>2, OtherTakes
  <2>4. ch2[u] = ch[u]
    BY Kinds
  <2>. QED BY <2>3, <2>4
<1>7. ASSUME NEW u \in Inserters \ {t} PROVE InserterBrings(u, ch2[u], S, pv)'
  <2>1. pc[u] # "idle" => \A p \in Elems(ch[u]) : flink'[p] = flink[p] /\ p \notin listed'
    BY InserterFacts
  <2>2. /\ pc[u] \in {"share", "head", "tail", "link"} => Elems(ch[u]) \cap S = {}
        /\ pc[u] \in {"link2", "size", "unlock"} => Elems(ch[u]) \subseteq S
    BY <1>1 DEF InserterBrings
  <2>3. InserterBrings(u, ch[u], S, pv)'
    BY <2>1, <2>2, OtherBrings
  <2>4. ch2[u] = ch[u]
    BY Kinds
  <2>. QED BY <2>3, <2>4
<1>8. StatusAgrees(S, ch2)'
  <2>1. ASSUME NEW p \in S, p \notin listed
        PROVE  \E i \in Inserters : pc'[i] \in {"link2", "size", "unlock"} /\ p \in Elems(ch2[i])
    <3>1. PICK i \in Inserters : pc[i] \in {"link2", "size", "unlock"} /\ p \in Elems(ch[i])
      BY <1>1, <2>1 DEF StatusAgrees
    <3>2. i # t => pc'[i] = pc[i] /\ ch2[i] = ch[i]
      BY Kinds DEF Others
    <3>. QED BY <3>1, <3>2
  <2>2. ASSUME NEW p \in listed, p \notin S
        PROVE  \/ \E u \in Faulters : pc'[u] \in {"unlink2", "count"} /\ page'[u] = p
               \/ \E r \in Removers : pc'[r] \in {"detach2", "size", "consume"} /\ p \in Elems(ch2[r])
    <3>1. CASE \E u \in Faulters : pc[u] \in {"unlink2", "count"} /\ page[u] = p
      <4>1. PICK u \in Faulters : pc[u] \in {"unlink2", "count"} /\ page[u] = p
        BY <3>1
      <4>2. u # t
        BY <4>1
      <4>3. pc'[u] = pc[u] /\ page'[u] = page[u]
        BY <4>2, Kinds DEF Others
      <4>. QED BY <4>1, <4>3
    <3>2. CASE \E r \in Removers : pc[r] \in {"detach2", "size", "consume"} /\ p \in Elems(ch[r])
      <4>1. PICK r \in Removers : pc[r] \in {"detach2", "size", "consume"} /\ p \in Elems(ch[r])
        BY <3>2
      <4>2. r # t => pc'[r] = pc[r] /\ ch2[r] = ch[r]
        BY Kinds DEF Others
      <4>. QED BY <4>1, <4>2
    <3>. QED BY <1>1, <2>2, <3>1, <3>2 DEF StatusAgrees
  <2>. QED BY <2>1, <2>2 DEF StatusAgrees
<1>9. Shape(o, S, sc, pv, ch2, g)'
  BY <1>1, <1>2, <1>3, <1>4, <1>5, <1>6, <1>7, <1>8 DEF Shape, Ring
<1>. QED BY <1>9 DEF Steps

-----------------------------------------------------------------------------
(* Steps that change no link.                                              *)

\* Taking the lock of one node changes that lock alone.
LEMMA Locking ==
    ASSUME FieldsOK, NEW t \in Threads, NEW n \in Nodes, TryLock(t, n)
    PROVE  /\ pfnLock' \in [Nodes -> Threads \cup {NoThread}]
           /\ \A u \in Threads \ {t}, m \in Nodes : pfnLock'[m] = u <=> pfnLock[m] = u
           /\ \A m \in Nodes : pfnLock'[m] = t <=> pfnLock[m] = t \/ m = n
           /\ pfnLock[n] = NoThread
  BY Kinds DEF FieldsOK, TryLock

\* Giving up all locks but those of keep, and the list lock, leaves those of the others.
LEMMA Releasing ==
    ASSUME FieldsOK, NEW t \in Threads, NEW keep, Release(t, keep)
    PROVE  /\ pfnLock' \in [Nodes -> Threads \cup {NoThread}]
           /\ readers' \in SUBSET Threads /\ exclusive' \in Threads \cup {NoThread}
           /\ \A u \in Threads \ {t}, m \in Nodes : pfnLock'[m] = u <=> pfnLock[m] = u
           /\ \A u \in Threads \ {t} : (u \in readers' <=> u \in readers)
                                       /\ (exclusive' = u <=> exclusive = u)
           /\ \A m \in Nodes : pfnLock'[m] = t <=> pfnLock[m] = t /\ m \in keep
           /\ t \notin readers' /\ exclusive' # t
           /\ ListLock => ListLock'
<1>1. pfnLock' \in [Nodes -> Threads \cup {NoThread}]
  BY DEF FieldsOK, Release
<1>2. readers' \in SUBSET Threads /\ exclusive' \in Threads \cup {NoThread}
  BY DEF FieldsOK, Release
<1>3. \A m \in Nodes : pfnLock'[m] = IF pfnLock[m] = t /\ m \notin keep THEN NoThread ELSE pfnLock[m]
  BY DEF Release
<1>4. t # NoThread /\ \A u \in Threads : u # NoThread
  BY Kinds
<1>5. \A u \in Threads \ {t}, m \in Nodes : pfnLock'[m] = u <=> pfnLock[m] = u
  BY <1>3, <1>4
<1>6. \A m \in Nodes : pfnLock'[m] = t <=> pfnLock[m] = t /\ m \in keep
  BY <1>3, <1>4
<1>7. \A u \in Threads \ {t} : (u \in readers' <=> u \in readers)
                                       /\ (exclusive' = u <=> exclusive = u)
  BY <1>4 DEF Release
<1>8. t \notin readers' /\ exclusive' # t /\ (ListLock => ListLock')
  BY <1>4 DEF Release, ListLock
<1>. QED BY <1>1, <1>2, <1>5, <1>6, <1>7, <1>8

\* A soft fault that goes on to get its locks, or starts again.
LEMMA SoftQuiet ==
    ASSUME NEW o, NEW S, NEW sc, NEW pv, NEW ch, NEW g, Shape(o, S, sc, pv, ch, g),
           NEW t \in Faulters, Viewing(t), LinksUnchanged, LocalsUnchanged,
           NEW to \in {"share", "retry", "exclusive", "flink", "blink", "unlink"},
           pc' = [pc EXCEPT ![t] = to],
           pfnLock' \in [Nodes -> Threads \cup {NoThread}],
           readers' \in SUBSET Threads, exclusive' \in Threads \cup {NoThread},
           \A u \in Threads \ {t}, m \in Nodes : pfnLock'[m] = u <=> pfnLock[m] = u,
           \A u \in Threads \ {t} : (u \in readers' <=> u \in readers)
                                    /\ (exclusive' = u <=> exclusive = u),
           exclusive' # t, ListLock', FaulterHolds(t)'
    PROVE  Steps(o)
<1>1. FieldsOK /\ FaulterSees(t, S) /\ Sizes(o) /\ Len(o) \in Nat /\ t \in Threads
      /\ t \notin Removers /\ t \notin Inserters
  BY Kinds DEF Shape, Ring
<1>2. pc'[t] = to /\ page'[t] = page[t] /\ fwd'[t] = fwd[t] /\ bck'[t] = bck[t]
  BY <1>1 DEF FieldsOK, LocalsUnchanged
<1>3. FieldsOK'
  BY <1>1 DEF FieldsOK, LinksUnchanged, LocalsUnchanged
<1>4. Others(t)
  BY <1>1 DEF FieldsOK, Others, LocalsUnchanged
<1>5. Viewing(t)' /\ pc'[t] # "unlink2" /\ pc[t] \notin {"unlink2", "count"} /\ pc'[t] # "count"
  BY <1>2 DEF Viewing
<1>6. FaulterSees(t, S)'
  BY <1>1, <1>2, <1>5 DEF FaulterSees, Viewing, LinksUnchanged
<1>7. OneGap(g, S, sc, pv)' /\ NeighboursMeet(sc)' /\ NeighboursWait' /\ ExclusiveIsAlone(sc, pv)'
  BY <1>1, <1>2, <1>4, <1>5, ViewsKept
<1>8. Sizes(o)'
  <2>1. JoiningOf(t)' = 0 /\ JoiningOf(t) = 0 /\ LeavingOf(t)' = 0 /\ LeavingOf(t) = 0
        /\ list_size' = list_size /\ list_size \in Int
    BY <1>1, <1>5 DEF JoiningOf, LeavingOf, LinksUnchanged, FieldsOK
  <2>2. Len(o) - Len(o) = (list_size' - list_size) + (JoiningOf(t)' - JoiningOf(t))
                              - (LeavingOf(t)' - LeavingOf(t))
    BY <1>1, <2>1
  <2>. QED BY <1>1, <1>3, <1>4, <2>2, SizesStep
<1>. QED BY <1>1, <1>3, <1>4, <1>5, <1>6, <1>7, <1>8, QuietStep DEF LinksUnchanged

\* A removal that has not detached its batch.
LEMMA RemoverQuiet ==
    ASSUME NEW o, NEW S, NEW sc, NEW pv, NEW ch, NEW g, Shape(o, S, sc, pv, ch, g),
           NEW t \in Removers, LinksUnchanged, FieldsOK', Others(t),
           pc[t] \in {"idle", "again", "retry", "head", "first", "next", "extend", "detach"},
           pc'[t] \in {"idle", "again", "retry", "head", "first", "next", "extend", "detach"},
           NEW ch2, \A u \in Threads \ {t} : ch2[u] = ch[u],
           ListLock', RemoverHolds(t, ch2[t])', RemoverTakes(t, ch2[t], o, S, sc)'
    PROVE  Steps(o)
<1>1. FieldsOK /\ Sizes(o) /\ Len(o) \in Nat /\ t \in Threads /\ t \notin Faulters /\ t \notin Inserters
  BY Kinds DEF Shape, Ring
<1>2. OneGap(g, S, sc, pv)' /\ NeighboursMeet(sc)' /\ NeighboursWait' /\ ExclusiveIsAlone(sc, pv)'
  BY <1>1, ViewsKept
<1>3. Sizes(o)'
  <2>1. JoiningOf(t)' = 0 /\ JoiningOf(t) = 0 /\ LeavingOf(t)' = 0 /\ LeavingOf(t) = 0
        /\ list_size' = list_size /\ list_size \in Int
    BY <1>1 DEF JoiningOf, LeavingOf, LinksUnchanged, FieldsOK
  <2>2. Len(o) - Len(o) = (list_size' - list_size) + (JoiningOf(t)' - JoiningOf(t))
                              - (LeavingOf(t)' - LeavingOf(t))
    BY <1>1, <2>1
  <2>. QED BY <1>1, <2>2, SizesStep
<1>. QED BY <1>1, <1>2, <1>3, QuietStep DEF LinksUnchanged

\* An insertion that has not linked its batch.
LEMMA InserterQuiet ==
    ASSUME NEW o, NEW S, NEW sc, NEW pv, NEW ch, NEW g, Shape(o, S, sc, pv, ch, g),
           NEW t \in Inserters, LinksUnchanged, FieldsOK', Others(t),
           pc[t] \in {"share", "head", "tail"}, pc'[t] \in {"share", "head", "tail", "link"},
           ListLock', InserterHolds(t, ch[t])', InserterBrings(t, ch[t], S, pv)'
    PROVE  Steps(o)
<1>1. FieldsOK /\ Sizes(o) /\ Len(o) \in Nat /\ t \in Threads /\ t \notin Faulters /\ t \notin Removers
  BY Kinds DEF Shape, Ring
<1>2. OneGap(g, S, sc, pv)' /\ NeighboursMeet(sc)' /\ NeighboursWait' /\ ExclusiveIsAlone(sc, pv)'
  BY <1>1, ViewsKept
<1>3. Sizes(o)'
  <2>1. JoiningOf(t)' = 0 /\ JoiningOf(t) = 0 /\ LeavingOf(t)' = 0 /\ LeavingOf(t) = 0
        /\ list_size' = list_size /\ list_size \in Int
    BY <1>1 DEF JoiningOf, LeavingOf, LinksUnchanged, FieldsOK
  <2>2. Len(o) - Len(o) = (list_size' - list_size) + (JoiningOf(t)' - JoiningOf(t))
                              - (LeavingOf(t)' - LeavingOf(t))
    BY <1>1, <2>1
  <2>. QED BY <1>1, <2>2, SizesStep
<1>. QED BY <1>1, <1>2, <1>3, QuietStep DEF LinksUnchanged

\* A soft fault takes the list lock shared; nothing of the list changes.
LEMMA SoftShareStep ==
    ASSUME NEW o, NEW S, NEW sc, NEW pv, NEW ch, NEW g, Shape(o, S, sc, pv, ch, g),
           NEW t \in Faulters, SoftShare(t)
    PROVE  Steps(o)
<1>1. FieldsOK /\ FaulterHolds(t) /\ ListLock /\ t \in Threads /\ pc[t] = "share"
  BY Kinds DEF Shape, SoftShare, Goto
<1>2. Viewing(t) /\ LinksUnchanged /\ LocalsUnchanged
  BY <1>1 DEF Viewing, SoftShare
<1>3. exclusive' = exclusive /\ pfnLock' = pfnLock /\ exclusive # t
  BY <1>1 DEF SoftShare, LockShared, locks, FaulterHolds
<1>4. CASE Goto(t, "share", "flink") /\ LockShared(t)
  <2>1. readers' = readers \cup {t} /\ exclusive = NoThread /\ pc' = [pc EXCEPT ![t] = "flink"]
    BY <1>4 DEF Goto, LockShared
  <2>2. ListLock'
    BY <1>3, <2>1 DEF ListLock
  <2>3. pc'[t] = "flink" /\ page'[t] = page[t]
    BY <1>1, <1>2, <2>1 DEF FieldsOK, LocalsUnchanged
  <2>4. FaulterHolds(t)'
    BY <1>1, <1>3, <2>1, <2>3 DEF FaulterHolds, Owns
  <2>. QED BY <1>1, <1>2, <1>3, <2>1, <2>2, <2>4, SoftQuiet DEF FieldsOK
<1>5. CASE Goto(t, "share", "retry") /\ UNCHANGED locks
  <2>1. readers' = readers /\ pc' = [pc EXCEPT ![t] = "retry"]
    BY <1>5 DEF Goto, locks
  <2>2. ListLock'
    BY <1>1, <1>3, <2>1 DEF ListLock
  <2>3. pc'[t] = "retry" /\ page'[t] = page[t]
    BY <1>1, <1>2, <2>1 DEF FieldsOK, LocalsUnchanged
  <2>4. FaulterHolds(t)'
    BY <1>1, <1>3, <2>1, <2>3 DEF FaulterHolds, Owns
  <2>. QED BY <1>1, <1>2, <1>3, <2>1, <2>2, <2>4, SoftQuiet DEF FieldsOK
<1>. QED BY <1>4, <1>5 DEF SoftShare

\* A soft fault that did not get a lock comes again, or gives up on the shared lock.
LEMMA SoftRetryStep ==
    ASSUME NEW o, NEW S, NEW sc, NEW pv, NEW ch, NEW g, Shape(o, S, sc, pv, ch, g),
           NEW t \in Faulters, SoftRetry(t) \/ SoftGiveUp(t)
    PROVE  Steps(o)
<1>1. FieldsOK /\ FaulterHolds(t) /\ ListLock /\ t \in Threads /\ pc[t] = "retry"
  BY Kinds DEF Shape, SoftRetry, SoftGiveUp, Goto
<1>2. Viewing(t) /\ LinksUnchanged /\ LocalsUnchanged
  BY <1>1 DEF Viewing, SoftRetry, SoftGiveUp
<1>3. exclusive' = exclusive /\ pfnLock' = pfnLock /\ readers' = readers /\ exclusive # t
  BY <1>1 DEF SoftRetry, SoftGiveUp, locks, FaulterHolds
<1>4. ListLock'
  BY <1>1, <1>3 DEF ListLock
<1>5. PICK to \in {"share", "exclusive"} : pc' = [pc EXCEPT ![t] = to]
  BY DEF SoftRetry, SoftGiveUp, Goto
<1>6. pc'[t] = to /\ page'[t] = page[t]
  BY <1>1, <1>2, <1>5 DEF FieldsOK, LocalsUnchanged
<1>7. FaulterHolds(t)'
  BY <1>1, <1>3, <1>6 DEF FaulterHolds, Owns
<1>. QED BY <1>1, <1>2, <1>3, <1>4, <1>5, <1>7, SoftQuiet DEF FieldsOK

\* A soft fault locks the next page, or gives up.
LEMMA SoftLockFlinkStep ==
    ASSUME NEW o, NEW S, NEW sc, NEW pv, NEW ch, NEW g, Shape(o, S, sc, pv, ch, g),
           NEW t \in Faulters, SoftLockFlink(t)
    PROVE  Steps(o)
<1>1. FieldsOK /\ FaulterHolds(t) /\ ListLock /\ t \in Threads /\ pc[t] = "flink"
  BY Kinds DEF Shape, SoftLockFlink, Goto
<1>2. Viewing(t) /\ LinksUnchanged /\ LocalsUnchanged
  BY <1>1 DEF Viewing, SoftLockFlink
<1>3. fwd[t] \in Nodes /\ page[t] \in Nodes /\ Owns(t, {page[t]}) /\ exclusive # t /\ t \in readers
  BY <1>1, <1>2, FaulterFacts DEF FaulterHolds
<1>4. CASE Goto(t, "flink", "blink") /\ TryLock(t, fwd[t]) /\ UNCHANGED <<readers, exclusive>>
  <2>1. readers' = readers /\ exclusive' = exclusive /\ pc' = [pc EXCEPT ![t] = "blink"]
    BY <1>4 DEF Goto
  <2>2. ListLock'
    BY <1>1, <2>1 DEF ListLock
  <2>3. pc'[t] = "blink" /\ page'[t] = page[t] /\ fwd'[t] = fwd[t]
    BY <1>1, <1>2, <2>1 DEF FieldsOK, LocalsUnchanged
  <2>4. /\ pfnLock' \in [Nodes -> Threads \cup {NoThread}]
        /\ \A u \in Threads \ {t}, m \in Nodes : pfnLock'[m] = u <=> pfnLock[m] = u
        /\ \A m \in Nodes : pfnLock'[m] = t <=> pfnLock[m] = t \/ m = fwd[t]
    BY <1>1, <1>3, <1>4, Locking
  <2>5. Owns(t, {page[t], fwd[t]})'
    BY <1>3, <2>3, <2>4 DEF Owns
  <2>6. FaulterHolds(t)'
    BY <1>3, <2>1, <2>3, <2>5 DEF FaulterHolds
  <2>. QED BY <1>1, <1>2, <1>3, <2>1, <2>2, <2>4, <2>6, SoftQuiet DEF FieldsOK
<1>5. CASE Goto(t, "flink", "retry") /\ Release(t, {page[t]})
  <2>1. pc' = [pc EXCEPT ![t] = "retry"]
    BY <1>5 DEF Goto
  <2>2. pc'[t] = "retry" /\ page'[t] = page[t]
    BY <1>1, <1>2, <2>1 DEF FieldsOK, LocalsUnchanged
  <2>3. /\ pfnLock' \in [Nodes -> Threads \cup {NoThread}]
        /\ readers' \in SUBSET Threads /\ exclusive' \in Threads \cup {NoThread}
        /\ \A u \in Threads \ {t}, m \in Nodes : pfnLock'[m] = u <=> pfnLock[m] = u
        /\ \A u \in Threads \ {t} : (u \in readers' <=> u \in readers)
                                    /\ (exclusive' = u <=> exclusive = u)
        /\ \A m \in Nodes : pfnLock'[m] = t <=> pfnLock[m] = t /\ m \in {page[t]}
        /\ t \notin readers' /\ exclusive' # t /\ ListLock'
    BY <1>1, <1>5, Releasing
  <2>4. Owns(t, {page[t]})'
    BY <1>3, <2>2, <2>3 DEF Owns
  <2>5. FaulterHolds(t)'
    BY <2>2, <2>3, <2>4 DEF FaulterHolds
  <2>. QED BY <1>1, <1>2, <2>1, <2>3, <2>5, SoftQuiet
<1>. QED BY <1>4, <1>5 DEF SoftLockFlink

\* A soft fault locks the previous page, and then both neighbours still are its own.
LEMMA SoftLockBlinkStep ==
    ASSUME NEW o, NEW S, NEW sc, NEW pv, NEW ch, NEW g, Shape(o, S, sc, pv, ch, g),
           NEW t \in Faulters, SoftLockBlink(t)
    PROVE  Steps(o)
<1>1. FieldsOK /\ FaulterHolds(t) /\ ListLock /\ t \in Threads /\ pc[t] = "blink"
  BY Kinds DEF Shape, SoftLockBlink, Goto
<1>2. Viewing(t) /\ LinksUnchanged /\ LocalsUnchanged
  BY <1>1 DEF Viewing, SoftLockBlink
<1>3. fwd[t] \in Nodes /\ bck[t] \in Nodes /\ page[t] \in Nodes /\ Owns(t, {page[t], fwd[t]})
      /\ exclusive # t /\ t \in readers
  BY <1>1, <1>2, FaulterFacts DEF FaulterHolds
<1>4. CASE /\ Goto(t, "blink", "unlink")
           /\ \/ fwd[t] = bck[t] /\ UNCHANGED pfnLock
              \/ fwd[t] # bck[t] /\ TryLock(t, bck[t])
           /\ UNCHANGED <<readers, exclusive>>
  <2>1. readers' = readers /\ exclusive' = exclusive /\ pc' = [pc EXCEPT ![t] = "unlink"]
    BY <1>4 DEF Goto
  <2>2. ListLock'
    BY <1>1, <2>1 DEF ListLock
  <2>3. pc'[t] = "unlink" /\ page'[t] = page[t] /\ fwd'[t] = fwd[t] /\ bck'[t] = bck[t]
    BY <1>1, <1>2, <2>1 DEF FieldsOK, LocalsUnchanged
  <2>4. /\ pfnLock' \in [Nodes -> Threads \cup {NoThread}]
        /\ \A u \in Threads \ {t}, m \in Nodes : pfnLock'[m] = u <=> pfnLock[m] = u
        /\ \A m \in Nodes : pfnLock'[m] = t <=> pfnLock[m] = t \/ m = bck[t]
    <3>1. CASE fwd[t] = bck[t] /\ UNCHANGED pfnLock
      BY <1>1, <1>3, <3>1 DEF FieldsOK, Owns
    <3>2. CASE TryLock(t, bck[t])
      BY <1>1, <1>3, <3>2, Locking
    <3>. QED BY <1>4, <3>1, <3>2
  <2>5. Owns(t, {page[t], fwd[t], bck[t]})'
    BY <1>3, <2>3, <2>4 DEF Owns
  <2>6. FaulterHolds(t)'
    BY <1>3, <2>1, <2>3, <2>5 DEF FaulterHolds
  <2>. QED BY <1>1, <1>2, <1>3, <2>1, <2>2, <2>4, <2>6, SoftQuiet DEF FieldsOK
<1>5. CASE Goto(t, "blink", "retry") /\ Release(t, {page[t]})
  <2>1. pc' = [pc EXCEPT ![t] = "retry"]
    BY <1>5 DEF Goto
  <2>2. pc'[t] = "retry" /\ page'[t] = page[t]
    BY <1>1, <1>2, <2>1 DEF FieldsOK, LocalsUnchanged
  <2>3. /\ pfnLock' \in [Nodes -> Threads \cup {NoThread}]
        /\ readers' \in SUBSET Threads /\ exclusive' \in Threads \cup {NoThread}
        /\ \A u \in Threads \ {t}, m \in Nodes : pfnLock'[m] = u <=> pfnLock[m] = u
        /\ \A u \in Threads \ {t} : (u \in readers' <=> u \in readers)
                                    /\ (exclusive' = u <=> exclusive = u)
        /\ \A m \in Nodes : pfnLock'[m] = t <=> pfnLock[m] = t /\ m \in {page[t]}
        /\ t \notin readers' /\ exclusive' # t /\ ListLock'
    BY <1>1, <1>5, Releasing
  <2>4. Owns(t, {page[t]})'
    BY <1>3, <2>2, <2>3 DEF Owns
  <2>5. FaulterHolds(t)'
    BY <2>2, <2>3, <2>4 DEF FaulterHolds
  <2>. QED BY <1>1, <1>2, <2>1, <2>3, <2>5, SoftQuiet
<1>. QED BY <1>4, <1>5 DEF SoftLockBlink

\* The list is locked exclusively while no other soft fault has read its neighbours.
LEMMA SoftExclusiveStep ==
    ASSUME NEW o, NEW S, NEW sc, NEW pv, NEW ch, NEW g, Shape(o, S, sc, pv, ch, g),
           NEW t \in Faulters, ~SoftOvertakes(t), SoftExclusive(t)
    PROVE  Steps(o)
<1>1. /\ FieldsOK /\ FaulterHolds(t) /\ FaulterSees(t, S) /\ Sizes(o) /\ Len(o) \in Nat /\ t \in Threads
      /\ t \notin Removers /\ t \notin Inserters
      /\ OneGap(g, S, sc, pv) /\ NeighboursMeet(sc)
  BY Kinds DEF Shape, Ring
<1>2. /\ pc[t] = "exclusive" /\ pc' = [pc EXCEPT ![t] = "unlink"]
      /\ readers = {} /\ exclusive' = t /\ readers' = {} /\ exclusive = NoThread
      /\ pfnLock' = pfnLock /\ LinksUnchanged /\ LocalsUnchanged
  BY DEF SoftExclusive, Goto
<1>3. pc'[t] = "unlink" /\ page'[t] = page[t] /\ fwd'[t] = fwd[t] /\ bck'[t] = bck[t]
  BY <1>1, <1>2 DEF FieldsOK, LocalsUnchanged
<1>4. FieldsOK'
  BY <1>1, <1>2 DEF FieldsOK, LinksUnchanged, LocalsUnchanged
<1>5. Others(t)
  BY <1>1, <1>2, Kinds DEF FieldsOK, Others, LocalsUnchanged
<1>6. ListLock'
  BY <1>2 DEF ListLock
<1>7. FaulterHolds(t)'
  BY <1>1, <1>2, <1>3 DEF FaulterHolds, Owns
<1>8. FaulterSees(t, S)'
  BY <1>1, <1>2, <1>3 DEF FaulterSees, Viewing, LinksUnchanged
<1>9. \A u \in Faulters \ {t} : ~Viewing(u)' /\ pc'[u] # "unlink2"
  <2>1. ASSUME NEW u \in Faulters \ {t} PROVE ~Viewing(u)' /\ pc'[u] # "unlink2"
    <3>1. pc'[u] = pc[u] /\ ~Looked(u)
      BY <1>5, Kinds DEF Others, SoftOvertakes
    <3>2. FaulterHolds(u) /\ exclusive # u
      BY <1>2, Kinds DEF Shape
    <3>3. pc[u] # "unlink2"
      BY <1>2, <3>2 DEF FaulterHolds
    <3>. QED BY <3>1, <3>3 DEF Viewing, Looked
  <2>. QED BY <2>1
<1>10. OneGap(g, S, sc, pv)'
  BY <1>1, <1>2, <1>3, <1>9 DEF OneGap, Viewing
<1>11. NeighboursMeet(sc)'
  <2>1. \A u \in Faulters : Viewing(u)' => u = t
    BY <1>9
  <2>2. Viewing(t)
    BY <1>2 DEF Viewing
  <2>. QED BY <1>1, <1>3, <2>1, <2>2 DEF NeighboursMeet
<1>12. NeighboursWait' /\ ExclusiveIsAlone(sc, pv)'
  <2>1. \A u \in Faulters : pc'[u] # "unlink2"
    BY <1>3, <1>9
  <2>2. NeighboursWait'
    BY <2>1 DEF NeighboursWait
  <2>3. \A s, u \in Faulters : exclusive' = s /\ u # s => ~Viewing(u)'
    BY <1>2, <1>9
  <2>4. ExclusiveIsAlone(sc, pv)'
    BY <2>3 DEF ExclusiveIsAlone
  <2>. QED BY <2>2, <2>4
<1>13. Sizes(o)'
  <2>1. JoiningOf(t)' = 0 /\ JoiningOf(t) = 0 /\ LeavingOf(t)' = 0 /\ LeavingOf(t) = 0
        /\ list_size' = list_size /\ list_size \in Int
    BY <1>1, <1>2, <1>3 DEF JoiningOf, LeavingOf, LinksUnchanged, FieldsOK
  <2>2. Len(o) - Len(o) = (list_size' - list_size) + (JoiningOf(t)' - JoiningOf(t))
                              - (LeavingOf(t)' - LeavingOf(t))
    BY <1>1, <2>1
  <2>. QED BY <1>1, <1>4, <1>5, <2>2, SizesStep
<1>. QED BY <1>1, <1>2, <1>3, <1>4, <1>5, <1>6, <1>7, <1>8, <1>10, <1>11, <1>12, <1>13, QuietStep
         DEF LinksUnchanged

\* What a soft fault finds when it looks at its page: the page is on the list, the next
\* page is the one it reads, and if the previous one is not, a soft fault is taking the
\* page between them off the list.
LEMMA FirstLook ==
    ASSUME NEW o, NEW S, NEW sc, NEW pv, NEW ch, NEW g, Shape(o, S, sc, pv, ch, g),
           NEW p \in listed, pfnLock[p] = NoThread
    PROVE  /\ p \in S /\ p \in Pages /\ p \in Nodes /\ p # ListHead
           /\ flink[p] = sc[p]
           /\ \/ blink[p] = pv[p]
              \/ \E s \in Faulters : pc[s] = "unlink2" /\ fwd[s] = p /\ blink[p] = page[s]
<1>1. /\ FieldsOK /\ Ring(o, S, sc, pv) /\ LinksAre(S, sc, pv) /\ StatusAgrees(S, ch)
  BY DEF Shape
<1>2. p \in Pages /\ p \in Nodes /\ p # ListHead
  BY <1>1, Heads DEF FieldsOK
<1>3. p \in S
  <2>1. \A u \in Faulters : pc[u] \in {"unlink2", "count"} => page[u] # p
    BY FaulterFacts, Kinds
  <2>2. \A r \in Removers : pc[r] \in {"detach2", "size", "consume"} => p \notin Elems(ch[r])
    BY RemoverFacts, Kinds
  <2>. QED BY <1>1, <2>1, <2>2 DEF StatusAgrees
<1>4. flink[p] = sc[p]
  <2>1. ~Loose(p)
    BY LooseFacts, Kinds
  <2>. QED BY <1>1, <1>3, <2>1 DEF LinksAre, On
<1>5. \/ blink[p] = pv[p]
      \/ \E s \in Faulters : pc[s] = "unlink2" /\ fwd[s] = p /\ blink[p] = page[s]
  <2>1. \A r \in Removers : pc[r] = "detach2" => fwd[r] # p
    BY RemoverFacts, Kinds
  <2>2. \A s \in Faulters : pc[s] = "unlink2" => blink[fwd[s]] = page[s]
    BY FaulterFacts
  <2>3. blink[p] = pv[p] \/ Owed(p)
    BY <1>1, <1>3 DEF LinksAre, On
  <2>. QED BY <1>2, <2>1, <2>2, <2>3 DEF Owed
<1>. QED BY <1>2, <1>3, <1>4, <1>5

\* A soft fault reads the links of its locked page before it has the list lock: what it
\* sees is true now and may be old later.
LEMMA SoftBeginStep ==
    ASSUME NEW o, NEW S, NEW sc, NEW pv, NEW ch, NEW g, Shape(o, S, sc, pv, ch, g),
           NEW t \in Faulters, NEW p \in Pages, SoftBegin(t, p)
    PROVE  Steps(o)
<1>1. /\ FieldsOK /\ FaulterHolds(t) /\ FaulterSees(t, S) /\ Sizes(o) /\ Len(o) \in Nat /\ t \in Threads
      /\ t \notin Removers /\ t \notin Inserters /\ ListLock /\ Ring(o, S, sc, pv)
      /\ OneGap(g, S, sc, pv) /\ NeighboursMeet(sc) /\ NeighboursWait /\ ExclusiveIsAlone(sc, pv)
  BY Kinds DEF Shape, Ring
<1>2. /\ pc[t] = "idle" /\ pc' = [pc EXCEPT ![t] = "share"]
      /\ p \in listed /\ TryLock(t, p)
      /\ page' = [page EXCEPT ![t] = p] /\ fwd' = [fwd EXCEPT ![t] = flink[p]]
      /\ bck' = [bck EXCEPT ![t] = blink[p]]
      /\ readers' = readers /\ exclusive' = exclusive /\ count' = count /\ LinksUnchanged
  BY DEF SoftBegin, Goto
<1>3. pfnLock[p] = NoThread
  BY <1>2 DEF TryLock
<1>4. /\ p \in S /\ p \in Nodes /\ p # ListHead /\ flink[p] = sc[p]
      /\ \/ blink[p] = pv[p]
         \/ \E s \in Faulters : pc[s] = "unlink2" /\ fwd[s] = p /\ blink[p] = page[s]
  BY <1>2, <1>3, FirstLook
<1>5. pc'[t] = "share" /\ page'[t] = p /\ fwd'[t] = sc[p] /\ bck'[t] = blink[p] /\ Viewing(t)'
  BY <1>1, <1>2, <1>4 DEF FieldsOK, Viewing
<1>6. /\ pfnLock' \in [Nodes -> Threads \cup {NoThread}]
      /\ \A u \in Threads \ {t}, m \in Nodes : pfnLock'[m] = u <=> pfnLock[m] = u
      /\ \A m \in Nodes : pfnLock'[m] = t <=> pfnLock[m] = t \/ m = p
  BY <1>1, <1>2, <1>4, Locking
<1>7. Others(t)
  BY <1>1, <1>2, <1>6 DEF FieldsOK, Others
<1>8. FieldsOK'
  <2>1. flink[p] \in Nodes \cup {Nil} /\ blink[p] \in Nodes \cup {Nil}
    BY <1>1, <1>4 DEF FieldsOK
  <2>. QED BY <1>1, <1>2, <1>6, <2>1 DEF FieldsOK, LinksUnchanged
<1>9. ListLock'
  BY <1>1, <1>2 DEF ListLock
<1>10. FaulterHolds(t)'
  <2>1. Owns(t, {p})'
    BY <1>1, <1>2, <1>6 DEF FaulterHolds, Owns
  <2>2. exclusive' # t /\ t \notin readers'
    BY <1>1, <1>2 DEF FaulterHolds
  <2>. QED BY <1>5, <2>1, <2>2 DEF FaulterHolds
<1>11. sc[p] \in On(S) /\ pv[p] \in On(S) /\ On(S) \subseteq Nodes /\ S \subseteq Pages
       /\ sc[p] # p /\ pv[p] # p /\ (sc[p] = pv[p] => sc[p] = ListHead)
       /\ (\A n \in On(S) : sc[pv[n]] = n /\ pv[sc[n]] = n) /\ p \in On(S)
  BY <1>1, <1>4, RingFacts DEF On
\* Those who have just unlinked their page.
<1>12. ASSUME NEW s \in Faulters, pc[s] = "unlink2"
       PROVE  /\ s # t /\ fwd[s] \in Nodes /\ fwd[s] \in On(S) /\ bck[s] \in On(S) /\ bck[s] \in Nodes
              /\ sc[bck[s]] = fwd[s] /\ pv[fwd[s]] = bck[s] /\ blink[fwd[s]] = page[s]
              /\ page[s] \notin S /\ page[s] \in Pages /\ page[s] # ListHead /\ pfnLock[page[s]] = s
              /\ page[s] \in Nodes /\ pfnLock'[page[s]] = s
              /\ exclusive # s => pfnLock[fwd[s]] = s \/ pfnLock[bck[s]] = s
              /\ pc'[s] = "unlink2" /\ fwd'[s] = fwd[s] /\ bck'[s] = bck[s] /\ page'[s] = page[s]
              /\ exclusive # s => s \in readers
  <2>1. s # t
    BY <1>2, <1>12
  <2>2. FaulterUnlinks(s, S, sc, pv)
    BY DEF Shape
  <2>3. pc'[s] = "unlink2" /\ fwd'[s] = fwd[s] /\ bck'[s] = bck[s] /\ page'[s] = page[s]
    BY <2>1, <1>7, <1>12, Kinds DEF Others
  <2>4. exclusive # s => pfnLock[fwd[s]] = s \/ pfnLock[bck[s]] = s
    BY <1>12, <2>2 DEF FaulterUnlinks
  <2>5. /\ fwd[s] \in Nodes /\ fwd[s] \in On(S) /\ bck[s] \in On(S) /\ bck[s] \in Nodes
        /\ sc[bck[s]] = fwd[s] /\ pv[fwd[s]] = bck[s] /\ blink[fwd[s]] = page[s]
        /\ page[s] \notin S /\ page[s] \in Pages /\ page[s] # ListHead /\ pfnLock[page[s]] = s
        /\ page[s] \in Nodes /\ (exclusive # s => s \in readers)
    BY <1>12, FaulterFacts
  <2>6. pfnLock'[page[s]] = s
    BY <2>1, <2>5, <1>6, Kinds
  <2>. QED BY <2>1, <2>3, <2>4, <2>5, <2>6
<1>13. blink[p] \in Nodes \ {p} /\ (sc[p] = blink[p] => sc[p] = ListHead)
  <2>1. CASE blink[p] = pv[p]
    BY <2>1, <1>11
  <2>2. CASE \E s \in Faulters : pc[s] = "unlink2" /\ fwd[s] = p /\ blink[p] = page[s]
    <3>1. PICK s \in Faulters : pc[s] = "unlink2" /\ fwd[s] = p /\ blink[p] = page[s]
      BY <2>2
    <3>2. page[s] \notin S /\ page[s] \in Nodes /\ page[s] # ListHead
      BY <3>1, <1>12
    <3>. QED BY <3>1, <3>2, <1>4, <1>11 DEF On
  <2>. QED BY <1>4, <2>1, <2>2
<1>14. FaulterSees(t, S)'
  <2>1. p \in listed' /\ sc[p] \in Nodes \ {p}
    BY <1>2, <1>11 DEF LinksUnchanged
  <2>. QED BY <1>4, <1>5, <1>13, <2>1 DEF FaulterSees
<1>15. \A u \in Faulters \ {t} :
          /\ Viewing(u)' <=> Viewing(u)
          /\ pc'[u] = pc[u] /\ page'[u] = page[u] /\ fwd'[u] = fwd[u] /\ bck'[u] = bck[u]
  BY <1>7, Kinds DEF Others, Viewing
<1>16. \A u \in Faulters : Viewing(u) => /\ u # t /\ page[u] # p /\ pfnLock[page[u]] = u
                                         /\ page[u] \in S /\ page[u] \in On(S)
                                         /\ fwd[u] \in Nodes /\ bck[u] \in Nodes
  <2>1. ASSUME NEW u \in Faulters, Viewing(u) PROVE pc[u] # "idle"
    BY <2>1 DEF Viewing
  <2>2. \A u \in Faulters : Viewing(u) => /\ pfnLock[page[u]] = u /\ page[u] \in S
                                          /\ fwd[u] \in Nodes /\ bck[u] \in Nodes
    BY <2>1, FaulterFacts
  <2>. QED BY <1>2, <1>3, <2>1, <2>2, Kinds DEF On
<1>17. OneGap(g, S, sc, pv)'
  <2>1. bck'[t] # pv[page'[t]] => pv[page'[t]] = g
    <3>1. ASSUME NEW s \in Faulters, pc[s] = "unlink2", fwd[s] = p PROVE pv[p] = g
      <4>1. pfnLock[fwd[s]] # s /\ pv[p] = bck[s]
        BY <3>1, <1>3, <1>12, Kinds
      <4>. QED BY <1>1, <3>1, <4>1 DEF OneGap
    <3>. QED BY <1>4, <1>5, <3>1
  <2>2. fwd'[t] # sc[page'[t]] => page'[t] = g
    BY <1>5
  <2>3. \A u \in Faulters \ {t} : Viewing(u)' =>
           /\ fwd'[u] # sc[page'[u]] => page'[u] = g
           /\ bck'[u] # pv[page'[u]] => pv[page'[u]] = g
    BY <1>1, <1>15 DEF OneGap
  <2>4. \A u \in Faulters : pc'[u] = "unlink2" => pfnLock'[fwd'[u]] = u \/ bck'[u] = g
    <3>1. ASSUME NEW u \in Faulters, pc'[u] = "unlink2" PROVE pfnLock'[fwd'[u]] = u \/ bck'[u] = g
      <4>1. u # t /\ pc[u] = "unlink2"
        BY <3>1, <1>5, <1>15
      <4>2. pfnLock[fwd[u]] = u \/ bck[u] = g
        BY <1>1, <4>1 DEF OneGap
      <4>. QED BY <4>1, <4>2, <1>6, <1>12, Kinds
    <3>. QED BY <3>1
  <2>5. g \in On(S)
    BY <1>1 DEF OneGap
  <2>. QED BY <2>1, <2>2, <2>3, <2>4, <2>5 DEF OneGap
<1>18. NeighboursMeet(sc)'
  <2>1. ASSUME NEW a \in Faulters, NEW b \in Faulters, Viewing(a)', Viewing(b)', sc[page'[a]] = page'[b]
        PROVE  fwd'[a] = page'[b] \/ bck'[b] = page'[a] \/ fwd'[a] = bck'[b]
    <3>1. CASE a = t
      BY <3>1, <2>1, <1>5
    <3>2. CASE a # t /\ b # t
      BY <3>2, <2>1, <1>1, <1>15 DEF NeighboursMeet
    <3>3. CASE a # t /\ b = t
      <4>1. /\ Viewing(a) /\ page'[a] = page[a] /\ fwd'[a] = fwd[a]
            /\ sc[page[a]] = p /\ pv[p] = page[a] /\ pfnLock[page[a]] = a
        BY <3>3, <2>1, <1>5, <1>11, <1>15, <1>16
      <4>2. CASE blink[p] = pv[p]
        BY <3>3, <4>1, <4>2, <1>5
      <4>3. CASE \E s \in Faulters : pc[s] = "unlink2" /\ fwd[s] = p /\ blink[p] = page[s]
        <5>1. PICK s \in Faulters : pc[s] = "unlink2" /\ fwd[s] = p /\ blink[p] = page[s]
          BY <4>3
        <5>2. bck[s] = page[a] /\ s # a
          BY <4>1, <5>1, <1>12 DEF Viewing
        <5>3. exclusive = s
          <6>1. pfnLock[fwd[s]] # s /\ pfnLock[bck[s]] # s
            BY <4>1, <5>1, <5>2, <1>3, Kinds
          <6>. QED BY <5>1, <6>1, <1>12
        <5>4. fwd[a] \in {page[s], fwd[s]}
          BY <1>1, <4>1, <5>1, <5>2, <5>3 DEF ExclusiveIsAlone
        <5>. QED BY <3>3, <4>1, <5>1, <5>4, <1>5
      <4>. QED BY <1>4, <4>2, <4>3
    <3>. QED BY <3>1, <3>2, <3>3
  <2>. QED BY <2>1 DEF NeighboursMeet
<1>19. NeighboursWait'
  <2>1. ASSUME NEW s \in Faulters, NEW u \in Faulters, pc'[s] = "unlink2", exclusive' # s, Viewing(u)'
        PROVE  /\ page'[u] = bck'[s] => pfnLock'[fwd'[u]] = s
               /\ page'[u] = fwd'[s] => pfnLock'[bck'[u]] = s
    <3>1. s # t /\ pc[s] = "unlink2" /\ exclusive # s
      BY <2>1, <1>2, <1>5, <1>15
    <3>2. CASE u # t
      <4>1. Viewing(u) /\ fwd[u] \in Nodes /\ bck[u] \in Nodes
        BY <2>1, <3>2, <1>15, <1>16
      <4>2. /\ page[u] = bck[s] => pfnLock[fwd[u]] = s
            /\ page[u] = fwd[s] => pfnLock[bck[u]] = s
        BY <1>1, <3>1, <4>1 DEF NeighboursWait
      <4>. QED BY <3>1, <3>2, <4>1, <4>2, <1>6, <1>15, Kinds
    <3>3. CASE u = t
      <4>1. ASSUME p = bck[s] PROVE pfnLock'[sc[p]] = s
        <5>1. pfnLock[fwd[s]] = s /\ fwd[s] = sc[p] /\ fwd[s] \in Nodes
          BY <3>1, <4>1, <1>3, <1>12, Kinds
        <5>. QED BY <3>1, <5>1, <1>6, Kinds
      <4>2. ASSUME p = fwd[s] PROVE pfnLock'[blink[p]] = s
        BY <3>1, <4>2, <1>12
      <4>3. fwd'[s] = fwd[s] /\ bck'[s] = bck[s]
        BY <3>1, <1>12
      <4>. QED BY <3>3, <4>1, <4>2, <4>3, <1>5
    <3>. QED BY <3>2, <3>3
  <2>. QED BY <2>1 DEF NeighboursWait
<1>20. ExclusiveIsAlone(sc, pv)'
  <2>1. ASSUME NEW s \in Faulters, NEW u \in Faulters, exclusive' = s, u # s, Viewing(u)'
        PROVE  /\ pc'[s] = "unlink" => fwd'[u] = sc[page'[u]] /\ bck'[u] = pv[page'[u]]
               /\ pc'[s] = "unlink2" /\ page'[u] = bck'[s] => fwd'[u] \in {page'[s], fwd'[s]}
    <3>1. exclusive = s /\ s # t /\ pc'[s] = pc[s] /\ page'[s] = page[s] /\ fwd'[s] = fwd[s]
          /\ bck'[s] = bck[s] /\ exclusive # NoThread
      BY <2>1, <1>1, <1>2, <1>15, Kinds DEF FaulterHolds
    <3>2. CASE u # t
      BY <2>1, <3>1, <3>2, <1>1, <1>15 DEF ExclusiveIsAlone
    <3>3. CASE u = t
      <4>1. pc[s] = "unlink" => blink[p] = pv[p]
        <5>1. ASSUME NEW x \in Faulters, pc[s] = "unlink", pc[x] = "unlink2" PROVE FALSE
          <6>1. x # s /\ exclusive # x /\ readers = {}
            BY <5>1, <3>1, <1>1 DEF ListLock
          <6>. QED BY <5>1, <6>1, <1>12
        <5>. QED BY <5>1, <1>4
      <4>2. pc[s] = "unlink2" /\ p = bck[s] => sc[p] = fwd[s]
        BY <1>12
      <4>. QED BY <3>1, <3>3, <4>1, <4>2, <1>5
    <3>. QED BY <3>2, <3>3
  <2>. QED BY <2>1 DEF ExclusiveIsAlone
<1>21. Sizes(o)'
  <2>1. JoiningOf(t)' = 0 /\ JoiningOf(t) = 0 /\ LeavingOf(t)' = 0 /\ LeavingOf(t) = 0
        /\ list_size' = list_size /\ list_size \in Int
    BY <1>1, <1>2, <1>5 DEF JoiningOf, LeavingOf, LinksUnchanged, FieldsOK
  <2>2. Len(o) - Len(o) = (list_size' - list_size) + (JoiningOf(t)' - JoiningOf(t))
                              - (LeavingOf(t)' - LeavingOf(t))
    BY <1>1, <2>1
  <2>. QED BY <1>1, <1>7, <1>8, <2>2, SizesStep
<1>. QED BY <1>1, <1>2, <1>5, <1>7, <1>8, <1>9, <1>10, <1>14, <1>17, <1>18, <1>19, <1>20, <1>21, QuietStep
         DEF LinksUnchanged

-----------------------------------------------------------------------------
(* Soft faults that take their page off the list.                          *)

\* The list (q, sc2, pv2) without the page p, which was at place k.
Without(o, S, sc, pv, p, k, q, sc2, pv2) ==
    /\ Ring(q, S \ {p}, sc2, pv2) /\ Queue!PageTakenOut(o, q)
    /\ Len(o) \in Nat /\ Len(q) = Len(o) - 1
    /\ o[k] = p /\ \A i \in 1..(k - 1) : q[i] = o[i]
    /\ \A x \in Nodes : sc2[x] = IF x = pv[p] THEN sc[p] ELSE sc[x]
    /\ \A x \in Nodes : pv2[x] = IF x = sc[p] THEN pv[p] ELSE pv[x]

\* A list without one of its pages is a list.
LEMMA TakenOut ==
    ASSUME NEW o, NEW S, NEW sc, NEW pv, Ring(o, S, sc, pv), NEW p \in S
    PROVE  \E q, sc2, pv2, k : k \in 1..Len(o) /\ Without(o, S, sc, pv, p, k, q, sc2, pv2)
<1>1. /\ o \in Seq(Pages) /\ Len(o) \in Nat /\ sc \in [Nodes -> Nodes] /\ pv \in [Nodes -> Nodes]
      /\ S = {o[k] : k \in 1..Len(o)}
  BY DEF Ring
<1>2. PICK k \in 1..Len(o) : o[k] = p
  BY <1>1
<1>. DEFINE q == [i \in 1..(Len(o) - 1) |-> IF i < k THEN o[i] ELSE o[i + 1]]
            sc2 == [sc EXCEPT ![pv[o[k]]] = sc[o[k]]]
            pv2 == [pv EXCEPT ![sc[o[k]]] = pv[o[k]]]
<1>3. Ring(q, S \ {o[k]}, sc2, pv2)
  BY RingUnlink
<1>4. Len(q) = Len(o) - 1 /\ \A i \in 1..(k - 1) : q[i] = o[i]
  BY <1>1
<1>5. /\ \A x \in Nodes : sc2[x] = IF x = pv[p] THEN sc[p] ELSE sc[x]
      /\ \A x \in Nodes : pv2[x] = IF x = sc[p] THEN pv[p] ELSE pv[x]
  BY <1>1, <1>2
<1>6. q = SubSeq(o, 1, k - 1) \o SubSeq(o, k + 1, Len(o))
  <2>. DEFINE a == SubSeq(o, 1, k - 1)
              b == SubSeq(o, k + 1, Len(o))
              r == a \o b
  <2>1. a \in Seq(Pages) /\ Len(a) = k - 1 /\ \A i \in 1..(k - 1) : a[i] = o[i]
    BY <1>1
  <2>2. b \in Seq(Pages) /\ Len(b) = Len(o) - k /\ \A i \in 1..(Len(o) - k) : b[i] = o[i + k]
    BY <1>1
  <2>. HIDE DEF a, b
  <2>3. r \in Seq(Pages) /\ Len(r) = Len(o) - 1
    <3>. HIDE DEF q, sc2, pv2
    <3>1. a \o b \in Seq(Pages) /\ Len(a \o b) = Len(a) + Len(b)
      BY <2>1, <2>2, ConcatProperties
    <3>. QED BY <3>1, <1>1, <2>1, <2>2
  <2>4. ASSUME NEW i \in 1..(Len(o) - 1) PROVE r[i] = q[i]
    <3>1. CASE i < k
      BY <3>1, <2>1, <2>2, <1>1
    <3>2. CASE ~(i < k)
      <4>1. i - (k - 1) \in 1..(Len(o) - k) /\ (i - (k - 1)) + k = i + 1 /\ i > Len(a)
        BY <3>2, <2>1, <1>1
      <4>2. r[i] = b[i - Len(a)]
        BY <3>2, <4>1, <2>1, <2>2, <1>1
      <4>. QED BY <3>2, <4>1, <4>2, <2>1, <2>2
    <3>. QED BY <3>1, <3>2
  <2>5. r = [i \in 1..(Len(o) - 1) |-> r[i]]
    <3>. HIDE DEF r
    <3>1. r = [i \in 1..Len(r) |-> r[i]]
      BY <2>3
    <3>. QED BY <2>3, <3>1
  <2>6. q = [i \in 1..(Len(o) - 1) |-> q[i]]
    OBVIOUS
  <2>. HIDE DEF q, r
  <2>7. q = r
    BY <2>4, <2>5, <2>6
  <2>. QED BY <2>7 DEF r, a, b
<1>7. Queue!PageTakenOut(o, q)
  BY <1>2, <1>6 DEF Queue!PageTakenOut
<1>. HIDE DEF q, sc2, pv2
<1>8. Ring(q, S \ {p}, sc2, pv2)
  BY <1>2, <1>3
<1>9. Without(o, S, sc, pv, p, k, q, sc2, pv2)
  BY <1>1, <1>2, <1>4, <1>5, <1>7, <1>8 DEF Without
<1>. QED BY <1>9

\* What a soft fault that has its locks finds when it reads the links of its page again:
\* they are those of the list, and nobody is about to write the link back to it.
LEMMA SecondLook ==
    ASSUME NEW o, NEW S, NEW sc, NEW pv, NEW ch, NEW g, Shape(o, S, sc, pv, ch, g),
           NEW t \in Faulters, pc[t] = "unlink"
    PROVE  /\ flink[page[t]] = sc[page[t]] /\ blink[page[t]] = pv[page[t]]
           /\ blink[sc[page[t]]] = page[t]
           /\ \A u \in Faulters : pc[u] = "unlink2" => exclusive # u /\ exclusive # t
           /\ \A u \in Faulters : pc[u] = "unlink2" => fwd[u] # page[t] /\ bck[u] # page[t]
           /\ ~Loose(page[t]) /\ ~Loose(pv[page[t]])
<1>. DEFINE p == page[t]
<1>1. /\ FieldsOK /\ Ring(o, S, sc, pv) /\ LinksAre(S, sc, pv) /\ ListLock /\ NeighboursWait
      /\ FaulterHolds(t) /\ Viewing(t)
  BY DEF Shape, Viewing
<1>2. p \in S /\ p \in Nodes /\ p # ListHead /\ pfnLock[p] = t /\ p \in On(S)
      /\ fwd[t] \in Nodes /\ bck[t] \in Nodes
      /\ (exclusive # t => pfnLock[fwd[t]] = t /\ pfnLock[bck[t]] = t /\ t \in readers)
      /\ (exclusive = t => readers = {})
  BY <1>1, FaulterFacts, Kinds DEF ListLock, On
<1>3. /\ \A n \in On(S) : sc[pv[n]] = n /\ pv[sc[n]] = n /\ sc[n] \in On(S) /\ pv[n] \in On(S)
      /\ ListHead \in On(S) /\ S \subseteq Pages /\ On(S) \subseteq Nodes
  BY <1>1, RingFacts DEF On
<1>4. ASSUME NEW u \in Faulters, pc[u] = "unlink2" PROVE exclusive # u /\ exclusive # t
  <2>1. u # t
    BY <1>4
  <2>2. exclusive # u => u \in readers
    BY <1>4, FaulterFacts
  <2>3. exclusive = u => readers = {}
    BY <1>1, Kinds DEF ListLock
  <2>. QED BY <1>2, <2>1, <2>2, <2>3
<1>5. ASSUME NEW u \in Faulters, pc[u] = "unlink2" PROVE fwd[u] # p /\ bck[u] # p
  <2>1. exclusive # u /\ exclusive # t /\ u # t
    BY <1>4, <1>5
  <2>2. /\ p = bck[u] => pfnLock[fwd[t]] = u
        /\ p = fwd[u] => pfnLock[bck[t]] = u
    BY <1>1, <1>5, <2>1 DEF NeighboursWait
  <2>. QED BY <1>2, <2>1, <2>2
<1>6. ~Loose(p)
  BY <1>2, LooseFacts, Kinds
<1>7. ~Loose(pv[p])
  <2>1. Loose(pv[p]) => pv[p] = pv[ListHead]
    BY LooseFacts
  <2>. QED BY <2>1, <1>2, <1>3
<1>8. \A r \in Removers : pc[r] = "detach2" => fwd[r] # p /\ fwd[r] = sc[ListHead]
  <2>1. \A r \in Removers : RemoverTakes(r, ch[r], o, S, sc)
    BY DEF Shape
  <2>2. \A r \in Removers : pc[r] = "detach2" => fwd[r] = sc[ListHead]
    BY <2>1 DEF RemoverTakes
  <2>. QED BY <1>2, <2>2, RemoverFacts, Kinds
<1>9. blink[p] = pv[p]
  <2>1. ~Owed(p)
    BY <1>2, <1>5, <1>8 DEF Owed
  <2>. QED BY <1>1, <1>2, <2>1 DEF LinksAre
<1>10. blink[sc[p]] = p
  <2>1. \A u \in Faulters : pc[u] = "unlink2" => fwd[u] # sc[p]
    <3>1. ASSUME NEW u \in Faulters, pc[u] = "unlink2", fwd[u] = sc[p] PROVE FALSE
      <4>1. bck[u] = p
        BY <3>1, <1>2, <1>3, FaulterFacts
      <4>. QED BY <3>1, <4>1, <1>5
    <3>. QED BY <3>1
  <2>2. \A r \in Removers : pc[r] = "detach2" => fwd[r] # sc[p]
    BY <1>2, <1>3, <1>8
  <2>3. sc[p] = ListHead => \A i \in Inserters : pc[i] # "link2"
    <3>1. ASSUME NEW i \in Inserters, pc[i] = "link2", sc[p] = ListHead PROVE FALSE
      <4>1. InserterBrings(i, ch[i], S, pv)
        BY DEF Shape
      <4>2. pv[ListHead] = fwd[i] /\ fwd[i] = p
        BY <3>1, <4>1, <1>2, <1>3 DEF InserterBrings
      <4>3. fwd[i] \in Elems(ch[i]) /\ \A x \in Elems(ch[i]) : pfnLock[x] = i
        BY <3>1, InserterFacts
      <4>. QED BY <4>2, <4>3, <1>2, Kinds
    <3>. QED BY <3>1
  <2>4. ~Owed(sc[p])
    BY <2>1, <2>2, <2>3 DEF Owed
  <2>. QED BY <1>1, <1>2, <1>3, <2>4 DEF LinksAre
<1>11. flink[p] = sc[p]
  BY <1>1, <1>2, <1>6 DEF LinksAre
<1>. QED BY <1>4, <1>5, <1>6, <1>7, <1>9, <1>10, <1>11

\* The first write of a soft fault, flink of the previous page, takes its page off the
\* list; the gap it leaves is the only place where what others saw can be old.
LEMMA SoftUnlinkForwardStep ==
    ASSUME NEW o, NEW S, NEW sc, NEW pv, NEW ch, NEW g, Shape(o, S, sc, pv, ch, g),
           NEW t \in Faulters, SoftUnlinkForward(t)
    PROVE  Steps(o)
<1>1. /\ FieldsOK /\ FaulterHolds(t) /\ FaulterSees(t, S) /\ Sizes(o) /\ t \in Threads
      /\ t \notin Removers /\ t \notin Inserters /\ ListLock /\ Ring(o, S, sc, pv)
      /\ LinksAre(S, sc, pv) /\ StatusAgrees(S, ch)
      /\ OneGap(g, S, sc, pv) /\ NeighboursMeet(sc) /\ NeighboursWait /\ ExclusiveIsAlone(sc, pv)
  BY Kinds DEF Shape
<1>2. pc[t] = "unlink"
  BY DEF SoftUnlinkForward, Goto
<1>3. PICK p : p = page[t]
  OBVIOUS
<1>4. PICK F, B : F = sc[p] /\ B = pv[p]
  OBVIOUS
<1>5. /\ flink[p] = F /\ blink[p] = B /\ blink[F] = p
      /\ \A u \in Faulters : pc[u] = "unlink2" => exclusive # u /\ exclusive # t /\ u # t
      /\ \A u \in Faulters : pc[u] = "unlink2" => fwd[u] # p /\ bck[u] # p
      /\ ~Loose(p) /\ ~Loose(B)
  BY <1>2, <1>3, <1>4, SecondLook
<1>6. p \in S /\ p \in Pages /\ p \in Nodes /\ p # ListHead /\ pfnLock[p] = t /\ p \in On(S)
      /\ fwd[t] \in Nodes /\ bck[t] \in Nodes
      /\ (exclusive # t => pfnLock[fwd[t]] = t /\ pfnLock[bck[t]] = t /\ t \in readers)
      /\ (exclusive = t => readers = {})
  <2>1. Viewing(t)
    BY <1>2 DEF Viewing
  <2>. QED BY <1>1, <1>2, <1>3, <2>1, FaulterFacts, Kinds DEF ListLock, On
<1>7. /\ \A n \in On(S) : sc[pv[n]] = n /\ pv[sc[n]] = n /\ sc[n] \in On(S) /\ pv[n] \in On(S)
      /\ ListHead \in On(S) /\ S \subseteq Pages /\ On(S) \subseteq Nodes /\ ListHead \notin S
      /\ F # p /\ B # p /\ F \in On(S) /\ B \in On(S) /\ F \in Nodes /\ B \in Nodes
  BY <1>1, <1>4, <1>6, RingFacts, Heads DEF On
<1>8. /\ pc' = [pc EXCEPT ![t] = "unlink2"] /\ fwd' = [fwd EXCEPT ![t] = F]
      /\ bck' = [bck EXCEPT ![t] = B] /\ flink' = [flink EXCEPT ![B] = F]
      /\ blink' = blink /\ pfnLock' = pfnLock /\ readers' = readers /\ exclusive' = exclusive
      /\ list_size' = list_size /\ listed' = listed /\ page' = page /\ count' = count
  BY <1>3, <1>5 DEF SoftUnlinkForward, Goto, locks
<1>9. /\ pc'[t] = "unlink2" /\ fwd'[t] = F /\ bck'[t] = B /\ page'[t] = p
      /\ flink'[B] = F /\ \A n \in Nodes : n # B => flink'[n] = flink[n]
  BY <1>1, <1>3, <1>7, <1>8 DEF FieldsOK
<1>10. FieldsOK'
  BY <1>1, <1>7, <1>8 DEF FieldsOK
<1>11. Others(t)
  BY <1>1, <1>8 DEF Others, FieldsOK
<1>12. PICK q, sc2, pv2, k : k \in 1..Len(o) /\ Without(o, S, sc, pv, p, k, q, sc2, pv2)
  <2>1. Ring(o, S, sc, pv) /\ p \in S
    BY <1>1, <1>6
  <2>. QED BY <2>1, TakenOut
<1>13. /\ k \in 1..Len(o) /\ Ring(q, S \ {p}, sc2, pv2) /\ Queue!PageTakenOut(o, q)
       /\ Len(o) \in Nat /\ Len(q) = Len(o) - 1
       /\ o[k] = p /\ \A i \in 1..(k - 1) : q[i] = o[i]
       /\ \A x \in Nodes : sc2[x] = IF x = B THEN F ELSE sc[x]
       /\ \A x \in Nodes : pv2[x] = IF x = F THEN B ELSE pv[x]
  BY <1>4, <1>12 DEF Without
<1>14. PICK S2 : S2 = S \ {p}
  OBVIOUS
<1>15. /\ \A x : x \in On(S2) <=> x \in On(S) /\ x # p
       /\ \A x \in S2 : x \in S /\ x # p /\ x \in On(S) /\ x \in Nodes
  BY <1>6, <1>7, <1>14 DEF On
<1>16. PICK g2 : g2 = IF exclusive = t \/ g = p THEN B ELSE g
  OBVIOUS
\* The links.
<1>20. LinksAre(S2, sc2, pv2)'
  <2>1. \A n : (Loose(n) => Loose(n)') /\ (Owed(n) => Owed(n)')
    BY <1>1, <1>2, <1>11, DebtsKept
  <2>2. Owed(F)'
    BY <1>9 DEF Owed
  <2>3. \A n \in On(S2) : flink'[n] = sc2[n] \/ Loose(n)'
    BY <1>1, <1>7, <1>9, <1>13, <1>15, <2>1 DEF LinksAre
  <2>4. \A n \in On(S2) : blink'[n] = pv2[n] \/ Owed(n)'
    BY <1>1, <1>7, <1>8, <1>13, <1>15, <2>1, <2>2 DEF LinksAre
  <2>. QED BY <2>3, <2>4 DEF LinksAre
\* Soft faults.
<1>21. \A u \in Faulters : FaulterHolds(u)'
  <2>1. FaulterHolds(t)'
    BY <1>1, <1>2, <1>3, <1>6, <1>8, <1>9 DEF FaulterHolds, Owns
  <2>. QED BY <1>1, <1>11, <2>1, OthersHold
<1>22. \A u \in Faulters \ {t} : /\ pc[u] # "idle" => page[u] # p /\ page[u] \in listed
                                 /\ Viewing(u) => page[u] \in S /\ page[u] \in S2 /\ page[u] # p
                                                  /\ pfnLock[page[u]] = u
                                                  /\ fwd[u] \in Nodes /\ bck[u] \in Nodes
                                 /\ pc[u] \in {"unlink2", "count"} => page[u] \notin S2
  <2>1. ASSUME NEW u \in Faulters \ {t}
        PROVE  /\ pc[u] # "idle" => page[u] # p /\ page[u] \in listed /\ pfnLock[page[u]] = u
               /\ Viewing(u) => page[u] \in S /\ fwd[u] \in Nodes /\ bck[u] \in Nodes
               /\ pc[u] \in {"unlink2", "count"} => page[u] \notin S
               /\ Viewing(u) => pc[u] # "idle"
    <3>1. FaulterSees(u, S)
      BY DEF Shape
    <3>2. pc[u] # "idle" => pfnLock[page[u]] = u
      BY FaulterFacts
    <3>3. Viewing(u) => pc[u] # "idle"
      BY DEF Viewing
    <3>. QED BY <1>6, <3>1, <3>2, <3>3 DEF FaulterSees
  <2>. QED BY <1>14, <2>1
<1>23. \A u \in Faulters : FaulterSees(u, S2)'
  <2>1. FaulterSees(t, S2)'
    <3>1. ~Viewing(t)'
      BY <1>9 DEF Viewing
    <3>. QED BY <1>1, <1>2, <1>3, <1>8, <1>9, <1>14, <3>1 DEF FaulterSees
  <2>2. \A u \in Faulters \ {t} : /\ pc[u] # "idle" => page[u] \in listed'
                                  /\ Viewing(u) => page[u] \in S2
                                  /\ pc[u] \in {"unlink2", "count"} => page[u] \notin S2
    BY <1>8, <1>22
  <2>. QED BY <1>1, <1>11, <2>1, <2>2, OthersSee
\* The gap is where the page was, if a neighbour was not locked.
<1>24. exclusive # t => (fwd[t] # F => g = p) /\ (bck[t] # B => g = B) /\ (fwd[t] = F \/ bck[t] = B)
  BY <1>1, <1>2, <1>3, <1>4, <1>7 DEF OneGap, Viewing
<1>25. exclusive # t => pfnLock[F] = t \/ pfnLock[B] = t
  BY <1>6, <1>24
<1>26. \A u \in Faulters : pc[u] = "unlink2" =>
          /\ fwd[u] \in On(S2) /\ bck[u] \in On(S2) /\ sc2[bck[u]] = fwd[u] /\ pv2[fwd[u]] = bck[u]
          /\ fwd[u] \in Nodes
  <2>1. ASSUME NEW u \in Faulters, pc[u] = "unlink2"
        PROVE  /\ fwd[u] \in On(S2) /\ bck[u] \in On(S2)
               /\ sc2[bck[u]] = fwd[u] /\ pv2[fwd[u]] = bck[u] /\ fwd[u] \in Nodes
    <3>1. /\ fwd[u] \in On(S) /\ bck[u] \in On(S) /\ sc[bck[u]] = fwd[u] /\ pv[fwd[u]] = bck[u]
          /\ fwd[u] # p /\ bck[u] # p /\ fwd[u] \in Nodes /\ bck[u] \in Nodes
      BY <2>1, <1>5, FaulterFacts
    <3>2. bck[u] # B
      BY <3>1, <1>4, <1>6, <1>7
    <3>3. fwd[u] # F
      BY <3>1, <1>4, <1>6, <1>7
    <3>. QED BY <3>1, <3>2, <3>3, <1>13, <1>15
  <2>. QED BY <2>1
<1>27. \A u \in Faulters : FaulterUnlinks(u, S2, sc2, pv2)'
  <2>1. FaulterUnlinks(t, S2, sc2, pv2)'
    <3>1. F \in On(S2) /\ B \in On(S2) /\ sc2[B] = F /\ pv2[F] = B
      BY <1>7, <1>13, <1>15
    <3>. QED BY <1>5, <1>8, <1>9, <1>25, <3>1 DEF FaulterUnlinks
  <2>2. ASSUME NEW u \in Faulters \ {t} PROVE FaulterUnlinks(u, S2, sc2, pv2)'
    <3>1. pc[u] = "unlink2" => /\ fwd[u] \in On(S2) /\ bck[u] \in On(S2)
                               /\ sc2[bck[u]] = fwd[u] /\ pv2[fwd[u]] = bck[u]
                               /\ blink'[fwd[u]] = blink[fwd[u]]
      BY <1>8, <1>26
    <3>. QED BY <1>1, <1>11, <3>1, OtherUnlinks
  <2>3. ASSUME NEW u \in Faulters PROVE FaulterUnlinks(u, S2, sc2, pv2)'
    BY <2>1, <2>2
  <2>. QED BY <2>3
\* Batches.
<1>28. \A r \in Removers : RemoverTakes(r, ch[r], o, S, sc)
  BY DEF Shape
<1>29. ASSUME NEW r \in Removers PROVE RemoverTakes(r, ch[r], q, S2, sc2)'
  <2>. DEFINE c == ch[r]
  <2>1. r \in Threads \ {t} /\ RemoverTakes(r, c, o, S, sc) /\ r # t
    BY <1>1, <1>28, Kinds
  <2>2. pc'[r] = pc[r] /\ page'[r] = page[r] /\ fwd'[r] = fwd[r] /\ count'[r] = count[r]
    BY <1>11, <2>1 DEF Others
  <2>3. pc[r] \in {"extend", "detach", "detach2"} => fwd[r] # p
    BY <1>6, <2>1, RemoverFacts
  <2>4. pc[r] \in {"extend", "detach", "detach2", "size", "consume"} =>
           /\ c \in Seq(Pages) /\ Len(c) \in Nat /\ Len(c) > 0
           /\ \A x \in Elems(c) : x # p /\ x \in Nodes /\ x # ListHead /\ x \in listed'
           /\ \A i \in 1..Len(c) : c[i] \in Elems(c)
    BY <1>6, <1>8, <2>1, RemoverFacts
  <2>5. pc[r] = "next" => Len(q) > 0 /\ page[r] = q[1]
    <3>1. ASSUME pc[r] = "next" PROVE Len(q) > 0 /\ page[r] = q[1]
      <4>1. Len(o) > 0 /\ page[r] = o[1]
        BY <2>1, <3>1 DEF RemoverTakes
      <4>2. o[1] \in Nodes
        BY <1>1, <4>1, Heads DEF Ring
      <4>3. pfnLock[page[r]] = r
        <5>1. RemoverHolds(r, c)
          BY DEF Shape
        <5>. QED BY <3>1, <4>1, <4>2, <5>1 DEF RemoverHolds, Owns
      <4>4. k # 1
        BY <4>1, <4>3, <2>1, <1>6, <1>13
      <4>. QED BY <4>1, <4>4, <1>13
    <3>. QED BY <3>1
  <2>6. ASSUME pc[r] \in {"extend", "detach"}
        PROVE  /\ Len(c) <= Len(q) /\ \A i \in 1..Len(c) : c[i] = q[i]
               /\ fwd[r] = IF Len(c) = Len(q) THEN ListHead ELSE q[Len(c) + 1]
    <3>1. /\ Len(c) <= Len(o) /\ \A i \in 1..Len(c) : c[i] = o[i]
          /\ fwd[r] = IF Len(c) = Len(o) THEN ListHead ELSE o[Len(c) + 1]
      BY <2>1, <2>6 DEF RemoverTakes
    <3>2. k > Len(c)
      <4>1. ~(k \in 1..Len(c))
        BY <2>4, <2>6, <3>1, <1>13
      <4>2. k \in Nat /\ k > 0 /\ Len(c) \in Nat
        BY <2>4, <2>6, <1>13
      <4>. QED BY <4>1, <4>2
    <3>3. k # Len(c) + 1
      BY <2>3, <2>4, <2>6, <3>1, <3>2, <1>13
    <3>4. Len(c) < Len(q) /\ Len(c) + 1 \in 1..(k - 1) /\ Len(c) # Len(o)
      BY <2>4, <2>6, <3>2, <3>3, <1>13
    <3>5. \A i \in 1..Len(c) : i \in 1..(k - 1)
      BY <2>4, <2>6, <3>2, <1>13
    <3>6. q[Len(c) + 1] = o[Len(c) + 1] /\ \A i \in 1..Len(c) : q[i] = o[i]
      BY <3>4, <3>5, <1>13
    <3>. QED BY <2>4, <2>6, <3>1, <3>4, <3>6
  <2>7. ASSUME pc[r] \in {"extend", "detach", "detach2", "size", "consume"}
        PROVE  \A i \in 1..(Len(c) - 1) : flink'[c[i]] = flink[c[i]]
    <3>1. BatchIs(r, c)
      BY <2>1, <2>7 DEF RemoverTakes
    <3>2. ASSUME NEW i \in 1..(Len(c) - 1) PROVE c[i] # B
      <4>1. i \in 1..Len(c) /\ i + 1 \in 1..Len(c) /\ c[i] \in Elems(c) /\ c[i + 1] \in Elems(c)
        BY <2>4, <2>7
      <4>2. CASE pc[r] \in {"extend", "detach"}
        <5>1. Len(c) <= Len(o) /\ c[i] = o[i] /\ c[i + 1] = o[i + 1]
          BY <4>1, <4>2, <2>1 DEF RemoverTakes
        <5>2. i \in 1..Len(o) /\ i # Len(o)
          BY <4>1, <5>1, <2>4, <2>7, <1>13
        <5>3. sc[c[i]] = c[i + 1]
          BY <1>1, <5>1, <5>2 DEF Ring
        <5>4. c[i + 1] # p
          BY <4>1, <2>4, <2>7
        <5>. QED BY <5>3, <5>4, <1>4, <1>6, <1>7
      <4>3. CASE pc[r] \in {"detach2", "size", "consume"}
        <5>1. Elems(c) \cap S = {}
          BY <4>3, <2>1 DEF RemoverTakes
        <5>. QED BY <4>1, <5>1, <2>4, <2>7, <1>7 DEF On
      <4>. QED BY <2>7, <4>2, <4>3
    <3>3. \A i \in 1..(Len(c) - 1) : c[i] \in Nodes
      BY <2>4, <2>7
    <3>. QED BY <3>2, <3>3, <1>9
  <2>8. pc[r] \in {"extend", "detach", "detach2", "size", "consume"} =>
          BatchIs(r, c)' /\ Len(c) <= BatchCapacity /\ Elems(c) \subseteq listed'
    <3>1. pc[r] \in {"extend", "detach", "detach2", "size", "consume"} =>
             BatchIs(r, c) /\ Len(c) <= BatchCapacity
      BY <2>1 DEF RemoverTakes
    <3>. HIDE DEF c
    <3>2. pc[r] \in {"extend", "detach", "detach2", "size", "consume"} => BatchIs(r, c)'
      BY <2>2, <2>7, <3>1 DEF BatchIs
    <3>. QED BY <2>4, <3>1, <3>2
  <2>9. pc[r] = "detach2" => fwd[r] = sc2[ListHead]
    <3>1. pc[r] = "detach2" => fwd[r] = sc[ListHead]
      BY <2>1 DEF RemoverTakes
    <3>2. B = ListHead => sc[ListHead] = p
      BY <1>4, <1>6, <1>7
    <3>. QED BY <2>3, <3>1, <3>2, <1>7, <1>13, Heads
  <2>10. /\ pc[r] = "extend" => fwd[r] # ListHead
         /\ pc[r] \in {"detach2", "size", "consume"} => Elems(c) \cap S2 = {}
    BY <2>1, <1>14 DEF RemoverTakes
  <2>11. RemoverTakes(r, c, q, S2, sc2)'
    <3>. HIDE DEF c
    <3>. QED BY <2>2, <2>5, <2>6, <2>8, <2>9, <2>10 DEF RemoverTakes
  <2>. QED BY <2>11
<1>30. ASSUME NEW i \in Inserters PROVE InserterBrings(i, ch[i], S2, pv2)'
  <2>. DEFINE c == ch[i]
  <2>1. i \in Threads \ {t} /\ InserterBrings(i, c, S, pv) /\ i # t
    BY <1>1, Kinds DEF Shape
  <2>2. pc'[i] = pc[i] /\ page'[i] = page[i] /\ fwd'[i] = fwd[i] /\ bck'[i] = bck[i]
        /\ count'[i] = count[i]
    BY <1>11, <2>1 DEF Others
  <2>3. pc[i] # "idle" =>
           /\ c \in Seq(Pages) /\ Len(c) \in Nat /\ Len(c) > 0
           /\ \A x \in Elems(c) : x # p /\ x \in Pages /\ x \in Nodes /\ x # ListHead /\ x \notin listed'
           /\ \A j \in 1..Len(c) : c[j] \in Elems(c)
    BY <1>6, <1>8, <2>1, InserterFacts
  <2>4. ASSUME pc[i] # "idle"
        PROVE  \A j \in 1..(Len(c) - 1) : flink'[c[j]] = flink[c[j]]
    <3>1. ASSUME NEW j \in 1..(Len(c) - 1) PROVE c[j] # B
      <4>1. j \in 1..Len(c) /\ j + 1 \in 1..Len(c) /\ c[j] \in Elems(c) /\ c[j + 1] \in Elems(c)
        BY <2>3, <2>4
      <4>2. SUFFICES ASSUME c[j] = B PROVE FALSE
        OBVIOUS
      <4>3. flink[B] = c[j + 1]
        BY <2>1, <2>4, <4>2 DEF InserterBrings, BatchIs
      <4>4. flink[B] = sc[B]
        BY <1>1, <1>5, <1>7 DEF LinksAre
      <4>5. sc[B] = p
        BY <1>4, <1>6, <1>7
      <4>. QED BY <2>3, <2>4, <4>1, <4>3, <4>4, <4>5
    <3>2. \A j \in 1..(Len(c) - 1) : c[j] \in Nodes
      BY <2>3, <2>4
    <3>. QED BY <3>1, <3>2, <1>9
  <2>5. pc[i] # "idle" => BatchIs(i, c)' /\ Elems(c) \cap listed' = {}
    <3>1. pc[i] # "idle" => BatchIs(i, c) /\ Elems(c) \cap listed = {}
      BY <2>1 DEF InserterBrings
    <3>. HIDE DEF c
    <3>2. pc[i] # "idle" => BatchIs(i, c)'
      BY <2>2, <2>4, <3>1 DEF BatchIs
    <3>. QED BY <1>8, <3>1, <3>2
  <2>6. ASSUME pc[i] \in {"share", "head", "tail", "link", "link2"}
        PROVE  fwd[i] = c[Len(c)] /\ flink'[fwd[i]] = Nil
    <3>1. fwd[i] = c[Len(c)] /\ flink[fwd[i]] = Nil
      BY <2>1, <2>6 DEF InserterBrings
    <3>2. flink[B] = sc[B] /\ sc[B] = p
      BY <1>1, <1>4, <1>5, <1>6, <1>7 DEF LinksAre
    <3>3. fwd[i] # B /\ fwd[i] \in Nodes
      <4>1. c[Len(c)] \in Nodes
        BY <2>3, <2>6
      <4>. QED BY <3>1, <3>2, <4>1, <1>6, Heads
    <3>. QED BY <3>1, <3>3, <1>9
  <2>7. pc[i] \in {"share", "head", "tail", "link"} =>
          /\ Elems(c) \cap S2 = {} /\ \A j \in 1..(Len(c) - 1) : blink'[c[j + 1]] = c[j]
    BY <2>1, <1>8, <1>14 DEF InserterBrings
  <2>8. F = ListHead => pv[ListHead] = p
    BY <1>4, <1>6, <1>7
  <2>9. pc[i] = "link" => bck[i] = pv2[ListHead]
    <3>1. pc[i] = "link" => bck[i] = pv[ListHead] /\ pfnLock[bck[i]] = i
      BY <2>1, InserterFacts DEF InserterBrings
    <3>. QED BY <2>1, <2>8, <3>1, <1>6, <1>7, <1>13, Heads
  <2>10. pc[i] = "link2" => pv2[ListHead] = fwd[i] /\ bck[i] \notin Elems(c)
    <3>1. pc[i] = "link2" => pv[ListHead] = fwd[i] /\ bck[i] \notin Elems(c)
      BY <2>1 DEF InserterBrings
    <3>2. pc[i] = "link2" => fwd[i] \in Elems(c)
      BY InserterFacts
    <3>. QED BY <2>3, <2>8, <3>1, <3>2, <1>7, <1>13, Heads
  <2>11. pc[i] \in {"link2", "size", "unlock"} => Elems(c) \subseteq S2
    <3>1. pc[i] \in {"link2", "size", "unlock"} => Elems(c) \subseteq S
      BY <2>1 DEF InserterBrings
    <3>. QED BY <2>3, <3>1, <1>14
  <2>12. InserterBrings(i, c, S2, pv2)'
    <3>. HIDE DEF c
    <3>. QED BY <2>2, <2>5, <2>6, <2>7, <2>9, <2>10, <2>11 DEF InserterBrings
  <2>. QED BY <2>12
<1>31. /\ \A r \in Removers : RemoverHolds(r, ch[r])'
       /\ \A i \in Inserters : InserterHolds(i, ch[i])'
  BY <1>1, <1>11, OthersHold
\* What is true of several threads.
<1>32. StatusAgrees(S2, ch)'
  <2>1. \A u \in Threads \ {t} : pc'[u] = pc[u] /\ page'[u] = page[u]
    BY <1>11 DEF Others
  <2>2. \A x \in S2 : \/ x \in listed'
                      \/ \E i \in Inserters : pc'[i] \in {"link2", "size", "unlock"} /\ x \in Elems(ch[i])
    BY <1>1, <1>8, <1>14, <2>1, Kinds DEF StatusAgrees
  <2>3. ASSUME NEW x \in listed', x \notin S2
        PROVE  \/ \E u \in Faulters : pc'[u] \in {"unlink2", "count"} /\ page'[u] = x
               \/ \E r \in Removers : pc'[r] \in {"detach2", "size", "consume"} /\ x \in Elems(ch[r])
    <3>1. CASE x = p
      BY <3>1, <1>9
    <3>2. CASE x # p
      <4>1. x \in listed /\ x \notin S
        BY <2>3, <3>2, <1>8, <1>14
      <4>2. \/ \E u \in Faulters : pc[u] \in {"unlink2", "count"} /\ page[u] = x
            \/ \E r \in Removers : pc[r] \in {"detach2", "size", "consume"} /\ x \in Elems(ch[r])
        BY <1>1, <4>1 DEF StatusAgrees
      <4>. QED BY <1>2, <2>1, <4>2, Kinds
    <3>. QED BY <3>1, <3>2
  <2>. QED BY <2>2, <2>3 DEF StatusAgrees
<1>33. ListLock'
  BY <1>1, <1>8 DEF ListLock
<1>34. \A u \in Faulters \ {t} :
          /\ Viewing(u)' <=> Viewing(u)
          /\ pc'[u] = pc[u] /\ page'[u] = page[u] /\ fwd'[u] = fwd[u] /\ bck'[u] = bck[u]
  BY <1>11, Kinds DEF Others, Viewing
<1>35. ~Viewing(t)' /\ Viewing(t)
  BY <1>2, <1>9 DEF Viewing
\* Where a soft fault on a neighbour stands.
<1>36. ASSUME NEW u \in Faulters \ {t}, Viewing(u)
       PROVE  /\ page[u] = B /\ exclusive # t => g = B
              /\ page[u] = F /\ exclusive # t => g = p
              /\ exclusive = t => fwd[u] = sc[page[u]] /\ bck[u] = pv[page[u]]
  <2>1. pfnLock[page[u]] = u
    BY <1>22, <1>36
  <2>2. exclusive = t => fwd[u] = sc[page[u]] /\ bck[u] = pv[page[u]]
    BY <1>1, <1>2, <1>36 DEF ExclusiveIsAlone
  <2>. QED BY <2>1, <2>2, <1>6, <1>24
<1>37. OneGap(g2, S2, sc2, pv2)'
  <2>1. g2 \in On(S2)
    BY <1>1, <1>7, <1>15, <1>16 DEF OneGap
  <2>2. ASSUME NEW u \in Faulters, Viewing(u)'
        PROVE  /\ fwd'[u] # sc2[page'[u]] => page'[u] = g2
               /\ bck'[u] # pv2[page'[u]] => pv2[page'[u]] = g2
    <3>1. u # t /\ Viewing(u) /\ page'[u] = page[u] /\ fwd'[u] = fwd[u] /\ bck'[u] = bck[u]
          /\ page[u] \in S2 /\ page[u] \in Nodes /\ page[u] \in On(S) /\ page[u] # p
      BY <2>2, <1>15, <1>22, <1>34, <1>35
    <3>2. /\ fwd[u] # sc[page[u]] => page[u] = g
          /\ bck[u] # pv[page[u]] => pv[page[u]] = g
      BY <1>1, <3>1 DEF OneGap
    <3>3. fwd[u] # sc2[page[u]] => page[u] = g2
      <4>1. CASE page[u] = B
        BY <3>1, <4>1, <1>7, <1>16, <1>36
      <4>2. CASE page[u] # B
        BY <3>1, <3>2, <4>2, <1>13, <1>16, <1>36
      <4>. QED BY <4>1, <4>2
    <3>4. bck[u] # pv2[page[u]] => pv2[page[u]] = g2
      <4>1. CASE page[u] = F
        BY <3>1, <4>1, <1>13, <1>16, <1>36
      <4>2. CASE page[u] # F
        <5>1. pv[page[u]] # p
          BY <3>1, <4>2, <1>4, <1>7
        <5>. QED BY <3>1, <3>2, <4>2, <5>1, <1>13, <1>16, <1>36
      <4>. QED BY <4>1, <4>2
    <3>. QED BY <3>1, <3>3, <3>4
  <2>3. ASSUME NEW u \in Faulters, pc'[u] = "unlink2" PROVE pfnLock'[fwd'[u]] = u \/ bck'[u] = g2
    <3>1. CASE u = t
      <4>1. exclusive # t /\ pfnLock[F] # t => g = p
        BY <1>6, <1>24
      <4>. QED BY <3>1, <4>1, <1>8, <1>9, <1>16
    <3>2. CASE u # t
      <4>1. pc[u] = "unlink2" /\ fwd'[u] = fwd[u] /\ bck'[u] = bck[u]
        BY <2>3, <3>2, <1>34
      <4>2. pfnLock[fwd[u]] = u \/ bck[u] = g
        BY <1>1, <4>1 DEF OneGap
      <4>3. bck[u] # p /\ exclusive # t
        BY <4>1, <1>5
      <4>. QED BY <4>1, <4>2, <4>3, <1>8, <1>16
    <3>. QED BY <3>1, <3>2
  <2>. QED BY <2>1, <2>2, <2>3 DEF OneGap
<1>38. NeighboursMeet(sc2)'
  <2>1. ASSUME NEW a \in Faulters, NEW b \in Faulters, Viewing(a)', Viewing(b)', sc2[page'[a]] = page'[b]
        PROVE  fwd'[a] = page'[b] \/ bck'[b] = page'[a] \/ fwd'[a] = bck'[b]
    <3>1. /\ a # t /\ b # t /\ Viewing(a) /\ Viewing(b)
          /\ page'[a] = page[a] /\ fwd'[a] = fwd[a] /\ page'[b] = page[b] /\ bck'[b] = bck[b]
          /\ page[a] \in Nodes
      BY <2>1, <1>15, <1>22, <1>34, <1>35
    <3>2. CASE page[a] # B
      <4>1. sc[page[a]] = page[b]
        BY <2>1, <3>1, <3>2, <1>13
      <4>. QED BY <1>1, <3>1, <4>1 DEF NeighboursMeet
    <3>3. CASE page[a] = B
      <4>1. page[b] = F
        BY <2>1, <3>1, <3>3, <1>7, <1>13
      <4>2. exclusive = t
        BY <3>1, <3>3, <4>1, <1>7, <1>36
      <4>3. fwd[a] = p /\ bck[b] = p
        BY <3>1, <3>3, <4>1, <4>2, <1>4, <1>6, <1>7, <1>36
      <4>. QED BY <3>1, <4>3
    <3>. QED BY <3>2, <3>3
  <2>. QED BY <2>1 DEF NeighboursMeet
<1>39. NeighboursWait'
  <2>1. ASSUME NEW s \in Faulters, NEW u \in Faulters, pc'[s] = "unlink2", exclusive' # s, Viewing(u)'
        PROVE  /\ page'[u] = bck'[s] => pfnLock'[fwd'[u]] = s
               /\ page'[u] = fwd'[s] => pfnLock'[bck'[u]] = s
    <3>1. /\ u # t /\ Viewing(u) /\ page'[u] = page[u] /\ fwd'[u] = fwd[u] /\ bck'[u] = bck[u]
          /\ pfnLock[page[u]] = u /\ page[u] \in On(S)
      BY <2>1, <1>15, <1>22, <1>34, <1>35
    <3>2. CASE s # t
      BY <2>1, <3>1, <3>2, <1>1, <1>8, <1>34 DEF NeighboursWait
    <3>3. CASE s = t
      <4>1. exclusive # t
        BY <2>1, <3>3, <1>8
      <4>2. page[u] = B => pfnLock[fwd[u]] = t
        <5>1. page[u] = B => sc[page[u]] = page[t]
          BY <1>3, <1>4, <1>6, <1>7
        <5>2. page[u] = B => fwd[u] = page[t] \/ bck[t] = page[u] \/ fwd[u] = bck[t]
          BY <1>1, <1>35, <3>1, <5>1 DEF NeighboursMeet
        <5>. QED BY <3>1, <4>1, <5>2, <1>3, <1>6
      <4>3. page[u] = F => pfnLock[bck[u]] = t
        <5>1. page[u] = F => fwd[t] = page[u] \/ bck[u] = page[t] \/ fwd[t] = bck[u]
          BY <1>1, <1>3, <1>4, <1>35, <3>1 DEF NeighboursMeet
        <5>. QED BY <3>1, <4>1, <5>1, <1>3, <1>6
      <4>. QED BY <3>1, <3>3, <4>2, <4>3, <1>8, <1>9
    <3>. QED BY <3>2, <3>3
  <2>. QED BY <2>1 DEF NeighboursWait
<1>40. ExclusiveIsAlone(sc2, pv2)'
  <2>1. ASSUME NEW s \in Faulters, NEW u \in Faulters, exclusive' = s, u # s, Viewing(u)'
        PROVE  /\ pc'[s] = "unlink" => fwd'[u] = sc2[page'[u]] /\ bck'[u] = pv2[page'[u]]
               /\ pc'[s] = "unlink2" /\ page'[u] = bck'[s] => fwd'[u] \in {page'[s], fwd'[s]}
    <3>1. s = t
      BY <2>1, <1>1, <1>6, <1>8, Kinds DEF ListLock
    <3>2. u # t /\ Viewing(u) /\ page'[u] = page[u] /\ fwd'[u] = fwd[u] /\ exclusive = t
      BY <2>1, <3>1, <1>8, <1>34
    <3>3. page[u] = B => fwd[u] = p
      BY <3>2, <1>4, <1>6, <1>7, <1>36
    <3>. QED BY <3>1, <3>2, <3>3, <1>9
  <2>. QED BY <2>1 DEF ExclusiveIsAlone
<1>41. Sizes(q)'
  <2>1. JoiningOf(t)' = 0 /\ JoiningOf(t) = 0 /\ LeavingOf(t)' = 1 /\ LeavingOf(t) = 0
        /\ list_size' = list_size /\ list_size \in Int
    BY <1>1, <1>2, <1>8, <1>9 DEF JoiningOf, LeavingOf, FieldsOK
  <2>2. Len(q) \in Nat /\ Len(q) = Len(o) - 1
    BY <1>13
  <2>3. Len(q) - Len(o) = (list_size' - list_size) + (JoiningOf(t)' - JoiningOf(t))
                              - (LeavingOf(t)' - LeavingOf(t))
    BY <1>13, <2>1, <2>2
  <2>. QED BY <1>1, <1>10, <1>11, <1>13, <2>2, <2>3, SizesStep
<1>42. Ring(q, S2, sc2, pv2)
  BY <1>13, <1>14
<1>43. Shape(q, S2, sc2, pv2, ch, g2)'
  BY <1>10, <1>20, <1>21, <1>23, <1>27, <1>29, <1>30, <1>31, <1>32, <1>33, <1>37, <1>38, <1>39,
     <1>40, <1>41, <1>42 DEF Shape, Ring
<1>. QED BY <1>13, <1>43 DEF Steps

\* A soft fault that has removed its page writes the second link, or is done.
LEMMA SoftLeaves ==
    ASSUME NEW o, NEW S, NEW sc, NEW pv, NEW ch, NEW g, Shape(o, S, sc, pv, ch, g),
           NEW t \in Faulters, Others(t), FieldsOK', flink' = flink,
           pc[t] \in {"unlink2", "count"}, pc'[t] \in {"count", "idle"},
           \A n \in Nodes : blink'[n] = blink[n] \/ (pc[t] = "unlink2" /\ n = fwd[t]),
           pc[t] = "unlink2" => blink'[fwd[t]] = bck[t],
           listed' \subseteq listed, listed \ listed' \subseteq {page[t]},
           page[t] \in listed' => pc'[t] = "count" /\ page'[t] = page[t],
           FaulterHolds(t)', FaulterSees(t, S)', ListLock', exclusive' # t, Sizes(o)'
    PROVE  Steps(o)
<1>1. /\ FieldsOK /\ Ring(o, S, sc, pv) /\ LinksAre(S, sc, pv) /\ StatusAgrees(S, ch)
      /\ FaulterSees(t, S) /\ t \in Threads /\ t \notin Removers /\ t \notin Inserters
  BY Kinds DEF Shape
<1>2. /\ page[t] \in Pages /\ page[t] \in Nodes /\ pfnLock[page[t]] = t /\ page[t] \notin S
      /\ pc[t] = "unlink2" => /\ fwd[t] \in Nodes /\ fwd[t] \in On(S) /\ pv[fwd[t]] = bck[t]
                              /\ blink[fwd[t]] = page[t]
  <2>1. pc[t] # "idle" /\ page[t] \notin S
    BY <1>1 DEF FaulterSees
  <2>. QED BY <2>1, FaulterFacts
<1>3. On(S) \subseteq Nodes /\ ListHead \in On(S) /\ S \subseteq On(S)
  BY <1>1, RingFacts DEF On
<1>4. LinksAre(S, sc, pv)'
  <2>1. ASSUME NEW n \in On(S) PROVE flink'[n] = sc[n] \/ Loose(n)'
    <3>1. Loose(n) => Loose(n)'
      BY <1>1, DebtsKept
    <3>. QED BY <1>1, <3>1 DEF LinksAre
  <2>2. ASSUME NEW n \in On(S) PROVE blink'[n] = pv[n] \/ Owed(n)'
    <3>1. Owed(n) => Owed(n)' \/ (pc[t] = "unlink2" /\ fwd[t] = n)
      BY <1>1, DebtsKept
    <3>2. blink[n] = pv[n] \/ Owed(n)
      BY <1>1 DEF LinksAre
    <3>. QED BY <1>2, <1>3, <3>1, <3>2
  <2>. QED BY <2>1, <2>2 DEF LinksAre
<1>5. ASSUME NEW u \in Faulters PROVE FaulterHolds(u)'
  BY <1>1, OthersHold
<1>6. \A u \in Faulters \ {t} : pc[u] # "idle" => page[u] # page[t] /\ page[u] \in listed'
  <2>1. ASSUME NEW u \in Faulters \ {t}, pc[u] # "idle" PROVE page[u] # page[t] /\ page[u] \in listed'
    <3>1. pfnLock[page[u]] = u
      BY <2>1, FaulterFacts
    <3>2. page[u] \in listed
      BY <2>1 DEF Shape, FaulterSees
    <3>. QED BY <1>2, <3>1, <3>2
  <2>. QED BY <2>1
<1>7. ASSUME NEW u \in Faulters PROVE FaulterSees(u, S)'
  <2>1. \A v \in Faulters \ {t} : /\ pc[v] # "idle" => page[v] \in listed'
                                  /\ Viewing(v) => page[v] \in S
                                  /\ pc[v] \in {"unlink2", "count"} => page[v] \notin S
    BY <1>6 DEF Shape, FaulterSees
  <2>. QED BY <1>1, <2>1, OthersSee
<1>8. ASSUME NEW u \in Faulters PROVE FaulterUnlinks(u, S, sc, pv)'
  <2>1. CASE u = t
    BY <2>1 DEF FaulterUnlinks
  <2>2. CASE u # t
    <3>1. pc[u] = "unlink2" => /\ fwd[u] \in On(S) /\ bck[u] \in On(S) /\ fwd[u] \in Nodes
                               /\ sc[bck[u]] = fwd[u] /\ pv[fwd[u]] = bck[u]
                               /\ blink[fwd[u]] = page[u]
      BY FaulterFacts
    <3>2. pc[u] = "unlink2" => blink'[fwd[u]] = blink[fwd[u]]
      BY <1>2, <1>6, <2>2, <3>1
    <3>3. pc[u] = "unlink2" => /\ fwd[u] \in On(S) /\ bck[u] \in On(S)
                               /\ sc[bck[u]] = fwd[u] /\ pv[fwd[u]] = bck[u]
                               /\ blink'[fwd[u]] = blink[fwd[u]]
      BY <3>1, <3>2
    <3>4. u \in Faulters \ {t}
      BY <2>2
    <3>. QED BY <1>1, <3>3, <3>4, OtherUnlinks
  <2>. QED BY <2>1, <2>2
<1>9. ASSUME NEW u \in Removers PROVE RemoverHolds(u, ch[u])' /\ RemoverTakes(u, ch[u], o, S, sc)'
  <2>1. u \in Removers \ {t} /\ u # t
    BY <1>1
  <2>2. pc[u] \in {"extend", "detach", "detach2", "size", "consume"} =>
           \A p \in Elems(ch[u]) : flink'[p] = flink[p] /\ p \in listed'
    BY <1>2, <2>1, RemoverFacts
  <2>3. pc[u] \in {"detach2", "size", "consume"} => Elems(ch[u]) \cap S = {}
    BY DEF Shape, RemoverTakes
  <2>4. RemoverTakes(u, ch[u], o, S, sc)'
    BY <1>1, <2>1, <2>2, <2>3, OtherTakes
  <2>5. RemoverHolds(u, ch[u])'
    BY <1>1, <2>1, OthersHold
  <2>. QED BY <2>4, <2>5
<1>10. ASSUME NEW u \in Inserters PROVE InserterHolds(u, ch[u])' /\ InserterBrings(u, ch[u], S, pv)'
  <2>1. u \in Inserters \ {t}
    BY <1>1
  <2>2. pc[u] # "idle" => \A p \in Elems(ch[u]) : /\ flink'[p] = flink[p] /\ p \notin listed'
                                                  /\ p \in Pages /\ p \in Nodes /\ p # ListHead
    BY InserterFacts
  <2>3. /\ pc[u] \in {"share", "head", "tail", "link"} => Elems(ch[u]) \cap S = {}
        /\ pc[u] \in {"link2", "size", "unlock"} => Elems(ch[u]) \subseteq S
    BY DEF Shape, InserterBrings
  <2>4. pc[u] \in {"share", "head", "tail", "link"} => \A p \in Elems(ch[u]) : blink'[p] = blink[p]
    BY <1>2, <2>2, <2>3 DEF On
  <2>5. pc[u] \in {"share", "head", "tail", "link"} =>
           Elems(ch[u]) \cap S = {} /\ \A p \in Elems(ch[u]) : blink'[p] = blink[p]
    BY <2>3, <2>4
  <2>6. pc[u] # "idle" => \A p \in Elems(ch[u]) : flink'[p] = flink[p] /\ p \notin listed'
    BY <2>2
  <2>7. InserterBrings(u, ch[u], S, pv)'
    BY <1>1, <2>1, <2>3, <2>5, <2>6, OtherBrings
  <2>8. InserterHolds(u, ch[u])'
    BY <1>1, <2>1, OthersHold
  <2>. QED BY <2>7, <2>8
<1>11. \A u \in Threads \ {t} : pc'[u] = pc[u] /\ page'[u] = page[u]
  BY DEF Others
<1>12. StatusAgrees(S, ch)'
  <2>1. \A p \in S : \/ p \in listed'
                     \/ \E i \in Inserters : pc'[i] \in {"link2", "size", "unlock"} /\ p \in Elems(ch[i])
    BY <1>1, <1>2, <1>11, Kinds DEF StatusAgrees
  <2>2. ASSUME NEW p \in listed', p \notin S
        PROVE  \/ \E u \in Faulters : pc'[u] \in {"unlink2", "count"} /\ page'[u] = p
               \/ \E r \in Removers : pc'[r] \in {"detach2", "size", "consume"} /\ p \in Elems(ch[r])
    <3>1. \/ \E u \in Faulters : pc[u] \in {"unlink2", "count"} /\ page[u] = p
          \/ \E r \in Removers : pc[r] \in {"detach2", "size", "consume"} /\ p \in Elems(ch[r])
      BY <1>1, <2>2 DEF StatusAgrees
    <3>2. CASE p = page[t]
      BY <2>2, <3>2
    <3>3. CASE p # page[t]
      BY <1>1, <1>11, <3>1, <3>3, Kinds
    <3>. QED BY <3>2, <3>3
  <2>. QED BY <2>1, <2>2 DEF StatusAgrees
<1>13. OneGap(g, S, sc, pv)' /\ NeighboursMeet(sc)' /\ NeighboursWait' /\ ExclusiveIsAlone(sc, pv)'
  <2>1. ~Viewing(t)' /\ pc'[t] # "unlink2"
    BY DEF Viewing
  <2>. QED BY <1>1, <2>1, ViewsKept
<1>14. Shape(o, S, sc, pv, ch, g)'
  BY <1>1, <1>4, <1>5, <1>7, <1>8, <1>9, <1>10, <1>12, <1>13 DEF Shape, Ring
<1>. QED BY <1>14 DEF Steps

\* The second write of a soft fault, blink of the next page, pays what it owed.
LEMMA SoftUnlinkBackStep ==
    ASSUME NEW o, NEW S, NEW sc, NEW pv, NEW ch, NEW g, Shape(o, S, sc, pv, ch, g),
           NEW t \in Faulters, SoftUnlinkBack(t)
    PROVE  Steps(o)
<1>1. FieldsOK /\ FaulterHolds(t) /\ FaulterSees(t, S) /\ ListLock /\ t \in Threads /\ Sizes(o)
      /\ t \notin Removers /\ t \notin Inserters /\ Len(o) \in Nat
  BY Kinds DEF Shape, Ring
<1>2. /\ pc[t] = "unlink2" /\ pc' = [pc EXCEPT ![t] = "count"]
      /\ blink' = [blink EXCEPT ![fwd[t]] = bck[t]] /\ Release(t, {page[t]})
      /\ flink' = flink /\ list_size' = list_size /\ listed' = listed
      /\ page' = page /\ fwd' = fwd /\ bck' = bck /\ count' = count
  BY DEF SoftUnlinkBack, Goto, LocalsUnchanged
<1>3. page[t] \in Nodes /\ pfnLock[page[t]] = t /\ fwd[t] \in Nodes /\ bck[t] \in Nodes
  BY <1>2, FaulterFacts
<1>4. /\ pfnLock' \in [Nodes -> Threads \cup {NoThread}]
      /\ readers' \in SUBSET Threads /\ exclusive' \in Threads \cup {NoThread}
      /\ \A u \in Threads \ {t}, m \in Nodes : pfnLock'[m] = u <=> pfnLock[m] = u
      /\ \A u \in Threads \ {t} : (u \in readers' <=> u \in readers)
                                  /\ (exclusive' = u <=> exclusive = u)
      /\ \A m \in Nodes : pfnLock'[m] = t <=> m = page[t]
      /\ t \notin readers' /\ exclusive' # t
      /\ ListLock'
  BY <1>1, <1>2, <1>3, Releasing
<1>5. pc'[t] = "count" /\ page'[t] = page[t]
  BY <1>1, <1>2 DEF FieldsOK
<1>6. FieldsOK'
  BY <1>1, <1>2, <1>3, <1>4 DEF FieldsOK
<1>7. Others(t)
  BY <1>1, <1>2, <1>4 DEF Others, FieldsOK
<1>8. FaulterHolds(t)'
  BY <1>4, <1>5 DEF FaulterHolds, Owns
<1>9. FaulterSees(t, S)'
  <2>1. ~Viewing(t)'
    BY <1>5 DEF Viewing
  <2>. QED BY <1>1, <1>2, <1>5, <2>1 DEF FaulterSees
<1>10. \A n \in Nodes : blink'[n] = IF n = fwd[t] THEN bck[t] ELSE blink[n]
  BY <1>1, <1>2 DEF FieldsOK
<1>11. Sizes(o)'
  <2>1. JoiningOf(t)' = 0 /\ JoiningOf(t) = 0 /\ LeavingOf(t)' = 1 /\ LeavingOf(t) = 1
        /\ list_size' = list_size /\ list_size \in Int
    BY <1>1, <1>2, <1>5 DEF JoiningOf, LeavingOf, FieldsOK
  <2>2. Len(o) - Len(o) = (list_size' - list_size) + (JoiningOf(t)' - JoiningOf(t))
                              - (LeavingOf(t)' - LeavingOf(t))
    BY <1>1, <2>1
  <2>. QED BY <1>1, <1>6, <1>7, <2>2, SizesStep
<1>. QED BY <1>2, <1>3, <1>4, <1>5, <1>6, <1>7, <1>8, <1>9, <1>10, <1>11, SoftLeaves

\* A soft fault counts its page off and is done.
LEMMA SoftDoneStep ==
    ASSUME NEW o, NEW S, NEW sc, NEW pv, NEW ch, NEW g, Shape(o, S, sc, pv, ch, g),
           NEW t \in Faulters, SoftDone(t)
    PROVE  Steps(o)
<1>1. FieldsOK /\ FaulterHolds(t) /\ FaulterSees(t, S) /\ ListLock /\ t \in Threads /\ Sizes(o)
      /\ t \notin Removers /\ t \notin Inserters /\ Len(o) \in Nat
  BY Kinds DEF Shape, Ring
<1>2. /\ pc[t] = "count" /\ pc' = [pc EXCEPT ![t] = "idle"]
      /\ Release(t, {}) /\ flink' = flink /\ blink' = blink /\ list_size' = list_size - 1
      /\ listed' = listed \ {page[t]} /\ page' = [page EXCEPT ![t] = Nil]
      /\ fwd' = [fwd EXCEPT ![t] = Nil] /\ bck' = [bck EXCEPT ![t] = Nil] /\ count' = count
  BY DEF SoftDone, Goto
<1>4. /\ pfnLock' \in [Nodes -> Threads \cup {NoThread}]
      /\ readers' \in SUBSET Threads /\ exclusive' \in Threads \cup {NoThread}
      /\ \A u \in Threads \ {t}, m \in Nodes : pfnLock'[m] = u <=> pfnLock[m] = u
      /\ \A u \in Threads \ {t} : (u \in readers' <=> u \in readers)
                                  /\ (exclusive' = u <=> exclusive = u)
      /\ \A m \in Nodes : pfnLock'[m] # t
      /\ t \notin readers' /\ exclusive' # t
      /\ ListLock'
  BY <1>1, <1>2, Releasing
<1>5. pc'[t] = "idle"
  BY <1>1, <1>2 DEF FieldsOK
<1>6. FieldsOK'
  BY <1>1, <1>2, <1>4 DEF FieldsOK
<1>7. Others(t)
  BY <1>1, <1>2, <1>4 DEF Others, FieldsOK
<1>8. FaulterHolds(t)'
  BY <1>4, <1>5 DEF FaulterHolds, Owns
<1>9. FaulterSees(t, S)'
  <2>1. ~Viewing(t)'
    BY <1>5 DEF Viewing
  <2>. QED BY <1>5, <2>1 DEF FaulterSees
<1>10. Sizes(o)'
  <2>1. JoiningOf(t)' = 0 /\ JoiningOf(t) = 0 /\ LeavingOf(t)' = 0 /\ LeavingOf(t) = 1
        /\ list_size' = list_size - 1 /\ list_size \in Int
    BY <1>1, <1>2, <1>5 DEF JoiningOf, LeavingOf, FieldsOK
  <2>2. Len(o) - Len(o) = (list_size' - list_size) + (JoiningOf(t)' - JoiningOf(t))
                              - (LeavingOf(t)' - LeavingOf(t))
    BY <1>1, <2>1
  <2>. QED BY <1>1, <1>6, <1>7, <2>2, SizesStep
<1>. QED BY <1>2, <1>4, <1>5, <1>6, <1>7, <1>8, <1>9, <1>10, SoftLeaves

-----------------------------------------------------------------------------
(* Removals that gather their batch.                                       *)

\* A page that a thread has locked is linked to the next one, and its status is true.
LEMMA LockedIsLinked ==
    ASSUME NEW o, NEW S, NEW sc, NEW pv, NEW ch, NEW g, Shape(o, S, sc, pv, ch, g),
           NEW t \in Removers, NEW n \in On(S), pfnLock[n] = t
    PROVE  flink[n] = sc[n] /\ (n \in S => n \in listed)
<1>1. LinksAre(S, sc, pv) /\ StatusAgrees(S, ch) /\ t \notin Inserters
  BY Kinds DEF Shape
<1>2. ~Loose(n)
  BY <1>1, LooseFacts
<1>3. flink[n] = sc[n]
  BY <1>1, <1>2 DEF LinksAre
<1>4. ASSUME n \in S, n \notin listed PROVE FALSE
  <2>1. PICK i \in Inserters : pc[i] \in {"link2", "size", "unlock"} /\ n \in Elems(ch[i])
    BY <1>1, <1>4 DEF StatusAgrees
  <2>2. pfnLock[n] = i
    BY <2>1, InserterFacts
  <2>. QED BY <1>1, <2>2
<1>. QED BY <1>3, <1>4

\* A removal that holds no page.
LEMMA RemoverWaits ==
    ASSUME NEW o, NEW S, NEW sc, NEW pv, NEW ch, NEW g, Shape(o, S, sc, pv, ch, g),
           NEW t \in Removers, LinksUnchanged, FieldsOK', Others(t),
           pc[t] \in {"idle", "again", "retry", "head", "first", "next", "extend", "detach"},
           pc'[t] \in {"idle", "again", "retry", "head", "first"},
           ListLock', exclusive' # t, t \in readers' <=> pc'[t] \in {"head", "first"},
           \A n \in Nodes : pfnLock'[n] = t <=> (pc'[t] = "first" /\ n = ListHead)
    PROVE  Steps(o)
<1>1. RemoverHolds(t, ch[t])'
  BY DEF RemoverHolds, Owns
<1>2. RemoverTakes(t, ch[t], o, S, sc)'
  BY DEF RemoverTakes
<1>3. \A u \in Threads \ {t} : ch[u] = ch[u]
  OBVIOUS
<1>. QED BY <1>1, <1>2, <1>3, RemoverQuiet

\* A remover takes the list lock shared.
LEMMA RemoveShareStep ==
    ASSUME NEW o, NEW S, NEW sc, NEW pv, NEW ch, NEW g, Shape(o, S, sc, pv, ch, g),
           NEW t \in Removers, RemoveShare(t)
    PROVE  Steps(o)
<1>1. FieldsOK /\ RemoverHolds(t, ch[t]) /\ ListLock /\ t \in Threads
  BY Kinds DEF Shape
<1>2. LinksUnchanged /\ LocalsUnchanged /\ pc[t] \in {"idle", "again"} /\ pfnLock' = pfnLock
      /\ exclusive' = exclusive
  BY DEF RemoveShare, Goto, LockShared, locks
<1>3. exclusive # t /\ \A n \in Nodes : pfnLock[n] # t
  BY <1>1, <1>2 DEF RemoverHolds, Owns
<1>4. \/ pc' = [pc EXCEPT ![t] = "head"] /\ readers' = readers \cup {t} /\ exclusive = NoThread
      \/ pc' = [pc EXCEPT ![t] = "retry"] /\ readers' = readers
  BY DEF RemoveShare, Goto, LockShared, locks
<1>5. FieldsOK' /\ Others(t)
  BY <1>1, <1>2, <1>4 DEF FieldsOK, Others, LinksUnchanged, LocalsUnchanged
<1>6. \/ pc'[t] = "head" /\ t \in readers'
      \/ pc'[t] = "retry" /\ readers' = readers
  BY <1>1, <1>4 DEF FieldsOK
<1>7. t \notin readers
  BY <1>1, <1>2 DEF RemoverHolds
<1>8. ListLock'
  BY <1>1, <1>2, <1>4 DEF ListLock
<1>9. pc'[t] \in {"head", "retry"} /\ (t \in readers' <=> pc'[t] \in {"head", "first"})
  BY <1>6, <1>7
<1>. QED BY <1>2, <1>3, <1>5, <1>8, <1>9, RemoverWaits

\* A remover without a batch gives up all it has locked; the list stays as it is.
LEMMA RemoveBackOff ==
    ASSUME NEW o, NEW S, NEW sc, NEW pv, NEW ch, NEW g, Shape(o, S, sc, pv, ch, g),
           NEW t \in Removers, LinksUnchanged, FieldsOK', Others(t),
           pc[t] \in {"head", "first", "next"}, pc'[t] \in {"idle", "retry"}, Release(t, {})
    PROVE  Steps(o)
<1>1. FieldsOK /\ ListLock /\ t \in Threads
  BY Kinds DEF Shape
<1>2. /\ \A m \in Nodes : pfnLock'[m] # t
      /\ t \notin readers' /\ exclusive' # t /\ ListLock'
  BY <1>1, Releasing
<1>. QED BY <1>2, RemoverWaits

\* A remover locks the head, or comes again.
LEMMA RemoveLockHeadStep ==
    ASSUME NEW o, NEW S, NEW sc, NEW pv, NEW ch, NEW g, Shape(o, S, sc, pv, ch, g),
           NEW t \in Removers, RemoveLockHead(t)
    PROVE  Steps(o)
<1>1. FieldsOK /\ RemoverHolds(t, ch[t]) /\ ListLock /\ t \in Threads /\ ListHead \in Nodes
  BY Kinds, Heads DEF Shape
<1>2. LinksUnchanged /\ LocalsUnchanged /\ pc[t] = "head"
  BY DEF RemoveLockHead, Goto
<1>3. t \in readers /\ exclusive # t /\ \A n \in Nodes : pfnLock[n] # t
  BY <1>1, <1>2 DEF RemoverHolds, Owns
<1>4. CASE Goto(t, "head", "first") /\ TryLock(t, ListHead) /\ UNCHANGED <<readers, exclusive>>
  <2>1. pc' = [pc EXCEPT ![t] = "first"] /\ readers' = readers /\ exclusive' = exclusive
    BY <1>4 DEF Goto
  <2>2. /\ pfnLock' \in [Nodes -> Threads \cup {NoThread}]
        /\ \A u \in Threads \ {t}, m \in Nodes : pfnLock'[m] = u <=> pfnLock[m] = u
        /\ \A m \in Nodes : pfnLock'[m] = t <=> m = ListHead
    BY <1>1, <1>3, <1>4, Locking
  <2>3. pc'[t] = "first" /\ FieldsOK'
    BY <1>1, <1>2, <2>1, <2>2 DEF FieldsOK, LinksUnchanged, LocalsUnchanged
  <2>4. Others(t) /\ ListLock'
    BY <1>1, <1>2, <2>1, <2>2 DEF FieldsOK, Others, LocalsUnchanged, ListLock
  <2>. QED BY <1>2, <1>3, <2>1, <2>2, <2>3, <2>4, RemoverWaits
<1>5. CASE Goto(t, "head", "retry") /\ Release(t, {})
  <2>1. pc' = [pc EXCEPT ![t] = "retry"]
    BY <1>5 DEF Goto
  <2>2. /\ pfnLock' \in [Nodes -> Threads \cup {NoThread}]
        /\ readers' \in SUBSET Threads /\ exclusive' \in Threads \cup {NoThread}
        /\ \A u \in Threads \ {t}, m \in Nodes : pfnLock'[m] = u <=> pfnLock[m] = u
        /\ \A u \in Threads \ {t} : (u \in readers' <=> u \in readers)
                                    /\ (exclusive' = u <=> exclusive = u)
    BY <1>1, <1>5, Releasing
  <2>3. pc'[t] = "retry" /\ FieldsOK' /\ Others(t)
    BY <1>1, <1>2, <2>1, <2>2 DEF FieldsOK, LinksUnchanged, LocalsUnchanged, Others
  <2>. QED BY <1>2, <1>5, <2>3, RemoveBackOff
<1>. QED BY <1>4, <1>5 DEF RemoveLockHead

\* A remover that finds the list empty goes home.
LEMMA RemoveNothingStep ==
    ASSUME NEW o, NEW S, NEW sc, NEW pv, NEW ch, NEW g, Shape(o, S, sc, pv, ch, g),
           NEW t \in Removers, RemoveNothing(t)
    PROVE  Steps(o)
<1>1. FieldsOK /\ ListLock /\ t \in Threads
  BY Kinds DEF Shape
<1>2. /\ LinksUnchanged /\ LocalsUnchanged /\ pc[t] = "first" /\ Release(t, {})
      /\ pc' = [pc EXCEPT ![t] = "idle"]
  BY DEF RemoveNothing, Goto
<1>3. /\ pfnLock' \in [Nodes -> Threads \cup {NoThread}]
      /\ readers' \in SUBSET Threads /\ exclusive' \in Threads \cup {NoThread}
      /\ \A u \in Threads \ {t}, m \in Nodes : pfnLock'[m] = u <=> pfnLock[m] = u
      /\ \A u \in Threads \ {t} : (u \in readers' <=> u \in readers)
                                  /\ (exclusive' = u <=> exclusive = u)
  BY <1>1, <1>2, Releasing
<1>4. pc'[t] = "idle" /\ FieldsOK' /\ Others(t)
  BY <1>1, <1>2, <1>3 DEF FieldsOK, LinksUnchanged, LocalsUnchanged, Others
<1>. QED BY <1>2, <1>4, RemoveBackOff

\* A remover comes again after a lock it did not get.
LEMMA RemoveRetryStep ==
    ASSUME NEW o, NEW S, NEW sc, NEW pv, NEW ch, NEW g, Shape(o, S, sc, pv, ch, g),
           NEW t \in Removers, RemoveRetry(t)
    PROVE  Steps(o)
<1>1. FieldsOK /\ RemoverHolds(t, ch[t]) /\ ListLock /\ t \in Threads
  BY Kinds DEF Shape
<1>2. /\ LinksUnchanged /\ LocalsUnchanged /\ pc[t] = "retry"
      /\ pc' = [pc EXCEPT ![t] = "again"]
      /\ pfnLock' = pfnLock /\ readers' = readers /\ exclusive' = exclusive
  BY DEF RemoveRetry, Goto, locks
<1>3. t \notin readers /\ exclusive # t /\ \A n \in Nodes : pfnLock[n] # t
  BY <1>1, <1>2 DEF RemoverHolds, Owns
<1>4. pc'[t] = "again" /\ FieldsOK' /\ Others(t) /\ ListLock'
  BY <1>1, <1>2 DEF FieldsOK, LinksUnchanged, LocalsUnchanged, Others, ListLock
<1>. QED BY <1>2, <1>3, <1>4, RemoverWaits

\* A remover that gives up while the list is empty removes nothing.
LEMMA RemoveGiveUpStep ==
    ASSUME NEW o, NEW S, NEW sc, NEW pv, NEW ch, NEW g, Shape(o, S, sc, pv, ch, g),
           NEW t \in Removers, RemoveGiveUp(t), flink[ListHead] = ListHead
    PROVE  Steps(o)
<1>1. FieldsOK /\ RemoverHolds(t, ch[t]) /\ ListLock /\ t \in Threads
  BY Kinds DEF Shape
<1>2. /\ LinksUnchanged /\ pc[t] = "retry" /\ pc' = [pc EXCEPT ![t] = "idle"]
      /\ pfnLock' = pfnLock /\ readers' = readers /\ exclusive' = exclusive
      /\ bck' = bck /\ count' = count
      /\ page' = [page EXCEPT ![t] = Nil] /\ fwd' = [fwd EXCEPT ![t] = page'[t]]
  BY DEF RemoveGiveUp, Goto, locks
<1>3. t \notin readers /\ exclusive # t /\ \A n \in Nodes : pfnLock[n] # t
  BY <1>1, <1>2 DEF RemoverHolds, Owns
<1>4. page'[t] = Nil
  BY <1>1, <1>2 DEF FieldsOK
<1>5. pc'[t] = "idle" /\ FieldsOK' /\ Others(t) /\ ListLock'
  BY <1>1, <1>2, <1>4 DEF FieldsOK, LinksUnchanged, Others, ListLock
<1>. QED BY <1>2, <1>3, <1>5, RemoverWaits

\* A remover locks the first page, or comes again.
LEMMA RemoveLockFirstStep ==
    ASSUME NEW o, NEW S, NEW sc, NEW pv, NEW ch, NEW g, Shape(o, S, sc, pv, ch, g),
           NEW t \in Removers, RemoveLockFirst(t)
    PROVE  Steps(o)
<1>1. FieldsOK /\ RemoverHolds(t, ch[t]) /\ ListLock /\ t \in Threads /\ Ring(o, S, sc, pv)
  BY Kinds DEF Shape
<1>2. LinksUnchanged /\ fwd' = fwd /\ bck' = bck /\ count' = count /\ pc[t] = "first"
      /\ flink[ListHead] # ListHead
  BY DEF RemoveLockFirst, Goto
<1>3. t \in readers /\ exclusive # t /\ \A n \in Nodes : pfnLock[n] = t <=> n = ListHead
  BY <1>1, <1>2 DEF RemoverHolds, Owns
<1>4. /\ flink[ListHead] = sc[ListHead] /\ Len(o) \in Nat
      /\ \A k \in 1..Len(o) : o[k] \in Pages /\ o[k] \in Nodes
  BY <1>1, <1>3, Heads, LockedIsLinked DEF On, Ring
<1>5. Len(o) > 0 /\ flink[ListHead] = o[1] /\ o[1] \in Pages /\ o[1] \in Nodes
  BY <1>1, <1>2, <1>4 DEF Ring
<1>6. CASE /\ Goto(t, "first", "next") /\ TryLock(t, flink[ListHead])
           /\ page' = [page EXCEPT ![t] = flink[ListHead]] /\ UNCHANGED <<readers, exclusive>>
  <2>1. /\ pc' = [pc EXCEPT ![t] = "next"] /\ readers' = readers /\ exclusive' = exclusive
        /\ page' = [page EXCEPT ![t] = o[1]]
    BY <1>5, <1>6 DEF Goto
  <2>2. /\ pfnLock' \in [Nodes -> Threads \cup {NoThread}]
        /\ \A u \in Threads \ {t}, m \in Nodes : pfnLock'[m] = u <=> pfnLock[m] = u
        /\ \A m \in Nodes : pfnLock'[m] = t <=> m = ListHead \/ m = o[1]
    BY <1>1, <1>3, <1>5, <1>6, Locking
  <2>3. pc'[t] = "next" /\ FieldsOK' /\ page'[t] = o[1]
    BY <1>1, <1>2, <1>5, <2>1, <2>2 DEF FieldsOK, LinksUnchanged
  <2>4. Others(t) /\ ListLock'
    BY <1>1, <1>2, <2>1, <2>2 DEF FieldsOK, Others, ListLock
  <2>5. RemoverHolds(t, ch[t])'
    BY <1>3, <2>1, <2>2, <2>3 DEF RemoverHolds, Owns
  <2>6. RemoverTakes(t, ch[t], o, S, sc)'
    BY <1>5, <2>3 DEF RemoverTakes
  <2>7. \A u \in Threads \ {t} : ch[u] = ch[u]
    OBVIOUS
  <2>. QED BY <1>2, <2>3, <2>4, <2>5, <2>6, <2>7, RemoverQuiet
<1>7. CASE Goto(t, "first", "retry") /\ Release(t, {}) /\ page' = page
  <2>1. pc' = [pc EXCEPT ![t] = "retry"]
    BY <1>7 DEF Goto
  <2>2. /\ pfnLock' \in [Nodes -> Threads \cup {NoThread}]
        /\ readers' \in SUBSET Threads /\ exclusive' \in Threads \cup {NoThread}
        /\ \A u \in Threads \ {t}, m \in Nodes : pfnLock'[m] = u <=> pfnLock[m] = u
        /\ \A u \in Threads \ {t} : (u \in readers' <=> u \in readers)
                                    /\ (exclusive' = u <=> exclusive = u)
    BY <1>1, <1>7, Releasing
  <2>3. pc'[t] = "retry" /\ FieldsOK' /\ Others(t)
    BY <1>1, <1>2, <1>7, <2>1, <2>2 DEF FieldsOK, LinksUnchanged, Others
  <2>. QED BY <1>2, <1>7, <2>3, RemoveBackOff
<1>. QED BY <1>6, <1>7 DEF RemoveLockFirst

\* A remover locks the page after its first one, or comes again; from then on its batch
\* is the beginning of the list.
LEMMA RemoveLockNextStep ==
    ASSUME NEW o, NEW S, NEW sc, NEW pv, NEW ch, NEW g, Shape(o, S, sc, pv, ch, g),
           NEW t \in Removers, RemoveLockNext(t)
    PROVE  Steps(o)
<1>1. FieldsOK /\ RemoverHolds(t, ch[t]) /\ ListLock /\ t \in Threads /\ Ring(o, S, sc, pv)
      /\ RemoverTakes(t, ch[t], o, S, sc)
  BY Kinds DEF Shape
<1>2. LinksUnchanged /\ bck' = bck /\ pc[t] = "next" /\ flink[page[t]] # ListHead
  BY DEF RemoveLockNext
<1>3. /\ Len(o) \in Nat /\ Len(o) > 0 /\ page[t] = o[1] /\ o \in Seq(Pages)
      /\ \A k \in 1..Len(o) : o[k] \in Pages /\ o[k] \in Nodes /\ o[k] \in S /\ o[k] \in On(S)
  BY <1>1, <1>2, Heads DEF RemoverTakes, Ring, On
<1>4. /\ t \in readers /\ exclusive # t
      /\ \A n \in Nodes : pfnLock[n] = t <=> n = ListHead \/ n = o[1]
  BY <1>1, <1>2, <1>3 DEF RemoverHolds, Owns
<1>5. flink[o[1]] = sc[o[1]] /\ o[1] \in listed
  BY <1>3, <1>4, LockedIsLinked
<1>6. Len(o) > 1 /\ flink[page[t]] = o[2] /\ o[2] \in Nodes /\ o[2] \in Pages /\ o[1] \in Pages
  <2>1. 1 \in 1..Len(o)
    BY <1>3
  <2>2. sc[o[1]] = IF 1 = Len(o) THEN ListHead ELSE o[1 + 1]
    BY <1>1, <2>1 DEF Ring
  <2>3. Len(o) # 1
    BY <1>2, <1>3, <1>5, <2>2
  <2>4. Len(o) > 1 /\ 2 \in 1..Len(o)
    BY <1>3, <2>3
  <2>5. sc[o[1]] = o[2]
    BY <2>2, <2>3
  <2>. QED BY <1>3, <1>5, <2>1, <2>4, <2>5
<1>7. CASE /\ Goto(t, "next", "extend") /\ TryLock(t, flink[page[t]])
           /\ fwd' = [fwd EXCEPT ![t] = flink[page[t]]]
           /\ count' = [count EXCEPT ![t] = 1]
           /\ UNCHANGED <<readers, exclusive, page>>
  <2>1. /\ pc' = [pc EXCEPT ![t] = "extend"] /\ readers' = readers /\ exclusive' = exclusive
        /\ page' = page /\ fwd' = [fwd EXCEPT ![t] = o[2]] /\ count' = [count EXCEPT ![t] = 1]
    BY <1>6, <1>7 DEF Goto
  <2>2. /\ pfnLock' \in [Nodes -> Threads \cup {NoThread}]
        /\ \A u \in Threads \ {t}, m \in Nodes : pfnLock'[m] = u <=> pfnLock[m] = u
        /\ \A m \in Nodes : pfnLock'[m] = t <=> m = ListHead \/ m = o[1] \/ m = o[2]
    BY <1>1, <1>4, <1>6, <1>7, Locking
  <2>3. pc'[t] = "extend" /\ FieldsOK' /\ page'[t] = o[1] /\ fwd'[t] = o[2] /\ count'[t] = 1
    BY <1>1, <1>2, <1>3, <1>6, <2>1, <2>2 DEF FieldsOK, LinksUnchanged
  <2>4. Others(t) /\ ListLock'
    BY <1>1, <1>2, <2>1, <2>2 DEF FieldsOK, Others, ListLock
  <2>5. PICK c : c = <<o[1]>>
    OBVIOUS
  <2>6. PICK ch2 : ch2 = [u \in Threads |-> IF u = t THEN c ELSE ch[u]]
    OBVIOUS
  <2>7. ch2[t] = c /\ \A u \in Threads \ {t} : ch2[u] = ch[u]
    BY <1>1, <2>6
  <2>8. c \in Seq(Pages) /\ Len(c) = 1 /\ c[1] = o[1] /\ Elems(c) = {o[1]}
    BY <1>6, <2>5 DEF Elems
  <2>9. RemoverHolds(t, c)'
    BY <1>4, <2>1, <2>2, <2>3, <2>8 DEF RemoverHolds, Owns
  <2>10. BatchIs(t, c)'
    BY <2>3, <2>8 DEF BatchIs
  <2>11. RemoverTakes(t, c, o, S, sc)'
    <3>1. Len(c) <= BatchCapacity /\ Elems(c) \subseteq listed'
      BY <1>2, <1>5, <2>8, ListAssumption DEF LinksUnchanged
    <3>2. /\ Len(c) <= Len(o) /\ \A k \in 1..Len(c) : c[k] = o[k]
          /\ o[2] = IF Len(c) = Len(o) THEN ListHead ELSE o[Len(c) + 1]
      BY <1>3, <1>6, <2>8
    <3>3. o[2] # ListHead
      BY <1>6, Heads
    <3>. QED BY <2>3, <2>10, <3>1, <3>2, <3>3 DEF RemoverTakes
  <2>. QED BY <1>2, <2>3, <2>4, <2>7, <2>9, <2>11, RemoverQuiet
<1>8. CASE /\ Goto(t, "next", "retry") /\ Release(t, {})
           /\ page' = [page EXCEPT ![t] = Nil] /\ UNCHANGED <<fwd, count>>
  <2>1. pc' = [pc EXCEPT ![t] = "retry"]
    BY <1>8 DEF Goto
  <2>2. /\ pfnLock' \in [Nodes -> Threads \cup {NoThread}]
        /\ readers' \in SUBSET Threads /\ exclusive' \in Threads \cup {NoThread}
        /\ \A u \in Threads \ {t}, m \in Nodes : pfnLock'[m] = u <=> pfnLock[m] = u
        /\ \A u \in Threads \ {t} : (u \in readers' <=> u \in readers)
                                    /\ (exclusive' = u <=> exclusive = u)
    BY <1>1, <1>8, Releasing
  <2>3. pc'[t] = "retry" /\ FieldsOK' /\ Others(t)
    BY <1>1, <1>2, <1>8, <2>1, <2>2 DEF FieldsOK, LinksUnchanged, Others
  <2>. QED BY <1>2, <1>8, <2>3, RemoveBackOff
<1>. QED BY <1>7, <1>8 DEF RemoveLockNext

\* A removal that has gathered pages, and holds the next one.
LEMMA Gathered ==
    ASSUME NEW o, NEW S, NEW sc, NEW pv, NEW ch, NEW g, Shape(o, S, sc, pv, ch, g),
           NEW t \in Removers, NEW c, c = ch[t], pc[t] \in {"extend", "detach"}
    PROVE  /\ t \in readers /\ exclusive # t
           /\ \A n \in Nodes : pfnLock[n] = t <=> n = ListHead \/ n = fwd[t] \/ n \in Elems(c)
           /\ BatchIs(t, c) /\ Len(c) <= BatchCapacity /\ Elems(c) \subseteq listed
           /\ c \in Seq(Pages) /\ Len(c) \in Nat /\ Len(c) > 0 /\ Len(o) \in Nat
           /\ o \in Seq(Pages)
           /\ \A k \in 1..Len(o) : o[k] \in Pages /\ o[k] \in Nodes /\ o[k] \in S /\ o[k] \in On(S)
           /\ \A k \in 1..Len(c) : c[k] = o[k]
           /\ Len(c) <= Len(o)
           /\ fwd[t] = IF Len(c) = Len(o) THEN ListHead ELSE o[Len(c) + 1]
           /\ pc[t] = "extend" => fwd[t] # ListHead
<1>1. RemoverHolds(t, c) /\ Ring(o, S, sc, pv) /\ RemoverTakes(t, c, o, S, sc)
  BY DEF Shape
<1>2. /\ t \in readers /\ exclusive # t
      /\ \A n \in Nodes : pfnLock[n] = t <=> n = ListHead \/ n = fwd[t] \/ n \in Elems(c)
  BY <1>1 DEF RemoverHolds, Owns
<1>3. /\ BatchIs(t, c) /\ Len(c) <= BatchCapacity /\ Elems(c) \subseteq listed
      /\ \A k \in 1..Len(c) : c[k] = o[k]
      /\ Len(c) <= Len(o)
      /\ fwd[t] = IF Len(c) = Len(o) THEN ListHead ELSE o[Len(c) + 1]
      /\ pc[t] = "extend" => fwd[t] # ListHead
  BY <1>1 DEF RemoverTakes
<1>4. c \in Seq(Pages) /\ Len(c) \in Nat /\ Len(c) > 0
  BY <1>3 DEF BatchIs
<1>5. /\ Len(o) \in Nat /\ o \in Seq(Pages)
      /\ \A k \in 1..Len(o) : o[k] \in Pages /\ o[k] \in Nodes /\ o[k] \in S /\ o[k] \in On(S)
  BY <1>1, Heads DEF Ring, On
<1>. QED BY <1>2, <1>3, <1>4, <1>5

\* A remover takes one more page into its batch.
LEMMA RemoveExtendStep ==
    ASSUME NEW o, NEW S, NEW sc, NEW pv, NEW ch, NEW g, Shape(o, S, sc, pv, ch, g),
           NEW t \in Removers, RemoveExtend(t)
    PROVE  Steps(o)
<1>1. FieldsOK /\ ListLock /\ t \in Threads /\ Ring(o, S, sc, pv)
  BY Kinds DEF Shape
<1>2. PICK c, m, L : c = ch[t] /\ m = Len(c) /\ L = flink[fwd[t]]
  OBVIOUS
<1>3. /\ LinksUnchanged /\ bck' = bck /\ page' = page /\ pc[t] = "extend" /\ count[t] < BatchCapacity
      /\ readers' = readers /\ exclusive' = exclusive
  BY DEF RemoveExtend, Goto
<1>4. /\ t \in readers /\ exclusive # t
      /\ \A n \in Nodes : pfnLock[n] = t <=> n = ListHead \/ n = fwd[t] \/ n \in Elems(c)
      /\ BatchIs(t, c) /\ m <= BatchCapacity /\ Elems(c) \subseteq listed
      /\ c \in Seq(Pages) /\ m \in Nat /\ m > 0 /\ Len(o) \in Nat /\ o \in Seq(Pages)
      /\ \A k \in 1..Len(o) : o[k] \in Pages /\ o[k] \in Nodes /\ o[k] \in S /\ o[k] \in On(S)
      /\ \A k \in 1..m : c[k] = o[k]
      /\ m <= Len(o)
      /\ fwd[t] = IF m = Len(o) THEN ListHead ELSE o[m + 1]
      /\ fwd[t] # ListHead
  BY <1>2, <1>3, Gathered
<1>5. m < Len(o) /\ m + 1 \in 1..Len(o) /\ m \in 1..Len(o) /\ fwd[t] = o[m + 1]
  BY <1>4
<1>6. PICK f : f = fwd[t]
  OBVIOUS
<1>7. /\ f = o[m + 1] /\ f \in Pages /\ f \in Nodes /\ f \in S /\ f # ListHead
      /\ flink[f] = sc[f] /\ f \in listed
      /\ flink[o[m]] = sc[o[m]]
  <2>1. f = o[m + 1] /\ f \in Pages /\ f \in Nodes /\ f \in S /\ f # ListHead /\ f \in On(S)
    BY <1>4, <1>5, <1>6
  <2>2. o[m] \in On(S) /\ pfnLock[o[m]] = t
    <3>1. m \in 1..m
      BY <1>4
    <3>2. c[m] \in Elems(c) /\ c[m] = o[m]
      BY <1>2, <1>4, <3>1 DEF Elems
    <3>. QED BY <1>4, <1>5, <3>2
  <2>3. pfnLock[f] = t
    BY <1>4, <1>6, <2>1
  <2>. QED BY <2>1, <2>2, <2>3, LockedIsLinked
<1>8. /\ L = IF m + 1 = Len(o) THEN ListHead ELSE o[(m + 1) + 1]
      /\ flink[o[m]] = f
  BY <1>1, <1>2, <1>5, <1>6, <1>7 DEF Ring
<1>9. L \in Nodes
  <2>1. m + 1 # Len(o) => (m + 1) + 1 \in 1..Len(o)
    BY <1>4, <1>5
  <2>. QED BY <1>4, <1>8, <2>1, Heads
\* The longer batch.
<1>10. PICK d : d = Append(c, f)
  OBVIOUS
<1>11. /\ d \in Seq(Pages) /\ Len(d) = m + 1 /\ \A k \in 1..m : d[k] = c[k]
       /\ d[m + 1] = f
  BY <1>2, <1>4, <1>7, <1>10
<1>12. Elems(d) = Elems(c) \cup {f}
  <2>1. 1..Len(d) = (1..m) \cup {m + 1}
    BY <1>4, <1>11
  <2>2. Elems(d) = {d[k] : k \in 1..m} \cup {f}
    BY <1>11, <2>1 DEF Elems
  <2>3. {d[k] : k \in 1..m} = {c[k] : k \in 1..m}
    BY <1>11
  <2>. QED BY <1>2, <2>2, <2>3 DEF Elems
<1>13. \A k \in 1..(m + 1) : d[k] = o[k]
  <2>1. ASSUME NEW k \in 1..(m + 1) PROVE d[k] = o[k]
    <3>1. CASE k = m + 1
      BY <3>1, <1>7, <1>11
    <3>2. CASE k # m + 1
      <4>1. k \in 1..m
        BY <3>2, <1>4
      <4>. QED BY <4>1, <1>4, <1>11
    <3>. QED BY <3>1, <3>2
  <2>. QED BY <2>1
<1>14. count[t] = m /\ c[1] = page[t] /\ \A k \in 1..(m - 1) : flink[c[k]] = c[k + 1]
  BY <1>2, <1>4 DEF BatchIs
<1>15. /\ \A k \in 1..m : flink[d[k]] = d[k + 1]
       /\ d[1] = page[t]
  <2>1. ASSUME NEW k \in 1..m PROVE flink[d[k]] = d[k + 1]
    <3>1. CASE k = m
      BY <3>1, <1>4, <1>8, <1>11
    <3>2. CASE k # m
      <4>1. k \in 1..(m - 1) /\ k + 1 \in 1..m
        BY <3>2, <1>4
      <4>. QED BY <4>1, <1>11, <1>14
    <3>. QED BY <3>1, <3>2
  <2>2. d[1] = page[t]
    <3>1. 1 \in 1..m
      BY <1>4
    <3>. QED BY <3>1, <1>11, <1>14
  <2>. QED BY <2>1, <2>2
<1>16. \A j, k \in 1..(m + 1) : d[j] = d[k] => j = k
  <2>1. \A k \in 1..(m + 1) : k \in 1..Len(o)
    BY <1>4, <1>5
  <2>. QED BY <1>1, <1>13, <2>1 DEF Ring
\* The step.
<1>17. /\ \A u \in Threads \ {t}, n \in Nodes : pfnLock'[n] = u <=> pfnLock[n] = u
       /\ pfnLock' \in [Nodes -> Threads \cup {NoThread}]
       /\ \A n \in Nodes : pfnLock'[n] = t <=> n = ListHead \/ n = L \/ n \in Elems(d)
       /\ \/ pc' = [pc EXCEPT ![t] = "detach"] /\ L = ListHead
          \/ pc' = [pc EXCEPT ![t] = "extend"] /\ L # ListHead
       /\ fwd' = [fwd EXCEPT ![t] = L] /\ count' = [count EXCEPT ![t] = @ + 1]
  <2>1. CASE /\ Goto(t, "extend", "detach") /\ L = ListHead
             /\ fwd' = [fwd EXCEPT ![t] = ListHead] /\ count' = [count EXCEPT ![t] = @ + 1]
             /\ UNCHANGED pfnLock
    BY <2>1, <1>1, <1>4, <1>6, <1>12 DEF Goto, FieldsOK
  <2>2. CASE /\ Goto(t, "extend", "extend") /\ L # ListHead /\ TryLock(t, L)
             /\ fwd' = [fwd EXCEPT ![t] = L] /\ count' = [count EXCEPT ![t] = @ + 1]
    <3>1. /\ pfnLock' \in [Nodes -> Threads \cup {NoThread}]
          /\ \A u \in Threads \ {t}, n \in Nodes : pfnLock'[n] = u <=> pfnLock[n] = u
          /\ \A n \in Nodes : pfnLock'[n] = t <=> pfnLock[n] = t \/ n = L
      BY <1>1, <1>9, <2>2, Locking
    <3>2. pc' = [pc EXCEPT ![t] = "extend"]
      BY <2>2 DEF Goto
    <3>. QED BY <2>2, <3>1, <3>2, <1>4, <1>6, <1>12
  <2>. QED BY <1>2, <2>1, <2>2 DEF RemoveExtend
<1>18. /\ pc'[t] \in {"detach", "extend"} /\ (pc'[t] = "extend" => L # ListHead)
       /\ fwd'[t] = L /\ count'[t] = m + 1 /\ page'[t] = page[t]
  BY <1>1, <1>3, <1>14, <1>17 DEF FieldsOK
<1>19. FieldsOK' /\ Others(t) /\ ListLock'
  <2>1. FieldsOK'
    BY <1>1, <1>3, <1>9, <1>17 DEF FieldsOK, LinksUnchanged
  <2>2. Others(t)
    BY <1>1, <1>3, <1>17 DEF FieldsOK, Others
  <2>. QED BY <1>1, <1>3, <2>1, <2>2 DEF ListLock
<1>20. PICK ch2 : ch2 = [u \in Threads |-> IF u = t THEN d ELSE ch[u]]
  OBVIOUS
<1>21. ch2[t] = d /\ \A u \in Threads \ {t} : ch2[u] = ch[u]
  BY <1>1, <1>20
<1>22. RemoverHolds(t, d)'
  BY <1>3, <1>4, <1>17, <1>18 DEF RemoverHolds, Owns
<1>23. BatchIs(t, d)'
  <2>1. m + 1 > 0 /\ (m + 1) - 1 = m
    BY <1>4
  <2>. QED BY <1>3, <1>11, <1>15, <1>16, <1>18, <2>1 DEF BatchIs, LinksUnchanged
<1>24. RemoverTakes(t, d, o, S, sc)'
  <2>1. Len(d) <= BatchCapacity
    BY <1>3, <1>4, <1>11, <1>14, ListAssumption
  <2>2. Elems(d) \subseteq listed'
    BY <1>3, <1>4, <1>7, <1>12 DEF LinksUnchanged
  <2>3. /\ Len(d) <= Len(o) /\ \A k \in 1..Len(d) : d[k] = o[k]
        /\ L = IF Len(d) = Len(o) THEN ListHead ELSE o[Len(d) + 1]
    BY <1>5, <1>8, <1>11, <1>13
  <2>. QED BY <1>18, <1>23, <2>1, <2>2, <2>3 DEF RemoverTakes
<1>. QED BY <1>3, <1>18, <1>19, <1>21, <1>22, <1>24, RemoverQuiet

\* A remover whose batch is full, or that failed to lock one page more, goes on with
\* what it has.
LEMMA RemoveEnoughStep ==
    ASSUME NEW o, NEW S, NEW sc, NEW pv, NEW ch, NEW g, Shape(o, S, sc, pv, ch, g),
           NEW t \in Removers, RemoveEnough(t)
    PROVE  Steps(o)
<1>1. FieldsOK /\ ListLock /\ t \in Threads /\ RemoverHolds(t, ch[t]) /\ RemoverTakes(t, ch[t], o, S, sc)
  BY Kinds DEF Shape
<1>2. /\ LinksUnchanged /\ page' = page /\ fwd' = fwd /\ bck' = bck /\ count' = count
      /\ pc[t] = "extend" /\ pc' = [pc EXCEPT ![t] = "detach"]
      /\ pfnLock' = pfnLock /\ readers' = readers /\ exclusive' = exclusive
      /\ flink' = flink /\ listed' = listed
  BY DEF RemoveEnough, Goto, locks, LocalsUnchanged, LinksUnchanged
<1>3. pc'[t] = "detach" /\ FieldsOK' /\ Others(t) /\ ListLock'
  BY <1>1, <1>2 DEF FieldsOK, LinksUnchanged, LocalsUnchanged, Others, ListLock
<1>4. RemoverHolds(t, ch[t])'
  BY <1>1, <1>2, <1>3 DEF RemoverHolds, Owns
<1>5. RemoverTakes(t, ch[t], o, S, sc)'
  BY <1>1, <1>2, <1>3 DEF RemoverTakes, BatchIs
<1>6. \A u \in Threads \ {t} : ch[u] = ch[u]
  OBVIOUS
<1>. QED BY <1>2, <1>3, <1>4, <1>5, <1>6, RemoverQuiet

-----------------------------------------------------------------------------
(* Removals that have detached their batch.                                *)

\* A remover that has taken its batch off the list disturbs nobody: its pages are its own.
LEMMA RemoverLeaves ==
    ASSUME NEW o, NEW S, NEW sc, NEW pv, NEW ch, NEW g, Shape(o, S, sc, pv, ch, g),
           NEW t \in Removers, Others(t), FieldsOK', flink' = flink,
           pc[t] \in {"detach2", "size", "consume"},
           \A n \in Nodes : blink'[n] = blink[n] \/ (pc[t] = "detach2" /\ n = fwd[t]),
           pc[t] = "detach2" => blink'[fwd[t]] = ListHead,
           listed' \subseteq listed, listed \ listed' \subseteq Elems(ch[t]),
           NEW ch2, \A u \in Threads \ {t} : ch2[u] = ch[u],
           listed' \cap Elems(ch[t]) \subseteq {p \in Elems(ch2[t]) : pc'[t] \in {"size", "consume"}},
           RemoverHolds(t, ch2[t])', RemoverTakes(t, ch2[t], o, S, sc)', ListLock', Sizes(o)'
    PROVE  Steps(o)
<1>1. /\ FieldsOK /\ Ring(o, S, sc, pv) /\ LinksAre(S, sc, pv) /\ StatusAgrees(S, ch)
      /\ t \in Threads /\ t \notin Faulters /\ t \notin Inserters
      /\ RemoverTakes(t, ch[t], o, S, sc)
  BY Kinds DEF Shape
<1>2. On(S) \subseteq Nodes /\ ListHead \in On(S) /\ S \subseteq On(S) /\ pv[sc[ListHead]] = ListHead
  BY <1>1, RingFacts DEF On
<1>3. /\ Elems(ch[t]) \cap S = {} /\ \A p \in Elems(ch[t]) : pfnLock[p] = t
      /\ pc[t] = "detach2" => /\ fwd[t] \in On(S) /\ pv[fwd[t]] = ListHead /\ pfnLock[fwd[t]] = t
                              /\ pfnLock[ListHead] = t /\ t \in readers
  <2>1. Elems(ch[t]) \cap S = {} /\ (pc[t] = "detach2" => fwd[t] = sc[ListHead])
    BY <1>1 DEF RemoverTakes
  <2>. QED BY <1>2, <2>1, RemoverFacts
<1>4. LinksAre(S, sc, pv)'
  <2>1. ASSUME NEW n \in On(S) PROVE flink'[n] = sc[n] \/ Loose(n)'
    <3>1. Loose(n) => Loose(n)'
      BY <1>1, DebtsKept
    <3>. QED BY <1>1, <3>1 DEF LinksAre
  <2>2. ASSUME NEW n \in On(S) PROVE blink'[n] = pv[n] \/ Owed(n)'
    <3>1. Owed(n) => Owed(n)' \/ (pc[t] = "detach2" /\ fwd[t] = n)
      BY <1>1, DebtsKept
    <3>2. blink[n] = pv[n] \/ Owed(n)
      BY <1>1 DEF LinksAre
    <3>. QED BY <1>2, <1>3, <3>1, <3>2
  <2>. QED BY <2>1, <2>2 DEF LinksAre
<1>5. ASSUME NEW u \in Faulters PROVE FaulterHolds(u)'
  BY <1>1, OthersHold
<1>6. ASSUME NEW u \in Faulters, pc[u] # "idle" PROVE page[u] \in listed'
  <2>1. pfnLock[page[u]] = u /\ u # t
    BY <1>1, <1>6, FaulterFacts
  <2>2. page[u] \in listed
    BY <1>6 DEF Shape, FaulterSees
  <2>. QED BY <1>3, <2>1, <2>2
<1>7. ASSUME NEW u \in Faulters PROVE FaulterSees(u, S)'
  <2>1. \A v \in Faulters \ {t} : /\ pc[v] # "idle" => page[v] \in listed'
                                  /\ Viewing(v) => page[v] \in S
                                  /\ pc[v] \in {"unlink2", "count"} => page[v] \notin S
    BY <1>6 DEF Shape, FaulterSees
  <2>. QED BY <1>1, <2>1, OthersSee
<1>8. ASSUME NEW u \in Faulters PROVE FaulterUnlinks(u, S, sc, pv)'
  <2>1. u \in Faulters \ {t} /\ u # t
    BY <1>1
  <2>2. pc[u] = "unlink2" => /\ fwd[u] \in On(S) /\ bck[u] \in On(S) /\ fwd[u] \in Nodes
                             /\ sc[bck[u]] = fwd[u] /\ pv[fwd[u]] = bck[u]
    BY FaulterFacts
  <2>3. ASSUME pc[u] = "unlink2" PROVE blink'[fwd[u]] = blink[fwd[u]]
    <3>1. SUFFICES ASSUME pc[t] = "detach2", fwd[u] = fwd[t] PROVE FALSE
      BY <2>2, <2>3
    <3>2. bck[u] = ListHead
      BY <1>3, <2>2, <2>3, <3>1
    <3>3. exclusive = NoThread
      BY <1>3, <3>1, ReadersExclude
    <3>4. exclusive # u
      BY <3>3, Kinds
    <3>5. pfnLock[fwd[u]] = u \/ pfnLock[bck[u]] = u
      BY <2>3, <3>4 DEF Shape, FaulterUnlinks
    <3>. QED BY <1>3, <2>1, <3>1, <3>2, <3>5
  <2>4. pc[u] = "unlink2" => /\ fwd[u] \in On(S) /\ bck[u] \in On(S)
                             /\ sc[bck[u]] = fwd[u] /\ pv[fwd[u]] = bck[u]
                             /\ blink'[fwd[u]] = blink[fwd[u]]
    BY <2>2, <2>3
  <2>. QED BY <1>1, <2>1, <2>4, OtherUnlinks
<1>9. ASSUME NEW u \in Removers \ {t} PROVE RemoverHolds(u, ch2[u])' /\ RemoverTakes(u, ch2[u], o, S, sc)'
  <2>1. u # t /\ ch2[u] = ch[u]
    BY Kinds
  <2>2. pc[u] \in {"extend", "detach", "detach2", "size", "consume"} =>
           \A p \in Elems(ch[u]) : flink'[p] = flink[p] /\ p \in listed'
    BY <1>3, <2>1, RemoverFacts
  <2>3. pc[u] \in {"detach2", "size", "consume"} => Elems(ch[u]) \cap S = {}
    BY DEF Shape, RemoverTakes
  <2>4. RemoverTakes(u, ch[u], o, S, sc)'
    BY <1>1, <2>2, <2>3, OtherTakes
  <2>5. RemoverHolds(u, ch2[u])'
    BY <1>1, OthersHold
  <2>. QED BY <2>1, <2>4, <2>5
<1>10. ASSUME NEW u \in Inserters PROVE InserterHolds(u, ch2[u])' /\ InserterBrings(u, ch2[u], S, pv)'
  <2>1. u \in Inserters \ {t} /\ ch2[u] = ch[u]
    BY <1>1, Kinds
  <2>2. pc[u] # "idle" => \A p \in Elems(ch[u]) : /\ flink'[p] = flink[p] /\ p \notin listed'
                                                  /\ p \in Pages /\ p \in Nodes /\ p # ListHead
    BY InserterFacts
  <2>3. /\ pc[u] \in {"share", "head", "tail", "link"} => Elems(ch[u]) \cap S = {}
        /\ pc[u] \in {"link2", "size", "unlock"} => Elems(ch[u]) \subseteq S
    BY DEF Shape, InserterBrings
  <2>4. pc[u] \in {"share", "head", "tail", "link"} => \A p \in Elems(ch[u]) : blink'[p] = blink[p]
    BY <1>3, <2>2, <2>3 DEF On
  <2>5. pc[u] \in {"share", "head", "tail", "link"} =>
           Elems(ch[u]) \cap S = {} /\ \A p \in Elems(ch[u]) : blink'[p] = blink[p]
    BY <2>3, <2>4
  <2>6. pc[u] # "idle" => \A p \in Elems(ch[u]) : flink'[p] = flink[p] /\ p \notin listed'
    BY <2>2
  <2>7. InserterBrings(u, ch[u], S, pv)'
    BY <1>1, <2>1, <2>3, <2>5, <2>6, OtherBrings
  <2>8. InserterHolds(u, ch2[u])'
    BY <1>1, <2>1, OthersHold
  <2>. QED BY <2>1, <2>7, <2>8
<1>11. \A u \in Threads \ {t} : pc'[u] = pc[u] /\ page'[u] = page[u]
  BY DEF Others
<1>12. StatusAgrees(S, ch2)'
  <2>1. ASSUME NEW p \in S, p \notin listed'
        PROVE \E i \in Inserters : pc'[i] \in {"link2", "size", "unlock"} /\ p \in Elems(ch2[i])
    <3>1. p \notin listed
      BY <1>3, <2>1
    <3>2. PICK i \in Inserters : pc[i] \in {"link2", "size", "unlock"} /\ p \in Elems(ch[i])
      BY <1>1, <3>1 DEF StatusAgrees
    <3>3. i \in Threads \ {t}
      BY <1>1, Kinds
    <3>. QED BY <1>11, <3>2, <3>3
  <2>2. ASSUME NEW p \in listed', p \notin S
        PROVE  \/ \E u \in Faulters : pc'[u] \in {"unlink2", "count"} /\ page'[u] = p
               \/ \E r \in Removers : pc'[r] \in {"detach2", "size", "consume"} /\ p \in Elems(ch2[r])
    <3>1. CASE p \in Elems(ch[t])
      BY <2>2, <3>1
    <3>2. CASE \E u \in Faulters : pc[u] \in {"unlink2", "count"} /\ page[u] = p
      BY <1>1, <1>11, <3>2, Kinds
    <3>3. CASE \E r \in Removers \ {t} : pc[r] \in {"detach2", "size", "consume"} /\ p \in Elems(ch[r])
      <4>1. PICK r \in Removers \ {t} : pc[r] \in {"detach2", "size", "consume"} /\ p \in Elems(ch[r])
        BY <3>3
      <4>2. r \in Threads \ {t}
        BY Kinds
      <4>. QED BY <1>11, <4>1, <4>2
    <3>. QED BY <1>1, <2>2, <3>1, <3>2, <3>3 DEF StatusAgrees
  <2>. QED BY <2>1, <2>2 DEF StatusAgrees
<1>13. OneGap(g, S, sc, pv)' /\ NeighboursMeet(sc)' /\ NeighboursWait' /\ ExclusiveIsAlone(sc, pv)'
  BY <1>1, ViewsKept
<1>14. ASSUME NEW u \in Removers PROVE RemoverHolds(u, ch2[u])' /\ RemoverTakes(u, ch2[u], o, S, sc)'
  BY <1>9
<1>15. Shape(o, S, sc, pv, ch2, g)'
  BY <1>1, <1>4, <1>5, <1>7, <1>8, <1>10, <1>12, <1>13, <1>14 DEF Shape, Ring
<1>. QED BY <1>15 DEF Steps

\* The second write of a remover, blink of the page that is first now.
LEMMA RemoveDetachBackStep ==
    ASSUME NEW o, NEW S, NEW sc, NEW pv, NEW ch, NEW g, Shape(o, S, sc, pv, ch, g),
           NEW t \in Removers, RemoveDetachBack(t)
    PROVE  Steps(o)
<1>1. /\ FieldsOK /\ ListLock /\ t \in Threads /\ RemoverHolds(t, ch[t]) /\ RemoverTakes(t, ch[t], o, S, sc)
      /\ t \notin Faulters /\ t \notin Inserters /\ Sizes(o) /\ Len(o) \in Nat
      /\ \A u \in Threads : u # NoThread
      /\ Ring(o, S, sc, pv)
  <2>1. Ring(o, S, sc, pv)
    BY DEF Shape
  <2>2. Len(o) \in Nat
    BY <2>1 DEF Ring
  <2>. QED BY <2>1, <2>2, Kinds DEF Shape
<1>2. /\ pc[t] = "detach2" /\ pc' = [pc EXCEPT ![t] = "size"]
      /\ blink' = [blink EXCEPT ![fwd[t]] = ListHead]
      /\ pfnLock' = [n \in Nodes |-> IF n \in {ListHead, fwd[t]} /\ pfnLock[n] = t THEN NoThread
                                   ELSE pfnLock[n]]
      /\ readers' = readers \ {t} /\ flink' = flink /\ exclusive' = exclusive
      /\ list_size' = list_size /\ listed' = listed
      /\ page' = page /\ fwd' = fwd /\ bck' = bck /\ count' = count
  BY DEF RemoveDetachBack, Goto, LocalsUnchanged
<1>3. pc'[t] = "size"
  BY <1>1, <1>2 DEF FieldsOK
<1>4. On(S) \subseteq Nodes /\ S \subseteq Pages /\ ListHead \notin Pages /\ ListHead \in Nodes
  BY <1>1, RingFacts, Heads
<1>5. /\ fwd[t] \in Nodes /\ fwd[t] \in On(S)
      /\ Elems(ch[t]) \cap S = {} /\ \A p \in Elems(ch[t]) : p \in Pages /\ pfnLock[p] = t
      /\ ListHead \notin Elems(ch[t]) /\ fwd[t] \notin Elems(ch[t])
  <2>1. Elems(ch[t]) \cap S = {}
    BY <1>1, <1>2 DEF RemoverTakes
  <2>2. fwd[t] \in On(S) /\ \A p \in Elems(ch[t]) : p \in Pages /\ pfnLock[p] = t
    BY <1>2, RemoverFacts
  <2>. QED BY <1>4, <2>1, <2>2 DEF On
<1>6. FieldsOK'
  <2>1. pfnLock' \in [Nodes -> Threads \cup {NoThread}]
    BY <1>1, <1>2 DEF FieldsOK
  <2>. QED BY <1>1, <1>2, <1>4, <2>1 DEF FieldsOK
<1>7. Others(t)
  BY <1>1, <1>2 DEF Others, FieldsOK
<1>8. ListLock'
  BY <1>1, <1>2 DEF ListLock
<1>9. RemoverHolds(t, ch[t])'
  <2>1. /\ exclusive' # t /\ t \notin readers'
        /\ \A n \in Nodes : pfnLock[n] = t <=> n \in {ListHead, fwd[t]} \cup Elems(ch[t])
    BY <1>1, <1>2 DEF RemoverHolds, Owns
  <2>2. \A n \in Nodes : pfnLock'[n] = t <=> n \in Elems(ch[t])
    BY <1>1, <1>2, <1>5, <2>1
  <2>. QED BY <1>3, <2>1, <2>2 DEF RemoverHolds, Owns
<1>10. RemoverTakes(t, ch[t], o, S, sc)'
  BY <1>1, <1>2, <1>3 DEF RemoverTakes, BatchIs
<1>11. \A n \in Nodes : blink'[n] = IF n = fwd[t] THEN ListHead ELSE blink[n]
  BY <1>1, <1>2 DEF FieldsOK
<1>12. Sizes(o)'
  <2>1. JoiningOf(t)' = 0 /\ JoiningOf(t) = 0 /\ LeavingOf(t)' = count[t] /\ LeavingOf(t) = count[t]
        /\ list_size' = list_size /\ list_size \in Int /\ count[t] \in Nat
    BY <1>1, <1>2, <1>3 DEF JoiningOf, LeavingOf, FieldsOK
  <2>2. Len(o) - Len(o) = (list_size' - list_size) + (JoiningOf(t)' - JoiningOf(t))
                              - (LeavingOf(t)' - LeavingOf(t))
    BY <1>1, <2>1
  <2>. QED BY <1>1, <1>6, <1>7, <2>2, SizesStep
<1>13. \A u \in Threads \ {t} : ch[u] = ch[u]
  OBVIOUS
<1>14. listed' \cap Elems(ch[t]) \subseteq {p \in Elems(ch[t]) : pc'[t] \in {"size", "consume"}}
  BY <1>3
<1>. QED BY <1>2, <1>5, <1>6, <1>7, <1>8, <1>9, <1>10, <1>11, <1>12, <1>13, <1>14, RemoverLeaves

\* A remover counts its batch off.
LEMMA RemoveCountStep ==
    ASSUME NEW o, NEW S, NEW sc, NEW pv, NEW ch, NEW g, Shape(o, S, sc, pv, ch, g),
           NEW t \in Removers, RemoveCount(t)
    PROVE  Steps(o)
<1>1. /\ FieldsOK /\ ListLock /\ t \in Threads /\ RemoverHolds(t, ch[t]) /\ RemoverTakes(t, ch[t], o, S, sc)
      /\ t \notin Faulters /\ t \notin Inserters /\ Sizes(o) /\ Len(o) \in Nat
  <2>1. Ring(o, S, sc, pv)
    BY DEF Shape
  <2>2. Len(o) \in Nat
    BY <2>1 DEF Ring
  <2>. QED BY <2>2, Kinds DEF Shape
<1>2. /\ pc[t] = "size" /\ pc' = [pc EXCEPT ![t] = "consume"]
      /\ blink' = blink /\ flink' = flink /\ pfnLock' = pfnLock /\ readers' = readers
      /\ exclusive' = exclusive /\ list_size' = list_size - count[t] /\ listed' = listed
      /\ page' = page /\ fwd' = fwd /\ bck' = bck /\ count' = count
  BY DEF RemoveCount, Goto, LocalsUnchanged, locks
<1>3. pc'[t] = "consume" /\ count[t] \in Nat
  BY <1>1, <1>2 DEF FieldsOK
<1>4. FieldsOK' /\ Others(t) /\ ListLock'
  BY <1>1, <1>2, <1>3 DEF FieldsOK, Others, ListLock
<1>5. RemoverHolds(t, ch[t])'
  BY <1>1, <1>2, <1>3 DEF RemoverHolds, Owns
<1>6. RemoverTakes(t, ch[t], o, S, sc)'
  BY <1>1, <1>2, <1>3 DEF RemoverTakes, BatchIs
<1>7. Sizes(o)'
  <2>1. JoiningOf(t)' = 0 /\ JoiningOf(t) = 0 /\ LeavingOf(t)' = 0 /\ LeavingOf(t) = count[t]
        /\ list_size' = list_size - count[t] /\ list_size \in Int
    BY <1>1, <1>2, <1>3 DEF JoiningOf, LeavingOf, FieldsOK
  <2>2. Len(o) - Len(o) = (list_size' - list_size) + (JoiningOf(t)' - JoiningOf(t))
                              - (LeavingOf(t)' - LeavingOf(t))
    BY <1>1, <1>3, <2>1
  <2>. QED BY <1>1, <1>4, <2>2, SizesStep
<1>8. \A u \in Threads \ {t} : ch[u] = ch[u]
  OBVIOUS
<1>9. listed' \cap Elems(ch[t]) \subseteq {p \in Elems(ch[t]) : pc'[t] \in {"size", "consume"}}
  BY <1>3
<1>. QED BY <1>2, <1>4, <1>5, <1>6, <1>7, <1>8, <1>9, RemoverLeaves

\* The list (q, S2, sc2, pv2) without the m pages at its head; R is the node behind them.
WithoutFirst(o, S, sc, pv, m, R, q, S2, sc2, pv2) ==
    /\ Ring(q, S2, sc2, pv2) /\ Queue!BatchTaken(o, q)
    /\ Len(q) = Len(o) - m
    /\ \A x \in Nodes : sc2[x] = IF x = ListHead THEN R ELSE sc[x]
    /\ \A x \in Nodes : pv2[x] = IF x = R THEN ListHead ELSE pv[x]

\* A list without its first m pages is a list.
LEMMA FirstTaken ==
    ASSUME NEW o, NEW S, NEW sc, NEW pv, Ring(o, S, sc, pv), NEW m \in 1..Len(o),
           NEW R, R = IF m = Len(o) THEN ListHead ELSE o[m + 1],
           NEW S2, S2 = S \ {o[i] : i \in 1..m}
    PROVE  \E q, sc2, pv2 : WithoutFirst(o, S, sc, pv, m, R, q, S2, sc2, pv2)
<1>. DEFINE q == [i \in 1..(Len(o) - m) |-> o[i + m]]
            sc2 == [sc EXCEPT ![ListHead] = R]
            pv2 == [pv EXCEPT ![R] = ListHead]
<1>1. Ring(q, S \ {o[i] : i \in 1..m}, sc2, pv2)
  BY RingDetach
<1>2. o \in Seq(Pages) /\ Len(o) \in Nat /\ sc \in [Nodes -> Nodes] /\ pv \in [Nodes -> Nodes]
  BY DEF Ring
<1>3. Len(q) = Len(o) - m
  BY <1>2
<1>4. /\ \A x \in Nodes : sc2[x] = IF x = ListHead THEN R ELSE sc[x]
      /\ \A x \in Nodes : pv2[x] = IF x = R THEN ListHead ELSE pv[x]
  BY <1>2
<1>5. q = SubSeq(o, m + 1, Len(o))
  <2>. DEFINE r == SubSeq(o, m + 1, Len(o))
  <2>1. r \in Seq(Pages) /\ Len(r) = Len(o) - m /\ \A i \in 1..(Len(o) - m) : r[i] = o[i + m]
    BY <1>2
  <2>2. q \in Seq(Pages) /\ \A i \in 1..(Len(o) - m) : q[i] = o[i + m]
    BY <1>1 DEF Ring
  <2>3. r = [i \in 1..Len(r) |-> r[i]] /\ q = [i \in 1..Len(q) |-> q[i]]
    <3>. HIDE DEF r, q
    <3>. QED BY <2>1, <2>2
  <2>. HIDE DEF r, q
  <2>4. \A i \in 1..(Len(o) - m) : r[i] = q[i]
    BY <2>1, <2>2
  <2>5. q = r
    BY <1>3, <2>1, <2>3, <2>4
  <2>. QED BY <2>5 DEF r
<1>6. Queue!BatchTaken(o, q)
  BY <1>5 DEF Queue!BatchTaken
<1>7. WithoutFirst(o, S, sc, pv, m, R, q, S2, sc2, pv2)
  BY <1>1, <1>3, <1>4, <1>6, Zenon DEF WithoutFirst
<1>. QED BY <1>7, Zenon

\* A removal of the pages c from the head: it has locked them and both neighbours, the
\* head and R, and leads the flink of the head to R.
Detaches(t, c, o, R) ==
    /\ c \in Seq(Pages) /\ Len(c) \in 1..Len(o) /\ \A k \in 1..Len(c) : c[k] = o[k]
    /\ Len(c) <= BatchCapacity /\ Elems(c) \subseteq listed
    /\ R = IF Len(c) = Len(o) THEN ListHead ELSE o[Len(c) + 1]
    /\ t \in readers /\ pfnLock[ListHead] = t /\ pfnLock[R] = t
    /\ \A p \in Elems(c) : pfnLock[p] = t
    /\ pc[t] \in {"next", "detach"} /\ pc'[t] \in {"detach2", "size"}
    /\ pc'[t] = "detach2" => fwd'[t] = R
    /\ pc'[t] = "size" => blink'[R] = ListHead
    /\ \A n \in Nodes : flink'[n] = IF n = ListHead THEN R ELSE flink[n]
    /\ \A n \in Nodes : n # R => blink'[n] = blink[n]
    /\ listed' = listed /\ list_size' = list_size
    /\ RemoverHolds(t, c)' /\ BatchIs(t, c)' /\ ListLock' /\ exclusive' = NoThread

\* The write that takes a batch off the list, flink of the head, is a step of the queue.
LEMMA Detached ==
    ASSUME NEW o, NEW S, NEW sc, NEW pv, NEW ch, NEW g, Shape(o, S, sc, pv, ch, g),
           NEW t \in Removers, Others(t), FieldsOK', NEW c, NEW R, Detaches(t, c, o, R),
           NEW ch2, ch2[t] = c, \A u \in Threads \ {t} : ch2[u] = ch[u]
    PROVE  Steps(o)
<1>0. /\ c \in Seq(Pages) /\ Len(c) \in 1..Len(o) /\ \A k \in 1..Len(c) : c[k] = o[k]
      /\ Len(c) <= BatchCapacity /\ Elems(c) \subseteq listed
      /\ R = IF Len(c) = Len(o) THEN ListHead ELSE o[Len(c) + 1]
      /\ t \in readers /\ pfnLock[ListHead] = t /\ pfnLock[R] = t
      /\ \A p \in Elems(c) : pfnLock[p] = t
      /\ pc[t] \in {"next", "detach"} /\ pc'[t] \in {"detach2", "size"}
      /\ pc'[t] = "detach2" => fwd'[t] = R
      /\ pc'[t] = "size" => blink'[R] = ListHead
      /\ \A n \in Nodes : flink'[n] = IF n = ListHead THEN R ELSE flink[n]
      /\ \A n \in Nodes : n # R => blink'[n] = blink[n]
      /\ listed' = listed /\ list_size' = list_size
      /\ RemoverHolds(t, c)' /\ BatchIs(t, c)' /\ ListLock' /\ exclusive' = NoThread
  BY DEF Detaches
<1>1. /\ FieldsOK /\ Ring(o, S, sc, pv) /\ LinksAre(S, sc, pv) /\ StatusAgrees(S, ch) /\ Sizes(o)
      /\ t \in Threads /\ t \notin Faulters /\ t \notin Inserters /\ exclusive = NoThread
      /\ OneGap(g, S, sc, pv) /\ ListHead \in Nodes /\ ListHead \notin Pages
  BY <1>0, Kinds, Heads, ReadersExclude DEF Shape
<1>2. PICK m : m = Len(c)
  OBVIOUS
<1>3. /\ o \in Seq(Pages) /\ Len(o) \in Nat /\ m \in Nat /\ m \in 1..Len(o) /\ m > 0
      /\ \A k \in 1..Len(o) : o[k] \in Pages /\ o[k] \in S
  BY <1>0, <1>1, <1>2 DEF Ring
<1>4. Elems(c) = {o[i] : i \in 1..m}
  BY <1>0, <1>2 DEF Elems
<1>5. PICK S2 : S2 = S \ Elems(c)
  OBVIOUS
<1>6. PICK q, sc2, pv2 : WithoutFirst(o, S, sc, pv, m, R, q, S2, sc2, pv2)
  <2>1. Ring(o, S, sc, pv) /\ m \in 1..Len(o) /\ R = IF m = Len(o) THEN ListHead ELSE o[m + 1]
    BY <1>0, <1>1, <1>2, <1>3
  <2>2. S2 = S \ {o[i] : i \in 1..m}
    BY <1>0, <1>4, <1>5
  <2>. QED BY <2>1, <2>2, FirstTaken, Zenon
<1>7. /\ Ring(q, S2, sc2, pv2) /\ Queue!BatchTaken(o, q)
      /\ Len(q) = Len(o) - m
      /\ \A x \in Nodes : sc2[x] = IF x = ListHead THEN R ELSE sc[x]
      /\ \A x \in Nodes : pv2[x] = IF x = R THEN ListHead ELSE pv[x]
  BY <1>0, <1>6, Zenon DEF WithoutFirst
<1>8. /\ \A n \in On(S) : sc[pv[n]] = n /\ pv[sc[n]] = n /\ sc[n] \in On(S) /\ pv[n] \in On(S)
      /\ ListHead \in On(S) /\ S \subseteq Pages /\ On(S) \subseteq Nodes /\ ListHead \notin S
  BY <1>0, <1>1, RingFacts, Heads DEF On
<1>9. R \in On(S) /\ R \in Nodes /\ Elems(c) \subseteq S /\ R \notin Elems(c)
  <2>1. R \in On(S)
    <3>1. m # Len(o) => m + 1 \in 1..Len(o)
      BY <1>0, <1>3
    <3>. QED BY <1>0, <1>2, <1>3, <1>8, <3>1 DEF On
  <2>2. Elems(c) \subseteq S
    BY <1>0, <1>3, <1>4
  <2>3. R \notin Elems(c)
    <3>1. CASE R = ListHead
      BY <1>0, <3>1, <2>2, <1>8
    <3>2. CASE R # ListHead
      <4>1. m + 1 \in 1..Len(o) /\ R = o[m + 1]
        BY <1>0, <3>2, <1>2, <1>3
      <4>2. \A i \in 1..m : i \in 1..Len(o) /\ i # m + 1
        BY <1>0, <1>3
      <4>3. \A i \in 1..m : o[i] # R
        BY <1>0, <1>1, <4>1, <4>2 DEF Ring
      <4>. QED BY <1>0, <4>3, <1>4
    <3>. QED BY <1>0, <3>1, <3>2
  <2>. QED BY <1>0, <2>1, <2>2, <2>3, <1>8
\* What the removal has locked is the head, its pages and the node behind them.
<1>10. \A x \in On(S) : x \in Elems(c) \/ x = ListHead => sc[x] \in Elems(c) \/ sc[x] = R
  <2>1. sc[ListHead] \in Elems(c)
    <3>1. sc[ListHead] = o[1] /\ 1 \in 1..m
      BY <1>0, <1>1, <1>3 DEF Ring
    <3>. QED BY <1>0, <3>1, <1>4
  <2>2. ASSUME NEW i \in 1..m PROVE sc[o[i]] \in Elems(c) \/ sc[o[i]] = R
    <3>1. i \in 1..Len(o) /\ (i # m => i + 1 \in 1..m /\ i # Len(o))
      BY <1>0, <1>3
    <3>2. sc[o[i]] = IF i = Len(o) THEN ListHead ELSE o[i + 1]
      BY <1>0, <1>1, <3>1 DEF Ring
    <3>3. CASE i = m
      BY <1>0, <3>2, <3>3, <1>2
    <3>4. CASE i # m
      <4>1. sc[o[i]] = o[i + 1] /\ i + 1 \in 1..m
        BY <1>0, <3>1, <3>2, <3>4
      <4>. QED BY <1>0, <4>1, <1>4
    <3>. QED BY <1>0, <3>3, <3>4
  <2>. QED BY <1>0, <2>1, <2>2, <1>4
<1>11. \A x \in On(S) : sc[x] \in Elems(c) \/ sc[x] = R => x \in Elems(c) \/ x = ListHead
  <2>1. pv[R] \in Elems(c)
    <3>1. m \in 1..Len(o) /\ m \in 1..m
      BY <1>0, <1>3
    <3>2. sc[o[m]] = R
      BY <1>0, <1>1, <1>2, <3>1 DEF Ring
    <3>3. o[m] \in On(S) /\ o[m] \in Elems(c)
      BY <1>0, <3>1, <1>3, <1>4 DEF On
    <3>. QED BY <1>0, <3>2, <3>3, <1>8
  <2>2. ASSUME NEW i \in 1..m PROVE pv[o[i]] \in Elems(c) \/ pv[o[i]] = ListHead
    <3>1. i \in 1..Len(o) /\ (i # 1 => i - 1 \in 1..m)
      BY <1>0, <1>3
    <3>2. pv[o[i]] = IF i = 1 THEN ListHead ELSE o[i - 1]
      BY <1>0, <1>1, <3>1 DEF Ring
    <3>. QED BY <1>0, <3>1, <3>2, <1>4
  <2>. QED BY <1>0, <2>1, <2>2, <1>4, <1>8, SMTT(30)
<1>12. \A u \in Threads \ {t} : /\ pc'[u] = pc[u] /\ page'[u] = page[u]
                                /\ fwd'[u] = fwd[u] /\ bck'[u] = bck[u]
  BY <1>0 DEF Others
\* The others.
<1>13. \A u \in Removers \ {t} : pc[u] \notin {"first", "next", "extend", "detach", "detach2"}
  BY <1>0, RemoverFacts
<1>14. \A u \in Inserters : pc[u] \notin {"tail", "link", "link2"}
  BY <1>0, <1>1, InserterFacts
<1>15. ASSUME NEW u \in Faulters, pc[u] = "unlink2"
       PROVE  /\ fwd[u] \in On(S2) /\ bck[u] \in On(S2) /\ fwd[u] # R /\ bck[u] # ListHead
              /\ bck[u] \notin Elems(c)
              /\ sc2[bck[u]] = fwd[u] /\ pv2[fwd[u]] = bck[u]
              /\ blink'[fwd[u]] = blink[fwd[u]]
  <2>1. /\ fwd[u] \in Nodes /\ bck[u] \in Nodes /\ fwd[u] \in On(S) /\ bck[u] \in On(S)
        /\ sc[bck[u]] = fwd[u] /\ pv[fwd[u]] = bck[u] /\ u # t
    BY <1>0, <1>1, <1>15, FaulterFacts
  <2>2. pfnLock[fwd[u]] = u \/ pfnLock[bck[u]] = u
    <3>1. exclusive # u
      BY <1>0, <1>1, Kinds
    <3>. QED BY <1>0, <1>15, <3>1 DEF Shape, FaulterUnlinks
  <2>3. ~(bck[u] \in Elems(c) \/ bck[u] = ListHead)
    BY <1>0, <2>1, <2>2, <1>10
  <2>4. ~(fwd[u] \in Elems(c) \/ fwd[u] = R)
    BY <1>0, <2>1, <2>3, <1>11
  <2>. QED BY <1>0, <2>1, <2>3, <2>4, <1>5, <1>7 DEF On
<1>16. ASSUME NEW u \in Faulters, Viewing(u)
       PROVE  /\ u # t /\ page[u] \in S2 /\ page[u] \in S /\ page[u] \in Nodes /\ page[u] # ListHead
              /\ page[u] # R /\ page[u] \notin Elems(c) /\ pv[page[u]] \notin Elems(c)
              /\ sc2[page[u]] = sc[page[u]] /\ pv2[page[u]] = pv[page[u]]
  <2>1. page[u] \in S /\ pfnLock[page[u]] = u /\ u # t
    <3>1. pc[u] # "idle"
      BY <1>0, <1>16 DEF Viewing
    <3>. QED BY <1>0, <1>1, <1>16, <3>1, FaulterFacts
  <2>2. page[u] \notin Elems(c) /\ page[u] # R /\ page[u] # ListHead /\ page[u] \in Nodes /\ page[u] \in On(S)
    BY <1>0, <2>1, <1>8 DEF On
  <2>3. pv[page[u]] \notin Elems(c)
    BY <1>0, <2>2, <1>8, <1>10
  <2>. QED BY <1>0, <2>1, <2>2, <2>3, <1>5, <1>7
<1>20. LinksAre(S2, sc2, pv2)'
  <2>0. \A n \in On(S2) : n \in On(S) /\ n \in Nodes
    BY <1>0, <1>5, <1>8 DEF On
  <2>1. ASSUME NEW n \in On(S2) PROVE flink'[n] = sc2[n] \/ Loose(n)'
    <3>1. Loose(n) => Loose(n)'
      BY <1>1, DebtsKept
    <3>. QED BY <1>0, <1>1, <1>7, <2>0, <3>1 DEF LinksAre
  <2>2. ASSUME NEW n \in On(S2) PROVE blink'[n] = pv2[n] \/ Owed(n)'
    <3>1. Owed(n) => Owed(n)'
      BY <1>0, <1>1, DebtsKept
    <3>2. pc'[t] = "detach2" => Owed(R)'
      BY <1>0 DEF Owed
    <3>3. n = R => blink'[n] = pv2[n] \/ Owed(n)'
      BY <1>0, <1>7, <1>9, <3>2
    <3>. QED BY <1>0, <1>1, <1>7, <2>0, <3>1, <3>3 DEF LinksAre
  <2>. QED BY <1>0, <2>1, <2>2 DEF LinksAre
<1>21. ASSUME NEW u \in Faulters PROVE FaulterHolds(u)'
  BY <1>1, OthersHold
<1>22. ASSUME NEW u \in Faulters PROVE FaulterSees(u, S2)'
  <2>1. \A v \in Faulters : FaulterSees(v, S)
    BY <1>0 DEF Shape
  <2>2. \A v \in Faulters \ {t} : /\ pc[v] # "idle" => page[v] \in listed'
                                  /\ Viewing(v) => page[v] \in S2
                                  /\ pc[v] \in {"unlink2", "count"} => page[v] \notin S2
    BY <1>0, <1>5, <1>16, <2>1 DEF FaulterSees
  <2>. QED BY <1>1, <2>2, OthersSee
<1>23. ASSUME NEW u \in Faulters PROVE FaulterUnlinks(u, S2, sc2, pv2)'
  <2>1. u \in Faulters \ {t}
    BY <1>0, <1>1
  <2>2. pc[u] = "unlink2" => /\ fwd[u] \in On(S2) /\ bck[u] \in On(S2)
                             /\ sc2[bck[u]] = fwd[u] /\ pv2[fwd[u]] = bck[u]
                             /\ blink'[fwd[u]] = blink[fwd[u]]
    BY <1>0, <1>15
  <2>. QED BY <1>1, <2>1, <2>2, OtherUnlinks
<1>24. ASSUME NEW u \in Removers \ {t} PROVE RemoverHolds(u, ch2[u])' /\ RemoverTakes(u, ch2[u], q, S2, sc2)'
  <2>1. u # t /\ ch2[u] = ch[u]
    BY <1>0, Kinds
  <2>2. pc[u] \in {"extend", "detach", "detach2", "size", "consume"} =>
           \A p \in Elems(ch[u]) : flink'[p] = flink[p] /\ p \in listed'
    BY <1>0, RemoverFacts
  <2>3. pc[u] \in {"detach2", "size", "consume"} => Elems(ch[u]) \cap S2 = {}
    BY <1>0, <1>5 DEF Shape, RemoverTakes
  <2>4. pc[u] \in {"next", "extend", "detach", "detach2"} => q = o /\ sc2 = sc
    BY <1>0, <1>13
  <2>5. RemoverTakes(u, ch[u], q, S2, sc2)'
    BY <1>1, <2>2, <2>3, <2>4, OtherTakes
  <2>6. RemoverHolds(u, ch2[u])'
    BY <1>1, OthersHold
  <2>. QED BY <1>0, <2>1, <2>5, <2>6
<1>25. RemoverTakes(t, c, q, S2, sc2)'
  <2>1. Elems(c) \cap S2 = {} /\ sc2[ListHead] = R
    BY <1>0, <1>1, <1>5, <1>7
  <2>. QED BY <1>0, <2>1 DEF RemoverTakes
<1>26. ASSUME NEW u \in Removers PROVE RemoverHolds(u, ch2[u])' /\ RemoverTakes(u, ch2[u], q, S2, sc2)'
  BY <1>0, <1>24, <1>25
<1>27. ASSUME NEW u \in Inserters PROVE InserterHolds(u, ch2[u])' /\ InserterBrings(u, ch2[u], S2, pv2)'
  <2>1. u \in Inserters \ {t} /\ ch2[u] = ch[u] /\ u # t
    BY <1>0, <1>1, Kinds
  <2>2. pc[u] # "idle" => \A p \in Elems(ch[u]) : /\ flink'[p] = flink[p] /\ p \notin listed'
                                                  /\ p \in Pages /\ p \in Nodes /\ p # ListHead
                                                  /\ pfnLock[p] = u
    BY <1>0, InserterFacts
  <2>3. /\ pc[u] \in {"share", "head", "tail", "link"} => Elems(ch[u]) \cap S = {}
        /\ pc[u] \in {"link2", "size", "unlock"} => Elems(ch[u]) \subseteq S
    BY <1>0 DEF Shape, InserterBrings
  <2>4. pc[u] \in {"share", "head", "tail", "link"} => \A p \in Elems(ch[u]) : blink'[p] = blink[p]
    BY <1>0, <1>9, <2>2, <2>3 DEF On
  <2>5. pc[u] \in {"share", "head", "tail", "link"} =>
           Elems(ch[u]) \cap S2 = {} /\ \A p \in Elems(ch[u]) : blink'[p] = blink[p]
    BY <1>0, <1>5, <2>3, <2>4
  <2>6. pc[u] # "idle" => \A p \in Elems(ch[u]) : flink'[p] = flink[p] /\ p \notin listed'
    BY <1>0, <2>2
  <2>7. pc[u] \in {"link2", "size", "unlock"} => Elems(ch[u]) \subseteq S2
    BY <1>0, <1>5, <2>1, <2>2, <2>3
  <2>8. pc[u] \in {"link", "link2"} => pv2[ListHead] = pv[ListHead]
    BY <1>0, <1>14
  <2>9. InserterBrings(u, ch[u], S2, pv2)'
    BY <1>1, <2>1, <2>5, <2>6, <2>7, <2>8, OtherBrings
  <2>10. InserterHolds(u, ch2[u])'
    BY <1>1, <2>1, OthersHold
  <2>. QED BY <1>0, <2>1, <2>9, <2>10
<1>28. StatusAgrees(S2, ch2)'
  <2>1. ASSUME NEW p \in S2, p \notin listed'
        PROVE \E i \in Inserters : pc'[i] \in {"link2", "size", "unlock"} /\ p \in Elems(ch2[i])
    <3>1. p \notin listed /\ p \in S
      BY <1>0, <1>5, <2>1
    <3>2. PICK i \in Inserters : pc[i] \in {"link2", "size", "unlock"} /\ p \in Elems(ch[i])
      BY <1>0, <1>1, <3>1 DEF StatusAgrees
    <3>3. i \in Threads \ {t}
      BY <1>0, <1>1, Kinds
    <3>. QED BY <1>0, <1>12, <3>2, <3>3
  <2>2. ASSUME NEW p \in listed', p \notin S2
        PROVE  \/ \E u \in Faulters : pc'[u] \in {"unlink2", "count"} /\ page'[u] = p
               \/ \E r \in Removers : pc'[r] \in {"detach2", "size", "consume"} /\ p \in Elems(ch2[r])
    <3>1. CASE p \in Elems(c)
      BY <1>0, <2>2, <3>1
    <3>2. CASE p \notin Elems(c)
      <4>1. p \in listed /\ p \notin S
        BY <1>0, <1>5, <2>2, <3>2
      <4>2. CASE \E u \in Faulters : pc[u] \in {"unlink2", "count"} /\ page[u] = p
        BY <1>0, <1>1, <1>12, <4>2, Kinds
      <4>3. CASE \E r \in Removers : pc[r] \in {"detach2", "size", "consume"} /\ p \in Elems(ch[r])
        <5>1. PICK r \in Removers : pc[r] \in {"detach2", "size", "consume"} /\ p \in Elems(ch[r])
          BY <1>0, <4>3
        <5>2. r \in Threads \ {t}
          BY <1>0, <5>1, Kinds
        <5>. QED BY <1>0, <1>12, <5>1, <5>2
      <4>. QED BY <1>0, <1>1, <4>1, <4>2, <4>3 DEF StatusAgrees
    <3>. QED BY <1>0, <3>1, <3>2
  <2>. QED BY <1>0, <2>1, <2>2 DEF StatusAgrees
\* Views.
<1>29. OneGap(g, S, sc, pv)' /\ NeighboursMeet(sc)' /\ NeighboursWait'
  BY <1>1, ViewsKept
<1>30. \A u \in Faulters : /\ Viewing(u)' => Viewing(u) /\ page'[u] = page[u]
                           /\ pc'[u] = "unlink2" => pc[u] = "unlink2" /\ bck'[u] = bck[u]
  BY <1>0, <1>1, <1>12, Kinds DEF Viewing
<1>31. PICK g2 : g2 = IF g \in Elems(c) THEN ListHead ELSE g
  OBVIOUS
<1>32. OneGap(g2, S2, sc2, pv2)'
  <2>1. g2 \in On(S2)
    BY <1>0, <1>1, <1>5, <1>31 DEF OneGap, On
  <2>2. \A u \in Faulters : Viewing(u)' =>
           /\ fwd'[u] # sc2[page'[u]] => page'[u] = g2
           /\ bck'[u] # pv2[page'[u]] => pv2[page'[u]] = g2
    BY <1>0, <1>16, <1>29, <1>30, <1>31 DEF OneGap
  <2>3. \A u \in Faulters : pc'[u] = "unlink2" => pfnLock'[fwd'[u]] = u \/ bck'[u] = g2
    BY <1>0, <1>15, <1>29, <1>30, <1>31 DEF OneGap
  <2>. QED BY <1>0, <2>1, <2>2, <2>3 DEF OneGap
<1>33. NeighboursMeet(sc2)'
  BY <1>0, <1>16, <1>29, <1>30 DEF NeighboursMeet
<1>34. ExclusiveIsAlone(sc2, pv2)'
  BY <1>0, Kinds DEF ExclusiveIsAlone
<1>35. Sizes(q)'
  <2>1. count'[t] = m
    BY <1>0, <1>2 DEF BatchIs
  <2>2. JoiningOf(t)' = 0 /\ JoiningOf(t) = 0 /\ LeavingOf(t)' = m /\ LeavingOf(t) = 0
        /\ list_size \in Int
    BY <1>0, <1>1, <2>1 DEF JoiningOf, LeavingOf, FieldsOK
  <2>3. Len(q) \in Nat
    BY <1>0, <1>7 DEF Ring
  <2>4. Len(q) - Len(o) = (list_size' - list_size) + (JoiningOf(t)' - JoiningOf(t))
                              - (LeavingOf(t)' - LeavingOf(t))
    BY <1>0, <1>3, <1>7, <2>2, <2>3
  <2>. QED BY <1>1, <1>3, <2>3, <2>4, SizesStep
<1>36. Shape(q, S2, sc2, pv2, ch2, g2)'
  BY <1>0, <1>7, <1>20, <1>21, <1>22, <1>23, <1>26, <1>27, <1>28, <1>32, <1>33, <1>34, <1>29, <1>35
     DEF Shape, Ring
<1>. QED BY <1>7, <1>36 DEF Steps

\* The first write of a remover takes its whole batch off the list at once.
LEMMA RemoveDetachForwardStep ==
    ASSUME NEW o, NEW S, NEW sc, NEW pv, NEW ch, NEW g, Shape(o, S, sc, pv, ch, g),
           NEW t \in Removers, RemoveDetachForward(t)
    PROVE  Steps(o)
<1>1. FieldsOK /\ ListLock /\ t \in Threads /\ RemoverHolds(t, ch[t]) /\ RemoverTakes(t, ch[t], o, S, sc)
      /\ ListHead \in Nodes
  BY Kinds, Heads DEF Shape
<1>2. /\ pc[t] = "detach" /\ pc' = [pc EXCEPT ![t] = "detach2"]
      /\ flink' = [flink EXCEPT ![ListHead] = fwd[t]]
      /\ blink' = blink /\ pfnLock' = pfnLock /\ readers' = readers /\ exclusive' = exclusive
      /\ list_size' = list_size /\ listed' = listed
      /\ page' = page /\ fwd' = fwd /\ bck' = bck /\ count' = count
  BY DEF RemoveDetachForward, Goto, LocalsUnchanged, locks
<1>3. PICK c, R : c = ch[t] /\ R = fwd[t]
  OBVIOUS
<1>4. /\ t \in readers
      /\ \A n \in Nodes : pfnLock[n] = t <=> n = ListHead \/ n = R \/ n \in Elems(c)
      /\ BatchIs(t, c) /\ Len(c) <= BatchCapacity /\ Elems(c) \subseteq listed
      /\ c \in Seq(Pages) /\ Len(c) \in Nat /\ Len(c) > 0 /\ Len(o) \in Nat
      /\ \A k \in 1..Len(c) : c[k] = o[k]
      /\ Len(c) <= Len(o)
      /\ R = IF Len(c) = Len(o) THEN ListHead ELSE o[Len(c) + 1]
  BY <1>2, <1>3, Gathered
<1>5. /\ \A p \in Elems(c) : p \in Nodes /\ pfnLock[p] = t /\ p # ListHead
      /\ R \in Nodes /\ pfnLock[R] = t /\ pfnLock[ListHead] = t
  <2>1. On(S) \subseteq Nodes
    BY RingFacts DEF Shape
  <2>. QED BY <1>2, <1>3, <2>1, RemoverFacts
<1>6. pc'[t] = "detach2" /\ fwd'[t] = R /\ FieldsOK'
  BY <1>1, <1>2, <1>3, <1>5 DEF FieldsOK
<1>7. Others(t) /\ ListLock' /\ exclusive' = NoThread
  <2>1. exclusive = NoThread
    BY <1>4, ReadersExclude
  <2>. QED BY <1>1, <1>2, <2>1 DEF FieldsOK, Others, ListLock
<1>8. RemoverHolds(t, c)'
  BY <1>1, <1>2, <1>3, <1>6 DEF RemoverHolds, Owns
<1>9. \A n \in Nodes : flink'[n] = IF n = ListHead THEN R ELSE flink[n]
  BY <1>1, <1>2, <1>3 DEF FieldsOK
<1>10. BatchIs(t, c)'
  <2>1. \A k \in 1..(Len(c) - 1) : flink'[c[k]] = flink[c[k]]
    <3>1. \A k \in 1..(Len(c) - 1) : c[k] \in Elems(c)
      BY <1>4 DEF Elems
    <3>. QED BY <1>5, <1>9, <3>1
  <2>. QED BY <1>2, <1>4, <2>1 DEF BatchIs
<1>11. Len(c) \in 1..Len(o)
  BY <1>4
<1>12. Detaches(t, c, o, R)
  BY <1>2, <1>4, <1>5, <1>6, <1>7, <1>8, <1>9, <1>10, <1>11 DEF Detaches
<1>13. ch[t] = c /\ \A u \in Threads \ {t} : ch[u] = ch[u]
  BY <1>3
<1>. QED BY <1>6, <1>7, <1>12, <1>13, Detached

\* A remover takes the only page of the list.
LEMMA RemoveOnlyStep ==
    ASSUME NEW o, NEW S, NEW sc, NEW pv, NEW ch, NEW g, Shape(o, S, sc, pv, ch, g),
           NEW t \in Removers, RemoveOnly(t)
    PROVE  Steps(o)
<1>1. FieldsOK /\ ListLock /\ t \in Threads /\ RemoverHolds(t, ch[t]) /\ RemoverTakes(t, ch[t], o, S, sc)
      /\ ListHead \in Nodes /\ Ring(o, S, sc, pv) /\ ListHead \notin Pages /\ Pages \subseteq Nodes
  BY Kinds, Heads DEF Shape
<1>2. /\ pc[t] = "next" /\ pc' = [pc EXCEPT ![t] = "size"] /\ flink[page[t]] = ListHead
      /\ flink' = [flink EXCEPT ![ListHead] = ListHead]
      /\ blink' = [blink EXCEPT ![ListHead] = ListHead]
      /\ count' = [count EXCEPT ![t] = 1] /\ Release(t, {page[t]})
      /\ list_size' = list_size /\ listed' = listed /\ page' = page /\ fwd' = fwd /\ bck' = bck
  BY DEF RemoveOnly, Goto
<1>3. PICK p, c : p = page[t] /\ c = <<p>>
  OBVIOUS
<1>4. /\ Len(o) \in Nat /\ Len(o) > 0 /\ p = o[1] /\ o \in Seq(Pages) /\ p \in Pages /\ p \in Nodes
      /\ p # ListHead /\ p \in On(S) /\ p \in S /\ 1 \in 1..Len(o)
  <2>1. Len(o) > 0 /\ p = o[1]
    BY <1>1, <1>2, <1>3 DEF RemoverTakes
  <2>2. Len(o) \in Nat /\ o \in Seq(Pages) /\ S = {o[k] : k \in 1..Len(o)}
    BY <1>1 DEF Ring
  <2>. QED BY <1>1, <2>1, <2>2 DEF On
<1>5. /\ t \in readers /\ pfnLock[p] = t /\ pfnLock[ListHead] = t
      /\ \A n \in Nodes : pfnLock[n] = t <=> n = ListHead \/ n = p
  BY <1>1, <1>2, <1>3, <1>4 DEF RemoverHolds, Owns
<1>6. flink[p] = sc[p] /\ p \in listed
  BY <1>4, <1>5, LockedIsLinked
<1>7. Len(o) = 1
  <2>1. sc[o[1]] = IF 1 = Len(o) THEN ListHead ELSE o[1 + 1]
    BY <1>1, <1>4 DEF Ring
  <2>2. ASSUME Len(o) # 1 PROVE FALSE
    <3>0. PICK n \in Nat : n = Len(o) /\ n > 0 /\ n # 1
      BY <1>4, <2>2
    <3>1. 2 \in 1..Len(o)
      BY <3>0
    <3>2. o[2] \in Pages /\ sc[o[1]] = o[2]
      BY <1>4, <2>1, <2>2, <3>1
    <3>. QED BY <1>1, <1>2, <1>3, <1>4, <1>6, <3>2
  <2>. QED BY <2>2
<1>8. c \in Seq(Pages) /\ Len(c) = 1 /\ c[1] = p /\ Elems(c) = {p}
  BY <1>3, <1>4 DEF Elems
<1>9. /\ pfnLock' \in [Nodes -> Threads \cup {NoThread}]
      /\ readers' \in SUBSET Threads /\ exclusive' \in Threads \cup {NoThread}
      /\ \A u \in Threads \ {t}, m \in Nodes : pfnLock'[m] = u <=> pfnLock[m] = u
      /\ \A u \in Threads \ {t} : (u \in readers' <=> u \in readers)
                                  /\ (exclusive' = u <=> exclusive = u)
      /\ \A m \in Nodes : pfnLock'[m] = t <=> pfnLock[m] = t /\ m = p
      /\ t \notin readers' /\ exclusive' # t /\ ListLock'
  BY <1>1, <1>2, <1>3, Releasing
<1>10. pc'[t] = "size" /\ count'[t] = 1 /\ page'[t] = p
  BY <1>1, <1>2, <1>3 DEF FieldsOK
<1>11. FieldsOK'
  BY <1>1, <1>2, <1>9 DEF FieldsOK
<1>12. Others(t)
  BY <1>1, <1>2, <1>9 DEF FieldsOK, Others
<1>13. exclusive' = NoThread
  <2>1. exclusive = NoThread
    BY <1>5, ReadersExclude
  <2>. QED BY <1>2, <2>1 DEF Release
<1>14. RemoverHolds(t, c)'
  BY <1>4, <1>5, <1>8, <1>9, <1>10 DEF RemoverHolds, Owns
<1>15. BatchIs(t, c)'
  BY <1>8, <1>10 DEF BatchIs
<1>16. \A n \in Nodes : flink'[n] = IF n = ListHead THEN ListHead ELSE flink[n]
  BY <1>1, <1>2 DEF FieldsOK
<1>17. \A n \in Nodes : blink'[n] = IF n = ListHead THEN ListHead ELSE blink[n]
  BY <1>1, <1>2 DEF FieldsOK
<1>18. /\ Len(c) \in 1..Len(o) /\ \A k \in 1..Len(c) : c[k] = o[k]
       /\ Len(c) <= BatchCapacity /\ Elems(c) \subseteq listed
       /\ ListHead = IF Len(c) = Len(o) THEN ListHead ELSE o[Len(c) + 1]
       /\ \A q \in Elems(c) : pfnLock[q] = t
  BY <1>4, <1>5, <1>6, <1>7, <1>8, ListAssumption
<1>19. Detaches(t, c, o, ListHead)
  BY <1>1, <1>2, <1>5, <1>8, <1>9, <1>10, <1>13, <1>14, <1>15, <1>16, <1>17, <1>18 DEF Detaches
<1>20. PICK ch2 : ch2 = [u \in Threads |-> IF u = t THEN c ELSE ch[u]]
  OBVIOUS
<1>21. ch2[t] = c /\ \A u \in Threads \ {t} : ch2[u] = ch[u]
  BY <1>1, <1>20
<1>. QED BY <1>11, <1>12, <1>19, <1>21, Detached

\* A batch without its first page.
LEMMA TailIs ==
    ASSUME NEW c \in Seq(Pages), Len(c) > 0, \A j, k \in 1..Len(c) : c[j] = c[k] => j = k,
           NEW d, d = [k \in 1..(Len(c) - 1) |-> c[k + 1]]
    PROVE  /\ d \in Seq(Pages) /\ Len(d) \in Nat /\ Len(d) = Len(c) - 1
           /\ \A k \in 1..Len(d) : d[k] = c[k + 1] /\ k + 1 \in 1..Len(c)
           /\ Elems(d) = Elems(c) \ {c[1]}
<1>1. Len(c) \in Nat /\ \A k \in 1..Len(c) : c[k] \in Pages /\ c[k] \in Elems(c)
  BY DEF Elems
<1>2. PICK n : n = Len(c) - 1 /\ n \in Nat
  BY <1>1
<1>3. \A k \in 1..n : k + 1 \in 1..Len(c) /\ k + 1 # 1
  BY <1>1, <1>2
<1>4. d = [k \in 1..n |-> c[k + 1]] /\ \A k \in 1..n : c[k + 1] \in Pages
  BY <1>1, <1>2, <1>3
<1>5. d \in Seq(Pages) /\ Len(d) = n /\ \A k \in 1..n : d[k] = c[k + 1]
  BY <1>2, <1>4
<1>6. Elems(d) = Elems(c) \ {c[1]}
  <2>1. \A k \in 1..n : d[k] \in Elems(c) /\ d[k] # c[1]
    <3>1. 1 \in 1..Len(c)
      BY <1>1
    <3>. QED BY <1>1, <1>3, <1>5, <3>1
  <2>2. ASSUME NEW k \in 1..Len(c), k # 1 PROVE c[k] \in Elems(d)
    <3>1. k - 1 \in 1..n /\ (k - 1) + 1 = k
      BY <1>1, <1>2, <2>2
    <3>2. d[k - 1] = c[k]
      BY <1>5, <3>1
    <3>. QED BY <1>5, <3>1, <3>2 DEF Elems
  <2>3. Elems(d) \subseteq Elems(c) \ {c[1]}
    BY <1>5, <2>1 DEF Elems
  <2>4. \A x \in Elems(c) : x # c[1] => x \in Elems(d)
    BY <2>2 DEF Elems
  <2>. QED BY <2>3, <2>4
<1>. QED BY <1>2, <1>3, <1>5, <1>6

\* A remover hands on a page of its batch, which is on no list from then on.
LEMMA RemoveConsumeStep ==
    ASSUME NEW o, NEW S, NEW sc, NEW pv, NEW ch, NEW g, Shape(o, S, sc, pv, ch, g),
           NEW t \in Removers, RemoveConsume(t)
    PROVE  Steps(o)
<1>1. /\ FieldsOK /\ ListLock /\ t \in Threads /\ RemoverHolds(t, ch[t]) /\ RemoverTakes(t, ch[t], o, S, sc)
      /\ t \notin Faulters /\ t \notin Inserters /\ Sizes(o) /\ Len(o) \in Nat
  <2>1. Ring(o, S, sc, pv)
    BY DEF Shape
  <2>2. Len(o) \in Nat
    BY <2>1 DEF Ring
  <2>. QED BY <2>2, Kinds DEF Shape
<1>2. /\ pc[t] = "consume" /\ listed' = listed \ {page[t]}
      /\ pfnLock' = [pfnLock EXCEPT ![page[t]] = NoThread]
      /\ count' = [count EXCEPT ![t] = @ - 1]
      /\ flink' = flink /\ blink' = blink /\ readers' = readers /\ exclusive' = exclusive
      /\ list_size' = list_size /\ bck' = bck
  BY DEF RemoveConsume
<1>3. PICK c : c = ch[t]
  OBVIOUS
<1>4. /\ BatchIs(t, c) /\ Len(c) <= BatchCapacity /\ Elems(c) \subseteq listed /\ Elems(c) \cap S = {}
      /\ \A n \in Nodes : pfnLock[n] = t <=> n \in Elems(c)
      /\ t \notin readers /\ exclusive # t
  BY <1>1, <1>2, <1>3 DEF RemoverTakes, RemoverHolds, Owns
<1>5. /\ c \in Seq(Pages) /\ Len(c) \in Nat /\ Len(c) > 0 /\ Len(c) = count[t] /\ c[1] = page[t]
      /\ \A k \in 1..(Len(c) - 1) : flink[c[k]] = c[k + 1]
      /\ \A j, k \in 1..Len(c) : c[j] = c[k] => j = k
  BY <1>4 DEF BatchIs
<1>6. PICK d : d = [k \in 1..(Len(c) - 1) |-> c[k + 1]]
  OBVIOUS
<1>7. /\ d \in Seq(Pages) /\ Len(d) \in Nat /\ Len(d) = Len(c) - 1
      /\ \A k \in 1..Len(d) : d[k] = c[k + 1] /\ k + 1 \in 1..Len(c)
  BY <1>5, <1>6, TailIs
<1>8. Elems(d) = Elems(c) \ {page[t]}
  BY <1>5, <1>6, TailIs
<1>9. /\ page[t] \in Elems(c) /\ page[t] \in Pages /\ page[t] \in Nodes /\ pfnLock[page[t]] = t
      /\ \A p \in Elems(c) : p \in Nodes
  <2>1. c[1] \in Elems(c)
    BY <1>5 DEF Elems
  <2>2. \A p \in Elems(c) : p \in Pages /\ p \in Nodes /\ pfnLock[p] = t
    BY <1>2, <1>3, RemoverFacts
  <2>. QED BY <1>5, <2>1, <2>2
<1>10. \A n \in Nodes : pfnLock'[n] = IF n = page[t] THEN NoThread ELSE pfnLock[n]
  BY <1>1, <1>2 DEF FieldsOK
<1>11. pfnLock' \in [Nodes -> Threads \cup {NoThread}] /\ count' \in [Threads -> Nat]
       /\ count'[t] = Len(d)
  <2>1. Len(d) = count[t] - 1
    BY <1>5, <1>7
  <2>. QED BY <1>1, <1>2, <1>7, <2>1 DEF FieldsOK
<1>12. \/ /\ Len(d) = 0 /\ pc' = [pc EXCEPT ![t] = "idle"] /\ page' = [page EXCEPT ![t] = Nil]
          /\ fwd' = [fwd EXCEPT ![t] = Nil]
       \/ /\ Len(d) > 0 /\ page' = [page EXCEPT ![t] = d[1]] /\ pc' = pc /\ fwd' = fwd
  <2>1. CASE count[t] = 1
    <3>1. Len(d) = 0
      BY <1>5, <1>7, <2>1
    <3>. QED BY <2>1, <3>1 DEF RemoveConsume
  <2>2. CASE count[t] # 1
    <3>1. Len(d) > 0 /\ 1 \in 1..Len(d) /\ 1 \in 1..(Len(c) - 1)
      BY <1>5, <1>7, <2>2
    <3>2. d[1] = flink[page[t]]
      BY <1>5, <1>7, <3>1
    <3>. QED BY <2>2, <3>1, <3>2 DEF RemoveConsume
  <2>. QED BY <2>1, <2>2
<1>13. Len(d) > 0 => d[1] \in Pages
  BY <1>7
<1>14. /\ Len(d) = 0 => pc'[t] = "idle"
       /\ Len(d) > 0 => pc'[t] = "consume" /\ page'[t] = d[1]
       /\ pc'[t] \in {"idle", "consume"}
  <2>1. CASE Len(d) = 0 /\ pc' = [pc EXCEPT ![t] = "idle"]
    BY <1>1, <2>1 DEF FieldsOK
  <2>2. CASE Len(d) > 0 /\ page' = [page EXCEPT ![t] = d[1]] /\ pc' = pc
    <3>1. pc'[t] = "consume" /\ page'[t] = d[1]
      BY <1>1, <1>2, <2>2 DEF FieldsOK
    <3>2. Len(d) # 0
      BY <1>7, <2>2
    <3>. QED BY <3>1, <3>2
  <2>. QED BY <1>12, <2>1, <2>2
<1>15. FieldsOK'
  <2>1. page' \in [Threads -> Pages \cup {Nil}] /\ fwd' \in [Threads -> Nodes \cup {Nil}]
    BY <1>1, <1>12, <1>13 DEF FieldsOK
  <2>. QED BY <1>1, <1>2, <1>11, <1>12, <2>1 DEF FieldsOK
<1>16. Others(t)
  <2>1. \A u \in Threads \ {t} : /\ pc'[u] = pc[u] /\ page'[u] = page[u] /\ fwd'[u] = fwd[u]
                                 /\ bck'[u] = bck[u] /\ count'[u] = count[u]
    BY <1>1, <1>2, <1>12 DEF FieldsOK
  <2>2. \A u \in Threads \ {t}, n \in Nodes : pfnLock'[n] = u <=> pfnLock[n] = u
    BY <1>9, <1>10, Kinds
  <2>. QED BY <1>2, <2>1, <2>2 DEF Others
<1>17. ListLock'
  BY <1>1, <1>2 DEF ListLock
<1>18. RemoverHolds(t, d)'
  <2>1. \A n \in Nodes : pfnLock'[n] = t <=> n \in Elems(d)
    BY <1>1, <1>4, <1>8, <1>10, Kinds
  <2>2. Len(d) = 0 => Elems(d) = {}
    BY DEF Elems
  <2>3. t \notin readers' /\ exclusive' # t
    BY <1>2, <1>4
  <2>4. pc'[t] = "idle" => Len(d) = 0
    BY <1>7, <1>14
  <2>. QED BY <1>14, <2>1, <2>2, <2>3, <2>4 DEF RemoverHolds, Owns
<1>19. Len(d) > 0 => BatchIs(t, d)'
  <2>1. \A k \in 1..(Len(d) - 1) : flink[d[k]] = d[k + 1]
    <3>1. ASSUME NEW k \in 1..(Len(d) - 1) PROVE flink[d[k]] = d[k + 1]
      <4>1. k \in 1..Len(d) /\ k + 1 \in 1..Len(d) /\ k + 1 \in 1..(Len(c) - 1)
        BY <1>7
      <4>2. d[k] = c[k + 1] /\ d[k + 1] = c[(k + 1) + 1]
        BY <1>7, <4>1
      <4>. QED BY <1>5, <4>1, <4>2
    <3>. QED BY <3>1
  <2>2. ASSUME NEW j \in 1..Len(d), NEW k \in 1..Len(d), d[j] = d[k] PROVE j = k
    <3>1. j + 1 = k + 1
      BY <1>5, <1>7, <2>2
    <3>. QED BY <3>1
  <2>. QED BY <1>2, <1>7, <1>11, <1>14, <2>1, <2>2 DEF BatchIs
<1>20. RemoverTakes(t, d, o, S, sc)'
  <2>1. Elems(d) \subseteq listed' /\ Elems(d) \cap S = {}
    BY <1>2, <1>4, <1>8
  <2>2. Len(d) <= BatchCapacity
    BY <1>4, <1>5, <1>7, ListAssumption
  <2>3. pc'[t] = "consume" => Len(d) > 0
    BY <1>7, <1>14
  <2>. QED BY <1>14, <1>19, <2>1, <2>2, <2>3 DEF RemoverTakes
<1>21. Sizes(o)'
  <2>1. JoiningOf(t)' = 0 /\ JoiningOf(t) = 0 /\ LeavingOf(t)' = 0 /\ LeavingOf(t) = 0
        /\ list_size' = list_size /\ list_size \in Int
    BY <1>1, <1>2, <1>14 DEF JoiningOf, LeavingOf, FieldsOK
  <2>2. Len(o) - Len(o) = (list_size' - list_size) + (JoiningOf(t)' - JoiningOf(t))
                              - (LeavingOf(t)' - LeavingOf(t))
    BY <1>1, <2>1
  <2>. QED BY <1>1, <1>15, <1>16, <2>2, SizesStep
<1>22. PICK ch2 : ch2 = [u \in Threads |-> IF u = t THEN d ELSE ch[u]]
  OBVIOUS
<1>23. ch2[t] = d /\ \A u \in Threads \ {t} : ch2[u] = ch[u]
  BY <1>1, <1>22
<1>24. listed' \cap Elems(ch[t]) \subseteq {p \in Elems(ch2[t]) : pc'[t] \in {"size", "consume"}}
  <2>1. ASSUME NEW p \in Elems(d) PROVE pc'[t] = "consume"
    <3>1. Len(d) > 0
      BY <1>7, <2>1 DEF Elems
    <3>. QED BY <1>14, <3>1
  <2>. QED BY <1>2, <1>3, <1>8, <1>23, <2>1
<1>25. listed' \subseteq listed /\ listed \ listed' \subseteq Elems(ch[t])
  BY <1>2, <1>3, <1>9
<1>. QED BY <1>2, <1>15, <1>16, <1>17, <1>18, <1>20, <1>21, <1>23, <1>24, <1>25, RemoverLeaves

-----------------------------------------------------------------------------
(* Insertions that get their locks.                                        *)

\* The batch of an inserter stays chained while it waits for the ends of the list.
LEMMA InserterKeeps ==
    ASSUME NEW o, NEW S, NEW sc, NEW pv, NEW ch, NEW g, Shape(o, S, sc, pv, ch, g),
           NEW t \in Inserters, flink' = flink, blink' = blink, listed' = listed,
           page'[t] = page[t], fwd'[t] = fwd[t], count'[t] = count[t],
           pc[t] \in {"share", "head", "tail"}, pc'[t] \in {"share", "head", "tail", "link"},
           pc'[t] = "link" => bck'[t] = pv[ListHead]
    PROVE  InserterBrings(t, ch[t], S, pv)'
<1>1. InserterBrings(t, ch[t], S, pv)
  BY DEF Shape
<1>2. PICK c : c = ch[t]
  OBVIOUS
<1>3. /\ BatchIs(t, c) /\ Elems(c) \cap listed = {}
      /\ fwd[t] = c[Len(c)] /\ flink[fwd[t]] = Nil
      /\ Elems(c) \cap S = {} /\ \A k \in 1..(Len(c) - 1) : blink[c[k + 1]] = c[k]
  BY <1>1, <1>2 DEF InserterBrings
<1>4. BatchIs(t, c)'
  BY <1>3 DEF BatchIs
<1>. QED BY <1>2, <1>3, <1>4 DEF InserterBrings

\* An inserter takes the list lock shared.
LEMMA InsertShareStep ==
    ASSUME NEW o, NEW S, NEW sc, NEW pv, NEW ch, NEW g, Shape(o, S, sc, pv, ch, g),
           NEW t \in Inserters, InsertShare(t)
    PROVE  Steps(o)
<1>1. FieldsOK /\ ListLock /\ t \in Threads /\ InserterHolds(t, ch[t])
  BY Kinds DEF Shape
<1>2. /\ LinksUnchanged /\ flink' = flink /\ blink' = blink /\ listed' = listed
      /\ page' = page /\ fwd' = fwd /\ bck' = bck /\ count' = count
      /\ pc[t] = "share" /\ pc' = [pc EXCEPT ![t] = "head"]
      /\ pfnLock' = pfnLock /\ readers' = readers \cup {t} /\ exclusive' = exclusive
      /\ exclusive = NoThread
  BY DEF InsertShare, Goto, LockShared, LocalsUnchanged, LinksUnchanged
<1>3. pc'[t] = "head"
  BY <1>1, <1>2 DEF FieldsOK
<1>4. FieldsOK' /\ Others(t) /\ ListLock'
  BY <1>1, <1>2 DEF FieldsOK, LinksUnchanged, Others, ListLock
<1>5. InserterHolds(t, ch[t])'
  BY <1>1, <1>2, <1>3 DEF InserterHolds, Owns
<1>6. InserterBrings(t, ch[t], S, pv)'
  BY <1>2, <1>3, InserterKeeps
<1>. QED BY <1>2, <1>3, <1>4, <1>5, <1>6, InserterQuiet

\* An inserter tries the lock of the head, or comes again with its batch still locked.
LEMMA InsertLockHeadStep ==
    ASSUME NEW o, NEW S, NEW sc, NEW pv, NEW ch, NEW g, Shape(o, S, sc, pv, ch, g),
           NEW t \in Inserters, InsertLockHead(t)
    PROVE  Steps(o)
<1>1. FieldsOK /\ ListLock /\ t \in Threads /\ InserterHolds(t, ch[t]) /\ ListHead \in Nodes
  BY Kinds, Heads DEF Shape
<1>2. /\ LinksUnchanged /\ flink' = flink /\ blink' = blink /\ listed' = listed
      /\ page' = page /\ fwd' = fwd /\ bck' = bck /\ count' = count
      /\ pc[t] = "head"
  BY DEF InsertLockHead, Goto, LocalsUnchanged, LinksUnchanged
<1>3. /\ t \in readers /\ exclusive # t
      /\ \A n \in Nodes : pfnLock[n] = t <=> n \in Elems(ch[t])
      /\ pfnLock[ListHead] # t
  <2>1. ListHead \notin Elems(ch[t])
    BY <1>2, InserterFacts
  <2>. QED BY <1>1, <1>2, <2>1 DEF InserterHolds, Owns
<1>4. CASE Goto(t, "head", "tail") /\ TryLock(t, ListHead) /\ UNCHANGED <<readers, exclusive>>
  <2>1. pc' = [pc EXCEPT ![t] = "tail"] /\ readers' = readers /\ exclusive' = exclusive
    BY <1>4 DEF Goto
  <2>2. /\ pfnLock' \in [Nodes -> Threads \cup {NoThread}]
        /\ \A u \in Threads \ {t}, m \in Nodes : pfnLock'[m] = u <=> pfnLock[m] = u
        /\ \A m \in Nodes : pfnLock'[m] = t <=> pfnLock[m] = t \/ m = ListHead
    BY <1>1, <1>4, Locking
  <2>3. pc'[t] = "tail" /\ FieldsOK'
    BY <1>1, <1>2, <2>1, <2>2 DEF FieldsOK, LinksUnchanged
  <2>4. Others(t) /\ ListLock'
    BY <1>1, <1>2, <2>1, <2>2 DEF FieldsOK, Others, ListLock
  <2>5. InserterHolds(t, ch[t])'
    BY <1>3, <2>1, <2>2, <2>3 DEF InserterHolds, Owns
  <2>6. InserterBrings(t, ch[t], S, pv)'
    BY <1>2, <2>3, InserterKeeps
  <2>. QED BY <1>2, <2>3, <2>4, <2>5, <2>6, InserterQuiet
<1>5. CASE Goto(t, "head", "share") /\ InsertBackOff(t)
  <2>1. pc' = [pc EXCEPT ![t] = "share"] /\ readers' = readers \ {t} /\ exclusive' = exclusive
        /\ pfnLock' = pfnLock
    BY <1>3, <1>5 DEF Goto, InsertBackOff
  <2>2. pc'[t] = "share" /\ FieldsOK'
    BY <1>1, <1>2, <2>1 DEF FieldsOK, LinksUnchanged
  <2>3. Others(t) /\ ListLock'
    BY <1>1, <1>2, <2>1 DEF FieldsOK, Others, ListLock
  <2>4. InserterHolds(t, ch[t])'
    BY <1>3, <2>1, <2>2 DEF InserterHolds, Owns
  <2>5. InserterBrings(t, ch[t], S, pv)'
    BY <1>2, <2>2, InserterKeeps
  <2>. QED BY <1>2, <2>2, <2>3, <2>4, <2>5, InserterQuiet
<1>. QED BY <1>4, <1>5 DEF InsertLockHead

\* The node that an insertion can lock behind the head is the tail of the list.
LEMMA TailFound ==
    ASSUME NEW o, NEW S, NEW sc, NEW pv, NEW ch, NEW g, Shape(o, S, sc, pv, ch, g),
           NEW t \in Inserters, pc[t] = "tail",
           blink[ListHead] = ListHead \/ pfnLock[blink[ListHead]] = NoThread
    PROVE  blink[ListHead] = pv[ListHead] /\ pv[ListHead] \in Nodes
<1>1. LinksAre(S, sc, pv) /\ Ring(o, S, sc, pv) /\ t \notin Removers /\ pfnLock[ListHead] = t
  BY Kinds, InserterFacts DEF Shape
<1>2. ListHead \in On(S) /\ pv[ListHead] \in Nodes
  BY <1>1, RingFacts DEF On
<1>3. ~Owed(ListHead)
  <2>1. ASSUME NEW s \in Faulters, pc[s] = "unlink2", fwd[s] = ListHead PROVE FALSE
    <3>1. blink[ListHead] = page[s] /\ pfnLock[page[s]] = s /\ page[s] # ListHead
      BY <2>1, FaulterFacts
    <3>. QED BY <3>1, Kinds
  <2>2. ASSUME NEW r \in Removers, pc[r] = "detach2" PROVE FALSE
    BY <1>1, <2>2, RemoverFacts
  <2>3. ASSUME NEW i \in Inserters, pc[i] = "link2" PROVE FALSE
    BY <1>1, <2>3, InserterFacts
  <2>. QED BY <2>1, <2>2, <2>3 DEF Owed
<1>. QED BY <1>1, <1>2, <1>3 DEF LinksAre

\* An inserter tries the lock of the last page, or comes again; a last page it has locked
\* stays the last one.
LEMMA InsertLockTailStep ==
    ASSUME NEW o, NEW S, NEW sc, NEW pv, NEW ch, NEW g, Shape(o, S, sc, pv, ch, g),
           NEW t \in Inserters, InsertLockTail(t)
    PROVE  Steps(o)
<1>1. FieldsOK /\ ListLock /\ t \in Threads /\ InserterHolds(t, ch[t]) /\ ListHead \in Nodes
  BY Kinds, Heads DEF Shape
<1>2. /\ LinksUnchanged /\ flink' = flink /\ blink' = blink /\ listed' = listed
      /\ page' = page /\ fwd' = fwd /\ count' = count
      /\ pc[t] = "tail"
  BY DEF InsertLockTail, Goto, LinksUnchanged
<1>3. /\ t \in readers /\ exclusive # t /\ pfnLock[ListHead] = t
      /\ \A n \in Nodes : pfnLock[n] = t <=> n \in {ListHead} \cup Elems(ch[t])
  BY <1>1, <1>2 DEF InserterHolds, Owns
<1>4. PICK n : n = blink[ListHead]
  OBVIOUS
<1>5. CASE /\ Goto(t, "tail", "link")
           /\ \/ n = ListHead /\ UNCHANGED pfnLock
              \/ n # ListHead /\ TryLock(t, n)
           /\ bck' = [bck EXCEPT ![t] = n] /\ UNCHANGED <<readers, exclusive>>
  <2>1. /\ pc' = [pc EXCEPT ![t] = "link"] /\ readers' = readers /\ exclusive' = exclusive
        /\ bck' = [bck EXCEPT ![t] = n]
    BY <1>5 DEF Goto
  <2>2. n = pv[ListHead] /\ n \in Nodes
    <3>1. n = ListHead \/ pfnLock[n] = NoThread
      BY <1>5 DEF TryLock
    <3>. QED BY <1>2, <1>4, <3>1, TailFound
  <2>3. /\ pfnLock' \in [Nodes -> Threads \cup {NoThread}]
        /\ \A u \in Threads \ {t}, m \in Nodes : pfnLock'[m] = u <=> pfnLock[m] = u
        /\ \A m \in Nodes : pfnLock'[m] = t <=> pfnLock[m] = t \/ m = n
    <3>1. CASE n = ListHead /\ UNCHANGED pfnLock
      BY <1>1, <1>3, <3>1 DEF FieldsOK
    <3>2. CASE TryLock(t, n)
      BY <1>1, <2>2, <3>2, Locking
    <3>. QED BY <1>5, <3>1, <3>2
  <2>4. pc'[t] = "link" /\ FieldsOK' /\ bck'[t] = n
    BY <1>1, <1>2, <2>1, <2>2, <2>3 DEF FieldsOK, LinksUnchanged
  <2>5. Others(t) /\ ListLock'
    BY <1>1, <1>2, <2>1, <2>3 DEF FieldsOK, Others, ListLock
  <2>6. InserterHolds(t, ch[t])'
    BY <1>3, <2>1, <2>3, <2>4 DEF InserterHolds, Owns
  <2>7. InserterBrings(t, ch[t], S, pv)'
    BY <1>2, <2>2, <2>4, InserterKeeps
  <2>. QED BY <1>2, <2>4, <2>5, <2>6, <2>7, InserterQuiet
<1>6. CASE Goto(t, "tail", "share") /\ InsertBackOff(t) /\ UNCHANGED bck
  <2>1. pc' = [pc EXCEPT ![t] = "share"] /\ readers' = readers \ {t} /\ exclusive' = exclusive
        /\ pfnLock' = [pfnLock EXCEPT ![ListHead] = NoThread] /\ bck' = bck
    BY <1>3, <1>6 DEF Goto, InsertBackOff
  <2>2. pc'[t] = "share" /\ FieldsOK'
    BY <1>1, <1>2, <2>1 DEF FieldsOK, LinksUnchanged
  <2>3. \A m \in Nodes : pfnLock'[m] = IF m = ListHead THEN NoThread ELSE pfnLock[m]
    BY <1>1, <2>1 DEF FieldsOK
  <2>4. Others(t) /\ ListLock'
    BY <1>1, <1>2, <1>3, <2>1, <2>3, Kinds DEF FieldsOK, Others, ListLock
  <2>5. InserterHolds(t, ch[t])'
    <3>1. ListHead \notin Elems(ch[t])
      BY <1>2, InserterFacts
    <3>2. \A m \in Nodes : pfnLock'[m] = t <=> m \in Elems(ch[t])
      BY <1>1, <1>3, <2>3, <3>1, Kinds
    <3>. QED BY <1>3, <2>1, <2>2, <3>2 DEF InserterHolds, Owns
  <2>6. InserterBrings(t, ch[t], S, pv)'
    BY <1>2, <2>2, InserterKeeps
  <2>. QED BY <1>2, <2>2, <2>4, <2>5, <2>6, InserterQuiet
<1>. QED BY <1>4, <1>5, <1>6 DEF InsertLockTail

-----------------------------------------------------------------------------
(* Insertions that have linked their batch to the list.                    *)

\* What such an insertion writes.
InserterWrites(t, S, pv, c, d) ==
    /\ pc[t] \in {"link2", "size", "unlock"}
    /\ \A n \in Nodes : flink'[n] = flink[n] \/ (pc[t] = "link2" /\ n = fwd[t])
    /\ \A n \in Nodes : blink'[n] = blink[n] \/ (pc[t] = "link2" /\ n = ListHead)
    /\ pc[t] = "link2" => flink'[fwd[t]] = ListHead /\ blink'[ListHead] = fwd[t]
    /\ listed \subseteq listed' /\ listed' \ listed \subseteq Elems(c)
    /\ \A p \in Elems(c) : p \notin listed' => p \in Elems(d) /\ pc'[t] \in {"size", "unlock"}
    /\ InserterHolds(t, d)' /\ InserterBrings(t, d, S, pv)' /\ ListLock'

\* An inserter whose batch is on the list disturbs nobody: the two ends are its own.
LEMMA InserterLeaves ==
    ASSUME NEW o, NEW S, NEW sc, NEW pv, NEW ch, NEW g, Shape(o, S, sc, pv, ch, g),
           NEW t \in Inserters, Others(t), FieldsOK',
           NEW ch2, \A u \in Threads \ {t} : ch2[u] = ch[u],
           InserterWrites(t, S, pv, ch[t], ch2[t]), Sizes(o)'
    PROVE  Steps(o)
<1>0. /\ pc[t] \in {"link2", "size", "unlock"}
      /\ \A n \in Nodes : flink'[n] = flink[n] \/ (pc[t] = "link2" /\ n = fwd[t])
      /\ \A n \in Nodes : blink'[n] = blink[n] \/ (pc[t] = "link2" /\ n = ListHead)
      /\ pc[t] = "link2" => flink'[fwd[t]] = ListHead /\ blink'[ListHead] = fwd[t]
      /\ listed \subseteq listed' /\ listed' \ listed \subseteq Elems(ch[t])
      /\ \A p \in Elems(ch[t]) : p \notin listed' => p \in Elems(ch2[t]) /\ pc'[t] \in {"size", "unlock"}
      /\ InserterHolds(t, ch2[t])' /\ InserterBrings(t, ch2[t], S, pv)' /\ ListLock'
  BY DEF InserterWrites
<1>1. /\ FieldsOK /\ Ring(o, S, sc, pv) /\ LinksAre(S, sc, pv) /\ StatusAgrees(S, ch)
      /\ t \in Threads /\ t \notin Faulters /\ t \notin Removers
      /\ InserterBrings(t, ch[t], S, pv)
  BY Kinds DEF Shape
<1>2. /\ On(S) \subseteq Nodes /\ ListHead \in On(S) /\ S \subseteq On(S)
      /\ sc[pv[ListHead]] = ListHead /\ \A n \in On(S) : pv[sc[n]] = n /\ sc[pv[n]] = n
  BY <1>1, RingFacts DEF On
<1>3. /\ Elems(ch[t]) \subseteq S
      /\ \A p \in Elems(ch[t]) : pfnLock[p] = t /\ p \in Nodes /\ p # ListHead
      /\ pc[t] = "link2" => /\ fwd[t] = pv[ListHead] /\ fwd[t] \in Elems(ch[t])
                            /\ pfnLock[ListHead] = t /\ t \in readers
  <2>1. Elems(ch[t]) \subseteq S /\ (pc[t] = "link2" => fwd[t] = pv[ListHead])
    BY <1>0, <1>1 DEF InserterBrings
  <2>. QED BY <1>0, <2>1, InserterFacts
<1>4. LinksAre(S, sc, pv)'
  <2>1. ASSUME NEW n \in On(S) PROVE flink'[n] = sc[n] \/ Loose(n)'
    <3>1. Loose(n) => Loose(n)' \/ (pc[t] = "link2" /\ fwd[t] = n)
      BY <1>1, DebtsKept
    <3>2. flink[n] = sc[n] \/ Loose(n)
      BY <1>1 DEF LinksAre
    <3>. QED BY <1>0, <1>2, <1>3, <3>1, <3>2
  <2>2. ASSUME NEW n \in On(S) PROVE blink'[n] = pv[n] \/ Owed(n)'
    <3>1. Owed(n) => Owed(n)' \/ (pc[t] = "link2" /\ n = ListHead)
      BY <1>1, DebtsKept
    <3>2. blink[n] = pv[n] \/ Owed(n)
      BY <1>1 DEF LinksAre
    <3>. QED BY <1>0, <1>2, <1>3, <3>1, <3>2
  <2>. QED BY <2>1, <2>2 DEF LinksAre
<1>5. ASSUME NEW u \in Faulters PROVE FaulterHolds(u)'
  BY <1>1, OthersHold
<1>6. ASSUME NEW u \in Faulters PROVE FaulterSees(u, S)'
  <2>1. \A v \in Faulters : FaulterSees(v, S)
    BY DEF Shape
  <2>2. \A v \in Faulters \ {t} : /\ pc[v] # "idle" => page[v] \in listed'
                                  /\ Viewing(v) => page[v] \in S
                                  /\ pc[v] \in {"unlink2", "count"} => page[v] \notin S
    BY <1>0, <2>1 DEF FaulterSees
  <2>. QED BY <1>1, <2>2, OthersSee
<1>7. ASSUME NEW u \in Faulters PROVE FaulterUnlinks(u, S, sc, pv)'
  <2>1. u \in Faulters \ {t} /\ u # t
    BY <1>1
  <2>2. pc[u] = "unlink2" => /\ fwd[u] \in On(S) /\ bck[u] \in On(S) /\ fwd[u] \in Nodes
                             /\ sc[bck[u]] = fwd[u] /\ pv[fwd[u]] = bck[u]
    BY FaulterFacts
  <2>3. ASSUME pc[u] = "unlink2" PROVE blink'[fwd[u]] = blink[fwd[u]]
    <3>1. SUFFICES ASSUME pc[t] = "link2", fwd[u] = ListHead PROVE FALSE
      BY <1>0, <2>2, <2>3
    <3>2. bck[u] = fwd[t] /\ pfnLock[bck[u]] = t
      BY <1>3, <2>2, <2>3, <3>1
    <3>3. exclusive = NoThread
      BY <1>3, <3>1, ReadersExclude
    <3>4. exclusive # u
      BY <3>3, Kinds
    <3>5. pfnLock[fwd[u]] = u \/ pfnLock[bck[u]] = u
      BY <2>3, <3>4 DEF Shape, FaulterUnlinks
    <3>. QED BY <1>3, <2>1, <3>1, <3>2, <3>5
  <2>4. pc[u] = "unlink2" => /\ fwd[u] \in On(S) /\ bck[u] \in On(S)
                             /\ sc[bck[u]] = fwd[u] /\ pv[fwd[u]] = bck[u]
                             /\ blink'[fwd[u]] = blink[fwd[u]]
    BY <2>2, <2>3
  <2>. QED BY <1>1, <2>1, <2>4, OtherUnlinks
<1>8. ASSUME NEW u \in Removers PROVE RemoverHolds(u, ch2[u])' /\ RemoverTakes(u, ch2[u], o, S, sc)'
  <2>1. u \in Removers \ {t} /\ u # t /\ ch2[u] = ch[u]
    BY <1>1, Kinds
  <2>2. pc[u] \in {"extend", "detach", "detach2", "size", "consume"} =>
           \A p \in Elems(ch[u]) : pfnLock[p] = u /\ p \in Nodes /\ p \in listed
    BY RemoverFacts
  <2>3. pc[u] \in {"extend", "detach", "detach2", "size", "consume"} =>
           \A p \in Elems(ch[u]) : flink'[p] = flink[p] /\ p \in listed'
    BY <1>0, <1>3, <2>1, <2>2
  <2>4. pc[u] \in {"detach2", "size", "consume"} => Elems(ch[u]) \cap S = {}
    BY DEF Shape, RemoverTakes
  <2>5. RemoverTakes(u, ch[u], o, S, sc)'
    BY <1>1, <2>1, <2>3, <2>4, OtherTakes
  <2>6. RemoverHolds(u, ch2[u])'
    BY <1>1, <2>1, OthersHold
  <2>. QED BY <2>1, <2>5, <2>6
<1>9. ASSUME NEW u \in Inserters \ {t} PROVE InserterHolds(u, ch2[u])' /\ InserterBrings(u, ch2[u], S, pv)'
  <2>1. ch2[u] = ch[u] /\ u # t
    BY Kinds
  <2>2. pc[u] # "idle" => \A p \in Elems(ch[u]) : /\ p \notin listed /\ pfnLock[p] = u
                                                  /\ p \in Pages /\ p \in Nodes /\ p # ListHead
    BY InserterFacts
  <2>3. /\ pc[u] \in {"share", "head", "tail", "link"} => Elems(ch[u]) \cap S = {}
        /\ pc[u] \in {"link2", "size", "unlock"} => Elems(ch[u]) \subseteq S
    BY DEF Shape, InserterBrings
  <2>4. pc[u] \in {"share", "head", "tail", "link"} =>
           Elems(ch[u]) \cap S = {} /\ \A p \in Elems(ch[u]) : blink'[p] = blink[p]
    BY <1>0, <2>2, <2>3
  <2>5. pc[u] # "idle" => \A p \in Elems(ch[u]) : flink'[p] = flink[p] /\ p \notin listed'
    BY <1>0, <1>3, <2>1, <2>2
  <2>6. InserterBrings(u, ch[u], S, pv)'
    BY <1>1, <2>3, <2>4, <2>5, OtherBrings
  <2>7. InserterHolds(u, ch2[u])'
    BY <1>1, OthersHold
  <2>. QED BY <2>1, <2>6, <2>7
<1>10. ASSUME NEW u \in Inserters PROVE InserterHolds(u, ch2[u])' /\ InserterBrings(u, ch2[u], S, pv)'
  BY <1>0, <1>9
<1>11. \A u \in Threads \ {t} : pc'[u] = pc[u] /\ page'[u] = page[u]
  BY DEF Others
<1>12. StatusAgrees(S, ch2)'
  <2>1. ASSUME NEW p \in S, p \notin listed'
        PROVE \E i \in Inserters : pc'[i] \in {"link2", "size", "unlock"} /\ p \in Elems(ch2[i])
    <3>1. p \notin listed
      BY <1>0, <2>1
    <3>2. PICK i \in Inserters : pc[i] \in {"link2", "size", "unlock"} /\ p \in Elems(ch[i])
      BY <1>1, <3>1 DEF StatusAgrees
    <3>3. CASE i = t
      BY <1>0, <2>1, <3>2, <3>3
    <3>4. CASE i # t
      <4>1. i \in Threads \ {t}
        BY <3>4, Kinds
      <4>. QED BY <1>11, <3>2, <4>1
    <3>. QED BY <3>3, <3>4
  <2>2. ASSUME NEW p \in listed', p \notin S
        PROVE  \/ \E u \in Faulters : pc'[u] \in {"unlink2", "count"} /\ page'[u] = p
               \/ \E r \in Removers : pc'[r] \in {"detach2", "size", "consume"} /\ p \in Elems(ch2[r])
    <3>1. p \in listed
      BY <1>0, <1>3, <2>2
    <3>2. CASE \E u \in Faulters : pc[u] \in {"unlink2", "count"} /\ page[u] = p
      BY <1>1, <1>11, <3>2, Kinds
    <3>3. CASE \E r \in Removers : pc[r] \in {"detach2", "size", "consume"} /\ p \in Elems(ch[r])
      <4>1. PICK r \in Removers : pc[r] \in {"detach2", "size", "consume"} /\ p \in Elems(ch[r])
        BY <3>3
      <4>2. r \in Threads \ {t}
        BY <1>1, Kinds
      <4>. QED BY <1>11, <4>1, <4>2
    <3>. QED BY <1>1, <2>2, <3>1, <3>2, <3>3 DEF StatusAgrees
  <2>. QED BY <2>1, <2>2 DEF StatusAgrees
<1>13. OneGap(g, S, sc, pv)' /\ NeighboursMeet(sc)' /\ NeighboursWait' /\ ExclusiveIsAlone(sc, pv)'
  BY <1>1, ViewsKept
<1>14. Shape(o, S, sc, pv, ch2, g)'
  BY <1>0, <1>1, <1>4, <1>5, <1>6, <1>7, <1>8, <1>10, <1>12, <1>13 DEF Shape, Ring
<1>. QED BY <1>14 DEF Steps

\* The last writes of an inserter tie the end of its batch to the head.
LEMMA InsertLinkLastStep ==
    ASSUME NEW o, NEW S, NEW sc, NEW pv, NEW ch, NEW g, Shape(o, S, sc, pv, ch, g),
           NEW t \in Inserters, InsertLinkLast(t)
    PROVE  Steps(o)
<1>1. /\ FieldsOK /\ ListLock /\ t \in Threads /\ InserterHolds(t, ch[t]) /\ InserterBrings(t, ch[t], S, pv)
      /\ t \notin Faulters /\ t \notin Removers /\ Sizes(o) /\ Len(o) \in Nat
      /\ \A u \in Threads : u # NoThread
      /\ ListHead \in Nodes
  <2>1. Ring(o, S, sc, pv)
    BY DEF Shape
  <2>2. Len(o) \in Nat
    BY <2>1 DEF Ring
  <2>. QED BY <2>2, Kinds, Heads DEF Shape
<1>2. /\ pc[t] = "link2" /\ pc' = [pc EXCEPT ![t] = "size"]
      /\ flink' = [flink EXCEPT ![fwd[t]] = ListHead]
      /\ blink' = [blink EXCEPT ![ListHead] = fwd[t]]
      /\ pfnLock' = [n \in Nodes |-> IF n \in {ListHead, bck[t]} /\ pfnLock[n] = t THEN NoThread
                                   ELSE pfnLock[n]]
      /\ readers' = readers \ {t} /\ bck' = [bck EXCEPT ![t] = Nil]
      /\ exclusive' = exclusive /\ list_size' = list_size /\ listed' = listed
      /\ page' = page /\ fwd' = fwd /\ count' = count
  BY DEF InsertLinkLast, Goto
<1>3. PICK c : c = ch[t]
  OBVIOUS
<1>4. /\ BatchIs(t, c) /\ Elems(c) \cap listed = {} /\ fwd[t] = c[Len(c)]
      /\ bck[t] \notin Elems(c) /\ Elems(c) \subseteq S /\ pv[ListHead] = fwd[t]
  BY <1>1, <1>2, <1>3 DEF InserterBrings
<1>5. /\ c \in Seq(Pages) /\ Len(c) \in Nat /\ Len(c) > 0
      /\ \A p \in Elems(c) : p \in Pages /\ p \in Nodes /\ p # ListHead /\ pfnLock[p] = t
      /\ \A k \in 1..Len(c) : c[k] \in Elems(c)
      /\ fwd[t] \in Nodes
  <2>1. /\ c \in Seq(Pages) /\ Len(c) \in Nat /\ Len(c) > 0
        /\ \A p \in Elems(c) : p \in Pages /\ p \in Nodes /\ p # ListHead /\ pfnLock[p] = t
        /\ \A k \in 1..Len(c) : c[k] \in Elems(c)
        /\ fwd[t] \in Elems(c)
    BY <1>2, <1>3, InserterFacts
  <2>. QED BY <2>1
<1>6. pc'[t] = "size"
  BY <1>1, <1>2 DEF FieldsOK
<1>7. FieldsOK'
  <2>1. pfnLock' \in [Nodes -> Threads \cup {NoThread}]
    BY <1>1, <1>2 DEF FieldsOK
  <2>. QED BY <1>1, <1>2, <1>5, <2>1 DEF FieldsOK
<1>8. Others(t)
  BY <1>1, <1>2 DEF Others, FieldsOK
<1>9. ListLock'
  BY <1>1, <1>2 DEF ListLock
<1>10. /\ \A n \in Nodes : flink'[n] = IF n = fwd[t] THEN ListHead ELSE flink[n]
       /\ \A n \in Nodes : blink'[n] = IF n = ListHead THEN fwd[t] ELSE blink[n]
  BY <1>1, <1>2 DEF FieldsOK
<1>11. InserterHolds(t, c)'
  <2>1. /\ exclusive' # t /\ t \notin readers'
        /\ \A n \in Nodes : pfnLock[n] = t <=> n \in {ListHead, bck[t]} \cup Elems(c)
    BY <1>1, <1>2, <1>3 DEF InserterHolds, Owns
  <2>2. \A n \in Nodes : pfnLock'[n] = t <=> n \in Elems(c)
    BY <1>1, <1>2, <1>4, <1>5, <2>1
  <2>. QED BY <1>6, <2>1, <2>2 DEF InserterHolds, Owns
<1>12. BatchIs(t, c)'
  <2>1. \A k \in 1..(Len(c) - 1) : flink'[c[k]] = flink[c[k]]
    <3>1. ASSUME NEW k \in 1..(Len(c) - 1) PROVE c[k] # fwd[t] /\ c[k] \in Nodes
      <4>1. k \in 1..Len(c) /\ Len(c) \in 1..Len(c) /\ k # Len(c)
        BY <1>5
      <4>. QED BY <1>4, <1>5, <4>1 DEF BatchIs
    <3>. QED BY <1>10, <3>1
  <2>. QED BY <1>2, <1>4, <2>1 DEF BatchIs
<1>13. InserterBrings(t, c, S, pv)'
  BY <1>2, <1>4, <1>6, <1>12 DEF InserterBrings
<1>14. InserterWrites(t, S, pv, c, c)
  BY <1>2, <1>5, <1>6, <1>9, <1>10, <1>11, <1>13, <1>1 DEF InserterWrites
<1>15. Sizes(o)'
  <2>1. JoiningOf(t)' = count[t] /\ JoiningOf(t) = count[t] /\ LeavingOf(t)' = 0 /\ LeavingOf(t) = 0
        /\ list_size' = list_size /\ list_size \in Int /\ count[t] \in Nat
    BY <1>1, <1>2, <1>6 DEF JoiningOf, LeavingOf, FieldsOK
  <2>2. Len(o) - Len(o) = (list_size' - list_size) + (JoiningOf(t)' - JoiningOf(t))
                              - (LeavingOf(t)' - LeavingOf(t))
    BY <1>1, <2>1
  <2>. QED BY <1>1, <1>7, <1>8, <2>2, SizesStep
<1>16. \A u \in Threads \ {t} : ch[u] = ch[u]
  OBVIOUS
<1>. QED BY <1>3, <1>7, <1>8, <1>14, <1>15, <1>16, InserterLeaves

\* An inserter counts its batch.
LEMMA InsertCountStep ==
    ASSUME NEW o, NEW S, NEW sc, NEW pv, NEW ch, NEW g, Shape(o, S, sc, pv, ch, g),
           NEW t \in Inserters, InsertCount(t)
    PROVE  Steps(o)
<1>1. /\ FieldsOK /\ ListLock /\ t \in Threads /\ InserterHolds(t, ch[t]) /\ InserterBrings(t, ch[t], S, pv)
      /\ t \notin Faulters /\ t \notin Removers /\ Sizes(o) /\ Len(o) \in Nat
  <2>1. Ring(o, S, sc, pv)
    BY DEF Shape
  <2>2. Len(o) \in Nat
    BY <2>1 DEF Ring
  <2>. QED BY <2>2, Kinds DEF Shape
<1>2. /\ pc[t] = "size" /\ pc' = [pc EXCEPT ![t] = "unlock"]
      /\ blink' = blink /\ flink' = flink /\ pfnLock' = pfnLock /\ readers' = readers
      /\ exclusive' = exclusive /\ list_size' = list_size + count[t] /\ listed' = listed
      /\ page' = page /\ fwd' = fwd /\ bck' = bck /\ count' = count
  BY DEF InsertCount, Goto, LocalsUnchanged, locks
<1>3. pc'[t] = "unlock" /\ count[t] \in Nat
  BY <1>1, <1>2 DEF FieldsOK
<1>4. FieldsOK' /\ Others(t) /\ ListLock'
  BY <1>1, <1>2, <1>3 DEF FieldsOK, Others, ListLock
<1>5. InserterHolds(t, ch[t])'
  BY <1>1, <1>2, <1>3 DEF InserterHolds, Owns
<1>6. InserterBrings(t, ch[t], S, pv)'
  BY <1>1, <1>2, <1>3 DEF InserterBrings, BatchIs
<1>7. Sizes(o)'
  <2>1. JoiningOf(t)' = 0 /\ JoiningOf(t) = count[t] /\ LeavingOf(t)' = 0 /\ LeavingOf(t) = 0
        /\ list_size' = list_size + count[t] /\ list_size \in Int
    BY <1>1, <1>2, <1>3 DEF JoiningOf, LeavingOf, FieldsOK
  <2>2. Len(o) - Len(o) = (list_size' - list_size) + (JoiningOf(t)' - JoiningOf(t))
                              - (LeavingOf(t)' - LeavingOf(t))
    BY <1>1, <1>3, <2>1
  <2>. QED BY <1>1, <1>4, <2>2, SizesStep
<1>8. \A u \in Threads \ {t} : ch[u] = ch[u]
  OBVIOUS
<1>9. InserterWrites(t, S, pv, ch[t], ch[t])
  BY <1>2, <1>3, <1>4, <1>5, <1>6 DEF InserterWrites
<1>. QED BY <1>4, <1>7, <1>8, <1>9, InserterLeaves

\* An inserter lets go of a page of its batch, which is listed from then on.
LEMMA InsertUnlockStep ==
    ASSUME NEW o, NEW S, NEW sc, NEW pv, NEW ch, NEW g, Shape(o, S, sc, pv, ch, g),
           NEW t \in Inserters, InsertUnlock(t)
    PROVE  Steps(o)
<1>1. /\ FieldsOK /\ ListLock /\ t \in Threads /\ InserterHolds(t, ch[t]) /\ InserterBrings(t, ch[t], S, pv)
      /\ t \notin Faulters /\ t \notin Removers /\ Sizes(o) /\ Len(o) \in Nat
  <2>1. Ring(o, S, sc, pv)
    BY DEF Shape
  <2>2. Len(o) \in Nat
    BY <2>1 DEF Ring
  <2>. QED BY <2>2, Kinds DEF Shape
<1>2. /\ pc[t] = "unlock" /\ listed' = listed \cup {page[t]}
      /\ pfnLock' = [pfnLock EXCEPT ![page[t]] = NoThread]
      /\ count' = [count EXCEPT ![t] = @ - 1]
      /\ flink' = flink /\ blink' = blink /\ readers' = readers /\ exclusive' = exclusive
      /\ list_size' = list_size /\ bck' = bck
  BY DEF InsertUnlock
<1>3. PICK c : c = ch[t]
  OBVIOUS
<1>4. /\ BatchIs(t, c) /\ Elems(c) \cap listed = {} /\ Elems(c) \subseteq S
      /\ \A n \in Nodes : pfnLock[n] = t <=> n \in Elems(c)
      /\ t \notin readers /\ exclusive # t
  BY <1>1, <1>2, <1>3 DEF InserterBrings, InserterHolds, Owns
<1>5. /\ c \in Seq(Pages) /\ Len(c) \in Nat /\ Len(c) > 0 /\ Len(c) = count[t] /\ c[1] = page[t]
      /\ \A k \in 1..(Len(c) - 1) : flink[c[k]] = c[k + 1]
      /\ \A j, k \in 1..Len(c) : c[j] = c[k] => j = k
  BY <1>4 DEF BatchIs
<1>6. PICK d : d = [k \in 1..(Len(c) - 1) |-> c[k + 1]]
  OBVIOUS
<1>7. /\ d \in Seq(Pages) /\ Len(d) \in Nat /\ Len(d) = Len(c) - 1
      /\ \A k \in 1..Len(d) : d[k] = c[k + 1] /\ k + 1 \in 1..Len(c)
  BY <1>5, <1>6, TailIs
<1>8. Elems(d) = Elems(c) \ {page[t]}
  BY <1>5, <1>6, TailIs
<1>9. /\ page[t] \in Elems(c) /\ page[t] \in Pages /\ page[t] \in Nodes /\ pfnLock[page[t]] = t
      /\ \A p \in Elems(c) : p \in Nodes
  <2>1. c[1] \in Elems(c)
    BY <1>5 DEF Elems
  <2>2. \A p \in Elems(c) : p \in Pages /\ p \in Nodes /\ pfnLock[p] = t
    BY <1>2, <1>3, InserterFacts
  <2>. QED BY <1>5, <2>1, <2>2
<1>10. \A n \in Nodes : pfnLock'[n] = IF n = page[t] THEN NoThread ELSE pfnLock[n]
  BY <1>1, <1>2 DEF FieldsOK
<1>11. pfnLock' \in [Nodes -> Threads \cup {NoThread}] /\ count' \in [Threads -> Nat]
       /\ count'[t] = Len(d)
  <2>1. Len(d) = count[t] - 1
    BY <1>5, <1>7
  <2>. QED BY <1>1, <1>2, <1>7, <2>1 DEF FieldsOK
<1>12. \/ /\ Len(d) = 0 /\ pc' = [pc EXCEPT ![t] = "idle"] /\ page' = [page EXCEPT ![t] = Nil]
          /\ fwd' = [fwd EXCEPT ![t] = Nil]
       \/ /\ Len(d) > 0 /\ page' = [page EXCEPT ![t] = d[1]] /\ pc' = pc /\ fwd' = fwd
  <2>1. CASE count[t] = 1
    <3>1. Len(d) = 0
      BY <1>5, <1>7, <2>1
    <3>. QED BY <2>1, <3>1 DEF InsertUnlock
  <2>2. CASE count[t] # 1
    <3>1. Len(d) > 0 /\ 1 \in 1..Len(d) /\ 1 \in 1..(Len(c) - 1)
      BY <1>5, <1>7, <2>2
    <3>2. d[1] = flink[page[t]]
      BY <1>5, <1>7, <3>1
    <3>. QED BY <2>2, <3>1, <3>2 DEF InsertUnlock
  <2>. QED BY <2>1, <2>2
<1>13. Len(d) > 0 => d[1] \in Pages
  BY <1>7
<1>14. /\ Len(d) = 0 => pc'[t] = "idle"
       /\ Len(d) > 0 => pc'[t] = "unlock" /\ page'[t] = d[1]
       /\ pc'[t] \in {"idle", "unlock"}
  <2>1. CASE Len(d) = 0 /\ pc' = [pc EXCEPT ![t] = "idle"]
    BY <1>1, <2>1 DEF FieldsOK
  <2>2. CASE Len(d) > 0 /\ page' = [page EXCEPT ![t] = d[1]] /\ pc' = pc
    <3>1. pc'[t] = "unlock" /\ page'[t] = d[1]
      BY <1>1, <1>2, <2>2 DEF FieldsOK
    <3>2. Len(d) # 0
      BY <1>7, <2>2
    <3>. QED BY <3>1, <3>2
  <2>. QED BY <1>12, <2>1, <2>2
<1>15. FieldsOK'
  <2>1. page' \in [Threads -> Pages \cup {Nil}] /\ fwd' \in [Threads -> Nodes \cup {Nil}]
    BY <1>1, <1>12, <1>13 DEF FieldsOK
  <2>. QED BY <1>1, <1>2, <1>9, <1>11, <1>12, <2>1 DEF FieldsOK
<1>16. Others(t)
  <2>1. \A u \in Threads \ {t} : /\ pc'[u] = pc[u] /\ page'[u] = page[u] /\ fwd'[u] = fwd[u]
                                 /\ bck'[u] = bck[u] /\ count'[u] = count[u]
    BY <1>1, <1>2, <1>12 DEF FieldsOK
  <2>2. \A u \in Threads \ {t}, n \in Nodes : pfnLock'[n] = u <=> pfnLock[n] = u
    BY <1>9, <1>10, Kinds
  <2>. QED BY <1>2, <2>1, <2>2 DEF Others
<1>17. ListLock'
  BY <1>1, <1>2 DEF ListLock
<1>18. InserterHolds(t, d)'
  <2>1. \A n \in Nodes : pfnLock'[n] = t <=> n \in Elems(d)
    BY <1>1, <1>4, <1>8, <1>10, Kinds
  <2>2. Len(d) = 0 => Elems(d) = {}
    BY DEF Elems
  <2>3. t \notin readers' /\ exclusive' # t
    BY <1>2, <1>4
  <2>4. pc'[t] = "idle" => Len(d) = 0
    BY <1>7, <1>14
  <2>. QED BY <1>14, <2>1, <2>2, <2>3, <2>4 DEF InserterHolds, Owns
<1>19. Len(d) > 0 => BatchIs(t, d)'
  <2>1. \A k \in 1..(Len(d) - 1) : flink[d[k]] = d[k + 1]
    <3>1. ASSUME NEW k \in 1..(Len(d) - 1) PROVE flink[d[k]] = d[k + 1]
      <4>1. k \in 1..Len(d) /\ k + 1 \in 1..Len(d) /\ k + 1 \in 1..(Len(c) - 1)
        BY <1>7
      <4>2. d[k] = c[k + 1] /\ d[k + 1] = c[(k + 1) + 1]
        BY <1>7, <4>1
      <4>. QED BY <1>5, <4>1, <4>2
    <3>. QED BY <3>1
  <2>2. ASSUME NEW j \in 1..Len(d), NEW k \in 1..Len(d), d[j] = d[k] PROVE j = k
    <3>1. j + 1 = k + 1
      BY <1>5, <1>7, <2>2
    <3>. QED BY <3>1
  <2>. QED BY <1>2, <1>7, <1>11, <1>14, <2>1, <2>2 DEF BatchIs
<1>20. InserterBrings(t, d, S, pv)'
  <2>1. Elems(d) \subseteq S /\ Elems(d) \cap listed' = {}
    BY <1>2, <1>4, <1>8
  <2>2. pc'[t] = "unlock" => Len(d) > 0
    BY <1>7, <1>14
  <2>. QED BY <1>14, <1>19, <2>1, <2>2 DEF InserterBrings
<1>21. Sizes(o)'
  <2>1. JoiningOf(t)' = 0 /\ JoiningOf(t) = 0 /\ LeavingOf(t)' = 0 /\ LeavingOf(t) = 0
        /\ list_size' = list_size /\ list_size \in Int
    BY <1>1, <1>2, <1>14 DEF JoiningOf, LeavingOf, FieldsOK
  <2>2. Len(o) - Len(o) = (list_size' - list_size) + (JoiningOf(t)' - JoiningOf(t))
                              - (LeavingOf(t)' - LeavingOf(t))
    BY <1>1, <2>1
  <2>. QED BY <1>1, <1>15, <1>16, <2>2, SizesStep
<1>22. PICK ch2 : ch2 = [u \in Threads |-> IF u = t THEN d ELSE ch[u]]
  OBVIOUS
<1>23. ch2[t] = d /\ \A u \in Threads \ {t} : ch2[u] = ch[u]
  BY <1>1, <1>22
<1>24. InserterWrites(t, S, pv, ch[t], ch2[t])
  <2>1. ASSUME NEW p \in Elems(d) PROVE pc'[t] = "unlock"
    <3>1. Len(d) > 0
      BY <1>7, <2>1 DEF Elems
    <3>. QED BY <1>14, <3>1
  <2>2. \A p \in Elems(c) : p \notin listed' => p \in Elems(d) /\ pc'[t] \in {"size", "unlock"}
    BY <1>2, <1>8, <2>1
  <2>3. listed \subseteq listed' /\ listed' \ listed \subseteq Elems(c)
    BY <1>2, <1>9
  <2>. QED BY <1>2, <1>3, <1>17, <1>18, <1>20, <1>23, <2>2, <2>3 DEF InserterWrites
<1>. QED BY <1>15, <1>16, <1>21, <1>23, <1>24, InserterLeaves

-----------------------------------------------------------------------------
(* A batch that is chained.                                                *)

\* A batch has a page at least, and each of its pages once.
LEMMA BatchFacts ==
    ASSUME NEW c \in Batches
    PROVE  /\ c \in Seq(Pages) /\ Len(c) \in Nat /\ Len(c) > 0 /\ Len(c) \in 1..Len(c)
           /\ \A j, k \in 1..Len(c) : c[j] = c[k] => j = k
           /\ \A k \in 1..Len(c) : c[k] \in Elems(c)
           /\ \A p \in Elems(c) : p \in Pages /\ p \in Nodes /\ p # ListHead
<1>1. PICK n \in 1..InsertBatch : c \in [1..n -> Pages]
  BY DEF Batches
<1>2. n \in Nat /\ n > 0
  BY <1>1
<1>3. c \in Seq(Pages) /\ Len(c) = n
  BY <1>1, <1>2
<1>4. \A j, k \in 1..Len(c) : c[j] = c[k] => j = k
  BY DEF Batches
<1>5. \A k \in 1..Len(c) : c[k] \in Elems(c) /\ c[k] \in Pages
  BY <1>3 DEF Elems
<1>6. \A p \in Elems(c) : p \in Pages /\ p \in Nodes /\ p # ListHead
  BY <1>5, Heads DEF Elems
<1>. QED BY <1>2, <1>3, <1>4, <1>5, <1>6

\* What the caller of an insertion does with its pages.
LEMMA Chained ==
    ASSUME FieldsOK, NEW t \in Inserters, NEW c \in Batches, InsertBegin(t, c)
    PROVE  /\ \A k \in 1..Len(c) : /\ flink'[c[k]] = IF k = Len(c) THEN Nil ELSE c[k + 1]
                                   /\ blink'[c[k]] = IF k = 1 THEN Nil ELSE c[k - 1]
           /\ \A m \in Nodes : m \notin Elems(c) => flink'[m] = flink[m] /\ blink'[m] = blink[m]
           /\ \A m \in Nodes : pfnLock'[m] = IF m \in Elems(c) THEN t ELSE pfnLock[m]
           /\ \A p \in Elems(c) : p \notin listed /\ pfnLock[p] = NoThread
           /\ flink' \in [Nodes -> Nodes \cup {Nil}] /\ blink' \in [Nodes -> Nodes \cup {Nil}]
           /\ pfnLock' \in [Nodes -> Threads \cup {NoThread}]
<1>. DEFINE n == Len(c)
            Is(m) == \E i \in 1..n : c[i] = m
            At(m) == CHOOSE i \in 1..n : c[i] = m
<1>1. /\ n \in Nat /\ n > 0 /\ \A j, k \in 1..n : c[j] = c[k] => j = k
      /\ \A k \in 1..n : c[k] \in Elems(c)
      /\ \A p \in Elems(c) : p \in Pages /\ p \in Nodes
  BY BatchFacts
<1>2. /\ \A i \in 1..n : c[i] \notin listed /\ pfnLock[c[i]] = NoThread
      /\ pfnLock' = [m \in Nodes |-> IF Is(m) THEN t ELSE pfnLock[m]]
      /\ flink' = [m \in Nodes |-> IF Is(m) THEN IF At(m) = n THEN Nil ELSE c[At(m) + 1]
                                   ELSE flink[m]]
      /\ blink' = [m \in Nodes |-> IF Is(m) THEN IF At(m) = 1 THEN Nil ELSE c[At(m) - 1]
                                   ELSE blink[m]]
  BY DEF InsertBegin
<1>3. \A m : Is(m) <=> m \in Elems(c)
  BY DEF Elems
<1>4. \A k \in 1..n : At(c[k]) = k
  BY <1>1
<1>. HIDE DEF At, Is
<1>5. ASSUME NEW k \in 1..n
      PROVE  /\ flink'[c[k]] = IF k = n THEN Nil ELSE c[k + 1]
             /\ blink'[c[k]] = IF k = 1 THEN Nil ELSE c[k - 1]
  <2>1. c[k] \in Nodes /\ Is(c[k]) /\ At(c[k]) = k
    BY <1>1, <1>3, <1>4
  <2>. QED BY <1>2, <2>1
<1>6. \A m \in Nodes : m \notin Elems(c) => flink'[m] = flink[m] /\ blink'[m] = blink[m]
  BY <1>2, <1>3
<1>7. \A m \in Nodes : pfnLock'[m] = IF m \in Elems(c) THEN t ELSE pfnLock[m]
  BY <1>2, <1>3
<1>8. \A p \in Elems(c) : p \notin listed /\ pfnLock[p] = NoThread
  BY <1>2 DEF Elems
<1>9. ASSUME NEW k \in 1..n
      PROVE flink'[c[k]] \in Nodes \cup {Nil} /\ blink'[c[k]] \in Nodes \cup {Nil}
  <2>1. k # n => k + 1 \in 1..n
    BY <1>1
  <2>2. k # 1 => k - 1 \in 1..n
    BY <1>1
  <2>. QED BY <1>1, <1>5, <2>1, <2>2
<1>10. \A m \in Nodes : flink'[m] \in Nodes \cup {Nil} /\ blink'[m] \in Nodes \cup {Nil}
  <2>1. \A m \in Elems(c) : flink'[m] \in Nodes \cup {Nil} /\ blink'[m] \in Nodes \cup {Nil}
    BY <1>9 DEF Elems
  <2>. QED BY <2>1, <1>6 DEF FieldsOK
<1>11. flink' \in [Nodes -> Nodes \cup {Nil}] /\ blink' \in [Nodes -> Nodes \cup {Nil}]
  <2>1. flink' = [m \in Nodes |-> flink'[m]] /\ blink' = [m \in Nodes |-> blink'[m]]
    BY <1>2
  <2>. QED BY <1>10, <2>1
<1>12. pfnLock' \in [Nodes -> Threads \cup {NoThread}]
  BY <1>2, Kinds DEF FieldsOK
<1>. QED BY <1>5, <1>6, <1>7, <1>8, <1>11, <1>12

\* An inserter chains its locked pages, which are on no list.
LEMMA InsertBeginStep ==
    ASSUME NEW o, NEW S, NEW sc, NEW pv, NEW ch, NEW g, Shape(o, S, sc, pv, ch, g),
           NEW t \in Inserters, NEW c \in Batches, InsertBegin(t, c)
    PROVE  Steps(o)
<1>1. /\ FieldsOK /\ ListLock /\ Ring(o, S, sc, pv) /\ LinksAre(S, sc, pv) /\ StatusAgrees(S, ch)
      /\ t \in Threads /\ t \notin Faulters /\ t \notin Removers
      /\ InserterHolds(t, ch[t]) /\ Sizes(o)
  BY Kinds DEF Shape
<1>2. /\ pc[t] = "idle" /\ pc' = [pc EXCEPT ![t] = "share"]
      /\ page' = [page EXCEPT ![t] = c[1]] /\ fwd' = [fwd EXCEPT ![t] = c[Len(c)]]
      /\ count' = [count EXCEPT ![t] = Len(c)]
      /\ readers' = readers /\ exclusive' = exclusive /\ list_size' = list_size
      /\ listed' = listed /\ bck' = bck
  BY DEF InsertBegin, Goto
<1>3. /\ c \in Seq(Pages) /\ Len(c) \in Nat /\ Len(c) > 0 /\ Len(c) \in 1..Len(c)
      /\ \A j, k \in 1..Len(c) : c[j] = c[k] => j = k
      /\ \A k \in 1..Len(c) : c[k] \in Elems(c)
      /\ \A p \in Elems(c) : p \in Pages /\ p \in Nodes /\ p # ListHead
  BY BatchFacts
<1>4. /\ \A k \in 1..Len(c) : /\ flink'[c[k]] = IF k = Len(c) THEN Nil ELSE c[k + 1]
                              /\ blink'[c[k]] = IF k = 1 THEN Nil ELSE c[k - 1]
      /\ \A m \in Nodes : m \notin Elems(c) => flink'[m] = flink[m] /\ blink'[m] = blink[m]
      /\ \A m \in Nodes : pfnLock'[m] = IF m \in Elems(c) THEN t ELSE pfnLock[m]
      /\ \A p \in Elems(c) : p \notin listed /\ pfnLock[p] = NoThread
      /\ flink' \in [Nodes -> Nodes \cup {Nil}] /\ blink' \in [Nodes -> Nodes \cup {Nil}]
      /\ pfnLock' \in [Nodes -> Threads \cup {NoThread}]
  BY <1>1, Chained
<1>5. Elems(c) \cap S = {}
  <2>1. SUFFICES ASSUME NEW p \in Elems(c), p \in S PROVE FALSE
    OBVIOUS
  <2>2. PICK i \in Inserters : pc[i] \in {"link2", "size", "unlock"} /\ p \in Elems(ch[i])
    BY <1>1, <1>4, <2>1 DEF StatusAgrees
  <2>3. pfnLock[p] = i
    BY <2>2, InserterFacts
  <2>. QED BY <1>4, <2>1, <2>3, Kinds
<1>6. \A n \in On(S) : n \in Nodes /\ flink'[n] = flink[n] /\ blink'[n] = blink[n]
  <2>1. On(S) \subseteq Nodes
    BY <1>1, RingFacts
  <2>. QED BY <1>3, <1>4, <1>5, <2>1 DEF On
<1>7. pc'[t] = "share" /\ page'[t] = c[1] /\ fwd'[t] = c[Len(c)] /\ count'[t] = Len(c)
  BY <1>1, <1>2 DEF FieldsOK
<1>8. FieldsOK'
  <2>1. c[1] \in Pages /\ c[Len(c)] \in Nodes
    BY <1>3
  <2>2. page' \in [Threads -> Pages \cup {Nil}] /\ fwd' \in [Threads -> Nodes \cup {Nil}]
        /\ count' \in [Threads -> Nat]
    BY <1>1, <1>2, <1>3, <2>1 DEF FieldsOK
  <2>. QED BY <1>1, <1>2, <1>4, <2>2 DEF FieldsOK
<1>9. Others(t)
  <2>1. \A u \in Threads \ {t}, m \in Nodes : pfnLock'[m] = u <=> pfnLock[m] = u
    BY <1>4, Kinds
  <2>. QED BY <1>1, <1>2, <2>1 DEF Others, FieldsOK
<1>10. ListLock'
  BY <1>1, <1>2 DEF ListLock
<1>11. PICK ch2 : ch2 = [u \in Threads |-> IF u = t THEN c ELSE ch[u]]
  OBVIOUS
<1>12. ch2[t] = c /\ \A u \in Threads \ {t} : ch2[u] = ch[u]
  BY <1>1, <1>11
<1>13. LinksAre(S, sc, pv)'
  <2>1. \A n : (Loose(n) => Loose(n)') /\ (Owed(n) => Owed(n)')
    BY <1>1, <1>2, <1>9, DebtsKept
  <2>. QED BY <1>1, <1>6, <2>1 DEF LinksAre
<1>14. ASSUME NEW u \in Faulters PROVE FaulterHolds(u)' /\ FaulterSees(u, S)' /\ FaulterUnlinks(u, S, sc, pv)'
  <2>1. \A v \in Faulters : FaulterSees(v, S)
    BY DEF Shape
  <2>2. \A v \in Faulters \ {t} : /\ pc[v] # "idle" => page[v] \in listed'
                                  /\ Viewing(v) => page[v] \in S
                                  /\ pc[v] \in {"unlink2", "count"} => page[v] \notin S
    BY <1>2, <2>1 DEF FaulterSees
  <2>3. u \in Faulters \ {t}
    BY <1>1
  <2>4. pc[u] = "unlink2" => /\ fwd[u] \in On(S) /\ bck[u] \in On(S)
                             /\ sc[bck[u]] = fwd[u] /\ pv[fwd[u]] = bck[u]
                             /\ blink'[fwd[u]] = blink[fwd[u]]
    BY <1>6, FaulterFacts
  <2>5. FaulterUnlinks(u, S, sc, pv)'
    BY <1>1, <1>9, <2>3, <2>4, OtherUnlinks
  <2>6. FaulterHolds(u)'
    BY <1>1, <1>9, <1>12, <2>3, OthersHold
  <2>7. FaulterSees(u, S)'
    BY <1>1, <1>9, <2>2, <2>3, OthersSee
  <2>. QED BY <2>5, <2>6, <2>7
<1>15. ASSUME NEW u \in Removers PROVE RemoverHolds(u, ch2[u])' /\ RemoverTakes(u, ch2[u], o, S, sc)'
  <2>1. u \in Removers \ {t} /\ ch2[u] = ch[u]
    BY <1>1, <1>12, Kinds
  <2>2. pc[u] \in {"extend", "detach", "detach2", "size", "consume"} =>
           \A p \in Elems(ch[u]) : pfnLock[p] = u /\ p \in Nodes /\ p \in listed
    BY RemoverFacts
  <2>3. pc[u] \in {"extend", "detach", "detach2", "size", "consume"} =>
           \A p \in Elems(ch[u]) : flink'[p] = flink[p] /\ p \in listed'
    BY <1>2, <1>4, <2>2
  <2>4. pc[u] \in {"detach2", "size", "consume"} => Elems(ch[u]) \cap S = {}
    BY DEF Shape, RemoverTakes
  <2>5. RemoverTakes(u, ch[u], o, S, sc)'
    BY <1>1, <1>9, <2>1, <2>3, <2>4, OtherTakes
  <2>6. RemoverHolds(u, ch2[u])'
    BY <1>1, <1>9, <1>12, <2>1, OthersHold
  <2>. QED BY <2>1, <2>5, <2>6
<1>16. ASSUME NEW u \in Inserters \ {t} PROVE InserterHolds(u, ch2[u])' /\ InserterBrings(u, ch2[u], S, pv)'
  <2>1. ch2[u] = ch[u] /\ u # t /\ u # NoThread
    BY <1>12, Kinds
  <2>2. pc[u] # "idle" => \A p \in Elems(ch[u]) : p \notin listed /\ pfnLock[p] = u /\ p \in Nodes
    BY InserterFacts
  <2>3. pc[u] # "idle" => \A p \in Elems(ch[u]) : /\ flink'[p] = flink[p] /\ p \notin listed'
                                                  /\ blink'[p] = blink[p]
    BY <1>2, <1>4, <2>1, <2>2
  <2>4. /\ pc[u] \in {"share", "head", "tail", "link"} => Elems(ch[u]) \cap S = {}
        /\ pc[u] \in {"link2", "size", "unlock"} => Elems(ch[u]) \subseteq S
    BY DEF Shape, InserterBrings
  <2>5. pc[u] \in {"share", "head", "tail", "link"} =>
           Elems(ch[u]) \cap S = {} /\ \A p \in Elems(ch[u]) : blink'[p] = blink[p]
    BY <2>3, <2>4
  <2>6. pc[u] # "idle" => \A p \in Elems(ch[u]) : flink'[p] = flink[p] /\ p \notin listed'
    BY <2>3
  <2>7. InserterBrings(u, ch[u], S, pv)'
    BY <1>1, <1>9, <2>4, <2>5, <2>6, OtherBrings
  <2>8. InserterHolds(u, ch2[u])'
    BY <1>1, <1>9, <1>12, OthersHold
  <2>. QED BY <2>1, <2>7, <2>8
<1>17. InserterHolds(t, c)'
  <2>1. t \notin readers /\ exclusive # t /\ \A n \in Nodes : pfnLock[n] # t
    BY <1>1, <1>2 DEF InserterHolds, Owns
  <2>2. \A n \in Nodes : pfnLock'[n] = t <=> n \in Elems(c)
    BY <1>4, <2>1
  <2>. QED BY <1>2, <1>7, <2>1, <2>2 DEF InserterHolds, Owns
<1>18. BatchIs(t, c)'
  <2>1. ASSUME NEW k \in 1..(Len(c) - 1) PROVE flink'[c[k]] = c[k + 1]
    <3>1. k \in 1..Len(c) /\ k # Len(c)
      BY <1>3
    <3>. QED BY <1>4, <3>1
  <2>. QED BY <1>3, <1>7, <2>1 DEF BatchIs
<1>19. InserterBrings(t, c, S, pv)'
  <2>1. ASSUME NEW k \in 1..(Len(c) - 1) PROVE blink'[c[k + 1]] = c[k]
    <3>1. k + 1 \in 1..Len(c) /\ k + 1 # 1 /\ (k + 1) - 1 = k
      BY <1>3
    <3>. QED BY <1>4, <3>1
  <2>2. flink'[c[Len(c)]] = Nil
    BY <1>3, <1>4
  <2>3. Elems(c) \cap listed' = {}
    BY <1>2, <1>4
  <2>. QED BY <1>5, <1>7, <1>18, <2>1, <2>2, <2>3 DEF InserterBrings
<1>20. ASSUME NEW u \in Inserters PROVE InserterHolds(u, ch2[u])' /\ InserterBrings(u, ch2[u], S, pv)'
  BY <1>12, <1>16, <1>17, <1>19
<1>21. StatusAgrees(S, ch2)'
  <2>1. \A u \in Threads \ {t} : pc'[u] = pc[u] /\ page'[u] = page[u]
    BY <1>9 DEF Others
  <2>2. ASSUME NEW p \in S, p \notin listed
        PROVE  \E i \in Inserters : pc'[i] \in {"link2", "size", "unlock"} /\ p \in Elems(ch2[i])
    <3>1. PICK i \in Inserters : pc[i] \in {"link2", "size", "unlock"} /\ p \in Elems(ch[i])
      BY <1>1, <2>2 DEF StatusAgrees
    <3>2. i \in Threads \ {t}
      BY <1>2, <3>1, Kinds
    <3>. QED BY <1>12, <2>1, <3>1, <3>2
  <2>3. ASSUME NEW p \in listed, p \notin S
        PROVE  \/ \E u \in Faulters : pc'[u] \in {"unlink2", "count"} /\ page'[u] = p
               \/ \E r \in Removers : pc'[r] \in {"detach2", "size", "consume"} /\ p \in Elems(ch2[r])
    <3>1. CASE \E u \in Faulters : pc[u] \in {"unlink2", "count"} /\ page[u] = p
      BY <1>1, <2>1, <3>1, Kinds
    <3>2. CASE \E r \in Removers : pc[r] \in {"detach2", "size", "consume"} /\ p \in Elems(ch[r])
      <4>1. PICK r \in Removers : pc[r] \in {"detach2", "size", "consume"} /\ p \in Elems(ch[r])
        BY <3>2
      <4>2. r \in Threads \ {t}
        BY <1>1, Kinds
      <4>. QED BY <1>12, <2>1, <4>1, <4>2
    <3>. QED BY <1>1, <2>3, <3>1, <3>2 DEF StatusAgrees
  <2>. QED BY <1>2, <2>2, <2>3 DEF StatusAgrees
<1>22. OneGap(g, S, sc, pv)' /\ NeighboursMeet(sc)' /\ NeighboursWait' /\ ExclusiveIsAlone(sc, pv)'
  BY <1>1, <1>9, ViewsKept
<1>23. Sizes(o)'
  <2>0. Len(o) \in Nat
    BY <1>1 DEF Ring
  <2>1. JoiningOf(t)' = 0 /\ JoiningOf(t) = 0 /\ LeavingOf(t)' = 0 /\ LeavingOf(t) = 0
        /\ list_size' = list_size /\ list_size \in Int
    BY <1>1, <1>2, <1>7 DEF JoiningOf, LeavingOf, FieldsOK
  <2>2. Len(o) - Len(o) = (list_size' - list_size) + (JoiningOf(t)' - JoiningOf(t))
                              - (LeavingOf(t)' - LeavingOf(t))
    BY <2>0, <2>1
  <2>. QED BY <1>1, <1>8, <1>9, <2>0, <2>2, SizesStep
<1>24. Shape(o, S, sc, pv, ch2, g)'
  BY <1>1, <1>8, <1>10, <1>13, <1>14, <1>15, <1>20, <1>21, <1>22, <1>23 DEF Shape, Ring
<1>. QED BY <1>24 DEF Steps

-----------------------------------------------------------------------------
(* A batch that joins the list.                                            *)

\* The queue that grows at its end has grown by the batch.
LEMMA BatchIsAppended ==
    ASSUME NEW o, NEW S, NEW sc, NEW pv, Ring(o, S, sc, pv),
           NEW c \in Seq(Pages), Len(c) > 0,
           NEW q, NEW T, NEW sc2, NEW pv2, Ring(q, T, sc2, pv2), q = o \o c
    PROVE  Queue!BatchAppended(o, q) /\ Len(q) = Len(o) + Len(c)
<1>1. o \in Seq(Pages)
  BY DEF Ring
<1>3. /\ q \in Seq(Pages) /\ Len(q) = Len(o) + Len(c) /\ Len(o) \in Nat /\ Len(c) \in Nat
      /\ \A k \in 1..Len(o) : q[k] = o[k]
  BY <1>1
<1>4. \A j, k \in 1..Len(q) : q[j] = q[k] => j = k
  BY DEF Ring
<1>5. SubSeq(q, 1, Len(o)) = o
  <2>1. /\ SubSeq(q, 1, Len(o)) \in Seq(Pages) /\ Len(SubSeq(q, 1, Len(o))) = Len(o)
        /\ \A k \in 1..Len(o) : SubSeq(q, 1, Len(o))[k] = o[k]
    BY <1>3
  <2>. QED BY <1>1, <1>3, <2>1, SeqEqual
<1>6. Len(q) > Len(o) /\ \A k \in 1..Len(q) : q[k] \in Pages
  BY <1>3
<1>. QED BY <1>3, <1>4, <1>5, <1>6 DEF Queue!BatchAppended

\* The first link of a batch: all that there is to know before the step and after it.
LinksBatch(o, S, sc, pv, ch, g, t, c, B, q, S2, sc2, pv2) ==
    /\ Shape(o, S, sc, pv, ch, g) /\ WithBatch(o, S, sc, pv, c, q, S2, sc2, pv2)
    /\ t \in Inserters /\ t \in Threads /\ t \notin Faulters /\ t \notin Removers
    /\ c = ch[t] /\ B = bck[t] /\ B = pv[ListHead] /\ B \in On(S) /\ sc[B] = ListHead
    /\ c \in Seq(Pages) /\ Len(c) \in Nat /\ Len(c) > 0 /\ Len(c) = count[t]
    /\ pc[t] = "link" /\ pc' = [pc EXCEPT ![t] = "link2"] /\ pc'[t] = "link2"
    /\ BatchIs(t, c) /\ fwd[t] = c[Len(c)] /\ flink[c[Len(c)]] = Nil
    /\ \A k \in 1..(Len(c) - 1) : blink[c[k + 1]] = c[k]
    /\ \A p \in Elems(c) : p \in Pages /\ p \in Nodes /\ p # ListHead /\ pfnLock[p] = t /\ p \notin S
    /\ \A p \in Elems(c) : p \notin On(S) /\ p \notin listed
    /\ \A k \in 1..Len(c) : c[k] \in Elems(c)
    /\ pfnLock[ListHead] = t /\ pfnLock[B] = t /\ exclusive = NoThread
    /\ \A n \in Nodes : flink'[n] = IF n = B THEN c[1] ELSE flink[n]
    /\ \A n \in Nodes : blink'[n] = IF n = c[1] THEN B ELSE blink[n]
    /\ pfnLock' = pfnLock /\ readers' = readers /\ exclusive' = exclusive
    /\ list_size' = list_size /\ listed' = listed
    /\ page' = page /\ fwd' = fwd /\ bck' = bck /\ count' = count
    /\ FieldsOK'

\* The write that puts a batch on the list is a step of the queue.
LEMMA BatchLinked ==
    ASSUME NEW o, NEW S, NEW sc, NEW pv, NEW ch, NEW g, NEW t, NEW c, NEW B,
           NEW q, NEW S2, NEW sc2, NEW pv2,
           LinksBatch(o, S, sc, pv, ch, g, t, c, B, q, S2, sc2, pv2)
    PROVE  Steps(o)
<1>0. /\ Shape(o, S, sc, pv, ch, g)
      /\ Ring(q, S2, sc2, pv2) /\ q = o \o c /\ S2 = S \cup Elems(c)
      /\ \A x \in On(S) : x # B => sc2[x] = sc[x]
      /\ sc2[B] = c[1]
      /\ \A k \in 1..Len(c) : sc2[c[k]] = IF k = Len(c) THEN ListHead ELSE c[k + 1]
      /\ \A x \in S : pv2[x] = pv[x]
      /\ pv2[ListHead] = c[Len(c)]
      /\ \A k \in 1..Len(c) : pv2[c[k]] = IF k = 1 THEN B ELSE c[k - 1]
      /\ t \in Inserters /\ t \in Threads /\ t \notin Faulters /\ t \notin Removers
      /\ c = ch[t] /\ B = bck[t] /\ B = pv[ListHead] /\ B \in On(S) /\ sc[B] = ListHead
      /\ c \in Seq(Pages) /\ Len(c) \in Nat /\ Len(c) > 0 /\ Len(c) = count[t]
      /\ pc[t] = "link" /\ pc' = [pc EXCEPT ![t] = "link2"] /\ pc'[t] = "link2"
      /\ BatchIs(t, c) /\ fwd[t] = c[Len(c)] /\ flink[c[Len(c)]] = Nil
      /\ \A k \in 1..(Len(c) - 1) : blink[c[k + 1]] = c[k]
      /\ \A p \in Elems(c) : p \in Pages /\ p \in Nodes /\ p # ListHead /\ pfnLock[p] = t /\ p \notin S
      /\ \A p \in Elems(c) : p \notin On(S) /\ p \notin listed
      /\ \A k \in 1..Len(c) : c[k] \in Elems(c)
      /\ pfnLock[ListHead] = t /\ pfnLock[B] = t /\ exclusive = NoThread
      /\ \A n \in Nodes : flink'[n] = IF n = B THEN c[1] ELSE flink[n]
      /\ \A n \in Nodes : blink'[n] = IF n = c[1] THEN B ELSE blink[n]
      /\ pfnLock' = pfnLock /\ readers' = readers /\ exclusive' = exclusive
      /\ list_size' = list_size /\ listed' = listed
      /\ page' = page /\ fwd' = fwd /\ bck' = bck /\ count' = count
      /\ FieldsOK'
  BY DEF LinksBatch, WithBatch
<1>1. /\ FieldsOK /\ Ring(o, S, sc, pv) /\ LinksAre(S, sc, pv) /\ StatusAgrees(S, ch)
      /\ ListLock /\ InserterHolds(t, c) /\ Sizes(o)
  BY <1>0 DEF Shape
<1>2. /\ On(S) \subseteq Nodes /\ ListHead \in On(S) /\ S \subseteq On(S)
      /\ \A n \in On(S) : pv[sc[n]] = n /\ sc[pv[n]] = n
      /\ On(S) \subseteq On(S2) /\ Len(o) \in Nat
  <2>1. Len(o) \in Nat
    BY <1>1 DEF Ring
  <2>2. On(S) \subseteq On(S2)
    BY <1>0 DEF On
  <2>. QED BY <1>1, <2>1, <2>2, RingFacts DEF On
<1>3. Others(t)
  BY <1>0, <1>1 DEF Others, FieldsOK
<1>a. /\ Ring(o, S, sc, pv) /\ c \in Seq(Pages) /\ Len(c) > 0
      /\ Ring(q, S2, sc2, pv2) /\ q = o \o c
  BY <1>0, <1>1
<1>b. /\ Shape(o, S, sc, pv, ch, g) /\ FieldsOK /\ FieldsOK' /\ t \in Threads /\ Others(t)
      /\ Sizes(o) /\ Len(o) \in Nat
  BY <1>0, <1>1, <1>2, <1>3
<1>4. Queue!BatchAppended(o, q) /\ Len(q) = Len(o) + Len(c)
  BY <1>a, BatchIsAppended
<1>5. \A u \in Removers : pc[u] \notin {"first", "next", "extend", "detach", "detach2"}
  BY <1>0, RemoverFacts
<1>6. \A u \in Inserters : u # t => pc[u] \notin {"tail", "link", "link2"}
  BY <1>0, InserterFacts
<1>7. \A n : ~Loose(n)
  BY <1>0, <1>6 DEF Loose
<1>8. \A n : Owed(n) => Owed(n)'
  BY <1>0, <1>3, DebtsKept
<1>9. ASSUME NEW n \in On(S) PROVE flink'[n] = sc2[n]
  <2>1. flink[n] = sc[n] /\ n \in Nodes
    BY <1>1, <1>2, <1>7 DEF LinksAre
  <2>. QED BY <1>0, <2>1
<1>10. ASSUME NEW k \in 1..Len(c) PROVE flink'[c[k]] = sc2[c[k]] \/ Loose(c[k])'
  <2>1. c[k] \in Nodes /\ c[k] # B /\ flink'[c[k]] = flink[c[k]]
    BY <1>0
  <2>2. CASE k = Len(c)
    BY <1>0, <2>2 DEF Loose
  <2>3. CASE k # Len(c)
    <3>1. k \in 1..(Len(c) - 1)
      BY <1>0, <2>3
    <3>2. flink[c[k]] = c[k + 1]
      BY <1>0, <3>1 DEF BatchIs
    <3>. QED BY <1>0, <2>1, <2>3, <3>2
  <2>. QED BY <2>2, <2>3
<1>11. ASSUME NEW n \in S PROVE blink'[n] = pv2[n] \/ Owed(n)'
  <2>0. n \in On(S) /\ n \in Nodes
    BY <1>2
  <2>1. blink[n] = pv[n] \/ Owed(n)
    BY <1>1, <2>0 DEF LinksAre
  <2>2. n # c[1]
    <3>1. 1 \in 1..Len(c)
      BY <1>0
    <3>. QED BY <1>0, <3>1
  <2>. QED BY <1>0, <1>8, <2>0, <2>1, <2>2
<1>12. ASSUME NEW k \in 1..Len(c) PROVE blink'[c[k]] = pv2[c[k]]
  <2>1. c[k] \in Nodes
    BY <1>0
  <2>2. CASE k = 1
    BY <1>0, <2>1, <2>2
  <2>3. CASE k # 1
    <3>1. k - 1 \in 1..(Len(c) - 1) /\ (k - 1) + 1 = k /\ 1 \in 1..Len(c)
      BY <1>0, <2>3
    <3>2. blink[c[k]] = c[k - 1]
      BY <1>0, <3>1
    <3>3. c[k] # c[1]
      BY <1>0, <2>3, <3>1 DEF BatchIs
    <3>. QED BY <1>0, <2>1, <2>3, <3>2, <3>3
  <2>. QED BY <2>2, <2>3
<1>13. LinksAre(S2, sc2, pv2)'
  <2>1. ASSUME NEW n \in On(S2) PROVE flink'[n] = sc2[n] \/ Loose(n)'
    BY <1>0, <1>9, <1>10 DEF On, Elems
  <2>2. Owed(ListHead)'
    BY <1>0 DEF Owed
  <2>3. ASSUME NEW n \in On(S2) PROVE blink'[n] = pv2[n] \/ Owed(n)'
    BY <1>0, <1>11, <1>12, <2>2 DEF On, Elems
  <2>. QED BY <2>1, <2>3 DEF LinksAre
\* Soft faults.
<1>14. ASSUME NEW u \in Faulters, Viewing(u)
       PROVE  page[u] \in S /\ sc2[page[u]] = sc[page[u]] /\ pv2[page[u]] = pv[page[u]]
  <2>1. page[u] \in S /\ (pc[u] # "idle" => pfnLock[page[u]] = u)
    BY <1>0, <1>14, FaulterFacts
  <2>2. page[u] # B
    BY <1>0, <1>14, <2>1 DEF Viewing
  <2>. QED BY <1>0, <1>2, <2>1, <2>2
<1>15. ASSUME NEW u \in Faulters, pc[u] = "unlink2"
       PROVE  /\ fwd[u] \in On(S2) /\ bck[u] \in On(S2)
              /\ sc2[bck[u]] = fwd[u] /\ pv2[fwd[u]] = bck[u]
              /\ blink'[fwd[u]] = blink[fwd[u]]
  <2>1. /\ fwd[u] \in On(S) /\ bck[u] \in On(S) /\ sc[bck[u]] = fwd[u] /\ pv[fwd[u]] = bck[u]
        /\ fwd[u] \in Nodes
    BY <1>0, <1>15, FaulterFacts
  <2>2. pfnLock[fwd[u]] = u \/ pfnLock[bck[u]] = u
    <3>1. FaulterUnlinks(u, S, sc, pv) /\ exclusive # u
      BY <1>0, Kinds DEF Shape
    <3>. QED BY <1>15, <3>1 DEF FaulterUnlinks
  <2>3. fwd[u] # ListHead /\ bck[u] # B
    BY <1>0, <2>1, <2>2
  <2>4. fwd[u] \in S
    BY <2>1, <2>3 DEF On
  <2>5. fwd[u] # c[1]
    <3>1. 1 \in 1..Len(c)
      BY <1>0
    <3>. QED BY <1>0, <2>4, <3>1
  <2>. QED BY <1>0, <1>2, <2>1, <2>3, <2>4, <2>5, ZenonT(30)
<1>16. ASSUME NEW u \in Faulters PROVE FaulterHolds(u)'
  BY <1>0, <1>3, OthersHold
<1>17. ASSUME NEW u \in Faulters PROVE FaulterSees(u, S2)'
  <2>1. \A v \in Faulters : FaulterSees(v, S) /\ (pc[v] # "idle" => pfnLock[page[v]] = v)
    <3>1. \A v \in Faulters : pc[v] # "idle" => pfnLock[page[v]] = v
      BY <1>0, FaulterFacts
    <3>. QED BY <1>0, <3>1 DEF Shape
  <2>2. \A v \in Faulters \ {t} : /\ pc[v] # "idle" => page[v] \in listed'
                                  /\ Viewing(v) => page[v] \in S2
                                  /\ pc[v] \in {"unlink2", "count"} => page[v] \notin S2
    BY <1>0, <2>1 DEF FaulterSees
  <2>. QED BY <1>0, <1>3, <2>2, OthersSee
<1>18. ASSUME NEW u \in Faulters PROVE FaulterUnlinks(u, S2, sc2, pv2)'
  <2>1. u \in Faulters \ {t}
    BY <1>0
  <2>2. pc[u] = "unlink2" => /\ fwd[u] \in On(S2) /\ bck[u] \in On(S2)
                             /\ sc2[bck[u]] = fwd[u] /\ pv2[fwd[u]] = bck[u]
                             /\ blink'[fwd[u]] = blink[fwd[u]]
    BY <1>15
  <2>. QED BY <1>0, <1>3, <2>1, <2>2, OtherUnlinks
\* Removals.
<1>19. ASSUME NEW u \in Removers PROVE RemoverHolds(u, ch[u])' /\ RemoverTakes(u, ch[u], q, S2, sc2)'
  <2>1. u \in Removers \ {t} /\ u # t
    BY <1>0
  <2>2. pc[u] \in {"extend", "detach", "detach2", "size", "consume"} =>
           \A p \in Elems(ch[u]) : pfnLock[p] = u /\ p \in Nodes /\ p \in listed
    BY <1>0, RemoverFacts
  <2>3. pc[u] \in {"extend", "detach", "detach2", "size", "consume"} =>
           \A p \in Elems(ch[u]) : flink'[p] = flink[p] /\ p \in listed'
    BY <1>0, <2>1, <2>2
  <2>4. pc[u] \in {"detach2", "size", "consume"} => Elems(ch[u]) \cap S = {}
    BY <1>0 DEF Shape, RemoverTakes
  <2>5. pc[u] \in {"detach2", "size", "consume"} => Elems(ch[u]) \cap S2 = {}
    BY <1>0, <2>2, <2>4
  <2>6. pc[u] \in {"next", "extend", "detach", "detach2"} => q = o /\ sc2 = sc
    BY <1>5
  <2>7. RemoverTakes(u, ch[u], q, S2, sc2)'
    BY <1>b, <2>1, <2>3, <2>5, <2>6, OtherTakes
  <2>8. RemoverHolds(u, ch[u])'
    BY <1>0, <1>3, <2>1, OthersHold
  <2>. QED BY <2>7, <2>8
\* Insertions.
<1>20. ASSUME NEW u \in Inserters \ {t} PROVE InserterHolds(u, ch[u])' /\ InserterBrings(u, ch[u], S2, pv2)'
  <2>1. u \in Inserters \ {t} /\ u # t
    OBVIOUS
  <2>2. pc[u] # "idle" => \A p \in Elems(ch[u]) : p \notin listed /\ pfnLock[p] = u /\ p \in Nodes
    BY <1>0, InserterFacts
  <2>3. c[1] \in Elems(c)
    <3>1. 1 \in 1..Len(c)
      BY <1>0
    <3>. QED BY <1>0, <3>1
  <2>4. pc[u] # "idle" => \A p \in Elems(ch[u]) : /\ flink'[p] = flink[p] /\ p \notin listed'
                                                  /\ blink'[p] = blink[p] /\ p \notin Elems(c)
    BY <1>0, <2>1, <2>2, <2>3
  <2>5. /\ pc[u] \in {"share", "head", "tail", "link"} => Elems(ch[u]) \cap S = {}
        /\ pc[u] \in {"link2", "size", "unlock"} => Elems(ch[u]) \subseteq S
    BY <1>0 DEF Shape, InserterBrings
  <2>6. pc[u] \in {"share", "head", "tail", "link"} =>
           Elems(ch[u]) \cap S2 = {} /\ \A p \in Elems(ch[u]) : blink'[p] = blink[p]
    BY <1>0, <2>4, <2>5
  <2>7. pc[u] # "idle" => \A p \in Elems(ch[u]) : flink'[p] = flink[p] /\ p \notin listed'
    BY <2>4
  <2>8. pc[u] \in {"link2", "size", "unlock"} => Elems(ch[u]) \subseteq S2
    BY <1>0, <2>5
  <2>9. pc[u] \in {"link", "link2"} => pv2[ListHead] = pv[ListHead]
    BY <1>6, <2>1
  <2>10. InserterBrings(u, ch[u], S2, pv2)'
    <3>1. /\ Shape(o, S, sc, pv, ch, g) /\ t \in Threads /\ Others(t)
      BY <1>b
    <3>. QED BY <3>1, <2>6, <2>7, <2>8, <2>9, OtherBrings
  <2>11. InserterHolds(u, ch[u])'
    BY <1>0, <1>3, OthersHold
  <2>. QED BY <2>10, <2>11
<1>21. InserterHolds(t, c)'
  BY <1>0, <1>1 DEF InserterHolds, Owns
<1>22. InserterBrings(t, c, S2, pv2)'
  <2>1. \A p \in Elems(c) : flink'[p] = flink[p]
    BY <1>0
  <2>2. \A k \in 1..(Len(c) - 1) : k \in 1..Len(c)
    BY <1>0
  <2>3. BatchIs(t, c)'
    BY <1>0, <2>1, <2>2 DEF BatchIs
  <2>4. Len(c) \in 1..Len(c)
    BY <1>0
  <2>5. flink'[c[Len(c)]] = Nil
    BY <1>0, <2>1, <2>4
  <2>6. B \notin Elems(c) /\ Elems(c) \cap listed' = {} /\ Elems(c) \subseteq S2
    BY <1>0
  <2>. QED BY <1>0, <2>3, <2>5, <2>6 DEF InserterBrings
<1>23. ASSUME NEW u \in Inserters PROVE InserterHolds(u, ch[u])' /\ InserterBrings(u, ch[u], S2, pv2)'
  BY <1>0, <1>20, <1>21, <1>22
<1>24. StatusAgrees(S2, ch)'
  <2>1. \A u \in Threads \ {t} : pc'[u] = pc[u] /\ page'[u] = page[u]
    BY <1>3 DEF Others
  <2>2. ASSUME NEW p \in S2, p \notin listed
        PROVE  \E i \in Inserters : pc'[i] \in {"link2", "size", "unlock"} /\ p \in Elems(ch[i])
    <3>1. CASE p \in Elems(c)
      BY <1>0, <3>1
    <3>2. CASE p \in S
      <4>1. PICK i \in Inserters : pc[i] \in {"link2", "size", "unlock"} /\ p \in Elems(ch[i])
        BY <1>1, <2>2, <3>2 DEF StatusAgrees
      <4>2. i \in Threads \ {t}
        BY <1>0, <4>1, Kinds
      <4>. QED BY <2>1, <4>1, <4>2
    <3>. QED BY <1>0, <2>2, <3>1, <3>2
  <2>3. ASSUME NEW p \in listed, p \notin S2
        PROVE  \/ \E u \in Faulters : pc'[u] \in {"unlink2", "count"} /\ page'[u] = p
               \/ \E r \in Removers : pc'[r] \in {"detach2", "size", "consume"} /\ p \in Elems(ch[r])
    <3>1. CASE \E u \in Faulters : pc[u] \in {"unlink2", "count"} /\ page[u] = p
      BY <1>0, <2>1, <3>1, Kinds
    <3>2. CASE \E r \in Removers : pc[r] \in {"detach2", "size", "consume"} /\ p \in Elems(ch[r])
      BY <1>0, <2>1, <3>2, Kinds
    <3>. QED BY <1>0, <1>1, <2>3, <3>1, <3>2 DEF StatusAgrees
  <2>. QED BY <1>0, <2>2, <2>3 DEF StatusAgrees
\* Views.
<1>25. OneGap(g, S, sc, pv)' /\ NeighboursMeet(sc)' /\ NeighboursWait'
  BY <1>0, <1>3, ViewsKept
<1>26. \A u \in Faulters : Viewing(u)' => Viewing(u) /\ page'[u] = page[u]
  BY <1>0, <1>3, Kinds DEF Viewing, Others
<1>27. OneGap(g, S2, sc2, pv2)'
  <2>1. g \in On(S2)
    BY <1>2, <1>25 DEF OneGap
  <2>2. \A u \in Faulters : Viewing(u)' =>
           /\ fwd'[u] # sc2[page'[u]] => page'[u] = g
           /\ bck'[u] # pv2[page'[u]] => pv2[page'[u]] = g
    BY <1>14, <1>25, <1>26 DEF OneGap
  <2>. QED BY <1>25, <2>1, <2>2 DEF OneGap
<1>28. NeighboursMeet(sc2)'
  BY <1>14, <1>25, <1>26 DEF NeighboursMeet
<1>29. ExclusiveIsAlone(sc2, pv2)'
  BY <1>0, Kinds DEF ExclusiveIsAlone
<1>30. Sizes(q)'
  <2>1. JoiningOf(t)' = Len(c) /\ JoiningOf(t) = 0 /\ LeavingOf(t)' = 0 /\ LeavingOf(t) = 0
        /\ list_size \in Int
    BY <1>0, <1>1 DEF JoiningOf, LeavingOf, FieldsOK
  <2>2. Len(q) \in Nat
    BY <1>0, <1>2, <1>4
  <2>3. Len(q) - Len(o) = (list_size' - list_size) + (JoiningOf(t)' - JoiningOf(t))
                              - (LeavingOf(t)' - LeavingOf(t))
    BY <1>0, <1>2, <1>4, <2>1, <2>2
  <2>. QED BY <1>b, <2>2, <2>3, SizesStep
<1>31. ListLock'
  BY <1>0 DEF ListLock
<1>32. Shape(q, S2, sc2, pv2, ch, g)'
  BY <1>0, <1>13, <1>16, <1>17, <1>18, <1>19, <1>23, <1>24, <1>25, <1>27, <1>28, <1>29, <1>30, <1>31
     DEF Shape, Ring
<1>. QED BY <1>4, <1>32 DEF Steps

\* The writes of an inserter that put its batch behind the last page.
LEMMA InsertLinkFirstStep ==
    ASSUME NEW o, NEW S, NEW sc, NEW pv, NEW ch, NEW g, Shape(o, S, sc, pv, ch, g),
           NEW t \in Inserters, InsertLinkFirst(t)
    PROVE  Steps(o)
<1>1. /\ FieldsOK /\ Ring(o, S, sc, pv) /\ t \in Threads /\ t \notin Faulters /\ t \notin Removers
      /\ InserterHolds(t, ch[t]) /\ InserterBrings(t, ch[t], S, pv)
  BY Kinds DEF Shape
<1>2. /\ pc[t] = "link" /\ pc' = [pc EXCEPT ![t] = "link2"]
      /\ flink' = [flink EXCEPT ![bck[t]] = page[t]]
      /\ blink' = [blink EXCEPT ![page[t]] = bck[t]]
      /\ pfnLock' = pfnLock /\ readers' = readers /\ exclusive' = exclusive
      /\ list_size' = list_size /\ listed' = listed
      /\ page' = page /\ fwd' = fwd /\ bck' = bck /\ count' = count
  BY DEF InsertLinkFirst, Goto, LocalsUnchanged, locks
<1>3. PICK c, B : c = ch[t] /\ B = bck[t]
  OBVIOUS
<1>4. /\ BatchIs(t, c) /\ Elems(c) \cap listed = {} /\ fwd[t] = c[Len(c)] /\ flink[fwd[t]] = Nil
      /\ Elems(c) \cap S = {} /\ \A k \in 1..(Len(c) - 1) : blink[c[k + 1]] = c[k]
      /\ B = pv[ListHead]
  BY <1>1, <1>2, <1>3 DEF InserterBrings
<1>5. /\ c \in Seq(Pages) /\ Len(c) \in Nat /\ Len(c) > 0 /\ Len(c) = count[t]
      /\ \A p \in Elems(c) : p \in Pages /\ p \in Nodes /\ p # ListHead /\ pfnLock[p] = t
      /\ \A k \in 1..Len(c) : c[k] \in Elems(c)
      /\ pfnLock[ListHead] = t /\ pfnLock[B] = t /\ t \in readers /\ B \in On(S) /\ B \in Nodes
  <2>1. /\ c \in Seq(Pages) /\ Len(c) \in Nat /\ Len(c) > 0 /\ Len(c) = count[t]
        /\ \A p \in Elems(c) : p \in Pages /\ p \in Nodes /\ p # ListHead /\ pfnLock[p] = t
        /\ \A k \in 1..Len(c) : c[k] \in Elems(c)
    BY <1>2, <1>3, InserterFacts
  <2>2. pfnLock[ListHead] = t /\ pfnLock[B] = t /\ t \in readers /\ B \in On(S) /\ B \in Nodes
    BY <1>2, <1>3, InserterFacts
  <2>. QED BY <2>1, <2>2
<1>6. c[1] = page[t] /\ c[1] \in Elems(c) /\ c[1] \in Nodes /\ \A j, k \in 1..Len(c) : c[j] = c[k] => j = k
  <2>1. 1 \in 1..Len(c)
    BY <1>5
  <2>. QED BY <1>4, <1>5, <2>1 DEF BatchIs
<1>7. exclusive = NoThread
  BY <1>5, ReadersExclude
<1>8. PICK q, S2, sc2, pv2 : WithBatch(o, S, sc, pv, c, q, S2, sc2, pv2)
  BY <1>1, <1>4, <1>5, <1>6, RingAppend
<1>9. sc[B] = ListHead
  <2>1. ListHead \in On(S) /\ \A n \in On(S) : sc[pv[n]] = n
    BY <1>1, RingFacts DEF On
  <2>. QED BY <1>4, <2>1
<1>10. /\ pc'[t] = "link2"
       /\ \A n \in Nodes : flink'[n] = IF n = B THEN c[1] ELSE flink[n]
       /\ \A n \in Nodes : blink'[n] = IF n = c[1] THEN B ELSE blink[n]
  BY <1>1, <1>2, <1>3, <1>6 DEF FieldsOK
<1>11. FieldsOK'
  BY <1>1, <1>2, <1>3, <1>5, <1>6 DEF FieldsOK
<1>12. \A p \in Elems(c) : p \notin S /\ p \notin On(S) /\ p \notin listed
  BY <1>4, <1>5 DEF On
<1>13. LinksBatch(o, S, sc, pv, ch, g, t, c, B, q, S2, sc2, pv2)
  BY <1>1, <1>2, <1>3, <1>4, <1>5, <1>7, <1>8, <1>9, <1>10, <1>11, <1>12 DEF LinksBatch
<1>. QED BY <1>13, BatchLinked

-----------------------------------------------------------------------------
(* Every step.                                                             *)

\* Every step of a soft fault, of every thread.
LEMMA SoftStep ==
    ASSUME NEW o, NEW S, NEW sc, NEW pv, NEW ch, NEW g, Shape(o, S, sc, pv, ch, g),
           NEW t \in Faulters,
           \/ \E p \in Pages : SoftBegin(t, p)
           \/ SoftShared(t) \/ SoftRetry(t) \/ SoftGiveUp(t) \/ (~SoftOvertakes(t) /\ SoftExclusive(t))
    PROVE  Steps(o)
<1>1. CASE \E p \in Pages : SoftBegin(t, p)
  BY <1>1, SoftBeginStep
<1>2. CASE SoftShare(t)
  BY <1>2, SoftShareStep
<1>3. CASE SoftLockFlink(t)
  BY <1>3, SoftLockFlinkStep
<1>4. CASE SoftLockBlink(t)
  BY <1>4, SoftLockBlinkStep
<1>5. CASE SoftUnlinkForward(t)
  BY <1>5, SoftUnlinkForwardStep
<1>6. CASE SoftUnlinkBack(t)
  BY <1>6, SoftUnlinkBackStep
<1>7. CASE SoftDone(t)
  BY <1>7, SoftDoneStep
<1>8. CASE SoftRetry(t) \/ SoftGiveUp(t)
  BY <1>8, SoftRetryStep
<1>9. CASE ~SoftOvertakes(t) /\ SoftExclusive(t)
  BY <1>9, SoftExclusiveStep
<1>. QED BY <1>1, <1>2, <1>3, <1>4, <1>5, <1>6, <1>7, <1>8, <1>9 DEF SoftShared

\* Every step of a remover.
LEMMA RemoveStep ==
    ASSUME NEW o, NEW S, NEW sc, NEW pv, NEW ch, NEW g, Shape(o, S, sc, pv, ch, g),
           NEW t \in Removers, RemoveShare(t) \/ RemoveShared(t) \/ RemoveRetry(t)
    PROVE  Steps(o)
<1>1. CASE RemoveShare(t)
  BY <1>1, RemoveShareStep
<1>2. CASE RemoveLockHead(t)
  BY <1>2, RemoveLockHeadStep
<1>3. CASE RemoveNothing(t)
  BY <1>3, RemoveNothingStep
<1>4. CASE RemoveLockFirst(t)
  BY <1>4, RemoveLockFirstStep
<1>5. CASE RemoveOnly(t)
  BY <1>5, RemoveOnlyStep
<1>6. CASE RemoveLockNext(t)
  BY <1>6, RemoveLockNextStep
<1>7. CASE RemoveExtend(t)
  BY <1>7, RemoveExtendStep
<1>8. CASE RemoveEnough(t)
  BY <1>8, RemoveEnoughStep
<1>9. CASE RemoveDetachForward(t)
  BY <1>9, RemoveDetachForwardStep
<1>10. CASE RemoveDetachBack(t)
  BY <1>10, RemoveDetachBackStep
<1>11. CASE RemoveCount(t)
  BY <1>11, RemoveCountStep
<1>12. CASE RemoveConsume(t)
  BY <1>12, RemoveConsumeStep
<1>13. CASE RemoveRetry(t)
  BY <1>13, RemoveRetryStep
<1>. QED BY <1>1, <1>2, <1>3, <1>4, <1>5, <1>6, <1>7, <1>8, <1>9, <1>10, <1>11, <1>12, <1>13
         DEF RemoveShared

\* Every step of an inserter.
LEMMA InsertStep ==
    ASSUME NEW o, NEW S, NEW sc, NEW pv, NEW ch, NEW g, Shape(o, S, sc, pv, ch, g),
           NEW t \in Inserters, (\E b \in Batches : InsertBegin(t, b)) \/ Insert(t)
    PROVE  Steps(o)
<1>1. CASE \E b \in Batches : InsertBegin(t, b)
  BY <1>1, InsertBeginStep
<1>2. CASE InsertShare(t)
  BY <1>2, InsertShareStep
<1>3. CASE InsertLockHead(t)
  BY <1>3, InsertLockHeadStep
<1>4. CASE InsertLockTail(t)
  BY <1>4, InsertLockTailStep
<1>5. CASE InsertLinkFirst(t)
  BY <1>5, InsertLinkFirstStep
<1>6. CASE InsertLinkLast(t)
  BY <1>6, InsertLinkLastStep
<1>7. CASE InsertCount(t)
  BY <1>7, InsertCountStep
<1>8. CASE InsertUnlock(t)
  BY <1>8, InsertUnlockStep
<1>. QED BY <1>1, <1>2, <1>3, <1>4, <1>5, <1>6, <1>7, <1>8 DEF Insert

\* Every step after which no thread has overtaken another one: the list stays a list, and
\* is the queue before the step or after one of its operations.
LEMMA EveryStep ==
    ASSUME NEW o, NEW S, NEW sc, NEW pv, NEW ch, NEW g, Shape(o, S, sc, pv, ch, g),
           Next, ~overtaken'
    PROVE  Steps(o)
<1>1. ASSUME NEW t \in Faulters,
             \/ \E p \in Pages : SoftBegin(t, p)
             \/ SoftShared(t) \/ SoftRetry(t) \/ SoftGiveUp(t) \/ (~SoftOvertakes(t) /\ SoftExclusive(t))
      PROVE  Steps(o)
  BY <1>1, SoftStep
<1>2. ASSUME NEW t \in Removers, RemoveShare(t) \/ RemoveShared(t) \/ RemoveRetry(t) PROVE Steps(o)
  BY <1>2, RemoveStep
<1>3. ASSUME NEW t \in Inserters, (\E b \in Batches : InsertBegin(t, b)) \/ Insert(t) PROVE Steps(o)
  BY <1>3, InsertStep
<1>4. CASE SharedNext
  BY <1>1, <1>2, <1>3, <1>4 DEF SharedNext
<1>5. ASSUME NEW t \in Faulters,
             SoftGiveUp(t) \/ (SoftExclusive(t) /\ overtaken' = (overtaken \/ SoftOvertakes(t)))
      PROVE  Steps(o)
  BY <1>1, <1>5
<1>6. ASSUME NEW t \in Removers, RemoveGiveUp(t), overtaken' = (overtaken \/ flink[ListHead] # ListHead)
      PROVE  Steps(o)
  BY <1>6, RemoveGiveUpStep
<1>7. ASSUME NEW t \in Removers, RemoveWalk(t) \/ RemoveWalked(t) PROVE FALSE
  <2>1. pc[t] = "walk"
    BY <1>7 DEF RemoveWalk, RemoveWalked, Goto
  <2>. QED BY <2>1 DEF Shape, RemoverHolds
<1>. QED BY <1>4, <1>5, <1>6, <1>7 DEF Next, SoftNext

\* Where nothing happens, nothing changes.
LEMMA Stutter ==
    ASSUME NEW o, NEW S, NEW sc, NEW pv, NEW ch, NEW g, Shape(o, S, sc, pv, ch, g), UNCHANGED vars
    PROVE  Steps(o)
<1>1. /\ flink' = flink /\ blink' = blink /\ pfnLock' = pfnLock /\ readers' = readers
      /\ exclusive' = exclusive /\ list_size' = list_size /\ listed' = listed /\ pc' = pc
      /\ page' = page /\ fwd' = fwd /\ bck' = bck /\ count' = count
  BY DEF vars, listVars, locks
<1>2. FieldsOK' /\ ListLock'
  BY <1>1 DEF Shape, FieldsOK, ListLock
<1>3. LinksAre(S, sc, pv)'
  BY <1>1 DEF Shape, LinksAre, Loose, Owed
<1>4. ASSUME NEW t \in Faulters
      PROVE FaulterHolds(t)' /\ FaulterSees(t, S)' /\ FaulterUnlinks(t, S, sc, pv)'
  <2>1. FaulterHolds(t) /\ FaulterSees(t, S) /\ FaulterUnlinks(t, S, sc, pv)
    BY DEF Shape
  <2>2. FaulterHolds(t)'
    BY <1>1, <2>1 DEF FaulterHolds, Owns
  <2>3. FaulterSees(t, S)'
    BY <1>1, <2>1 DEF FaulterSees, Viewing
  <2>4. FaulterUnlinks(t, S, sc, pv)'
    BY <1>1, <2>1 DEF FaulterUnlinks
  <2>. QED BY <2>2, <2>3, <2>4
<1>5. ASSUME NEW t \in Removers PROVE RemoverHolds(t, ch[t])' /\ RemoverTakes(t, ch[t], o, S, sc)'
  <2>1. RemoverHolds(t, ch[t]) /\ RemoverTakes(t, ch[t], o, S, sc)
    BY DEF Shape
  <2>2. RemoverHolds(t, ch[t])'
    BY <1>1, <2>1 DEF RemoverHolds, Owns
  <2>3. RemoverTakes(t, ch[t], o, S, sc)'
    BY <1>1, <2>1 DEF RemoverTakes, BatchIs
  <2>. QED BY <2>2, <2>3
<1>6. ASSUME NEW t \in Inserters PROVE InserterHolds(t, ch[t])' /\ InserterBrings(t, ch[t], S, pv)'
  <2>1. InserterHolds(t, ch[t]) /\ InserterBrings(t, ch[t], S, pv)
    BY DEF Shape
  <2>2. InserterHolds(t, ch[t])'
    BY <1>1, <2>1 DEF InserterHolds, Owns
  <2>3. InserterBrings(t, ch[t], S, pv)'
    BY <1>1, <2>1 DEF InserterBrings, BatchIs
  <2>. QED BY <2>2, <2>3
<1>7. StatusAgrees(S, ch)'
  BY <1>1 DEF Shape, StatusAgrees
<1>8. OneGap(g, S, sc, pv)' /\ NeighboursMeet(sc)'
  BY <1>1 DEF Shape, OneGap, NeighboursMeet, Viewing
<1>9. NeighboursWait' /\ ExclusiveIsAlone(sc, pv)'
  BY <1>1 DEF Shape, NeighboursWait, ExclusiveIsAlone, Viewing
<1>10. Sizes(o)'
  BY <1>1 DEF Shape, Sizes, Joining, Leaving, JoiningOf, LeavingOf
<1>11. Ring(o, S, sc, pv)
  BY DEF Shape
<1>12. Shape(o, S, sc, pv, ch, g)'
  BY <1>2, <1>3, <1>4, <1>5, <1>6, <1>7, <1>8, <1>9, <1>10, <1>11 DEF Shape, Ring
<1>. QED BY <1>12 DEF Steps

-----------------------------------------------------------------------------
(* The empty list.                                                         *)

\* The list of initialize_page_list is empty.
LEMMA InitList == Init => \E sc, pv, ch : Shape(<<>>, {}, sc, pv, ch, ListHead)
<1>. SUFFICES ASSUME Init PROVE \E sc, pv, ch : Shape(<<>>, {}, sc, pv, ch, ListHead)
  OBVIOUS
<1>1. PICK o : o = <<>>
  OBVIOUS
<1>2. o \in Seq(Pages) /\ Len(o) = 0 /\ Elems(o) = {}
  BY <1>1 DEF Elems
<1>3. PICK sc, pv : Ring(o, {}, sc, pv)
  <2>1. \A j, k \in 1..Len(o) : o[j] = o[k] => j = k
    BY <1>2
  <2>2. \E sc, pv : Ring(o, Elems(o), sc, pv)
    BY <1>2, <2>1, RingExists
  <2>. QED BY <1>2, <2>2
<1>4. PICK ch : ch = [t \in Threads |-> <<>>]
  OBVIOUS
<1>5. FieldsOK
  BY Heads DEF Init, FieldsOK, Nodes
<1>6. /\ \A t \in Threads : pc[t] = "idle" /\ t \notin readers /\ exclusive # t
      /\ \A n \in Nodes, t \in Threads : pfnLock[n] # t
      /\ flink[ListHead] = ListHead /\ blink[ListHead] = ListHead
      /\ listed = {} /\ list_size = 0 /\ exclusive = NoThread
  BY Kinds, Heads DEF Init
<1>7. LinksAre({}, sc, pv)
  BY <1>2, <1>3, <1>6 DEF LinksAre, On, Ring
<1>8. ASSUME NEW t \in Faulters
      PROVE FaulterHolds(t) /\ FaulterSees(t, {}) /\ FaulterUnlinks(t, {}, sc, pv)
  BY <1>6, Kinds DEF FaulterHolds, FaulterSees, FaulterUnlinks, Viewing, Owns
<1>9. ASSUME NEW t \in Removers PROVE RemoverHolds(t, ch[t]) /\ RemoverTakes(t, ch[t], o, {}, sc)
  BY <1>6, Kinds DEF RemoverHolds, RemoverTakes, Owns
<1>10. ASSUME NEW t \in Inserters PROVE InserterHolds(t, ch[t]) /\ InserterBrings(t, ch[t], {}, pv)
  BY <1>6, Kinds DEF InserterHolds, InserterBrings, Owns
<1>11. StatusAgrees({}, ch) /\ ListLock
  BY <1>6 DEF StatusAgrees, ListLock
<1>12. \A t \in Faulters : ~Viewing(t) /\ pc[t] # "unlink2"
  BY <1>6, Kinds DEF Viewing
<1>13. OneGap(ListHead, {}, sc, pv) /\ NeighboursMeet(sc) /\ NeighboursWait /\ ExclusiveIsAlone(sc, pv)
  BY <1>12 DEF OneGap, NeighboursMeet, NeighboursWait, ExclusiveIsAlone, On
<1>14. Sizes(o)
  <2>1. IsFiniteSet(Threads)
    BY ListAssumption
  <2>2. \A t \in Threads : Joining[t] = 0 /\ Leaving[t] = 0
    BY <1>6 DEF Joining, Leaving, JoiningOf, LeavingOf
  <2>3. Sum(Joining, Threads) = 0 /\ Sum(Leaving, Threads) = 0
    BY <2>1, <2>2, SumOfZeros
  <2>. QED BY <1>2, <1>6, <2>3 DEF Sizes
<1>15. Shape(o, {}, sc, pv, ch, ListHead)
  BY <1>3, <1>5, <1>7, <1>8, <1>9, <1>10, <1>11, <1>13, <1>14 DEF Shape
<1>. QED BY <1>1, <1>15

-----------------------------------------------------------------------------
(* What the shape says.                                                    *)

\* The flinks lead along the order of the list.
LEMMA OrderIs ==
    \A o, S, sc, pv, ch, g : Shape(o, S, sc, pv, ch, g) =>
        Forward = o /\ OnList = S /\ Len(o) <= MaxLength
<1>. SUFFICES ASSUME NEW o, NEW S, NEW sc, NEW pv, NEW ch, NEW g, Shape(o, S, sc, pv, ch, g)
              PROVE  Forward = o /\ OnList = S /\ Len(o) <= MaxLength
  OBVIOUS
<1>1. Ring(o, S, sc, pv) /\ LinksAre(S, sc, pv)
  BY DEF Shape
<1>2. \A n \in On(S) : flink[n] = sc[n] \/ (n \in S /\ n = pv[ListHead] /\ flink[n] = Nil)
  BY <1>1, LooseFacts DEF LinksAre
<1>. QED BY <1>1, <1>2, ForwardIs

\* When nobody has the list lock, no write is on its way.
LEMMA RestFacts ==
    ASSUME NEW o, NEW S, NEW sc, NEW pv, NEW ch, NEW g, Shape(o, S, sc, pv, ch, g), AtRest
    PROVE  /\ \A t \in Faulters : pc[t] # "unlink2"
           /\ \A t \in Removers : pc[t] # "detach2"
           /\ \A t \in Inserters : pc[t] # "link2"
           /\ \A n \in On(S) : flink[n] = sc[n] /\ blink[n] = pv[n]
<1>1. readers = {} /\ exclusive = NoThread
  BY DEF AtRest
<1>2. ASSUME NEW t \in Faulters PROVE pc[t] # "unlink2"
  <2>1. exclusive # t
    BY <1>1, Kinds
  <2>. QED BY <1>1, <2>1, FaulterFacts
<1>3. ASSUME NEW t \in Removers PROVE pc[t] # "detach2"
  BY <1>1, RemoverFacts
<1>4. ASSUME NEW t \in Inserters PROVE pc[t] # "link2"
  BY <1>1, InserterFacts
<1>5. \A n : ~Loose(n) /\ ~Owed(n)
  BY <1>2, <1>3, <1>4 DEF Loose, Owed
<1>. QED BY <1>2, <1>3, <1>4, <1>5 DEF Shape, LinksAre

\* With nothing on its way, the links agree.
LEMMA ShapeLinks ==
    ASSUME NEW o, NEW S, NEW sc, NEW pv, NEW ch, NEW g, Shape(o, S, sc, pv, ch, g)
    PROVE  LinksAgree
<1>. SUFFICES ASSUME AtRest
              PROVE  /\ Len(Forward) <= MaxLength
                     /\ \A n \in OnList \cup {ListHead} : /\ flink[n] \in Nodes /\ blink[n] \in Nodes
                                                      /\ blink[flink[n]] = n
                                                      /\ flink[blink[n]] = n
  BY DEF LinksAgree
<1>1. Forward = o /\ OnList = S /\ Len(o) <= MaxLength
  BY OrderIs
<1>2. /\ \A n \in On(S) : sc[pv[n]] = n /\ pv[sc[n]] = n /\ sc[n] \in On(S) /\ pv[n] \in On(S)
      /\ On(S) \subseteq Nodes
  <2>1. Ring(o, S, sc, pv)
    BY DEF Shape
  <2>. QED BY <2>1, RingFacts
<1>3. \A n \in On(S) : flink[n] = sc[n] /\ blink[n] = pv[n]
  BY RestFacts
<1>4. \A n \in On(S) : /\ flink[n] \in Nodes /\ blink[n] \in Nodes
                       /\ blink[flink[n]] = n /\ flink[blink[n]] = n
  BY <1>2, <1>3
<1>. QED BY <1>1, <1>4 DEF On

\* With nothing on its way, the pages on the list are those listed.
LEMMA ShapeStatus ==
    ASSUME NEW o, NEW S, NEW sc, NEW pv, NEW ch, NEW g, Shape(o, S, sc, pv, ch, g)
    PROVE  StatusIsTrue
<1>1. OnList = S
  BY OrderIs
<1>2. ASSUME NEW p \in Pages, pfnLock[p] = NoThread PROVE p \in listed <=> p \in S
  <2>0. StatusAgrees(S, ch)
    BY DEF Shape
  <2>1. ASSUME p \in S PROVE p \in listed
    <3>1. ASSUME NEW i \in Inserters, pc[i] \in {"link2", "size", "unlock"}, p \in Elems(ch[i])
          PROVE  FALSE
      <4>1. pfnLock[p] = i
        BY <3>1, InserterFacts
      <4>. QED BY <1>2, <4>1, Kinds
    <3>. QED BY <2>0, <2>1, <3>1 DEF StatusAgrees
  <2>2. ASSUME p \in listed PROVE p \in S
    <3>1. ASSUME NEW u \in Faulters, pc[u] \in {"unlink2", "count"}, page[u] = p PROVE FALSE
      <4>1. pfnLock[p] = u
        BY <3>1, FaulterFacts
      <4>. QED BY <1>2, <4>1, Kinds
    <3>2. ASSUME NEW r \in Removers, pc[r] \in {"detach2", "size", "consume"}, p \in Elems(ch[r])
          PROVE  FALSE
      <4>1. pfnLock[p] = r
        BY <3>2, RemoverFacts
      <4>. QED BY <1>2, <4>1, Kinds
    <3>. QED BY <2>0, <2>2, <3>1, <3>2 DEF StatusAgrees
  <2>. QED BY <2>1, <2>2
<1>. QED BY <1>1, <1>2 DEF StatusIsTrue

\* A batch that is taken is whole.
LEMMA ShapeBatches ==
    ASSUME NEW o, NEW S, NEW sc, NEW pv, NEW ch, NEW g, Shape(o, S, sc, pv, ch, g)
    PROVE  BatchIsTaken
<1>1. OnList = S
  BY OrderIs
<1>. SUFFICES ASSUME NEW t \in Removers, pc[t] \in {"size", "consume"}
              PROVE  LET at == Along(page[t], count[t])
                     IN  /\ count[t] <= BatchCapacity
                         /\ \A k \in 1..count[t] : at[k] \in listed /\ pfnLock[at[k]] = t
                         /\ AtRest => {at[k] : k \in 1..count[t]} \cap OnList = {}
                         /\ \A j, k \in 1..count[t] : j # k => at[j] # at[k]
  BY DEF BatchIsTaken
<1>2. PICK c : c = ch[t]
  OBVIOUS
<1>3. BatchIs(t, c) /\ Len(c) <= BatchCapacity /\ Elems(c) \cap S = {}
  <2>1. RemoverTakes(t, ch[t], o, S, sc)
    BY DEF Shape
  <2>. QED BY <1>2, <2>1 DEF RemoverTakes
<1>4. /\ c \in Seq(Pages) /\ Len(c) \in Nat /\ Len(c) > 0 /\ Len(c) = count[t]
      /\ \A p \in Elems(c) : pfnLock[p] = t /\ p \in listed
      /\ \A k \in 1..Len(c) : c[k] \in Elems(c)
  BY <1>2, RemoverFacts
<1>5. /\ c[1] = page[t] /\ \A k \in 1..(Len(c) - 1) : flink[c[k]] = c[k + 1]
      /\ \A j, k \in 1..Len(c) : c[j] = c[k] => j = k
  BY <1>3 DEF BatchIs
<1>6. Along(page[t], count[t]) = c
  <2>1. Along(c[1], Len(c)) = c
    BY <1>4, <1>5, AlongIs
  <2>. QED BY <1>4, <1>5, <2>1
<1>7. {c[k] : k \in 1..count[t]} = Elems(c)
  BY <1>4 DEF Elems
<1>. QED BY <1>1, <1>3, <1>4, <1>5, <1>6, <1>7

\* With nothing on its way, list_size is the length of the list.
LEMMA ShapeSize ==
    ASSUME NEW o, NEW S, NEW sc, NEW pv, NEW ch, NEW g, Shape(o, S, sc, pv, ch, g)
    PROVE  SizeCounts
<1>. SUFFICES ASSUME AtRest
              PROVE  list_size + Sum(Joined, Threads) - Sum(Taken, Threads) = Len(Forward)
  BY DEF SizeCounts
<1>1. Forward = o /\ Sizes(o)
  BY OrderIs DEF Shape
<1>2. /\ \A t \in Faulters : pc[t] # "unlink2"
      /\ \A t \in Removers : pc[t] # "detach2"
      /\ \A t \in Inserters : pc[t] # "link2"
  BY RestFacts
<1>3. \A t \in Threads : /\ JoiningOf(t) = IF t \in Inserters /\ pc[t] = "size" THEN count[t] ELSE 0
                         /\ LeavingOf(t) = CASE t \in Removers /\ pc[t] = "size" -> count[t]
                                             [] t \in Faulters /\ pc[t] = "count" -> 1
                                             [] OTHER -> 0
  BY <1>2, Kinds DEF JoiningOf, LeavingOf
<1>4. Joined = Joining /\ Taken = Leaving
  BY <1>3 DEF Joined, Taken, Joining, Leaving
<1>. QED BY <1>1, <1>4 DEF Sizes

-----------------------------------------------------------------------------
(* Theorems.                                                               *)

\* A thread that has overtaken another one has done so for ever.
LEMMA OvertakenStays ==
    ASSUME overtaken, [Next]_vars
    PROVE  overtaken'
<1>1. CASE UNCHANGED overtaken
  BY <1>1
<1>2. CASE \E t \in Faulters : overtaken' = (overtaken \/ SoftOvertakes(t))
  BY <1>2
<1>3. CASE overtaken' = (overtaken \/ flink[ListHead] # ListHead)
  BY <1>3
<1>. QED BY <1>1, <1>2, <1>3 DEF Next, SoftNext, vars

OvertakenIsFlag == overtaken \in BOOLEAN

LEMMA OvertakenType == Spec => []OvertakenIsFlag
<1>1. Init => OvertakenIsFlag
  BY DEF Init, OvertakenIsFlag
<1>2. OvertakenIsFlag /\ [Next]_vars => OvertakenIsFlag'
  <2>. SUFFICES ASSUME overtaken \in BOOLEAN, [Next]_vars PROVE overtaken' \in BOOLEAN
    BY DEF OvertakenIsFlag
  <2>1. CASE UNCHANGED overtaken
    BY <2>1
  <2>2. CASE \E t \in Faulters : overtaken' = (overtaken \/ SoftOvertakes(t))
    BY <2>2
  <2>3. CASE overtaken' = (overtaken \/ flink[ListHead] # ListHead)
    BY <2>3
  <2>. QED BY <2>1, <2>2, <2>3 DEF Next, SoftNext, vars
<1>. QED BY <1>1, <1>2, PTL DEF Spec

\* The invariant: the list has a shape, whoever is in the middle of what, until a thread
\* overtakes another one: a soft fault that gives up and takes its page out exclusively
\* while another one has read its neighbours, or a removal that gives up.
THEOREM ListShape == Spec => [](overtaken \/ ListInv)
<1>1. Init => ListInv
  BY InitList DEF ListInv
<1>2. (overtaken \/ ListInv) /\ [Next]_vars => (overtaken' \/ ListInv')
  <2>. SUFFICES ASSUME ListInv, [Next]_vars, ~overtaken' PROVE ListInv'
    BY OvertakenStays
  <2>1. PICK o, S, sc, pv, ch, g : Shape(o, S, sc, pv, ch, g)
    BY DEF ListInv
  <2>2. Steps(o)
    BY <2>1, EveryStep, Stutter
  <2>. QED BY <2>2 DEF Steps, ListInv
<1>. QED BY <1>1, <1>2, PTL DEF Spec

\* The invariant says all that the run checks.
LEMMA ShapeSays ==
    ListInv => /\ FieldsOK /\ EqualNeighboursAreTheHead /\ LinksAgree /\ StatusIsTrue
               /\ BatchIsTaken /\ SizeCounts
<1>. SUFFICES ASSUME NEW o, NEW S, NEW sc, NEW pv, NEW ch, NEW g, Shape(o, S, sc, pv, ch, g)
              PROVE  /\ FieldsOK /\ EqualNeighboursAreTheHead /\ LinksAgree /\ StatusIsTrue
                     /\ BatchIsTaken /\ SizeCounts
  BY DEF ListInv
<1>1. FieldsOK
  BY DEF Shape
<1>2. EqualNeighboursAreTheHead
  BY DEF Shape, FaulterSees, Viewing, EqualNeighboursAreTheHead
<1>. QED BY <1>1, <1>2, ShapeLinks, ShapeStatus, ShapeBatches, ShapeSize

\* Once a thread has overtaken another one, the properties of the list claim nothing.
LEMMA OvertakenSays == overtaken => EqualNeighboursAreTheHead /\ StatusIsTrue /\ SizeCounts
  BY DEF EqualNeighboursAreTheHead, StatusIsTrue, SizeCounts

\* The fields of a list, the locks and what a thread remembers have their types
\* (page_list.h:45-60), until a thread overtakes another one.
THEOREM ListTypes == Spec => [](~overtaken => TypeOK)
<1>1. FieldsOK /\ OvertakenIsFlag => TypeOK
  BY DEF TypeOK, OvertakenIsFlag
<1>. QED BY <1>1, ListShape, ShapeSays, OvertakenType, PTL

\* As long as no thread has overtaken another one: while nobody holds the list lock, the
\* flinks lead round the list and the blinks lead back the same way (validate_list,
\* page_list.c:744-748), however old the neighbours are that a soft fault has read.
THEOREM ListLinksAgree == Spec => []LinksAgreeUntilOvertaken
<1>1. (overtaken \/ ListInv) => LinksAgreeUntilOvertaken
  BY ShapeSays DEF LinksAgreeUntilOvertaken
<1>. QED BY <1>1, ListShape, PTL

\* As long as no thread has overtaken another one: a page whose status says that it is on
\* the list can be reached from the head, and no other page can (the status that a soft
\* fault trusts, fault_handler.c).
THEOREM ListStatusIsTrue == Spec => []StatusIsTrue
  BY ListShape, ShapeSays, OvertakenSays, PTL

\* As long as no thread has overtaken another one: the count[t] pages that a remover has
\* taken follow each other along the flinks, are locked by it and are no longer on the
\* list (remove_batch_from_list_head).
THEOREM ListBatchIsTaken == Spec => []BatchIsTakenUntilOvertaken
<1>1. (overtaken \/ ListInv) => BatchIsTakenUntilOvertaken
  BY ShapeSays DEF BatchIsTakenUntilOvertaken
<1>. QED BY <1>1, ListShape, PTL

\* As long as no thread has overtaken another one: while nobody holds the list lock,
\* list_size and what is on its way to be counted are the length of the list, so that no
\* addition and no subtraction is lost.
THEOREM ListSizeCounts == Spec => []SizeCounts
  BY ListShape, ShapeSays, OvertakenSays, PTL

\* As long as no thread has overtaken another one: the neighbours of a page are the same
\* node only if that is the head; the assertion of page_list.c:229 does not fail.
THEOREM ListAsserts == Spec => []EqualNeighboursAreTheHead
  BY ListShape, ShapeSays, OvertakenSays, PTL

\* A page list is a queue whose batches are put in at the end and taken from the front,
\* whole, and from which a soft fault takes any page; each in one atomic step.  It is one
\* until a soft fault that has given up takes its page out while another one has read its
\* neighbours, or a removal gives up (broken).
THEOREM ListIsQueue == Spec => ImplementsPageQueue
<1>1. Init => Queue!QueueInit
  BY InitList, OrderIs DEF Queue!QueueInit, Init
<1>2. (\A o, S, sc, pv, ch, g : Shape(o, S, sc, pv, ch, g) =>
          Forward = o /\ OnList = S /\ Len(o) <= MaxLength)'
  BY OrderIs, PTL
<1>3. /\ overtaken \/ ListInv
      /\ OvertakenIsFlag /\ OvertakenIsFlag' /\ [Next]_vars
      => [Queue!QueueNext]_<<Forward, overtaken>>
  <2>. SUFFICES ASSUME overtaken \/ ListInv, overtaken \in BOOLEAN, overtaken' \in BOOLEAN,
                       [Next]_vars, ~overtaken'
                PROVE  [Queue!QueueNext]_<<Forward, overtaken>>
    BY DEF Queue!QueueNext, OvertakenIsFlag
  <2>1. ListInv /\ ~overtaken
    BY OvertakenStays
  <2>2. PICK o, S, sc, pv, ch, g : Shape(o, S, sc, pv, ch, g)
    BY <2>1 DEF ListInv
  <2>3. Steps(o)
    BY <2>2, EveryStep, Stutter
  <2>4. PICK o2, S2, sc2, pv2, ch2, g2 :
           /\ Shape(o2, S2, sc2, pv2, ch2, g2)'
           /\ \/ o2 = o
              \/ Queue!BatchAppended(o, o2) \/ Queue!BatchTaken(o, o2) \/ Queue!PageTakenOut(o, o2)
    BY <2>3 DEF Steps
  <2>5. Forward = o
    BY <2>2, OrderIs
  <2>6. Forward' = o2
    BY <1>2, <2>4
  <2>7. overtaken' = overtaken
    BY <2>1
  <2>8. CASE o2 = o
    BY <2>5, <2>6, <2>7, <2>8
  <2>9. CASE Queue!BatchAppended(o, o2) \/ Queue!BatchTaken(o, o2) \/ Queue!PageTakenOut(o, o2)
    <3>1. Queue!QueueOperation
      BY <2>5, <2>6, <2>9 DEF Queue!QueueOperation
    <3>. QED BY <2>1, <3>1 DEF Queue!QueueNext
  <2>. QED BY <2>4, <2>8, <2>9
<1>. QED BY <1>1, <1>3, ListShape, OvertakenType, PTL DEF Spec, ImplementsPageQueue, Queue!QueueSpec
=============================================================================
