--------------------------- MODULE FreePagesProofs ---------------------------
(***************************************************************************)
(* No page is lost between the free lists, the caches, the threads and the *)
(* pruner; page_count is off by the updates on their way; the pruner finds *)
(* the bits that it clears; and no search gives up before it has seen      *)
(* every list.                                                             *)
(***************************************************************************)
EXTENDS FreePages, SumsProofs, FiniteSetTheorems, WellFoundedInduction, TLAPS

OnItsWay(u) == user[u] \in {"unlock", "low", "wake", "fill"}

\* What a user thread holds, where it is.
HandsAreRight ==
    \A u \in Users :
        /\ user[u] = "have" => taken[u] = 1 /\ cache[u] < FreePageCacheSize
        /\ user[u] # "have" /\ ~OnItsWay(u) => taken[u] = 0
        /\ Searching(u) \/ OnItsWay(u) => cache[u] = 0
        /\ user[u] = "steal" => cache[u] = 0

\* The pruner has lists to fill until it has filled them.
PrunerIsRight ==
    /\ pruner \in {"clear", "insert", "link", "count"} => lists > 0
    /\ pruner = "clear" => unclear # {} /\ fill # {} /\ Cardinality(fill) = lists
    /\ pruner \in {"insert", "link"} => fill # {} /\ Cardinality(fill) <= lists

\* A lock bit belongs to the thread that is at the list.
LocksAreHeld ==
    \A u \in Users : \A l \in FreeLists :
        locked[l] = u => user[u] \in {"locked", "unlock"} /\ index[u] = l

\* The lists that the search of u passes before it comes to l.
Before(u, l) == (l - (u % NumLists)) % NumLists

SearchIsOnItsWay ==
    \A u \in Users : Searching(u) => attempts[u] < NumLists /\ Before(u, index[u]) = attempts[u]

\* A list that a search could not have missed lies before it.
OfferedLieAhead ==
    \A u \in Users : \A l \in offered[u] :
        /\ free[l] > 0 /\ locked[l] \in {Nobody, u}
        /\ Searching(u) => Before(u, l) >= attempts[u]

\* The inductive invariant.
FreeInv ==
    /\ TypeOK /\ NoPageIsLost /\ PageCountAccounts /\ ClearFindsBit
    /\ HandsAreRight /\ PrunerIsRight /\ LocksAreHeld
    /\ SearchIsOnItsWay /\ OfferedLieAhead

-----------------------------------------------------------------------------
(* Arithmetic.                                                             *)

\* Both quotient and remainder are naturals.
LEMMA Division ==
    ASSUME NEW a \in Nat, NEW n \in Nat \ {0}
    PROVE  /\ a \div n \in Nat /\ a % n \in 0..(n - 1)
           /\ a = (a \div n) * n + (a % n)
<1>1. a = (a \div n) * n + (a % n)
  OBVIOUS
<1>2. a % n \in 0..(n - 1)
  OBVIOUS
<1>3. a \div n \in Int
  OBVIOUS
<1>4. ASSUME NEW q \in Int, q < 0 PROVE q * n <= 0 - n
  <2>1. (q + 1) * n <= 0
    BY <1>4
  <2>2. (q + 1) * n = q * n + n
    OBVIOUS
  <2>. QED BY <2>1, <2>2
<1>. QED BY <1>1, <1>2, <1>3, <1>4

\* What is left of a batch of a pages when all but c of n lists have their share.
LEMMA Shares ==
    ASSUME NEW a \in Nat, NEW n \in Nat \ {0}, NEW c \in 1..n
    PROVE  /\ a - (a \div n) * (n - c) \in Nat
           /\ a - (a \div n) * (n - c) = (a \div n) * c + (a % n)
           /\ a - (a \div n) * (n - c) <= a
           /\ a - (a \div n) * (n - (c - 1)) = a - (a \div n) * (n - c) - (a \div n)
<1>1. a \div n \in Nat /\ a % n \in Nat /\ a = (a \div n) * n + (a % n)
  BY Division
<1>. DEFINE q == a \div n
            r == a % n
<1>2. q \in Nat /\ r \in Nat /\ a = q * n + r /\ n \in Nat /\ c \in Nat /\ c <= n
  BY <1>1
<1>. HIDE DEF q, r
<1>3. q * n = q * (n - c) + q * c /\ q * (n - c) \in Nat /\ q * c \in Nat
  BY <1>2
<1>4. q * (n - (c - 1)) = q * (n - c) + q
  BY <1>2
<1>5. q * (n - c) \in Nat /\ q * (n - (c - 1)) \in Int /\ q * c \in Nat
  BY <1>2, <1>3
<1>6. /\ a - q * (n - c) \in Nat
      /\ a - q * (n - c) = q * c + r
      /\ a - q * (n - c) <= a
      /\ a - q * (n - (c - 1)) = a - q * (n - c) - q
  BY <1>2, <1>3, <1>4, <1>5
<1>. QED BY <1>6 DEF q, r

\* One list follows the other, and the last is followed by the first.
LEMMA Places ==
    ASSUME NEW s \in FreeLists, NEW i \in FreeLists, NEW l \in FreeLists
    PROVE  /\ (l - s) % NumLists \in FreeLists
           /\ (l - s) % NumLists = (i - s) % NumLists => l = i
           /\ (s - s) % NumLists = 0
           /\ (i + 1) % NumLists \in FreeLists
           /\ ((i - s) % NumLists) + 1 < NumLists =>
                  (((i + 1) % NumLists) - s) % NumLists = ((i - s) % NumLists) + 1
<1>1. NumLists \in Nat \ {0}
  BY FreePagesAssumption
<1>2. ASSUME NEW x \in Int, 1 - NumLists <= x, x <= NumLists - 1
      PROVE  x % NumLists = IF x < 0 THEN x + NumLists ELSE x
  BY <1>1, <1>2
<1>3. (i + 1) % NumLists = IF i + 1 = NumLists THEN 0 ELSE i + 1
  BY <1>1 DEF FreeLists
<1>. QED BY <1>1, <1>2, <1>3, SMTT(40) DEF FreeLists

\* The list of a user thread's number.
LEMMA OwnList == \A u \in Users : u \in Nat /\ u % NumLists \in FreeLists
<1>. SUFFICES ASSUME NEW u \in Users PROVE u \in Nat /\ u % NumLists \in FreeLists
  OBVIOUS
<1>1. u \in Nat /\ NumLists \in Nat \ {0}
  BY FreePagesAssumption DEF Users
<1>2. u % NumLists \in 0..(NumLists - 1)
  BY <1>1, Division
<1>. QED BY <1>1, <1>2 DEF FreeLists

\* There are finitely many of each.
LEMMA Finite == IsFiniteSet(Users) /\ IsFiniteSet(FreeLists)
<1>1. 0 \in Int /\ NumUsers - 1 \in Int /\ NumLists - 1 \in Int
  BY FreePagesAssumption
<1>. QED BY <1>1, FS_Interval DEF Users, FreeLists

-----------------------------------------------------------------------------
(* The pages as they are dealt.                                            *)

\* Each list gets its share and the shares are all there is: page (i - 1) * NumLists + l + 1
\* is the i-th page of list l.
LEMMA AllAreDealt ==
    /\ \A l \in FreeLists : Dealt(l) \in Nat
    /\ Sum([l \in FreeLists |-> Dealt(l)], FreeLists) = NumPages
<1>1. NumLists \in Nat \ {0} /\ NumPages \in Nat
  BY FreePagesAssumption
<1>2. ASSUME NEW l \in FreeLists
      PROVE  /\ Dealt(l) \in Nat
             /\ \A i \in Nat \ {0} : i <= Dealt(l) <=> (i - 1) * NumLists + l + 1 <= NumPages
  <2>1. l \in Nat /\ l <= NumLists - 1 /\ NumPages + NumLists - 1 - l \in Nat
    BY <1>1 DEF FreeLists
  <2>. DEFINE a == NumPages + NumLists - 1 - l
              d == a \div NumLists
  <2>2. d \in Nat /\ a % NumLists \in 0..(NumLists - 1) /\ a = d * NumLists + (a % NumLists)
    BY <1>1, <2>1, Division
  <2>3. PICK r \in 0..(NumLists - 1) : a = d * NumLists + r
    BY <2>2
  <2>4. Dealt(l) = d
    BY DEF Dealt
  <2>5. ASSUME NEW i \in Nat \ {0} PROVE i <= d <=> (i - 1) * NumLists + l + 1 <= NumPages
    <3>. HIDE DEF d
    <3>1. NumPages = d * NumLists + r - NumLists + 1 + l
      BY <1>1, <2>1, <2>2, <2>3
    <3>2. CASE i <= d
      <4>1. (d - i) * NumLists >= 0 /\ (d - i) * NumLists = d * NumLists - i * NumLists
        BY <1>1, <2>2, <3>2
      <4>2. (i - 1) * NumLists = i * NumLists - NumLists
        BY <1>1
      <4>. QED BY <1>1, <2>1, <2>2, <3>1, <3>2, <4>1, <4>2
    <3>3. CASE i > d
      <4>1. (i - 1 - d) * NumLists >= 0
        BY <1>1, <2>2, <3>3
      <4>2. (i - 1 - d) * NumLists = (i - 1) * NumLists - d * NumLists
        BY <1>1, <2>2
      <4>. QED BY <1>1, <2>1, <2>2, <3>1, <3>3, <4>1, <4>2
    <3>. QED BY <2>2, <3>2, <3>3
  <2>. QED BY <2>2, <2>4, <2>5
<1>. DEFINE f == [l \in FreeLists |-> Dealt(l)]
            place == [t \in Tokens(f, FreeLists) |-> (t[2] - 1) * NumLists + t[1] + 1]
<1>3. \A t \in Tokens(f, FreeLists) :
          /\ t = <<t[1], t[2]>> /\ t[1] \in FreeLists /\ t[2] \in Nat \ {0} /\ t[2] <= Dealt(t[1])
          /\ place[t] = (t[2] - 1) * NumLists + t[1] + 1
  BY <1>2 DEF Tokens
<1>4. \A t \in Tokens(f, FreeLists) : place[t] \in 1..NumPages
  <2>. TAKE t \in Tokens(f, FreeLists)
  <2>1. PICK l \in FreeLists, i \in Nat \ {0} : l = t[1] /\ i = t[2]
    BY <1>3
  <2>2. place[t] = (i - 1) * NumLists + l + 1 /\ (i - 1) * NumLists + l + 1 <= NumPages
    BY <1>2, <1>3, <2>1
  <2>3. (i - 1) * NumLists \in Nat /\ l \in Nat
    BY <1>1 DEF FreeLists
  <2>. HIDE DEF place
  <2>. QED BY <1>1, <2>2, <2>3
<1>5. ASSUME NEW k \in FreeLists, NEW l \in FreeLists, NEW i \in Nat, NEW j \in Nat,
             i * NumLists + k = j * NumLists + l
      PROVE  i = j /\ k = l
  <2>1. k \in Nat /\ l \in Nat /\ k < NumLists /\ l < NumLists
    BY <1>1 DEF FreeLists
  <2>2. (i - j) * NumLists = i * NumLists - j * NumLists /\ i * NumLists \in Nat
        /\ j * NumLists \in Nat
    BY <1>1
  <2>3. (i - j) * NumLists = l - k
    BY <1>1, <1>5, <2>1, <2>2
  <2>4. CASE i > j
    <3>1. (i - j - 1) * NumLists >= 0 /\ (i - j - 1) * NumLists = (i - j) * NumLists - NumLists
      BY <1>1, <2>4
    <3>. QED BY <1>1, <2>1, <2>3, <3>1
  <2>5. CASE i < j
    <3>1. (j - i - 1) * NumLists >= 0 /\ (j - i - 1) * NumLists = 0 - (i - j) * NumLists - NumLists
      BY <1>1, <2>5
    <3>. QED BY <1>1, <2>1, <2>3, <3>1
  <2>. QED BY <1>1, <1>5, <2>1, <2>2, <2>4, <2>5
<1>6. \A t, w \in Tokens(f, FreeLists) : place[t] = place[w] => t = w
  <2>. TAKE t, w \in Tokens(f, FreeLists)
  <2>. HAVE place[t] = place[w]
  <2>1. PICK k \in FreeLists, i \in Nat \ {0} : k = t[1] /\ i = t[2]
    BY <1>3
  <2>2. PICK l \in FreeLists, j \in Nat \ {0} : l = w[1] /\ j = w[2]
    BY <1>3
  <2>3. place[t] = (i - 1) * NumLists + k + 1 /\ place[w] = (j - 1) * NumLists + l + 1
    BY <1>3, <2>1, <2>2
  <2>4. (i - 1) * NumLists \in Nat /\ (j - 1) * NumLists \in Nat /\ k \in Nat /\ l \in Nat
        /\ i - 1 \in Nat /\ j - 1 \in Nat
    BY <1>1 DEF FreeLists
  <2>5. (i - 1) * NumLists + k = (j - 1) * NumLists + l
    <3>1. PICK x \in Nat, y \in Nat : x = (i - 1) * NumLists /\ y = (j - 1) * NumLists
      BY <2>4
    <3>2. x + k + 1 = y + l + 1
      BY <2>3, <3>1
    <3>3. x + k = y + l
      BY <2>4, <3>2
    <3>. QED BY <3>1, <3>3
  <2>6. i - 1 = j - 1 /\ k = l
    BY <1>5, <2>4, <2>5
  <2>7. i = j
    BY <2>6
  <2>8. t = <<k, i>> /\ w = <<l, j>>
    BY <1>3, <2>1, <2>2
  <2>. QED BY <2>6, <2>7, <2>8
<1>7. \A n \in 1..NumPages : \E t \in Tokens(f, FreeLists) : place[t] = n
  <2>. TAKE n \in 1..NumPages
  <2>1. n - 1 \in Nat
    BY <1>1
  <2>2. /\ (n - 1) \div NumLists \in Nat /\ (n - 1) % NumLists \in 0..(NumLists - 1)
        /\ n - 1 = ((n - 1) \div NumLists) * NumLists + ((n - 1) % NumLists)
    BY <1>1, <2>1, Division
  <2>3. PICK q \in Nat, l \in FreeLists : n - 1 = q * NumLists + l
    BY <2>2 DEF FreeLists
  <2>4. q * NumLists \in Nat /\ l \in Nat
    BY <1>1 DEF FreeLists
  <2>5. (q + 1 - 1) * NumLists + l + 1 = n /\ q + 1 \in Nat \ {0}
    BY <2>3, <2>4
  <2>6. q + 1 <= Dealt(l)
    BY <1>1, <1>2, <2>5
  <2>7. <<l, q + 1>> \in Tokens(f, FreeLists)
    BY <1>2, <2>5, <2>6 DEF Tokens
  <2>8. place[<<l, q + 1>>] = (q + 1 - 1) * NumLists + l + 1
    BY <2>7
  <2>. QED BY <2>5, <2>7, <2>8
<1>8. \A l \in FreeLists : f[l] \in Nat
  BY <1>2
<1>. HIDE DEF f, place
<1>9. Sum(f, FreeLists) = NumPages
  BY <1>1, <1>4, <1>6, <1>7, <1>8, Finite, SumFills
<1>. QED BY <1>2, <1>9 DEF f

\* What the threads take from a list for their caches, it has: the i-th page of u's cache
\* is page (u \div NumLists) * FreePageCacheSize + i of the list.
LEMMA CachesFit ==
    /\ InitialCache \in [Users -> 0..FreePageCacheSize]
    /\ \A l \in FreeLists :
          Sum(InitialCache, {u \in Users : u % NumLists = l}) \in 0..Dealt(l)
<1>1. NumLists \in Nat \ {0} /\ FreePageCacheSize \in Nat \ {0}
  BY FreePagesAssumption
<1>2. ASSUME NEW u \in Users
      PROVE  /\ u % NumLists \in FreeLists /\ u \div NumLists \in Nat
             /\ u = (u \div NumLists) * NumLists + (u % NumLists)
             /\ (u \div NumLists) * FreePageCacheSize \in Nat
  <2>1. u \in Nat /\ u % NumLists \in FreeLists
    BY OwnList
  <2>2. u \div NumLists \in Nat /\ u = (u \div NumLists) * NumLists + (u % NumLists)
    BY <1>1, <2>1, Division
  <2>3. (u \div NumLists) * FreePageCacheSize \in Nat
    BY <1>1, <2>2
  <2>. QED BY <2>1, <2>2, <2>3
<1>3. ASSUME NEW u \in Users
      PROVE  /\ InitialCache[u] \in 0..FreePageCacheSize
             /\ \A i \in Nat \ {0} : i <= InitialCache[u] =>
                    (u \div NumLists) * FreePageCacheSize + i <= Dealt(u % NumLists)
  <2>1. PICK d \in Nat, x \in Nat : d = Dealt(u % NumLists)
                                    /\ x = (u \div NumLists) * FreePageCacheSize
    BY <1>2, AllAreDealt
  <2>2. InitialCache[u] = IF d - x <= 0 THEN 0 ELSE Least(d - x, FreePageCacheSize)
    BY <2>1 DEF InitialCache
  <2>3. /\ InitialCache[u] \in 0..FreePageCacheSize
        /\ \A i \in Nat \ {0} : i <= InitialCache[u] => x + i <= d
    BY <1>1, <2>2 DEF Least
  <2>. QED BY <2>1, <2>3
<1>4. InitialCache \in [Users -> 0..FreePageCacheSize]
  <2>1. InitialCache = [u \in Users |-> InitialCache[u]]
    BY DEF InitialCache
  <2>. QED BY <1>3, <2>1
<1>5. ASSUME NEW l \in FreeLists
      PROVE  Sum(InitialCache, {u \in Users : u % NumLists = l}) \in 0..Dealt(l)
  <2>. DEFINE S == {u \in Users : u % NumLists = l}
              f == InitialCache
              place == [t \in Tokens(f, S) |-> (t[1] \div NumLists) * FreePageCacheSize + t[2]]
  <2>1. IsFiniteSet(S)
    BY Finite, FS_Subset
  <2>2. \A u \in S : f[u] \in Nat
    BY <1>3
  <2>3. \A t \in Tokens(f, S) :
            /\ t = <<t[1], t[2]>> /\ t[1] \in S /\ t[2] \in Nat \ {0} /\ t[2] <= f[t[1]]
            /\ place[t] = (t[1] \div NumLists) * FreePageCacheSize + t[2]
    <3>. HIDE DEF f, S
    <3>. QED BY <2>2 DEF Tokens
  <2>4. \A t \in Tokens(f, S) : place[t] \in 1..Dealt(l)
    <3>. TAKE t \in Tokens(f, S)
    <3>1. PICK u \in S, i \in Nat \ {0} : u = t[1] /\ i = t[2] /\ i <= f[u]
      BY <2>3
    <3>2. place[t] = (u \div NumLists) * FreePageCacheSize + i
      BY <2>3, <3>1
    <3>. HIDE DEF place
    <3>3. (u \div NumLists) * FreePageCacheSize + i <= Dealt(u % NumLists)
      BY <1>3, <3>1
    <3>4. PICK x \in Nat : x = (u \div NumLists) * FreePageCacheSize
      BY <1>2
    <3>5. x + i <= Dealt(l) /\ place[t] = x + i
      BY <3>2, <3>3, <3>4
    <3>6. Dealt(l) \in Nat
      BY AllAreDealt
    <3>. QED BY <3>5, <3>6
  <2>5. ASSUME NEW q \in Nat, NEW p \in Nat, NEW i \in 1..FreePageCacheSize,
               NEW j \in 1..FreePageCacheSize,
               q * FreePageCacheSize + i = p * FreePageCacheSize + j
        PROVE  q = p /\ i = j
    <3>1. (q - p) * FreePageCacheSize = q * FreePageCacheSize - p * FreePageCacheSize
          /\ q * FreePageCacheSize \in Nat /\ p * FreePageCacheSize \in Nat
      BY <1>1
    <3>2. (q - p) * FreePageCacheSize = j - i
      BY <1>1, <2>5, <3>1
    <3>3. CASE q > p
      <4>1. (q - p - 1) * FreePageCacheSize >= 0
            /\ (q - p - 1) * FreePageCacheSize = (q - p) * FreePageCacheSize - FreePageCacheSize
        BY <1>1, <3>3
      <4>. QED BY <1>1, <3>2, <4>1
    <3>4. CASE q < p
      <4>1. (p - q - 1) * FreePageCacheSize >= 0
            /\ (p - q - 1) * FreePageCacheSize = 0 - (q - p) * FreePageCacheSize - FreePageCacheSize
        BY <1>1, <3>4
      <4>. QED BY <1>1, <3>2, <4>1
    <3>. QED BY <1>1, <2>5, <3>1, <3>3, <3>4
  <2>6. \A t, w \in Tokens(f, S) : place[t] = place[w] => t = w
    <3>. TAKE t, w \in Tokens(f, S)
    <3>. HAVE place[t] = place[w]
    <3>1. PICK u \in S, i \in Nat \ {0} : u = t[1] /\ i = t[2] /\ i <= f[u]
      BY <2>3
    <3>2. PICK v \in S, j \in Nat \ {0} : v = w[1] /\ j = w[2] /\ j <= f[v]
      BY <2>3
    <3>3. place[t] = (u \div NumLists) * FreePageCacheSize + i
          /\ place[w] = (v \div NumLists) * FreePageCacheSize + j
      BY <2>3, <3>1, <3>2
    <3>4. PICK q \in Nat, p \in Nat : q = u \div NumLists /\ p = v \div NumLists
      BY <1>2
    <3>5. i \in 1..FreePageCacheSize /\ j \in 1..FreePageCacheSize
      BY <1>1, <1>3, <3>1, <3>2
    <3>6. q * FreePageCacheSize + i = p * FreePageCacheSize + j
      BY <3>3, <3>4
    <3>7. q = p /\ i = j
      BY <2>5, <3>5, <3>6
    <3>8. u = q * NumLists + l /\ v = p * NumLists + l
      BY <1>2, <3>4
    <3>9. t = <<u, i>> /\ w = <<v, j>>
      BY <2>3, <3>1, <3>2
    <3>. QED BY <3>7, <3>8, <3>9
  <2>7. Dealt(l) \in Nat
    BY AllAreDealt
  <2>. HIDE DEF S, f, place
  <2>8. Sum(f, S) <= Dealt(l) /\ Sum(f, S) \in Nat
    BY <2>1, <2>2, <2>4, <2>6, <2>7, SumFits, SumType
  <2>9. Sum(f, S) \in 0..Dealt(l)
    BY <2>7, <2>8
  <2>. QED BY <2>9 DEF f, S
<1>. QED BY <1>4, <1>5

\* After the threads have filled their caches, the pages are on the lists and in the caches.
LEMMA DealtAndCached ==
    /\ InitialList \in [FreeLists -> Nat]
    /\ Sum(InitialList, FreeLists) + Sum(InitialCache, Users) = NumPages
<1>. DEFINE Taken == [l \in FreeLists |-> Sum(InitialCache, {u \in Users : u % NumLists = l})]
            Share0 == [l \in FreeLists |-> Dealt(l)]
            own == [u \in Users |-> u % NumLists]
            part == [l \in FreeLists |-> {u \in Users : u % NumLists = l}]
<1>1. \A l \in FreeLists : Taken[l] \in Nat /\ Share0[l] \in Nat /\ InitialList[l] \in Nat
                           /\ Share0[l] = InitialList[l] + Taken[l]
  <2>. TAKE l \in FreeLists
  <2>1. PICK d \in Nat, s \in Nat :
            /\ d = Dealt(l) /\ s = Sum(InitialCache, {u \in Users : u % NumLists = l})
            /\ s <= d
    <3>1. Dealt(l) \in Nat
      BY AllAreDealt
    <3>. DEFINE s0 == Sum(InitialCache, {u \in Users : u % NumLists = l})
    <3>2. s0 \in 0..Dealt(l)
      BY CachesFit
    <3>. HIDE DEF s0
    <3>3. s0 \in Nat /\ s0 <= Dealt(l)
      BY <3>1, <3>2
    <3>. QED BY <3>1, <3>3 DEF s0
  <2>2. Taken[l] = s /\ Share0[l] = d /\ InitialList[l] = d - s
    BY <2>1 DEF InitialList
  <2>. QED BY <2>1, <2>2
<1>2. InitialList \in [FreeLists -> Nat]
  BY <1>1 DEF InitialList
<1>3. Sum(Taken, FreeLists) = Sum(InitialCache, Users)
  <2>1. /\ \A u \in Users : InitialCache[u] \in Nat
        /\ \A u \in Users : own[u] \in FreeLists
    <3>1. FreePageCacheSize \in Nat
      BY FreePagesAssumption
    <3>. QED BY <3>1, CachesFit, OwnList
  <2>2. /\ \A l \in FreeLists : Taken[l] = Sum(InitialCache, part[l])
        /\ \A l \in FreeLists : \A u : u \in part[l] <=> u \in Users /\ own[u] = l
    OBVIOUS
  <2>3. IsFiniteSet(Users) /\ IsFiniteSet(FreeLists)
    BY Finite
  <2>. HIDE DEF Taken, own, part
  <2>. QED BY <2>1, <2>2, <2>3, SumOfClasses
<1>4. Sum(Share0, FreeLists) = NumPages
  BY AllAreDealt
<1>5. Sum(Share0, FreeLists) = Sum(InitialList, FreeLists) + Sum(Taken, FreeLists)
  <2>. HIDE DEF Taken, Share0
  <2>. QED BY <1>1, Finite, SumOfPairs
<1>. QED BY <1>2, <1>3, <1>4, <1>5

\* In the beginning no page is lost and nobody searches.
LEMMA FreeInvInitially == Init => FreeInv
<1>. SUFFICES ASSUME Init PROVE FreeInv
  OBVIOUS
<1>1. /\ free = InitialList /\ cache = InitialCache /\ taken = [u \in Users |-> 0]
      /\ page_count = Sum(free, FreeLists) /\ pruner = "wait"
      /\ standby = 0 /\ in_use = 0 /\ stranded = 0 /\ batch = 0
      /\ user = [u \in Users |-> "idle"] /\ offered = [u \in Users |-> {}]
      /\ locked = [l \in FreeLists |-> Nobody]
  BY DEF Init
<1>2. /\ free \in [FreeLists -> Nat] /\ Sum(free, FreeLists) \in Nat
      /\ cache \in [Users -> 0..FreePageCacheSize] /\ Sum(cache, Users) \in Nat
      /\ Sum(free, FreeLists) + Sum(cache, Users) = NumPages
  <2>1. FreePageCacheSize \in Nat
    BY FreePagesAssumption
  <2>2. /\ InitialCache \in [Users -> 0..FreePageCacheSize]
        /\ InitialList \in [FreeLists -> Nat]
        /\ Sum(InitialList, FreeLists) + Sum(InitialCache, Users) = NumPages
    BY CachesFit, DealtAndCached
  <2>3. (\A u \in Users : InitialCache[u] \in Nat) /\ (\A l \in FreeLists : InitialList[l] \in Nat)
    BY <2>1, <2>2
  <2>4. Sum(InitialList, FreeLists) \in Nat /\ Sum(InitialCache, Users) \in Nat
    BY <2>3, Finite, SumType
  <2>. QED BY <1>1, <2>2, <2>4
<1>3. Sum(taken, Users) = 0 /\ Sum(taken, {}) = 0
  BY <1>1, Finite, FS_EmptySet, SumOfZeros
<1>4. InPruner = 0
  BY <1>1 DEF InPruner
<1>5. NoPageIsLost
  BY <1>1, <1>2, <1>3, <1>4, FreePagesAssumption DEF NoPageIsLost
<1>6. PageCountAccounts
  <2>1. {u \in Users : user[u] \in {"unlock", "low", "wake", "fill"}} = {}
    BY <1>1
  <2>. QED BY <1>1, <1>2, <1>3, <2>1 DEF PageCountAccounts
<1>7. TypeOK
  <2>1. free \in [FreeLists -> 0..NumPages]
    <3>1. \A l \in FreeLists : free[l] \in Nat /\ free[l] <= Sum(free, FreeLists)
      BY <1>2, Finite, SumBounds
    <3>. QED BY <1>2, <3>1, FreePagesAssumption
  <2>2. 0 \in FreeLists /\ 0 \in 0..NumLists /\ 0 \in 0..NumPages
        /\ 0 \in 0..FreePageCacheSize
    BY FreePagesAssumption DEF FreeLists
  <2>3. page_count \in Int
    BY <1>1, <1>2
  <2>. QED BY <1>2, <2>1, <2>2, <2>3 DEF Init, TypeOK
<1>8. LocksAreHeld
  BY <1>1, FreePagesAssumption DEF LocksAreHeld, Nobody, Users
<1>. QED BY <1>1, <1>5, <1>6, <1>7, <1>8
         DEF FreeInv, ClearFindsBit, HandsAreRight, PrunerIsRight, SearchIsOnItsWay,
             OfferedLieAhead, Init, Searching, OnItsWay
-----------------------------------------------------------------------------
(* How a step changes the sums.                                            *)

\* The sums are naturals.
LEMMA SumsAreNatural ==
    ASSUME TypeOK
    PROVE  /\ Sum(free, FreeLists) \in Nat /\ Sum(cache, Users) \in Nat
           /\ Sum(taken, Users) \in Nat /\ Sum(taken, {u \in Users : OnItsWay(u)}) \in Nat
           /\ \A l \in FreeLists : free[l] \in Nat
           /\ \A u \in Users : cache[u] \in Nat /\ taken[u] \in Nat
<1>1. /\ \A l \in FreeLists : free[l] \in Nat
      /\ \A u \in Users : cache[u] \in Nat
      /\ \A u \in Users : taken[u] \in Nat
  BY FreePagesAssumption DEF TypeOK
<1>2. IsFiniteSet({u \in Users : OnItsWay(u)})
  BY Finite, FS_Subset
<1>3. \A u \in {v \in Users : OnItsWay(v)} : taken[u] \in Nat
  BY <1>1
<1>4. Sum(taken, {u \in Users : OnItsWay(u)}) \in Nat
  BY <1>2, <1>3, SumType
<1>. QED BY <1>1, <1>4, Finite, SumType

\* A thread's cache changes.
LEMMA CacheChanges ==
    ASSUME TypeOK, NEW u \in Users, NEW n \in Nat, cache' = [cache EXCEPT ![u] = n]
    PROVE  Sum(cache', Users) = Sum(cache, Users) - cache[u] + n
<1>1. PICK f, g : f = cache /\ g = cache'
  OBVIOUS
<1>2. /\ \A v \in Users : f[v] \in Nat
      /\ \A v \in Users : g[v] \in Nat
      /\ \A v \in Users : v # u => g[v] = f[v]
      /\ g[u] = n
  BY <1>1, SumsAreNatural DEF TypeOK
<1>3. Sum(g, Users) = Sum(f, Users) - f[u] + g[u]
  BY <1>2, Finite, SumChange
<1>. QED BY <1>1, <1>2, <1>3

\* What a thread holds changes.
LEMMA TakenChanges ==
    ASSUME TypeOK, NEW u \in Users, NEW n \in Nat, taken' = [taken EXCEPT ![u] = n]
    PROVE  Sum(taken', Users) = Sum(taken, Users) - taken[u] + n
<1>1. PICK f, g : f = taken /\ g = taken'
  OBVIOUS
<1>2. /\ \A v \in Users : f[v] \in Nat
      /\ \A v \in Users : g[v] \in Nat
      /\ \A v \in Users : v # u => g[v] = f[v]
      /\ g[u] = n
  BY <1>1, SumsAreNatural DEF TypeOK
<1>3. Sum(g, Users) = Sum(f, Users) - f[u] + g[u]
  BY <1>2, Finite, SumChange
<1>. QED BY <1>1, <1>2, <1>3

\* A list changes.
LEMMA FreeChanges ==
    ASSUME TypeOK, NEW l \in FreeLists, NEW n \in Nat, free' = [free EXCEPT ![l] = n]
    PROVE  Sum(free', FreeLists) = Sum(free, FreeLists) - free[l] + n
<1>1. PICK f, g : f = free /\ g = free'
  OBVIOUS
<1>2. /\ \A k \in FreeLists : f[k] \in Nat
      /\ \A k \in FreeLists : g[k] \in Nat
      /\ \A k \in FreeLists : k # l => g[k] = f[k]
      /\ g[l] = n
  BY <1>1, SumsAreNatural DEF TypeOK
<1>3. Sum(g, FreeLists) = Sum(f, FreeLists) - f[l] + g[l]
  BY <1>2, Finite, SumChange
<1>. QED BY <1>1, <1>2, <1>3

\* One thread moves, with what it holds.
LEMMA WayChanges ==
    ASSUME TypeOK, NEW u \in Users, \A v \in Users : taken'[v] \in Nat,
           \A v \in Users : v # u => taken'[v] = taken[v] /\ user'[v] = user[v]
    PROVE  Sum(taken', {v \in Users : OnItsWay(v)'}) =
               Sum(taken, {v \in Users : OnItsWay(v)})
                   - (IF OnItsWay(u) THEN taken[u] ELSE 0)
                   + (IF OnItsWay(u)' THEN taken'[u] ELSE 0)
<1>. DEFINE W == {v \in Users : OnItsWay(v)}
            X == {v \in Users : OnItsWay(v)'}
            R == W \ {u}
<1>1. IsFiniteSet(W) /\ IsFiniteSet(X) /\ IsFiniteSet(R)
  BY Finite, FS_Subset
<1>2. \A v \in Users : taken[v] \in Nat
  BY SumsAreNatural
<1>3. X \ {u} = R /\ (u \in W <=> OnItsWay(u)) /\ (u \in X <=> OnItsWay(u)')
  BY DEF OnItsWay
<1>4. Sum(taken', R) = Sum(taken, R)
  <2>1. \A v \in R : taken[v] \in Nat /\ taken'[v] = taken[v]
    BY <1>2
  <2>. HIDE DEF R
  <2>. QED BY <1>1, <2>1, SumSame
<1>5. Sum(taken, R) \in Nat
  <2>1. \A v \in R : taken[v] \in Nat
    BY <1>2
  <2>. HIDE DEF R
  <2>. QED BY <1>1, <2>1, SumType
<1>6. Sum(taken, W) = Sum(taken, R) + (IF OnItsWay(u) THEN taken[u] ELSE 0)
  <2>1. CASE u \in W
    <3>1. \A v \in W : taken[v] \in Nat
      BY <1>2
    <3>2. Sum(taken, W) = taken[u] + Sum(taken, W \ {u})
      <4>. HIDE DEF W
      <4>. QED BY <1>1, <2>1, <3>1, SumSplit
    <3>. QED BY <1>2, <1>3, <1>5, <2>1, <3>2
  <2>2. CASE u \notin W
    <3>1. W = R
      BY <2>2
    <3>. QED BY <1>3, <1>5, <2>2, <3>1
  <2>. QED BY <2>1, <2>2
<1>7. Sum(taken', X) = Sum(taken', R) + (IF OnItsWay(u)' THEN taken'[u] ELSE 0)
  <2>1. \A v \in X : taken'[v] \in Nat
    OBVIOUS
  <2>. HIDE DEF W, X, R
  <2>2. CASE u \in X
    <3>1. Sum(taken', X) = taken'[u] + Sum(taken', X \ {u})
      BY <1>1, <2>1, <2>2, SumSplit
    <3>2. taken'[u] \in Nat /\ Sum(taken', R) \in Nat
      BY <1>4, <1>5
    <3>3. Sum(taken', X) = taken'[u] + Sum(taken', R)
      BY <1>3, <3>1
    <3>. QED BY <1>3, <2>2, <3>2, <3>3
  <2>3. CASE u \notin X
    <3>1. X = R
      BY <1>3, <2>3
    <3>2. Sum(taken', R) \in Nat
      BY <1>4, <1>5
    <3>. QED BY <1>3, <2>3, <3>1, <3>2
  <2>. QED BY <2>2, <2>3
<1>. HIDE DEF W, X, R
<1>8. Sum(taken', X) = Sum(taken, W) - (IF OnItsWay(u) THEN taken[u] ELSE 0)
                           + (IF OnItsWay(u)' THEN taken'[u] ELSE 0)
  BY <1>2, <1>4, <1>5, <1>6, <1>7
<1>. QED BY <1>8 DEF W, X

\* Nothing is more than all the pages.
LEMMA NoMoreThanAll ==
    NoPageIsLost /\ free \in [FreeLists -> Nat] /\ cache \in [Users -> Nat]
        /\ taken \in [Users -> Nat] /\ {standby, in_use, stranded, InPruner} \subseteq Nat
    => /\ free \in [FreeLists -> 0..NumPages]
       /\ {standby, in_use, stranded, InPruner} \subseteq 0..NumPages
       /\ InPruner + stranded <= NumPages
<1>. SUFFICES ASSUME NoPageIsLost, free \in [FreeLists -> Nat], cache \in [Users -> Nat],
                     taken \in [Users -> Nat],
                     {standby, in_use, stranded, InPruner} \subseteq Nat
              PROVE  /\ free \in [FreeLists -> 0..NumPages]
                     /\ {standby, in_use, stranded, InPruner} \subseteq 0..NumPages
                     /\ InPruner + stranded <= NumPages
  OBVIOUS
<1>1. /\ \A l \in FreeLists : free[l] \in Nat
      /\ \A u \in Users : cache[u] \in Nat
      /\ \A u \in Users : taken[u] \in Nat
  OBVIOUS
<1>2. /\ Sum(free, FreeLists) \in Nat /\ Sum(cache, Users) \in Nat /\ Sum(taken, Users) \in Nat
      /\ \A l \in FreeLists : free[l] <= Sum(free, FreeLists)
  BY <1>1, Finite, SumType, SumBounds
<1>. DEFINE F == Sum(free, FreeLists)
<1>. HIDE DEF F
<1>3. F \in Nat /\ F <= NumPages /\ \A l \in FreeLists : free[l] <= F
  BY <1>2, FreePagesAssumption DEF NoPageIsLost, F
<1>4. /\ {standby, in_use, stranded, InPruner} \subseteq 0..NumPages
      /\ InPruner + stranded <= NumPages
  BY <1>2, FreePagesAssumption DEF NoPageIsLost
<1>5. \A l \in FreeLists : free[l] \in 0..NumPages
  BY <1>1, <1>3, FreePagesAssumption
<1>. QED BY <1>4, <1>5

\* The pruner's pages are part of its batch.
LEMMA PrunerHolds ==
    ASSUME TypeOK, PrunerIsRight
    PROVE  /\ InPruner \in 0..batch /\ batch \in Nat
           /\ pruner \in {"insert", "link"} =>
                  /\ lists \in Nat \ {0} /\ Cardinality(fill) \in 1..lists
                  /\ IsFiniteSet(fill)
<1>1. batch \in Nat /\ lists \in Nat /\ IsFiniteSet(fill)
  BY Finite, FS_Subset, FreePagesAssumption DEF TypeOK
<1>2. Cardinality(fill) \in Nat /\ (Cardinality(fill) = 0 <=> fill = {})
  BY <1>1, FS_CardinalityType, FS_EmptySet
<1>3. pruner \in {"insert", "link"} => lists \in Nat \ {0} /\ Cardinality(fill) \in 1..lists
  BY <1>1, <1>2 DEF PrunerIsRight
<1>4. CASE pruner \in {"insert", "link"}
  <2>1. InPruner = batch - (batch \div lists) * (lists - Cardinality(fill))
    BY <1>4 DEF InPruner
  <2>2. InPruner \in Nat /\ InPruner <= batch
    BY <1>1, <1>3, <1>4, <2>1, Shares
  <2>. QED BY <1>1, <1>3, <2>2
<1>5. CASE pruner \notin {"insert", "link"}
  <2>1. InPruner = batch \/ InPruner = 0
    BY <1>5 DEF InPruner
  <2>. QED BY <1>1, <1>5, <2>1
<1>. QED BY <1>4, <1>5

\* A step of a user thread that moves a pages to the free lists, b to its cache, c to its
\* hands, d of them on the way to its cache, and the rest to where pages are in use.
LEMMA UserAccounts ==
    ASSUME TypeOK, PrunerIsRight, NoPageIsLost, PageCountAccounts,
           UNCHANGED <<prune>>,
           NEW a \in Int, Sum(free', FreeLists) = Sum(free, FreeLists) + a,
           NEW b \in Int, Sum(cache', Users) = Sum(cache, Users) + b,
           NEW c \in Int, Sum(taken', Users) = Sum(taken, Users) + c,
           NEW d \in Int, Sum(taken', {v \in Users : OnItsWay(v)'}) =
                              Sum(taken, {v \in Users : OnItsWay(v)}) + d,
           standby' \in Int, in_use' \in Int,
           standby' + in_use' = standby + in_use - a - b - c,
           page_count' = page_count + a + d
    PROVE  NoPageIsLost' /\ PageCountAccounts'
<1>1. /\ InPruner \in Nat /\ batch \in Nat /\ standby \in Nat /\ in_use \in Nat
      /\ stranded \in Nat /\ page_count \in Int
  BY PrunerHolds DEF TypeOK
<1>2. InPruner' = InPruner /\ pruner' = pruner /\ batch' = batch /\ stranded' = stranded
  BY DEF prune, InPruner
<1>3. /\ Sum(free, FreeLists) \in Nat /\ Sum(cache, Users) \in Nat /\ Sum(taken, Users) \in Nat
      /\ Sum(taken, {u \in Users : OnItsWay(u)}) \in Nat
  BY SumsAreNatural
<1>4. NoPageIsLost'
  <2>1. PICK x \in Nat, y \in Nat, z \in Nat, s \in Nat, r \in Nat :
            /\ x = Sum(free, FreeLists) /\ y = Sum(cache, Users) /\ z = Sum(taken, Users)
            /\ s = InPruner /\ r = stranded
    BY <1>1, <1>3
  <2>2. PICK i \in Nat, j \in Nat, k \in Int, l \in Int, n \in Nat :
            i = standby /\ j = in_use /\ k = standby' /\ l = in_use' /\ n = NumPages
    BY <1>1, FreePagesAssumption
  <2>3. x + y + z + i + j + s + r = n /\ k + l = i + j - a - b - c
    BY <2>1, <2>2 DEF NoPageIsLost
  <2>4. (x + a) + (y + b) + (z + c) + k + l + s + r = n
    BY <2>3
  <2>5. /\ Sum(free', FreeLists) = x + a /\ Sum(cache', Users) = y + b
        /\ Sum(taken', Users) = z + c /\ InPruner' = s /\ stranded' = r
    BY <1>2, <2>1
  <2>. QED BY <2>2, <2>4, <2>5 DEF NoPageIsLost
<1>5. /\ page_count = Sum(free, FreeLists) + Sum(taken, {u \in Users : OnItsWay(u)})
                          - (IF pruner \in {"insert", "link", "count"} THEN batch - InPruner ELSE 0)
      /\ PageCountAccounts' <=>
             page_count' = Sum(free', FreeLists) + Sum(taken', {u \in Users : OnItsWay(u)'})
                 - (IF pruner' \in {"insert", "link", "count"} THEN batch' - InPruner' ELSE 0)
  BY DEF PageCountAccounts, OnItsWay
<1>. DEFINE w == IF pruner \in {"insert", "link", "count"} THEN batch - InPruner ELSE 0
<1>6. w \in Int
  BY <1>1
<1>7. PageCountAccounts'
  BY <1>1, <1>2, <1>3, <1>5, <1>6
<1>. QED BY <1>4, <1>7

\* A step in which no page moves.
LEMMA NoPageMoves ==
    ASSUME TypeOK, PrunerIsRight, NoPageIsLost, PageCountAccounts,
           UNCHANGED <<free, cache, taken, page_count, standby, in_use, prune>>,
           NEW u \in Users, \A v \in Users : v # u => user'[v] = user[v],
           taken[u] = 0 \/ (OnItsWay(u)' <=> OnItsWay(u))
    PROVE  NoPageIsLost' /\ PageCountAccounts'
<1>1. \A v \in Users : taken[v] \in Nat /\ taken'[v] = taken[v]
  BY SumsAreNatural
<1>2. Sum(taken', {v \in Users : OnItsWay(v)'}) =
          Sum(taken, {v \in Users : OnItsWay(v)})
              - (IF OnItsWay(u) THEN taken[u] ELSE 0) + (IF OnItsWay(u)' THEN taken'[u] ELSE 0)
  BY <1>1, WayChanges
<1>3. Sum(taken, {v \in Users : OnItsWay(v)}) \in Nat /\ Sum(free, FreeLists) \in Nat
      /\ Sum(cache, Users) \in Nat /\ Sum(taken, Users) \in Nat
  BY SumsAreNatural
<1>4. Sum(taken', {v \in Users : OnItsWay(v)'}) = Sum(taken, {v \in Users : OnItsWay(v)}) + 0
  BY <1>1, <1>2, <1>3
<1>5. /\ Sum(free', FreeLists) = Sum(free, FreeLists) + 0
      /\ Sum(cache', Users) = Sum(cache, Users) + 0
      /\ Sum(taken', Users) = Sum(taken, Users) + 0
  BY <1>3
<1>6. /\ standby' \in Int /\ in_use' \in Int
      /\ standby' + in_use' = standby + in_use - 0 - 0 - 0 /\ page_count' = page_count + 0 + 0
  BY DEF TypeOK
<1>7. UNCHANGED prune
  OBVIOUS
<1>. QED BY <1>4, <1>5, <1>6, <1>7, UserAccounts

\* The conjuncts about pages are kept by the actions of a user thread that move none.
LEMMA QuietUserStep ==
    ASSUME FreeInv, NEW u \in Users,
           \/ Search(u) \/ LookPages(u) \/ LookEmpty(u) \/ LockList(u) \/ LockBusy(u)
           \/ TakeNothing(u) \/ UnlockList(u) \/ MarkLow(u) \/ WakePruner(u)
    PROVE  NoPageIsLost' /\ PageCountAccounts' /\ HandsAreRight'
<1>1. TypeOK /\ PrunerIsRight /\ NoPageIsLost /\ PageCountAccounts /\ HandsAreRight
  BY DEF FreeInv
<1>2. UNCHANGED <<free, cache, taken, page_count, standby, in_use, prune>>
  BY DEF Search, LookPages, LookEmpty, LockList, LockBusy, TakeNothing, UnlockList, MarkLow,
         WakePruner, lists_state, signals, prune, others
<1>3. PICK w : user' = [user EXCEPT ![u] = w] /\
         \/ /\ user[u] \in {"idle", "look", "lock", "locked"} /\ (user[u] = "idle" => cache[u] = 0)
            /\ w \in {"look", "lock", "locked", "steal"}
         \/ user[u] \in {"unlock", "low", "wake"} /\ w \in {"low", "wake", "fill"}
  BY DEF Search, LookPages, LookEmpty, LockList, LockBusy, TakeNothing, UnlockList, MarkLow,
         WakePruner, Go, Advance
<1>4. user'[u] = w /\ \A v \in Users : v # u => user'[v] = user[v]
  BY <1>1, <1>3 DEF TypeOK
<1>5. taken[u] = 0 \/ (OnItsWay(u)' <=> OnItsWay(u))
  BY <1>1, <1>3, <1>4 DEF HandsAreRight, OnItsWay
<1>6. NoPageIsLost' /\ PageCountAccounts'
  BY <1>1, <1>2, <1>4, <1>5, NoPageMoves
<1>7. HandsAreRight'
  BY <1>1, <1>2, <1>3, <1>4 DEF HandsAreRight, OnItsWay, Searching
<1>. QED BY <1>6, <1>7

\* A step of a user thread after which its cache has m pages and its hands have n, and the
\* free lists a more than before.
LEMMA OneUserMovesPages ==
    ASSUME TypeOK, PrunerIsRight, NoPageIsLost, PageCountAccounts, UNCHANGED prune,
           NEW u \in Users, \A v \in Users : v # u => user'[v] = user[v],
           NEW a \in Int, Sum(free', FreeLists) = Sum(free, FreeLists) + a,
           NEW m \in Nat, cache' = [cache EXCEPT ![u] = m],
           NEW n \in Nat, taken' = [taken EXCEPT ![u] = n],
           standby' \in Int, in_use' \in Int,
           standby' + in_use' = standby + in_use - a - (m - cache[u]) - (n - taken[u]),
           page_count' = page_count + a + ((IF OnItsWay(u)' THEN n ELSE 0)
                                             - (IF OnItsWay(u) THEN taken[u] ELSE 0))
    PROVE  NoPageIsLost' /\ PageCountAccounts'
<1>1. /\ \A v \in Users : cache[v] \in Nat /\ taken[v] \in Nat
      /\ Sum(cache, Users) \in Nat /\ Sum(taken, Users) \in Nat
      /\ Sum(taken, {v \in Users : OnItsWay(v)}) \in Nat
  BY SumsAreNatural
<1>2. /\ taken'[u] = n /\ \A v \in Users : taken'[v] \in Nat
      /\ \A v \in Users : v # u => taken'[v] = taken[v] /\ user'[v] = user[v]
  BY <1>1 DEF TypeOK
<1>3. PICK b \in Int, c \in Int, d \in Int :
          /\ b = m - cache[u] /\ c = n - taken[u]
          /\ d = (IF OnItsWay(u)' THEN n ELSE 0) - (IF OnItsWay(u) THEN taken[u] ELSE 0)
  BY <1>1
<1>4. Sum(cache', Users) = Sum(cache, Users) + b
  <2>1. Sum(cache', Users) = Sum(cache, Users) - cache[u] + m
    BY CacheChanges
  <2>. QED BY <1>1, <1>3, <2>1
<1>5. Sum(taken', Users) = Sum(taken, Users) + c
  <2>1. Sum(taken', Users) = Sum(taken, Users) - taken[u] + n
    BY TakenChanges
  <2>. QED BY <1>1, <1>3, <2>1
<1>6. Sum(taken', {v \in Users : OnItsWay(v)'}) = Sum(taken, {v \in Users : OnItsWay(v)}) + d
  <2>1. Sum(taken', {v \in Users : OnItsWay(v)'}) =
            Sum(taken, {v \in Users : OnItsWay(v)})
                - (IF OnItsWay(u) THEN taken[u] ELSE 0) + (IF OnItsWay(u)' THEN taken'[u] ELSE 0)
    BY <1>2, WayChanges
  <2>. QED BY <1>1, <1>2, <1>3, <2>1
<1>7. standby' + in_use' = standby + in_use - a - b - c /\ page_count' = page_count + a + d
  BY <1>3
<1>8. UNCHANGED <<prune>>
  OBVIOUS
<1>. QED BY <1>4, <1>5, <1>6, <1>7, <1>8, UserAccounts

\* So do those that move pages.
LEMMA BusyUserStep ==
    ASSUME FreeInv, NEW u \in Users,
           Pop(u) \/ Keep(u) \/ GiveBack(u) \/ TakeBatch(u) \/ FillCache(u) \/ Steal(u)
    PROVE  NoPageIsLost' /\ PageCountAccounts' /\ HandsAreRight'
<1>1. TypeOK /\ PrunerIsRight /\ NoPageIsLost /\ PageCountAccounts /\ HandsAreRight
  BY DEF FreeInv
<1>2. /\ \A v \in Users : /\ cache[v] \in Nat /\ cache[v] <= FreePageCacheSize
                          /\ taken[v] \in Nat
      /\ Sum(free, FreeLists) \in Nat /\ standby \in Nat /\ in_use \in Nat
      /\ page_count \in Int
  BY <1>1, SumsAreNatural, FreePagesAssumption DEF TypeOK
<1>3. UNCHANGED prune /\ FreePageCacheSize \in Nat \ {0}
  BY FreePagesAssumption DEF Pop, Keep, GiveBack, TakeBatch, FillCache, Steal, prune
<1>4. \A v \in Users : v # u => /\ user'[v] = user[v] /\ taken'[v] = taken[v]
                                /\ cache'[v] = cache[v]
  BY <1>1 DEF Pop, Keep, GiveBack, TakeBatch, FillCache, Steal, Go, TypeOK
<1>5. ASSUME NEW a \in Int, NEW m \in Nat, NEW n \in Nat,
             Sum(free', FreeLists) = Sum(free, FreeLists) + a,
             cache' = [cache EXCEPT ![u] = m], taken' = [taken EXCEPT ![u] = n],
             standby' \in Int, in_use' \in Int,
             standby' + in_use' = standby + in_use - a - (m - cache[u]) - (n - taken[u]),
             page_count' = page_count + a + ((IF OnItsWay(u)' THEN n ELSE 0)
                                               - (IF OnItsWay(u) THEN taken[u] ELSE 0))
      PROVE  NoPageIsLost' /\ PageCountAccounts'
  BY <1>1, <1>3, <1>4, <1>5, OneUserMovesPages
<1>6. ASSUME NEW a \in Int, Sum(free', FreeLists) = Sum(free, FreeLists) + a,
             cache'[u] \in Nat, cache' = [cache EXCEPT ![u] = cache'[u]],
             taken'[u] \in Nat, taken' = [taken EXCEPT ![u] = taken'[u]],
             standby' \in Int, in_use' \in Int,
             standby' + in_use' =
                 standby + in_use - a - (cache'[u] - cache[u]) - (taken'[u] - taken[u]),
             page_count' = page_count + a + ((IF OnItsWay(u)' THEN taken'[u] ELSE 0)
                                               - (IF OnItsWay(u) THEN taken[u] ELSE 0)),
             \/ user'[u] = "idle" /\ taken'[u] = 0
             \/ user'[u] = "have" /\ taken'[u] = 1 /\ cache'[u] < FreePageCacheSize
             \/ user'[u] = "unlock" /\ cache'[u] = 0
      PROVE  NoPageIsLost' /\ PageCountAccounts' /\ HandsAreRight'
  <2>1. NoPageIsLost' /\ PageCountAccounts'
    BY <1>5, <1>6
  <2>2. HandsAreRight'
    BY <1>1, <1>4, <1>6 DEF HandsAreRight, OnItsWay, Searching
  <2>. QED BY <2>1, <2>2
<1>7. CASE Pop(u) \/ Keep(u) \/ GiveBack(u)
  <2>1. /\ free' = free /\ page_count' = page_count /\ standby' = standby
        /\ cache' = [cache EXCEPT ![u] = cache'[u]] /\ taken' = [taken EXCEPT ![u] = taken'[u]]
        /\ ~OnItsWay(u) /\ ~OnItsWay(u)'
    BY <1>1, <1>7 DEF Pop, Keep, GiveBack, Go, TypeOK, OnItsWay, lists_state, others
  <2>2. \/ /\ cache'[u] = cache[u] - 1 /\ taken'[u] = 1 /\ taken[u] = 0 /\ in_use' = in_use
           /\ user'[u] = "have" /\ cache[u] > 0
        \/ /\ cache'[u] = cache[u] /\ taken'[u] = 0 /\ taken[u] = 1 /\ in_use' = in_use + 1
           /\ user'[u] = "idle"
        \/ /\ cache'[u] = cache[u] + 1 /\ taken'[u] = 0 /\ taken[u] = 1 /\ in_use' = in_use
           /\ user'[u] = "idle"
    BY <1>1, <1>7 DEF Pop, Keep, GiveBack, Go, TypeOK, HandsAreRight, OnItsWay, others
  <2>3. Sum(free', FreeLists) = Sum(free, FreeLists) + 0
    BY <1>2, <2>1
  <2>4. /\ cache'[u] \in Nat /\ taken'[u] \in Nat /\ standby' \in Int /\ in_use' \in Int
        /\ standby' + in_use' =
               standby + in_use - 0 - (cache'[u] - cache[u]) - (taken'[u] - taken[u])
        /\ page_count' = page_count + 0 + ((IF OnItsWay(u)' THEN taken'[u] ELSE 0)
                                             - (IF OnItsWay(u) THEN taken[u] ELSE 0))
        /\ \/ user'[u] = "idle" /\ taken'[u] = 0
           \/ user'[u] = "have" /\ taken'[u] = 1 /\ cache'[u] < FreePageCacheSize
    BY <1>2, <1>3, <2>1, <2>2
  <2>. QED BY <1>6, <2>1, <2>3, <2>4
<1>8. CASE TakeBatch(u)
  <2>1. /\ index[u] \in FreeLists /\ free[index[u]] > 0 /\ user[u] = "locked"
        /\ user'[u] = "unlock" /\ taken'[u] = Least(free[index[u]], FreePageCacheSize)
        /\ free' = [free EXCEPT ![index[u]] = free[index[u]] - taken'[u]]
        /\ cache' = [cache EXCEPT ![u] = cache'[u]] /\ taken' = [taken EXCEPT ![u] = taken'[u]]
        /\ cache'[u] = cache[u] /\ cache[u] = 0 /\ taken[u] = 0
        /\ UNCHANGED <<page_count, standby, in_use>>
    BY <1>1, <1>8 DEF TakeBatch, Go, TypeOK, List, HandsAreRight, OnItsWay, Searching, others
  <2>2. PICK n \in Nat, x \in Nat : n = taken'[u] /\ x = free[index[u]] /\ n <= x
    BY <1>1, <1>3, <2>1, SumsAreNatural DEF Least
  <2>3. Sum(free', FreeLists) = Sum(free, FreeLists) - x + (x - n)
    <3>1. x - n \in Nat /\ free' = [free EXCEPT ![index[u]] = x - n]
      BY <2>1, <2>2
    <3>. QED BY <1>1, <2>1, <2>2, <3>1, FreeChanges
  <2>4. Sum(free', FreeLists) = Sum(free, FreeLists) + (0 - n) /\ 0 - n \in Int
    BY <1>2, <2>2, <2>3
  <2>5. OnItsWay(u)' /\ ~OnItsWay(u)
    BY <2>1 DEF OnItsWay
  <2>6. /\ cache'[u] \in Nat /\ taken'[u] \in Nat /\ standby' \in Int /\ in_use' \in Int
        /\ standby' + in_use' =
               standby + in_use - (0 - n) - (cache'[u] - cache[u]) - (taken'[u] - taken[u])
        /\ page_count' = page_count + (0 - n) + ((IF OnItsWay(u)' THEN taken'[u] ELSE 0)
                                             - (IF OnItsWay(u) THEN taken[u] ELSE 0))
    BY <1>2, <2>1, <2>2, <2>5
  <2>. QED BY <1>6, <2>1, <2>4, <2>6
<1>9. CASE FillCache(u)
  <2>1. /\ user[u] = "fill" /\ user'[u] = "idle" /\ cache'[u] = taken[u] /\ cache[u] = 0
        /\ taken'[u] = 0 /\ page_count' = page_count - taken[u] /\ free' = free
        /\ cache' = [cache EXCEPT ![u] = cache'[u]] /\ taken' = [taken EXCEPT ![u] = taken'[u]]
        /\ UNCHANGED <<standby, in_use>>
    BY <1>1, <1>9 DEF FillCache, Go, TypeOK, HandsAreRight, OnItsWay, others
  <2>2. Sum(free', FreeLists) = Sum(free, FreeLists) + 0
    BY <1>2, <2>1
  <2>3. ~OnItsWay(u)' /\ OnItsWay(u)
    BY <2>1 DEF OnItsWay
  <2>4. /\ cache'[u] \in Nat /\ taken'[u] \in Nat /\ standby' \in Int /\ in_use' \in Int
        /\ standby' + in_use' =
               standby + in_use - 0 - (cache'[u] - cache[u]) - (taken'[u] - taken[u])
        /\ page_count' = page_count + 0 + ((IF OnItsWay(u)' THEN taken'[u] ELSE 0)
                                             - (IF OnItsWay(u) THEN taken[u] ELSE 0))
    BY <1>2, <2>1, <2>3
  <2>. QED BY <1>6, <2>1, <2>2, <2>4
<1>10. CASE Steal(u)
  <2>1. /\ user[u] = "steal" /\ user'[u] = "idle" /\ cache[u] = 0 /\ taken[u] = 0
        /\ taken'[u] = 0 /\ free' = free /\ page_count' = page_count /\ in_use' = in_use
        /\ cache' = [cache EXCEPT ![u] = cache'[u]] /\ taken' = [taken EXCEPT ![u] = taken'[u]]
    BY <1>1, <1>10 DEF Steal, Go, TypeOK, HandsAreRight, OnItsWay, lists_state
  <2>2. cache'[u] \in Nat /\ standby' = standby - cache'[u]
    BY <1>1, <1>2, <1>10, <2>1 DEF Steal, TypeOK
  <2>3. Sum(free', FreeLists) = Sum(free, FreeLists) + 0
    BY <1>2, <2>1
  <2>4. ~OnItsWay(u)' /\ ~OnItsWay(u)
    BY <2>1 DEF OnItsWay
  <2>5. /\ taken'[u] \in Nat /\ standby' \in Int /\ in_use' \in Int
        /\ standby' + in_use' =
               standby + in_use - 0 - (cache'[u] - cache[u]) - (taken'[u] - taken[u])
        /\ page_count' = page_count + 0 + ((IF OnItsWay(u)' THEN taken'[u] ELSE 0)
                                             - (IF OnItsWay(u) THEN taken[u] ELSE 0))
    BY <1>2, <2>1, <2>2, <2>4
  <2>. QED BY <1>6, <2>1, <2>2, <2>3, <2>5
<1>. QED BY <1>7, <1>8, <1>9, <1>10

\* The program's numbers keep their types in a step of a user thread.
LEMMA UserStepTypes ==
    ASSUME FreeInv, NEW u \in Users, UserStep(u), Offer, NoPageIsLost'
    PROVE  TypeOK'
<1>1. TypeOK /\ PrunerIsRight /\ HandsAreRight /\ SearchIsOnItsWay
  BY DEF FreeInv
<1>2. /\ NumLists \in Nat \ {0} /\ FreePageCacheSize \in Nat \ {0} /\ StealBatch \in Nat
      /\ StealBatch <= FreePageCacheSize /\ NumPages \in Nat
  BY FreePagesAssumption
<1>3. UNCHANGED prune
  BY DEF UserStep, Pop, Keep, GiveBack, Search, LookPages, LookEmpty, LockList, LockBusy,
         TakeNothing, TakeBatch, UnlockList, MarkLow, WakePruner, FillCache, Steal, prune
<1>4. /\ user' \in [Users -> {"idle", "have", "look", "lock", "locked", "unlock", "low", "wake",
                           "fill", "steal"}]
      /\ low' \subseteq FreeLists /\ pruning' \in BOOLEAN
      /\ locked' \in [FreeLists -> Users \cup {Nobody}]
  <2>1. List(u) \in FreeLists
    BY <1>1 DEF List, TypeOK
  <2>2. PICK w \in {"idle", "have", "look", "lock", "locked", "unlock", "low", "wake", "fill",
                   "steal"} : user' = [user EXCEPT ![u] = w]
    BY DEF UserStep, Pop, Keep, GiveBack, Search, LookPages, LookEmpty, LockList, LockBusy,
           TakeNothing, TakeBatch, UnlockList, MarkLow, WakePruner, FillCache, Steal, Go, Advance
  <2>3. low' \in {low, low \cup {List(u)}} /\ pruning' \in {pruning, TRUE}
    BY DEF UserStep, Pop, Keep, GiveBack, Search, LookPages, LookEmpty, LockList, LockBusy,
           TakeNothing, TakeBatch, UnlockList, MarkLow, WakePruner, FillCache, Steal, signals
  <2>4. \/ locked' = locked \/ locked' = [locked EXCEPT ![List(u)] = u]
        \/ locked' = [locked EXCEPT ![List(u)] = Nobody]
    BY DEF UserStep, Pop, Keep, GiveBack, Search, LookPages, LookEmpty, LockList, LockBusy,
           TakeNothing, TakeBatch, UnlockList, MarkLow, WakePruner, FillCache, Steal, lists_state
  <2>5. /\ low' \subseteq FreeLists /\ pruning' \in BOOLEAN
    BY <1>1, <2>1, <2>3 DEF TypeOK
  <2>6. locked' \in [FreeLists -> Users \cup {Nobody}]
    BY <1>1, <2>4 DEF TypeOK
  <2>. QED BY <1>1, <2>2, <2>5, <2>6 DEF TypeOK
<1>5. index' \in [Users -> FreeLists] /\ attempts' \in [Users -> 0..NumLists]
  <2>1. CASE LookEmpty(u) \/ LockBusy(u) \/ TakeNothing(u)
    <3>1. Searching(u) /\ Advance(u)
      BY <2>1 DEF LookEmpty, LockBusy, TakeNothing, Searching
    <3>2. attempts[u] \in Nat /\ attempts[u] < NumLists /\ index[u] \in FreeLists
      BY <1>1, <1>2, <3>1 DEF SearchIsOnItsWay, TypeOK
    <3>3. (index[u] + 1) % NumLists \in FreeLists
      BY <3>2, Places
    <3>4. attempts[u] + 1 \in 0..NumLists
      BY <1>2, <3>2
    <3>. QED BY <1>1, <3>1, <3>3, <3>4 DEF TypeOK, Advance
  <2>2. CASE Search(u)
    BY <1>1, <1>2, <2>2, OwnList DEF TypeOK, Search
  <2>3. CASE UNCHANGED <<index, attempts>>
    BY <1>1, <2>3 DEF TypeOK
  <2>. QED BY <2>1, <2>2, <2>3 DEF UserStep, Pop, Keep, GiveBack, LookPages, LockList,
         TakeBatch, UnlockList, MarkLow, WakePruner, FillCache, Steal
<1>6. /\ free' \in [FreeLists -> Nat] /\ {standby', in_use'} \subseteq Nat /\ page_count' \in Int
      /\ cache' \in [Users -> 0..FreePageCacheSize] /\ taken' \in [Users -> 0..FreePageCacheSize]
  <2>0. /\ free \in [FreeLists -> Nat] /\ {standby, in_use} \subseteq Nat
        /\ \A v \in Users : taken[v] \in Int
    BY <1>1, <1>2 DEF TypeOK
  <2>1. CASE Pop(u) \/ Keep(u) \/ GiveBack(u)
    <3>1. UNCHANGED <<free, page_count, standby>> /\ in_use' \in Nat
      BY <2>0, <2>1 DEF Pop, Keep, GiveBack, lists_state, others
    <3>2. user[u] = "have" => cache[u] < FreePageCacheSize
      BY <1>1 DEF HandsAreRight
    <3>3. cache' \in [Users -> 0..FreePageCacheSize] /\ taken' \in [Users -> 0..FreePageCacheSize]
      BY <1>1, <1>2, <2>1, <3>2 DEF Pop, Keep, GiveBack, Go, TypeOK
    <3>. QED BY <1>1, <2>0, <3>1, <3>3 DEF TypeOK
  <2>2. CASE TakeBatch(u)
    <3>1. /\ index[u] \in FreeLists /\ free[index[u]] \in Nat
          /\ UNCHANGED <<page_count, standby, in_use, cache>>
          /\ taken' = [taken EXCEPT ![u] = Least(free[index[u]], FreePageCacheSize)]
          /\ free' = [free EXCEPT ![index[u]] = @ - taken'[u]]
      BY <1>1, <2>0, <2>2 DEF TakeBatch, List, TypeOK, others
    <3>2. Least(free[index[u]], FreePageCacheSize) \in 0..FreePageCacheSize
          /\ free[index[u]] - Least(free[index[u]], FreePageCacheSize) \in Nat
      BY <1>2, <3>1 DEF Least
    <3>. QED BY <1>1, <2>0, <3>1, <3>2 DEF TypeOK
  <2>3. CASE FillCache(u)
    BY <1>1, <1>2, <2>0, <2>3 DEF FillCache, TypeOK, others
  <2>4. CASE Steal(u)
    <3>1. UNCHANGED <<free, page_count, in_use, taken>>
      BY <2>4 DEF Steal, lists_state
    <3>2. \/ UNCHANGED <<standby, cache>>
          \/ \E n \in 1..Least(standby, StealBatch) :
                 standby' = standby - n /\ cache' = [cache EXCEPT ![u] = n]
      BY <2>4 DEF Steal
    <3>3. standby' \in Nat /\ cache' \in [Users -> 0..FreePageCacheSize]
      BY <1>1, <1>2, <2>0, <3>2 DEF Least, TypeOK
    <3>. QED BY <1>1, <2>0, <3>1, <3>3 DEF TypeOK
  <2>5. CASE UNCHANGED <<free, standby, in_use, page_count, cache, taken>>
    BY <1>1, <2>0, <2>5 DEF TypeOK
  <2>. QED BY <2>1, <2>2, <2>3, <2>4, <2>5 DEF UserStep, Search, LookPages, LookEmpty, LockList,
         LockBusy, TakeNothing, UnlockList, MarkLow, WakePruner, lists_state, others
<1>7. InPruner' = InPruner /\ InPruner \in Nat /\ stranded' = stranded /\ stranded \in Nat
  BY <1>1, <1>3, PrunerHolds DEF prune, InPruner, TypeOK
<1>8. free' \in [FreeLists -> 0..NumPages] /\ {standby', in_use', stranded'} \subseteq 0..NumPages
  <2>2. (NoPageIsLost /\ free \in [FreeLists -> Nat] /\ cache \in [Users -> Nat]
           /\ taken \in [Users -> Nat] /\ {standby, in_use, stranded, InPruner} \subseteq Nat)'
        => (/\ free \in [FreeLists -> 0..NumPages]
            /\ {standby, in_use, stranded, InPruner} \subseteq 0..NumPages
            /\ InPruner + stranded <= NumPages)'
    BY NoMoreThanAll, PTL
  <2>3. cache' \in [Users -> Nat] /\ taken' \in [Users -> Nat]
    BY <1>2, <1>6
  <2>. QED BY <1>6, <1>7, <2>2, <2>3
<1>9. offered' \in [Users -> SUBSET FreeLists]
  BY DEF Offer
<1>. QED BY <1>1, <1>3, <1>4, <1>5, <1>6, <1>8, <1>9 DEF TypeOK, prune

-----------------------------------------------------------------------------
(* The pruner and the rest of the system.                                  *)

\* The first of a set of lists is one of them.
LEMMA FirstIsOne ==
    ASSUME NEW S \in SUBSET FreeLists, S # {}
    PROVE  Min(S) \in S
<1>1. S \subseteq Nat
  BY FreePagesAssumption DEF FreeLists
<1>. DEFINE Less == {ss \in Nat \X Nat : ss[1] < ss[2]}
<1>2. IsWellFoundedOn(Less, Nat)
  BY NatLessThanWellFounded, Zenon DEF OpToRel
<1>3. PICK x \in S : \A y \in S : <<y, x>> \notin Less
  <2>. HIDE DEF Less
  <2>. QED BY <1>1, <1>2, WFMin
<1>4. \A y \in S : x <= y
  <2>. SUFFICES ASSUME NEW y \in S, y < x PROVE FALSE
    BY <1>1
  <2>1. <<y, x>> \in Nat \X Nat /\ <<y, x>>[1] < <<y, x>>[2]
    BY <1>1
  <2>2. <<y, x>> \in Less
    BY <2>1
  <2>. QED BY <1>3, <2>2
<1>. QED BY <1>3, <1>4 DEF Min

\* The pages that the pruner links to its next list are those that it has less afterwards.
LEMMA ShareLeaves ==
    ASSUME TypeOK, PrunerIsRight, pruner \in {"insert", "link"}, fill' = fill \ {Min(fill)},
           pruner' = AfterList, UNCHANGED <<batch, lists>>
    PROVE  /\ Share \in Nat /\ InPruner' = InPruner - Share /\ Share <= InPruner
           /\ Min(fill) \in FreeLists /\ PrunerIsRight' /\ fill' \subseteq FreeLists
<1>1. /\ InPruner \in 0..batch /\ batch \in Nat /\ lists \in Nat \ {0}
      /\ Cardinality(fill) \in 1..lists /\ IsFiniteSet(fill)
  BY PrunerHolds
<1>2. Min(fill) \in fill /\ fill \in SUBSET FreeLists
  BY FirstIsOne DEF PrunerIsRight, TypeOK
<1>3. Cardinality(fill') = Cardinality(fill) - 1
  BY <1>1, <1>2, FS_RemoveElement
<1>. DEFINE c == Cardinality(fill)
            q == batch \div lists
            r == batch % lists
<1>4. /\ c \in 1..lists /\ q \in Nat /\ r \in Nat
      /\ batch - q * (lists - c) \in Nat
      /\ batch - q * (lists - c) = q * c + r
      /\ batch - q * (lists - (c - 1)) = batch - q * (lists - c) - q
  <2>1. q \in Nat /\ r \in 0..(lists - 1)
    BY <1>1, Division
  <2>2. c \in 1..lists
    BY <1>1
  <2>. HIDE DEF c
  <2>3. /\ batch - q * (lists - c) \in Nat
        /\ batch - q * (lists - c) = q * c + r
        /\ batch - q * (lists - (c - 1)) = batch - q * (lists - c) - q
    BY <1>1, <2>2, Shares
  <2>. QED BY <1>1, <2>1, <2>2, <2>3
<1>5. InPruner = batch - q * (lists - c)
  BY DEF InPruner
<1>6. Share = q + (IF c = 1 THEN r ELSE 0)
  BY DEF Share
<1>7. CASE c = 1
  <2>1. pruner' = "count" /\ InPruner' = 0
    BY <1>7 DEF AfterList, InPruner
  <2>2. InPruner = Share /\ Share \in Nat
    BY <1>4, <1>5, <1>6, <1>7
  <2>3. PrunerIsRight'
    BY <1>1, <2>1 DEF PrunerIsRight
  <2>. QED BY <1>1, <1>2, <2>1, <2>2, <2>3
<1>8. CASE c # 1
  <2>1. pruner' = "insert"
    BY <1>8 DEF AfterList
  <2>2. InPruner' = batch - q * (lists - (c - 1))
    BY <1>3, <2>1 DEF InPruner
  <2>3. Share = q /\ InPruner' = InPruner - Share
    BY <1>4, <1>5, <1>6, <1>8, <2>2
  <2>4. InPruner' \in Nat
    <3>1. c - 1 \in 1..lists
      BY <1>1, <1>4, <1>8
    <3>2. batch - q * (lists - (c - 1)) \in Nat
      BY <1>1, <3>1, Shares
    <3>. QED BY <2>2, <3>2
  <2>5. PrunerIsRight'
    <3>1. Cardinality(fill') \in Nat \ {0} /\ Cardinality(fill') <= lists
      BY <1>1, <1>3, <1>4, <1>8
    <3>2. fill' # {}
      BY <3>1, FS_EmptySet
    <3>. QED BY <1>1, <2>1, <3>1, <3>2 DEF PrunerIsRight
  <2>6. Share <= InPruner
    BY <1>1, <1>4, <2>3, <2>4
  <2>. QED BY <1>2, <1>4, <2>3, <2>5, <2>6
<1>. QED BY <1>7, <1>8

\* What the pruner has linked to lists and not counted.
Uncounted == IF pruner \in {"insert", "link", "count"} THEN batch - InPruner ELSE 0

\* A step of the pruner, or of the rest of the system, that moves a pages to the free lists.
LEMMA OthersAccount ==
    ASSUME TypeOK, PrunerIsRight, NoPageIsLost, PageCountAccounts,
           UNCHANGED <<cache, taken, user>>,
           NEW a \in Int, Sum(free', FreeLists) = Sum(free, FreeLists) + a,
           {standby', in_use', InPruner', stranded', Uncounted', page_count'} \subseteq Int,
           standby' + in_use' + InPruner' + stranded' =
               standby + in_use + InPruner + stranded - a,
           page_count' + Uncounted' = page_count + Uncounted + a
    PROVE  NoPageIsLost' /\ PageCountAccounts'
<1>1. /\ InPruner \in Nat /\ batch \in Nat /\ standby \in Nat /\ in_use \in Nat
      /\ stranded \in Nat /\ page_count \in Int /\ Uncounted \in Int
  BY PrunerHolds DEF TypeOK, Uncounted
<1>2. /\ Sum(free, FreeLists) \in Nat /\ Sum(cache, Users) \in Nat /\ Sum(taken, Users) \in Nat
      /\ Sum(taken, {u \in Users : OnItsWay(u)}) \in Nat
  BY SumsAreNatural
<1>3. PICK x \in Nat, y \in Nat, z \in Nat, w \in Nat :
          /\ x = Sum(free, FreeLists) /\ y = Sum(cache, Users) /\ z = Sum(taken, Users)
          /\ w = Sum(taken, {u \in Users : OnItsWay(u)})
  BY <1>2
<1>4. NoPageIsLost'
  <2>1. PICK i \in Nat, j \in Nat, k \in Nat, l \in Nat, n \in Nat :
            i = standby /\ j = in_use /\ k = InPruner /\ l = stranded /\ n = NumPages
    BY <1>1, FreePagesAssumption
  <2>2. PICK i1 \in Int, j1 \in Int, k1 \in Int, l1 \in Int :
            i1 = standby' /\ j1 = in_use' /\ k1 = InPruner' /\ l1 = stranded'
    OBVIOUS
  <2>3. x + y + z + i + j + k + l = n /\ i1 + j1 + k1 + l1 = i + j + k + l - a
    BY <1>3, <2>1, <2>2 DEF NoPageIsLost
  <2>4. (x + a) + y + z + i1 + j1 + k1 + l1 = n
    BY <2>3
  <2>5. Sum(free', FreeLists) = x + a /\ Sum(cache', Users) = y /\ Sum(taken', Users) = z
    BY <1>3
  <2>. QED BY <2>1, <2>2, <2>4, <2>5 DEF NoPageIsLost
<1>5. PageCountAccounts'
  <2>1. /\ page_count = Sum(free, FreeLists) + Sum(taken, {u \in Users : OnItsWay(u)}) - Uncounted
        /\ PageCountAccounts' <=>
               page_count' = Sum(free', FreeLists) + Sum(taken', {u \in Users : OnItsWay(u)'})
                                 - Uncounted'
    BY DEF PageCountAccounts, OnItsWay, Uncounted
  <2>2. Sum(taken', {u \in Users : OnItsWay(u)'}) = w /\ Sum(free', FreeLists) = x + a
    <3>1. {u \in Users : OnItsWay(u)'} = {u \in Users : OnItsWay(u)}
      BY DEF OnItsWay
    <3>. QED BY <1>3, <3>1
  <2>3. PICK p \in Int, q \in Int, p1 \in Int, q1 \in Int :
            p = page_count /\ q = Uncounted /\ p1 = page_count' /\ q1 = Uncounted'
    BY <1>1
  <2>4. p = x + w - q /\ p1 + q1 = p + q + a
    BY <1>3, <2>1, <2>3
  <2>5. p1 = (x + a) + w - q1
    BY <2>4
  <2>. QED BY <2>1, <2>2, <2>3, <2>5
<1>. QED BY <1>4, <1>5

\* Pages that are trimmed, written or faulted back are not lost.
LEMMA TrafficKeepsPages ==
    ASSUME FreeInv, OtherTraffic
    PROVE  /\ NoPageIsLost' /\ PageCountAccounts' /\ PrunerIsRight' /\ ClearFindsBit'
           /\ {standby', in_use'} \subseteq Nat
<1>1. TypeOK /\ PrunerIsRight /\ NoPageIsLost /\ PageCountAccounts /\ ClearFindsBit
  BY DEF FreeInv
<1>2. UNCHANGED <<free, page_count, low, cache, taken, user, pruner, batch, lists, unclear, fill,
                  stranded>>
  BY DEF OtherTraffic, lists_state, signals, search, prune
<1>3. InPruner' = InPruner /\ Uncounted' = Uncounted
  BY <1>2 DEF InPruner, Uncounted
<1>4. /\ InPruner \in Nat /\ batch \in Nat /\ standby \in Nat /\ in_use \in Nat
      /\ stranded \in Nat /\ page_count \in Int /\ Uncounted \in Int
      /\ Sum(free, FreeLists) \in Nat
  BY <1>1, PrunerHolds, SumsAreNatural DEF TypeOK, Uncounted
<1>5. standby' \in Nat /\ in_use' \in Nat /\ standby' + in_use' = standby + in_use
  BY <1>4 DEF OtherTraffic
<1>6. Sum(free', FreeLists) = Sum(free, FreeLists) + 0
  BY <1>2, <1>4
<1>7. /\ {standby', in_use', InPruner', stranded', Uncounted', page_count'} \subseteq Int
      /\ standby' + in_use' + InPruner' + stranded' = standby + in_use + InPruner + stranded - 0
      /\ page_count' + Uncounted' = page_count + Uncounted + 0
  <2>1. PICK k \in Nat, l \in Nat, i \in Nat, j \in Nat, i1 \in Nat, j1 \in Nat :
            /\ k = InPruner /\ l = stranded /\ k = InPruner' /\ l = stranded'
            /\ i = standby /\ j = in_use /\ i1 = standby' /\ j1 = in_use'
    BY <1>2, <1>3, <1>4, <1>5
  <2>2. i1 + j1 = i + j
    BY <1>5, <2>1
  <2>3. i1 + j1 + k + l = i + j + k + l - 0
    BY <2>2
  <2>4. standby' + in_use' + InPruner' + stranded' = standby + in_use + InPruner + stranded - 0
    BY <2>1, <2>3
  <2>5. page_count' + Uncounted' = page_count + Uncounted + 0
    BY <1>2, <1>3, <1>4
  <2>6. {standby', in_use', InPruner', stranded', Uncounted', page_count'} \subseteq Int
    BY <1>2, <1>3, <1>4, <1>5
  <2>. QED BY <2>4, <2>5, <2>6
<1>8. NoPageIsLost' /\ PageCountAccounts'
  BY <1>1, <1>2, <1>6, <1>7, OthersAccount
<1>9. PrunerIsRight' /\ ClearFindsBit'
  BY <1>1, <1>2 DEF PrunerIsRight, ClearFindsBit
<1>. QED BY <1>5, <1>8, <1>9

\* A step of the pruner that moves b pages to the standby list, c to its own hands and d to
\* those that are stranded; less than nothing is from there.
LEMMA PrunerAccounts ==
    ASSUME TypeOK, PrunerIsRight, NoPageIsLost, PageCountAccounts,
           UNCHANGED <<cache, taken, user, in_use>>,
           NEW a \in Int, NEW b \in Int, NEW c \in Int, NEW d \in Int, a + b + c + d = 0,
           Sum(free', FreeLists) = Sum(free, FreeLists) + a, standby' = standby + b,
           InPruner' = InPruner + c, stranded' = stranded + d,
           page_count' \in Int, Uncounted' \in Int,
           page_count' + Uncounted' = page_count + Uncounted + a
    PROVE  NoPageIsLost' /\ PageCountAccounts'
<1>1. InPruner \in Int /\ standby \in Int /\ in_use \in Int /\ stranded \in Int
  BY PrunerHolds DEF TypeOK
<1>2. {standby', in_use', InPruner', stranded', Uncounted', page_count'} \subseteq Int
  BY <1>1
<1>3. standby' + in_use' + InPruner' + stranded' = standby + in_use + InPruner + stranded - a
  <2>1. PICK i \in Int, j \in Int, k \in Int, l \in Int :
            i = standby /\ j = in_use /\ k = InPruner /\ l = stranded
    BY <1>1
  <2>2. (i + b) + j + (k + c) + (l + d) = i + j + k + l - a
    OBVIOUS
  <2>. QED BY <2>1, <2>2
<1>. QED BY <1>2, <1>3, OthersAccount

\* The pruner loses no page but those that it strands.
LEMMA PrunerKeepsPages ==
    ASSUME FreeInv, PrunerStep
    PROVE  /\ NoPageIsLost' /\ PageCountAccounts' /\ PrunerIsRight' /\ ClearFindsBit'
           /\ {standby', in_use', stranded'} \subseteq Nat /\ batch' \in 0..NumPages
           /\ free' \in [FreeLists -> Nat] /\ InPruner' \in Nat /\ page_count' \in Int
           /\ lists' \in 0..NumLists /\ unclear' \subseteq FreeLists /\ fill' \subseteq FreeLists
           /\ low' \subseteq FreeLists /\ pruning' \in BOOLEAN
           /\ pruner' \in {"wait", "remove", "snapshot", "clear", "insert", "link", "count"}
<1>1. TypeOK /\ PrunerIsRight /\ NoPageIsLost /\ PageCountAccounts /\ ClearFindsBit
  BY DEF FreeInv
<1>2. /\ InPruner \in 0..batch /\ batch \in Nat /\ batch \in 0..NumPages /\ standby \in 0..NumPages
      /\ in_use \in Nat /\ stranded \in Nat /\ page_count \in Int /\ Uncounted \in Int
      /\ Sum(free, FreeLists) \in Nat /\ free \in [FreeLists -> Nat] /\ NumPages \in Nat
      /\ lists \in 0..NumLists /\ unclear \subseteq FreeLists /\ fill \subseteq FreeLists
      /\ low \subseteq FreeLists /\ pruning \in BOOLEAN
  BY <1>1, PrunerHolds, SumsAreNatural, FreePagesAssumption DEF TypeOK, Uncounted
<1>3. UNCHANGED <<cache, taken, user, in_use>>
  BY DEF PrunerStep, PrunerWake, PruneRemove, PruneSnapshot, PruneClear, PruneSkip, PruneLock,
         PruneLink, PruneCount, search, others
<1>4. CASE PrunerWake
  <2>1. /\ pruner = "wait" /\ pruner' = "remove" /\ pruning' = FALSE
        /\ UNCHANGED <<free, page_count, low, batch, lists, unclear, fill, stranded, standby>>
    BY <1>4 DEF PrunerWake, lists_state, others
  <2>2. InPruner' = InPruner /\ Uncounted' = Uncounted
    BY <2>1 DEF InPruner, Uncounted
  <2>3. NoPageIsLost' /\ PageCountAccounts'
    <3>1. /\ Sum(free', FreeLists) = Sum(free, FreeLists) + 0 /\ standby' = standby + 0
          /\ InPruner' = InPruner + 0 /\ stranded' = stranded + 0
          /\ page_count' + Uncounted' = page_count + Uncounted + 0
          /\ page_count' \in Int /\ Uncounted' \in Int /\ 0 + 0 + 0 + 0 = 0
      BY <1>2, <2>1, <2>2
    <3>. QED BY <1>1, <1>3, <3>1, PrunerAccounts
  <2>4. PrunerIsRight' /\ ClearFindsBit'
    BY <1>1, <2>1 DEF PrunerIsRight, ClearFindsBit
  <2>5. pruning' \in BOOLEAN
    BY <2>1
  <2>6. InPruner' \in Nat /\ {standby', in_use', stranded'} \subseteq Nat
    BY <1>2, <1>3, <2>1, <2>2
  <2>. QED BY <1>2, <2>1, <2>3, <2>4, <2>5, <2>6
<1>5. CASE PruneRemove
  <2>1. /\ pruner = "remove"
        /\ UNCHANGED <<free, page_count, low, pruning, lists, unclear, fill, stranded>>
    BY <1>5 DEF PruneRemove, lists_state, signals
  <2>2. PICK n \in Nat : /\ standby' = standby - n /\ n <= standby
                         /\ \/ batch' = n /\ pruner' = "snapshot"
                            \/ n = 0 /\ batch' = batch /\ pruner' = "wait"
    <3>1. CASE \E n \in 1..Least(standby, MaxPruneBatch) :
                   standby' = standby - n /\ batch' = n /\ pruner' = "snapshot"
      BY <1>2, <3>1, FreePagesAssumption DEF Least
    <3>2. CASE standby = 0 /\ pruner' = "wait" /\ UNCHANGED <<standby, batch>>
      BY <1>2, <3>2
    <3>. QED BY <1>5, <3>1, <3>2 DEF PruneRemove
  <2>3. InPruner = 0 /\ InPruner' = n /\ Uncounted = 0 /\ Uncounted' = 0
    BY <2>1, <2>2 DEF InPruner, Uncounted
  <2>4. NoPageIsLost' /\ PageCountAccounts'
    <3>1. /\ Sum(free', FreeLists) = Sum(free, FreeLists) + 0 /\ standby' = standby + (0 - n)
          /\ InPruner' = InPruner + n /\ stranded' = stranded + 0
          /\ page_count' + Uncounted' = page_count + Uncounted + 0
          /\ page_count' \in Int /\ Uncounted' \in Int
          /\ 0 + (0 - n) + n + 0 = 0 /\ 0 - n \in Int
      BY <1>2, <2>1, <2>2, <2>3
    <3>. QED BY <1>1, <1>3, <3>1, PrunerAccounts
  <2>5. PrunerIsRight' /\ ClearFindsBit'
    BY <1>1, <2>1, <2>2 DEF PrunerIsRight, ClearFindsBit
  <2>6. standby' \in Nat /\ batch' \in 0..NumPages
    BY <1>2, <2>2
  <2>. QED BY <1>2, <1>3, <2>1, <2>2, <2>3, <2>4, <2>5, <2>6
<1>6. CASE PruneSnapshot
  <2>1. /\ pruner = "snapshot" /\ lists' = Cardinality(low) /\ fill' = low /\ unclear' = low
        /\ UNCHANGED <<free, page_count, low, pruning, standby>>
    BY <1>6 DEF PruneSnapshot, lists_state, signals, others
  <2>2. /\ IsFiniteSet(low) /\ Cardinality(low) \in 0..NumLists
        /\ (Cardinality(low) = 0 <=> low = {})
    <3>1. IsFiniteSet(FreeLists) /\ Cardinality(FreeLists) = NumLists
      <4>1. 0 \in Int /\ NumLists - 1 \in Int /\ 0 <= NumLists - 1
        BY FreePagesAssumption
      <4>. QED BY <4>1, FS_Interval, FreePagesAssumption DEF FreeLists
    <3>2. IsFiniteSet(low) /\ Cardinality(low) <= Cardinality(FreeLists)
      BY <1>2, <3>1, FS_Subset
    <3>. QED BY <3>1, <3>2, FS_CardinalityType, FS_EmptySet, FreePagesAssumption
  <2>3. /\ InPruner = batch /\ Uncounted = 0 /\ Uncounted' = 0
        /\ \/ low = {} /\ pruner' = "wait" /\ batch' = 0 /\ stranded' = stranded + batch
                       /\ InPruner' = 0
           \/ low # {} /\ pruner' = "clear" /\ batch' = batch /\ stranded' = stranded
                       /\ InPruner' = batch
    BY <1>6, <2>1 DEF PruneSnapshot, InPruner, Uncounted
  <2>4. NoPageIsLost' /\ PageCountAccounts'
    <3>1. PICK d \in Nat : stranded' = stranded + d /\ InPruner' = InPruner + (0 - d)
      BY <1>2, <2>3
    <3>2. /\ Sum(free', FreeLists) = Sum(free, FreeLists) + 0 /\ standby' = standby + 0
          /\ page_count' + Uncounted' = page_count + Uncounted + 0
          /\ page_count' \in Int /\ Uncounted' \in Int
          /\ 0 + 0 + (0 - d) + d = 0 /\ 0 - d \in Int
      BY <1>2, <2>1, <2>3
    <3>. QED BY <1>1, <1>3, <3>1, <3>2, PrunerAccounts
  <2>5. PrunerIsRight' /\ ClearFindsBit'
    BY <1>1, <2>1, <2>2, <2>3 DEF PrunerIsRight, ClearFindsBit
  <2>6. stranded' \in Nat /\ InPruner' \in Nat /\ batch' \in 0..NumPages
    BY <1>2, <2>3
  <2>. QED BY <1>2, <1>3, <2>1, <2>2, <2>3, <2>4, <2>5, <2>6
<1>7. CASE PruneClear
  <2>1. /\ pruner = "clear" /\ pruner' \in {"insert", "clear"} /\ (pruner' = "clear" <=> unclear' # {})
        /\ low' = low \ {Min(unclear)} /\ unclear' = unclear \ {Min(unclear)}
        /\ UNCHANGED <<free, page_count, pruning, batch, lists, fill, stranded, standby>>
    BY <1>7 DEF PruneClear, lists_state, others
  <2>2. /\ lists \in Nat \ {0} /\ fill # {} /\ Cardinality(fill) = lists
    BY <1>1, <1>2, <2>1, FreePagesAssumption DEF PrunerIsRight
  <2>3. batch - (batch \div lists) * (lists - lists) = batch
    <3>1. batch \div lists \in Nat
      BY <1>2, <2>2, Division
    <3>2. lists - lists = 0 /\ (batch \div lists) * 0 = 0
      BY <2>2, <3>1
    <3>. QED BY <1>2, <3>2
  <2>4. InPruner = batch /\ InPruner' = batch /\ Uncounted = 0 /\ Uncounted' = 0
    BY <1>2, <2>1, <2>2, <2>3 DEF InPruner, Uncounted
  <2>5. NoPageIsLost' /\ PageCountAccounts'
    <3>1. /\ Sum(free', FreeLists) = Sum(free, FreeLists) + 0 /\ standby' = standby + 0
          /\ InPruner' = InPruner + 0 /\ stranded' = stranded + 0
          /\ page_count' + Uncounted' = page_count + Uncounted + 0
          /\ page_count' \in Int /\ Uncounted' \in Int /\ 0 + 0 + 0 + 0 = 0
      BY <1>2, <2>1, <2>4
    <3>. QED BY <1>1, <1>3, <3>1, PrunerAccounts
  <2>6. PrunerIsRight' /\ ClearFindsBit'
    BY <1>1, <2>1, <2>2 DEF PrunerIsRight, ClearFindsBit
  <2>. QED BY <1>2, <1>3, <2>1, <2>4, <2>5, <2>6
<1>8. CASE PruneSkip \/ PruneLink
  <2>1. /\ pruner \in {"insert", "link"} /\ pruner' = AfterList /\ fill' = fill \ {Min(fill)}
        /\ UNCHANGED <<page_count, low, pruning, batch, lists, unclear, stranded, standby>>
    BY <1>8 DEF PruneSkip, PruneLink, lists_state, signals, others
  <2>2. /\ Share \in Nat /\ InPruner' = InPruner - Share /\ Share <= InPruner
        /\ Min(fill) \in FreeLists /\ PrunerIsRight' /\ fill' \subseteq FreeLists
    BY <1>1, <2>1, ShareLeaves
  <2>3. free' \in [FreeLists -> Nat] /\ Sum(free', FreeLists) = Sum(free, FreeLists) + Share
    <3>1. CASE PruneSkip
      BY <1>2, <3>1 DEF PruneSkip, lists_state
    <3>2. CASE PruneLink
      <4>1. PICK n \in Nat, x \in Nat : n = Share /\ x = free[Min(fill)]
        BY <1>2, <2>2
      <4>2. free' = [free EXCEPT ![Min(fill)] = x + n] /\ x + n \in Nat
        BY <3>2, <4>1 DEF PruneLink
      <4>3. Sum(free', FreeLists) = Sum(free, FreeLists) - free[Min(fill)] + (x + n)
        BY <1>1, <2>2, <4>2, FreeChanges
      <4>4. Sum(free', FreeLists) = Sum(free, FreeLists) + n
        BY <1>2, <4>1, <4>3
      <4>. QED BY <1>2, <2>2, <4>1, <4>2, <4>4
    <3>. QED BY <1>8, <3>1, <3>2
  <2>4. Uncounted' = Uncounted + Share
    <3>1. pruner' \in {"insert", "link", "count"}
      BY <2>1 DEF AfterList
    <3>2. Uncounted = batch - InPruner /\ Uncounted' = batch - InPruner'
      BY <2>1, <3>1 DEF Uncounted
    <3>. QED BY <1>2, <2>2, <3>2
  <2>5. NoPageIsLost' /\ PageCountAccounts'
    <3>1. PICK n \in Nat : n = Share
      BY <2>2
    <3>2. /\ Sum(free', FreeLists) = Sum(free, FreeLists) + n /\ standby' = standby + 0
          /\ InPruner' = InPruner + (0 - n) /\ stranded' = stranded + 0
          /\ page_count' + Uncounted' = page_count + Uncounted + n
          /\ page_count' \in Int /\ Uncounted' \in Int
          /\ n + 0 + (0 - n) + 0 = 0 /\ 0 - n \in Int
      BY <1>2, <2>1, <2>2, <2>3, <2>4, <3>1
    <3>. QED BY <1>1, <1>3, <3>1, <3>2, PrunerAccounts
  <2>6. ClearFindsBit'
    BY <1>1, <2>1 DEF ClearFindsBit
  <2>7. InPruner' \in Nat
    BY <1>2, <2>2
  <2>8. pruner' \in {"insert", "count"}
    BY <2>1 DEF AfterList
  <2>. QED BY <1>2, <1>3, <2>1, <2>2, <2>3, <2>5, <2>6, <2>7, <2>8
<1>9. CASE PruneLock
  <2>1. /\ pruner = "insert" /\ pruner' = "link"
        /\ UNCHANGED <<free, page_count, low, pruning, batch, lists, unclear, fill, stranded,
                       standby>>
    BY <1>9 DEF PruneLock, lists_state, signals, others
  <2>2. InPruner' = InPruner /\ Uncounted' = Uncounted
    BY <2>1 DEF InPruner, Uncounted
  <2>3. NoPageIsLost' /\ PageCountAccounts'
    <3>1. /\ Sum(free', FreeLists) = Sum(free, FreeLists) + 0 /\ standby' = standby + 0
          /\ InPruner' = InPruner + 0 /\ stranded' = stranded + 0
          /\ page_count' + Uncounted' = page_count + Uncounted + 0
          /\ page_count' \in Int /\ Uncounted' \in Int /\ 0 + 0 + 0 + 0 = 0
      BY <1>2, <2>1, <2>2
    <3>. QED BY <1>1, <1>3, <3>1, PrunerAccounts
  <2>4. PrunerIsRight' /\ ClearFindsBit'
    BY <1>1, <2>1 DEF PrunerIsRight, ClearFindsBit
  <2>. QED BY <1>2, <1>3, <2>1, <2>2, <2>3, <2>4
<1>10. CASE PruneCount
  <2>1. /\ pruner = "count" /\ pruner' = "wait" /\ page_count' = page_count + batch /\ batch' = 0
        /\ UNCHANGED <<free, low, pruning, lists, unclear, fill, stranded, standby>>
    BY <1>10 DEF PruneCount, signals, others
  <2>2. InPruner = 0 /\ InPruner' = 0 /\ Uncounted = batch /\ Uncounted' = 0
    BY <1>2, <2>1 DEF InPruner, Uncounted
  <2>3. NoPageIsLost' /\ PageCountAccounts'
    <3>1. /\ Sum(free', FreeLists) = Sum(free, FreeLists) + 0 /\ standby' = standby + 0
          /\ InPruner' = InPruner + 0 /\ stranded' = stranded + 0
          /\ page_count' + Uncounted' = page_count + Uncounted + 0
          /\ page_count' \in Int /\ Uncounted' \in Int /\ 0 + 0 + 0 + 0 = 0
      BY <1>2, <2>1, <2>2
    <3>. QED BY <1>1, <1>3, <3>1, PrunerAccounts
  <2>4. PrunerIsRight' /\ ClearFindsBit'
    BY <1>1, <2>1 DEF PrunerIsRight, ClearFindsBit
  <2>. QED BY <1>2, <1>3, <2>1, <2>2, <2>3, <2>4
<1>. QED BY <1>4, <1>5, <1>6, <1>7, <1>8, <1>9, <1>10 DEF PrunerStep

-----------------------------------------------------------------------------
(* The search.                                                             *)

\* The list that a thread turns away from is none of those it could not have missed, so that
\* they lie further on.
LEMMA NothingIsPassed ==
    ASSUME FreeInv, NEW u \in Users, LookEmpty(u) \/ LockBusy(u) \/ TakeNothing(u)
    PROVE  /\ Searching(u) /\ Advance(u) /\ attempts[u] \in Nat /\ attempts[u] < NumLists
           /\ index[u] \in FreeLists /\ Before(u, index[u]) = attempts[u]
           /\ \A l \in offered[u] : /\ l \in FreeLists /\ Before(u, l) \in 0..(NumLists - 1)
                                    /\ Before(u, l) >= attempts[u] + 1
<1>1. TypeOK /\ LocksAreHeld /\ SearchIsOnItsWay /\ OfferedLieAhead
  BY DEF FreeInv
<1>2. NumLists \in Nat \ {0}
  BY FreePagesAssumption
<1>3. Searching(u) /\ Advance(u)
  BY DEF LookEmpty, LockBusy, TakeNothing, Searching
<1>4. /\ attempts[u] \in Nat /\ attempts[u] < NumLists
      /\ index[u] \in FreeLists /\ Before(u, index[u]) = attempts[u]
  BY <1>1, <1>2, <1>3 DEF TypeOK, SearchIsOnItsWay
<1>5. index[u] \notin offered[u]
  <2>. SUFFICES ASSUME index[u] \in offered[u] PROVE FALSE
    OBVIOUS
  <2>1. free[index[u]] > 0 /\ locked[index[u]] \in {Nobody, u} /\ free[index[u]] \in Nat
    BY <1>1, <1>4, SumsAreNatural DEF OfferedLieAhead
  <2>2. user[u] = "lock" /\ locked[index[u]] # Nobody
    BY <2>1 DEF LookEmpty, LockBusy, TakeNothing, List
  <2>. QED BY <1>1, <1>4, <2>1, <2>2 DEF LocksAreHeld
<1>6. ASSUME NEW l \in offered[u]
      PROVE  /\ l \in FreeLists /\ Before(u, l) \in 0..(NumLists - 1)
             /\ Before(u, l) >= attempts[u] + 1
  <2>1. l \in FreeLists /\ l # index[u] /\ Before(u, l) >= attempts[u]
    BY <1>1, <1>3, <1>5 DEF TypeOK, OfferedLieAhead
  <2>2. u % NumLists \in FreeLists
    BY OwnList
  <2>3. Before(u, l) \in FreeLists /\ Before(u, l) # Before(u, index[u])
    BY <1>4, <2>1, <2>2, Places DEF Before
  <2>. QED BY <1>2, <1>4, <2>1, <2>3 DEF FreeLists
<1>. QED BY <1>3, <1>4, <1>6

\* A step of a user thread keeps the locks and the search in order.
LEMMA UserStepSearches ==
    ASSUME FreeInv, NEW u \in Users, UserStep(u), Offer, TypeOK'
    PROVE  LocksAreHeld' /\ SearchIsOnItsWay' /\ OfferedLieAhead'
<1>1. TypeOK /\ LocksAreHeld /\ SearchIsOnItsWay /\ OfferedLieAhead
  BY DEF FreeInv
<1>2. NumLists \in Nat \ {0} /\ Nobody \notin Users
  BY FreePagesAssumption DEF Nobody, Users
<1>3. \A v \in Users : v # u => /\ user'[v] = user[v] /\ index'[v] = index[v]
                                /\ attempts'[v] = attempts[v]
  BY <1>1 DEF UserStep, Pop, Keep, GiveBack, Search, LookPages, LookEmpty, LockList, LockBusy,
         TakeNothing, TakeBatch, UnlockList, MarkLow, WakePruner, FillCache, Steal, Go, Advance,
         TypeOK
<1>4. CASE LookEmpty(u) \/ LockBusy(u) \/ TakeNothing(u)
  <2>1. /\ Searching(u) /\ Advance(u) /\ attempts[u] \in Nat /\ attempts[u] < NumLists
        /\ index[u] \in FreeLists /\ Before(u, index[u]) = attempts[u]
        /\ \A l \in offered[u] : l \in FreeLists /\ Before(u, l) >= attempts[u] + 1
    BY <1>4, NothingIsPassed
  <2>2. /\ attempts'[u] = attempts[u] + 1 /\ index'[u] = (index[u] + 1) % NumLists
        /\ user'[u] = IF attempts[u] + 1 < NumLists THEN "look" ELSE "steal"
    BY <1>1, <2>1 DEF Advance, TypeOK
  <2>3. LocksAreHeld'
    <3>1. \A l \in FreeLists : locked'[l] # u
      BY <1>1, <1>2, <1>4 DEF LookEmpty, LockBusy, TakeNothing, LocksAreHeld, TypeOK, List,
                              lists_state
    <3>2. \A l \in FreeLists : locked'[l] = locked[l] \/ locked'[l] = Nobody
      BY <1>1, <1>4 DEF LookEmpty, LockBusy, TakeNothing, TypeOK, lists_state
    <3>. QED BY <1>1, <1>2, <1>3, <3>1, <3>2 DEF LocksAreHeld
  <2>4. SearchIsOnItsWay'
    <3>1. Searching(u)' => attempts[u] + 1 < NumLists
      BY <2>2 DEF Searching
    <3>2. u % NumLists \in FreeLists
      BY OwnList
    <3>3. attempts[u] + 1 < NumLists =>
              Before(u, (index[u] + 1) % NumLists) = attempts[u] + 1
      BY <2>1, <3>2, Places DEF Before
    <3>4. Searching(u)' => attempts'[u] < NumLists /\ Before(u, index'[u]) = attempts'[u]
      BY <2>2, <3>1, <3>3
    <3>5. \A v \in Users : v # u => (Searching(v)' <=> Searching(v))
      BY <1>3 DEF Searching
    <3>6. \A v \in Users : Searching(v)' =>
              attempts'[v] < NumLists /\ Before(v, index'[v]) = attempts'[v]
      BY <1>1, <1>3, <3>4, <3>5 DEF SearchIsOnItsWay
    <3>. QED BY <3>6 DEF SearchIsOnItsWay, Before
  <2>5. ASSUME NEW v \in Users, NEW l \in offered'[v]
        PROVE  /\ free'[l] > 0 /\ locked'[l] \in {Nobody, v}
               /\ Searching(v)' => Before(v, l) >= attempts'[v]
    <3>1. free'[l] > 0 /\ locked'[l] \in {Nobody, v} /\ (Searching(v) => l \in offered[v])
      BY <2>5 DEF Offer
    <3>2. CASE v = u
      BY <2>1, <2>2, <3>1, <3>2
    <3>3. CASE v # u
      <4>1. (Searching(v)' <=> Searching(v)) /\ attempts'[v] = attempts[v]
        BY <1>3, <3>3 DEF Searching
      <4>. QED BY <1>1, <3>1, <4>1 DEF OfferedLieAhead
    <3>. QED BY <3>2, <3>3
  <2>. QED BY <2>3, <2>4, <2>5 DEF OfferedLieAhead, Before
<1>5. CASE ~(LookEmpty(u) \/ LockBusy(u) \/ TakeNothing(u))
  <2>1. \/ Search(u)
        \/ /\ index' = index /\ attempts' = attempts /\ (Searching(u)' => Searching(u))
    BY <1>1, <1>5 DEF UserStep, Pop, Keep, GiveBack, LookPages, LockList,
         TakeBatch, UnlockList, MarkLow, WakePruner, FillCache, Steal, Go, Searching, TypeOK
  <2>2. LocksAreHeld'
    <3>1. CASE LockList(u)
      <4>1. /\ user[u] = "lock" /\ user'[u] = "locked" /\ index' = index
            /\ locked' = [locked EXCEPT ![index[u]] = u]
        BY <1>1, <3>1 DEF LockList, Go, TypeOK, List
      <4>2. \A l \in FreeLists : locked[l] # u
        BY <1>1, <4>1 DEF LocksAreHeld
      <4>. QED BY <1>1, <1>3, <4>1, <4>2 DEF LocksAreHeld, TypeOK
    <3>2. CASE UnlockList(u)
      <4>1. index' = index /\ locked' = [locked EXCEPT ![index[u]] = Nobody]
        BY <3>2 DEF UnlockList, List
      <4>. QED BY <1>1, <1>2, <1>3, <4>1 DEF LocksAreHeld, TypeOK
    <3>3. CASE ~LockList(u) /\ ~UnlockList(u)
      <4>1. locked' = locked
        BY <1>5, <3>3 DEF UserStep, Pop, Keep, GiveBack, Search, LookPages, TakeBatch, MarkLow,
                          WakePruner, FillCache, Steal, lists_state
      <4>2. user[u] \in {"locked", "unlock"} => user'[u] = "unlock" /\ index' = index
        BY <1>1, <1>5, <3>3 DEF UserStep, Pop, Keep, GiveBack, Search, LookPages, TakeBatch,
                          MarkLow, WakePruner, FillCache, Steal, Go, TypeOK
      <4>. QED BY <1>1, <1>3, <4>1, <4>2 DEF LocksAreHeld
    <3>. QED BY <3>1, <3>2, <3>3
  <2>3. Search(u) => attempts'[u] = 0 /\ index'[u] = u % NumLists /\ ~Searching(u)
    BY <1>1 DEF Search, Go, Searching, TypeOK
  <2>4. \A l \in FreeLists : Before(u, l) >= 0
    <3>1. u % NumLists \in FreeLists
      BY OwnList
    <3>. QED BY <1>2, <3>1, Places DEF Before, FreeLists
  <2>5. SearchIsOnItsWay'
    <3>1. Before(u, u % NumLists) = 0
      BY OwnList, Places DEF Before
    <3>2. Searching(u)' => attempts'[u] < NumLists /\ Before(u, index'[u]) = attempts'[u]
      <4>1. CASE Search(u)
        BY <1>2, <2>3, <3>1, <4>1
      <4>2. CASE ~Search(u)
        BY <1>1, <2>1, <4>2 DEF SearchIsOnItsWay
      <4>. QED BY <4>1, <4>2
    <3>3. \A v \in Users : v # u => (Searching(v)' <=> Searching(v))
      BY <1>3 DEF Searching
    <3>4. \A v \in Users : Searching(v)' =>
              attempts'[v] < NumLists /\ Before(v, index'[v]) = attempts'[v]
      BY <1>1, <1>3, <3>2, <3>3 DEF SearchIsOnItsWay
    <3>. QED BY <3>4 DEF SearchIsOnItsWay, Before
  <2>6. ASSUME NEW v \in Users, NEW l \in offered'[v]
        PROVE  /\ free'[l] > 0 /\ locked'[l] \in {Nobody, v}
               /\ Searching(v)' => Before(v, l) >= attempts'[v]
    <3>1. /\ free'[l] > 0 /\ locked'[l] \in {Nobody, v} /\ (Searching(v) => l \in offered[v])
          /\ l \in FreeLists
      BY <2>6 DEF Offer
    <3>2. CASE v = u
      <4>1. CASE Search(u)
        BY <2>3, <2>4, <3>1, <3>2, <4>1
      <4>2. CASE ~Search(u)
        BY <1>1, <2>1, <3>1, <3>2, <4>2 DEF OfferedLieAhead
      <4>. QED BY <4>1, <4>2
    <3>3. CASE v # u
      <4>1. (Searching(v)' <=> Searching(v)) /\ attempts'[v] = attempts[v]
        BY <1>3, <3>3 DEF Searching
      <4>. QED BY <1>1, <3>1, <4>1 DEF OfferedLieAhead
    <3>. QED BY <3>2, <3>3
  <2>. QED BY <2>2, <2>5, <2>6 DEF OfferedLieAhead, Before
<1>. QED BY <1>4, <1>5

-----------------------------------------------------------------------------
(* The invariant.                                                          *)

\* A user thread keeps it.
LEMMA UserStepPreserves == ASSUME FreeInv, NEW u \in Users, UserStep(u), Offer PROVE FreeInv'
<1>1. NoPageIsLost' /\ PageCountAccounts' /\ HandsAreRight'
  <2>1. CASE Pop(u) \/ Keep(u) \/ GiveBack(u) \/ TakeBatch(u) \/ FillCache(u) \/ Steal(u)
    BY <2>1, BusyUserStep
  <2>2. CASE \/ Search(u) \/ LookPages(u) \/ LookEmpty(u) \/ LockList(u) \/ LockBusy(u)
             \/ TakeNothing(u) \/ UnlockList(u) \/ MarkLow(u) \/ WakePruner(u)
    BY <2>2, QuietUserStep
  <2>. QED BY <2>1, <2>2 DEF UserStep
<1>2. TypeOK'
  BY <1>1, UserStepTypes
<1>3. LocksAreHeld' /\ SearchIsOnItsWay' /\ OfferedLieAhead'
  BY <1>2, UserStepSearches
<1>4. UNCHANGED prune /\ low' \in {low, low \cup {List(u)}}
  BY DEF UserStep, Pop, Keep, GiveBack, Search, LookPages, LookEmpty, LockList, LockBusy,
         TakeNothing, TakeBatch, UnlockList, MarkLow, WakePruner, FillCache, Steal, prune, signals
<1>5. PrunerIsRight' /\ ClearFindsBit'
  BY <1>4 DEF FreeInv, PrunerIsRight, ClearFindsBit, prune
<1>. QED BY <1>1, <1>2, <1>3, <1>5 DEF FreeInv

\* The pruner and the rest of the system keep it: they take nothing from the lists.
LEMMA OthersPreserve == ASSUME FreeInv, OtherTraffic \/ PrunerStep, Offer PROVE FreeInv'
<1>1. TypeOK /\ HandsAreRight /\ LocksAreHeld /\ SearchIsOnItsWay /\ OfferedLieAhead
  BY DEF FreeInv
<1>2. UNCHANGED <<cache, taken, user, index, attempts, locked>>
  BY DEF OtherTraffic, PrunerStep, PrunerWake, PruneRemove, PruneSnapshot, PruneClear, PruneSkip,
         PruneLock, PruneLink, PruneCount, search, lists_state
<1>3. /\ NoPageIsLost' /\ PageCountAccounts' /\ PrunerIsRight' /\ ClearFindsBit'
      /\ {standby', in_use', stranded', InPruner'} \subseteq Nat /\ batch' \in 0..NumPages
      /\ free' \in [FreeLists -> Nat] /\ page_count' \in Int
      /\ lists' \in 0..NumLists /\ unclear' \subseteq FreeLists /\ fill' \subseteq FreeLists
      /\ low' \subseteq FreeLists /\ pruning' \in BOOLEAN
      /\ pruner' \in {"wait", "remove", "snapshot", "clear", "insert", "link", "count"}
  <2>1. CASE PrunerStep
    BY <2>1, PrunerKeepsPages
  <2>2. CASE OtherTraffic
    <3>1. /\ NoPageIsLost' /\ PageCountAccounts' /\ PrunerIsRight' /\ ClearFindsBit'
          /\ {standby', in_use'} \subseteq Nat
      BY <2>2, TrafficKeepsPages
    <3>2. UNCHANGED <<free, page_count, low, pruning, pruner, batch, lists, unclear, fill, stranded>>
      BY <2>2 DEF OtherTraffic, lists_state, signals, prune
    <3>3. InPruner' = InPruner /\ InPruner \in Nat /\ free \in [FreeLists -> Nat]
          /\ stranded \in Nat
      BY <1>1, <3>2, PrunerHolds, FreePagesAssumption DEF FreeInv, InPruner, TypeOK
    <3>4. stranded' \in Nat /\ InPruner' \in Nat /\ free' \in [FreeLists -> Nat]
      BY <3>2, <3>3
    <3>. QED BY <1>1, <3>1, <3>2, <3>4 DEF TypeOK
  <2>. QED BY <2>1, <2>2
<1>4. free' \in [FreeLists -> 0..NumPages] /\ {standby', in_use', stranded'} \subseteq 0..NumPages
  <2>1. (NoPageIsLost /\ free \in [FreeLists -> Nat] /\ cache \in [Users -> Nat]
           /\ taken \in [Users -> Nat] /\ {standby, in_use, stranded, InPruner} \subseteq Nat)'
        => (/\ free \in [FreeLists -> 0..NumPages]
            /\ {standby, in_use, stranded, InPruner} \subseteq 0..NumPages
            /\ InPruner + stranded <= NumPages)'
    BY NoMoreThanAll, PTL
  <2>2. cache' \in [Users -> Nat] /\ taken' \in [Users -> Nat]
    BY <1>1, <1>2, FreePagesAssumption DEF TypeOK
  <2>. QED BY <1>3, <2>1, <2>2
<1>5. offered' \in [Users -> SUBSET FreeLists]
  BY DEF Offer
<1>6. TypeOK'
  BY <1>1, <1>2, <1>3, <1>4, <1>5 DEF TypeOK
<1>7. HandsAreRight' /\ LocksAreHeld' /\ SearchIsOnItsWay'
  BY <1>1, <1>2 DEF HandsAreRight, LocksAreHeld, SearchIsOnItsWay, OnItsWay, Searching, Before
<1>8. OfferedLieAhead'
  <2>1. ASSUME NEW v \in Users, NEW l \in offered'[v]
        PROVE  /\ free'[l] > 0 /\ locked'[l] \in {Nobody, v}
               /\ Searching(v) => Before(v, l) >= attempts[v]
    BY <1>1, <2>1 DEF Offer, OfferedLieAhead
  <2>2. \A v \in Users : (Searching(v)' <=> Searching(v))
    BY <1>2 DEF Searching
  <2>. QED BY <1>2, <2>1, <2>2 DEF OfferedLieAhead, Before
<1>. QED BY <1>3, <1>6, <1>7, <1>8 DEF FreeInv

\* Every step keeps it.
LEMMA FreeInvPreserved == FreeInv /\ [Next /\ ~Overlap']_vars => FreeInv'
<1>. SUFFICES ASSUME FreeInv, [Next /\ ~Overlap']_vars PROVE FreeInv'
  OBVIOUS
<1>1. CASE Next
  BY <1>1, UserStepPreserves, OthersPreserve DEF Next
<1>2. CASE UNCHANGED vars
  <2>1. UNCHANGED <<free, locked, page_count, low, pruning, cache, taken, user, index, attempts,
                    standby, in_use, pruner, batch, lists, unclear, fill, stranded, offered>>
    BY <1>2 DEF vars, lists_state, signals, search, prune, others
  <2>2. InPruner' = InPruner
    BY <2>1 DEF InPruner
  <2>3. NoPageIsLost' /\ PageCountAccounts' /\ ClearFindsBit'
    BY <2>1, <2>2 DEF FreeInv, NoPageIsLost, PageCountAccounts, ClearFindsBit
  <2>4. TypeOK'
    BY <2>1 DEF FreeInv, TypeOK
  <2>5. HandsAreRight' /\ PrunerIsRight' /\ LocksAreHeld'
    BY <2>1 DEF FreeInv, HandsAreRight, PrunerIsRight, LocksAreHeld, OnItsWay, Searching
  <2>6. SearchIsOnItsWay' /\ OfferedLieAhead'
    BY <2>1 DEF FreeInv, SearchIsOnItsWay, OfferedLieAhead, Searching, Before
  <2>. QED BY <2>3, <2>4, <2>5, <2>6 DEF FreeInv
<1>. QED BY <1>1, <1>2

\* The inductive invariant holds throughout, for any numbers of pages, lists and threads.
THEOREM FreeInvariance == SeparateSpec => []FreeInv
  BY FreeInvInitially, FreeInvPreserved, PTL DEF SeparateSpec

\* The program's numbers stay in their ranges: no cache outgrows its array
\* (threads.h:39-46), although a steal fills it from the standby list and a fault that
\* another thread has resolved gives a page back.
THEOREM CountsStayInRange == SeparateSpec => []TypeOK
<1>1. FreeInv => TypeOK
  BY DEF FreeInv
<1>. QED BY <1>1, FreeInvariance, PTL

\* No page is lost between the lists, the caches, the threads and the pruner, but those that
\* the pruner strands.
THEOREM PagesAreNotLost == SeparateSpec => []NoPageIsLost
<1>1. FreeInv => NoPageIsLost
  BY DEF FreeInv
<1>. QED BY <1>1, FreeInvariance, PTL

\* page_count is off by the updates that are on their way, and by nothing else.
THEOREM PageCountIsExact == SeparateSpec => []PageCountAccounts
<1>1. FreeInv => PageCountAccounts
  BY DEF FreeInv
<1>. QED BY <1>1, FreeInvariance, PTL

\* The pruner finds each bit that it clears (the assertion of pruner.c:8-10).
THEOREM ClearsFindTheirBits == SeparateSpec => []ClearFindsBit
<1>1. FreeInv => ClearFindsBit
  BY DEF FreeInv
<1>. QED BY <1>1, FreeInvariance, PTL

\* A thread that gives up its search for a free page has seen each list either without pages
\* or with another's lock, at some time since it began.
THEOREM SearchesMissNothing == SeparateSpec => SearchMissesNothing
<1>1. FreeInv /\ [Next /\ ~Overlap']_vars =>
          [\A u \in Users : Searching(u) /\ user'[u] = "steal" => offered[u] = {}]_vars
  <2>. SUFFICES ASSUME FreeInv, Next, NEW u \in Users, Searching(u), user'[u] = "steal"
                PROVE  offered[u] = {}
    OBVIOUS
  <2>1. TypeOK
    BY DEF FreeInv
  <2>2. LookEmpty(u) \/ LockBusy(u) \/ TakeNothing(u)
    <3>1. user'[u] # user[u]
      BY DEF Searching
    <3>2. PICK v \in Users : UserStep(v)
      BY <3>1 DEF Next, OtherTraffic, PrunerStep, PrunerWake, PruneRemove, PruneSnapshot,
                  PruneClear, PruneSkip, PruneLock, PruneLink, PruneCount, search
    <3>3. v = u
      BY <2>1, <3>1, <3>2 DEF UserStep, Pop, Keep, GiveBack, Search, LookPages, LookEmpty,
         LockList, LockBusy, TakeNothing, TakeBatch, UnlockList, MarkLow, WakePruner, FillCache,
         Steal, Go, Advance, TypeOK
    <3>. QED BY <2>1, <3>2, <3>3 DEF UserStep, Pop, Keep, GiveBack, Search, LookPages,
         LockList, TakeBatch, UnlockList, MarkLow, WakePruner, FillCache,
         Steal, Go, Searching, TypeOK
  <2>3. /\ Advance(u) /\ attempts[u] \in Nat
        /\ \A l \in offered[u] : /\ Before(u, l) \in 0..(NumLists - 1)
                                 /\ Before(u, l) >= attempts[u] + 1
    BY <2>2, NothingIsPassed
  <2>4. ~(attempts[u] + 1 < NumLists)
    BY <2>1, <2>3 DEF Advance, TypeOK
  <2>. QED BY <2>3, <2>4, FreePagesAssumption
<1>. QED BY <1>1, FreeInvariance, PTL DEF SeparateSpec, SearchMissesNothing
=============================================================================
