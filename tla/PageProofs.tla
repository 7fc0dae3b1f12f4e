----------------------------- MODULE PageProofs -----------------------------
(* Proofs for the page cache, for every set of pages and contents and every *)
(* size limit, and for the slotted page, for every page size, word size and *)
(* set of row sizes.  Rows that replace another on a page must be smaller   *)
(* than a word (NoWrap): TableFile.UpdateRow does not check it, InsertRow   *)
(* does.                                                                    *)
EXTENDS PageCache, SlottedPage, WellFoundedInduction, TLAPS

----------------------------------------------------------------------------
(* What the operations of the recency list preserve.                        *)

\* A function on 1..n is a sequence of length n.
LEMMA FunctionIsSeq ==
    ASSUME NEW S, NEW n \in Nat, NEW f \in [1..n -> S]
    PROVE  f \in Seq(S) /\ Len(f) = n
  OBVIOUS

\* MoveToFront keeps the elements of the list and their number.
LEMMA MoveToFrontKeeps ==
    ASSUME NEW S, NEW s \in Seq(S), NEW i \in 1..Len(s)
    PROVE  /\ MoveToFront(s, i) \in Seq(S)
           /\ Len(MoveToFront(s, i)) = Len(s)
           /\ Members(MoveToFront(s, i)) = Members(s)
           /\ NoRepeats(s) => NoRepeats(MoveToFront(s, i))
<1> DEFINE n == Len(s)
           m == MoveToFront(s, i)
<1>1. n \in Nat /\ \A j \in 1..n : s[j] \in S
  OBVIOUS
<1>2. m \in [1..n -> S]
  BY <1>1 DEF MoveToFront
<1>3. m \in Seq(S) /\ Len(m) = n
  BY <1>1, <1>2, FunctionIsSeq
<1>4. \A j \in 1..n : m[j] = IF j = 1 THEN s[i] ELSE IF j <= i THEN s[j - 1] ELSE s[j]
  BY <1>1 DEF MoveToFront
<1> HIDE DEF m
<1>5. Members(m) \subseteq Members(s)
  BY <1>1, <1>3, <1>4 DEF Members
<1>6. Members(s) \subseteq Members(m)
  <2> SUFFICES ASSUME NEW j \in 1..n
               PROVE  \E k \in 1..n : m[k] = s[j]
    BY <1>3 DEF Members
  <2>1. CASE j = i
    BY <2>1, <1>4, <1>1
  <2>2. CASE j < i
    <3>1. j + 1 \in 1..n /\ j + 1 # 1 /\ j + 1 <= i /\ (j + 1) - 1 = j
      BY <2>2, <1>1
    <3> QED BY <3>1, <1>4
  <2>3. CASE j > i
    <3>1. j # 1 /\ ~(j <= i)
      BY <2>3, <1>1
    <3> QED BY <3>1, <1>4
  <2> QED BY <2>1, <2>2, <2>3, <1>1
<1>7. ASSUME NoRepeats(s)
      PROVE  NoRepeats(m)
  <2> SUFFICES ASSUME NEW j \in 1..n, NEW k \in 1..n, m[j] = m[k], j < k
               PROVE  FALSE
    BY <1>1, <1>3 DEF NoRepeats
  <2>1. k # 1
    BY <1>1
  <2>2. m[k] = IF k <= i THEN s[k - 1] ELSE s[k]
    BY <1>4, <2>1
  <2>3. m[j] = IF j = 1 THEN s[i] ELSE IF j <= i THEN s[j - 1] ELSE s[j]
    BY <1>4
  <2> QED BY <1>1, <1>7, <2>1, <2>2, <2>3 DEF NoRepeats
<1> QED BY <1>3, <1>5, <1>6, <1>7 DEF m

\* DropBack removes the elements at the back and nothing else.
LEMMA DropBackKeeps ==
    ASSUME NEW S, NEW s \in Seq(S), NEW k \in 0..Len(s)
    PROVE  /\ DropBack(s, k) \in Seq(S)
           /\ Len(DropBack(s, k)) = Len(s) - k
           /\ \A j \in 1..(Len(s) - k) : DropBack(s, k)[j] = s[j]
           /\ Members(DropBack(s, k)) \subseteq Members(s)
           /\ NoRepeats(s) => NoRepeats(DropBack(s, k))
<1> DEFINE n == Len(s) - k
           d == DropBack(s, k)
<1>1. n \in Nat /\ n <= Len(s) /\ \A j \in 1..n : s[j] \in S
  OBVIOUS
<1>2. d \in [1..n -> S] /\ \A j \in 1..n : d[j] = s[j]
  BY <1>1 DEF DropBack
<1>3. d \in Seq(S) /\ Len(d) = n
  BY <1>1, <1>2, FunctionIsSeq
<1> HIDE DEF d
<1>4. Members(d) \subseteq Members(s)
  BY <1>1, <1>2, <1>3 DEF Members
<1>5. NoRepeats(s) => NoRepeats(d)
  BY <1>1, <1>2, <1>3 DEF NoRepeats
<1> QED BY <1>2, <1>3, <1>4, <1>5 DEF d

\* The elements DropBack removes are those at the last k positions.
LEMMA DropBackRemoves ==
    ASSUME NEW S, NEW s \in Seq(S), NEW k \in 0..Len(s)
    PROVE  \A p \in Members(s) \ Members(DropBack(s, k)) :
               \E j \in (Len(s) - k + 1)..Len(s) : s[j] = p
<1> SUFFICES ASSUME NEW j \in 1..Len(s), s[j] \notin Members(DropBack(s, k))
             PROVE  \E l \in (Len(s) - k + 1)..Len(s) : s[l] = s[j]
  BY DEF Members
<1>1. ~(j \in 1..(Len(s) - k))
  BY DropBackKeeps DEF Members
<1> QED BY <1>1

\* RemovePos removes one element, and only it when there are no repetitions.
LEMMA RemovePosKeeps ==
    ASSUME NEW S, NEW s \in Seq(S), NEW i \in 1..Len(s), NoRepeats(s)
    PROVE  /\ RemovePos(s, i) \in Seq(S)
           /\ Len(RemovePos(s, i)) = Len(s) - 1
           /\ Members(RemovePos(s, i)) = Members(s) \ {s[i]}
           /\ NoRepeats(RemovePos(s, i))
<1> DEFINE n == Len(s) - 1
           r == RemovePos(s, i)
<1>1. n \in Nat /\ \A j \in 1..Len(s) : s[j] \in S
  OBVIOUS
<1>2. r \in [1..n -> S]
  BY <1>1 DEF RemovePos
<1>3. r \in Seq(S) /\ Len(r) = n
  BY <1>1, <1>2, FunctionIsSeq
<1>4. \A j \in 1..n : r[j] = IF j < i THEN s[j] ELSE s[j + 1]
  BY DEF RemovePos
<1> HIDE DEF r
<1>5. Members(r) \subseteq Members(s) \ {s[i]}
  BY <1>1, <1>3, <1>4 DEF Members, NoRepeats
<1>6. Members(s) \ {s[i]} \subseteq Members(r)
  <2> SUFFICES ASSUME NEW j \in 1..Len(s), j # i
               PROVE  \E k \in 1..n : r[k] = s[j]
    BY <1>3 DEF Members
  <2>1. CASE j < i
    <3>1. j \in 1..n
      BY <2>1
    <3> QED BY <2>1, <3>1, <1>4
  <2>2. CASE j > i
    <3>1. j - 1 \in 1..n /\ ~(j - 1 < i) /\ (j - 1) + 1 = j
      BY <2>2
    <3> QED BY <3>1, <1>4
  <2> QED BY <2>1, <2>2
<1>7. NoRepeats(r)
  BY <1>1, <1>3, <1>4 DEF NoRepeats
<1> QED BY <1>3, <1>5, <1>6, <1>7 DEF r

\* PushFront adds one element.
LEMMA PushFrontAdds ==
    ASSUME NEW S, NEW s \in Seq(S), NEW p \in S
    PROVE  /\ PushFront(s, p) \in Seq(S)
           /\ Len(PushFront(s, p)) = Len(s) + 1
           /\ Members(PushFront(s, p)) = Members(s) \cup {p}
           /\ NoRepeats(s) /\ p \notin Members(s) => NoRepeats(PushFront(s, p))
<1> DEFINE q == PushFront(s, p)
<1>1. q \in Seq(S) /\ Len(q) = Len(s) + 1
  BY DEF PushFront
<1>2. \A j \in 1..Len(q) : q[j] = IF j = 1 THEN p ELSE s[j - 1]
  BY <1>1 DEF PushFront
<1> HIDE DEF q
<1>3. Members(q) \subseteq Members(s) \cup {p}
  BY <1>1, <1>2 DEF Members
<1>4. p \in Members(q)
  BY <1>1, <1>2 DEF Members
<1>5. Members(s) \subseteq Members(q)
  <2> SUFFICES ASSUME NEW j \in 1..Len(s)
               PROVE  \E k \in 1..Len(q) : q[k] = s[j]
    BY DEF Members
  <2>1. j + 1 \in 1..Len(q) /\ j + 1 # 1 /\ (j + 1) - 1 = j
    BY <1>1
  <2> QED BY <2>1, <1>2
<1>6. ASSUME NoRepeats(s), p \notin Members(s)
      PROVE  NoRepeats(q)
  <2> SUFFICES ASSUME NEW j \in 1..Len(q), NEW k \in 1..Len(q), q[j] = q[k], j < k
               PROVE  FALSE
    BY <1>1 DEF NoRepeats
  <2>1. k # 1 /\ k - 1 \in 1..Len(s) /\ q[k] = s[k - 1]
    BY <1>1, <1>2
  <2>2. CASE j = 1
    BY <1>2, <1>6, <2>1, <2>2 DEF Members
  <2>3. CASE j # 1
    <3>1. j - 1 \in 1..Len(s) /\ q[j] = s[j - 1]
      BY <1>1, <1>2, <2>3
    <3> QED BY <1>6, <2>1, <3>1 DEF NoRepeats
  <2> QED BY <2>2, <2>3
<1> QED BY <1>1, <1>3, <1>4, <1>5, <1>6 DEF q

----------------------------------------------------------------------------
(* The cache.                                                               *)

\* Evicting k pages keeps every dirty page in the cache.
LEMMA EvictionKeepsDirty ==
    ASSUME CacheInv, NEW need, NEW k, Evicts(k, need)
    PROVE  /\ k \in 0..Len(lru)
           /\ \A q \in Cached \cap dirty : q \in Survivors(k)
<1>1. k \in 0..Len(lru) /\ lru \in Seq(PageID) /\ Members(lru) = Cached
  BY DEF Evicts, CacheInv, TypeOK, LRUConsistent
<1>2. \A q \in Members(lru) \ Members(DropBack(lru, k)) : q \in BackIDs(k)
  BY <1>1, DropBackRemoves DEF BackIDs
<1> QED BY <1>1, <1>2 DEF Evicts, Survivors

\* What a failed eviction loop leaves is a list of the surviving pages.
LEMMA AfterFailureKeeps ==
    ASSUME CacheInv, NEW k \in 0..Len(lru)
    PROVE  /\ AfterFailure(k) \in Seq(PageID)
           /\ Len(AfterFailure(k)) = Len(lru) - k
           /\ NoRepeats(AfterFailure(k))
           /\ Members(AfterFailure(k)) = Survivors(k)
<1> DEFINE d == DropBack(lru, k)
<1>1. lru \in Seq(PageID) /\ NoRepeats(lru)
  BY DEF CacheInv, TypeOK, LRUConsistent
<1>2. d \in Seq(PageID) /\ Len(d) = Len(lru) - k /\ NoRepeats(d)
  BY <1>1, DropBackKeeps
<1> HIDE DEF d
<1>3. CASE k = Len(lru)
  <2>1. AfterFailure(k) = << >> /\ Len(d) = 0
    BY <1>1, <1>2, <1>3 DEF AfterFailure
  <2>2. Members(d) = {} /\ Members(<< >>) = {} /\ NoRepeats(<< >>)
    BY <2>1, <1>2 DEF Members, NoRepeats
  <2> QED BY <1>1, <1>3, <2>1, <2>2 DEF Survivors, d
<1>4. CASE k # Len(lru)
  <2>1. AfterFailure(k) = MoveToFront(d, Len(lru) - k) /\ Len(lru) - k \in 1..Len(d)
    BY <1>1, <1>2, <1>4 DEF AfterFailure, d
  <2> QED BY <1>2, <2>1, MoveToFrontKeeps DEF Survivors, d
<1> QED BY <1>3, <1>4

\* The part of the invariant about the pages and the list, for the next state.
ListOK ==
    /\ Cached \subseteq PageID
    /\ pages \in [Cached -> Content]
    /\ lru \in Seq(PageID)
    /\ LRUConsistent

\* Restricting the pages to the survivors of an eviction keeps their contents.
LEMMA SurvivorsOK ==
    ASSUME CacheInv, NEW k \in 0..Len(lru),
           pages' = [q \in Survivors(k) |-> pages[q]]
    PROVE  /\ Cached' = Survivors(k)
           /\ Cached' \subseteq PageID
           /\ pages' \in [Cached' -> Content]
<1>1. Survivors(k) \subseteq Cached
  BY DropBackKeeps DEF Survivors, CacheInv, TypeOK, LRUConsistent
<1> QED BY <1>1 DEF CacheInv, TypeOK, Cached

\* Put keeps pages and list consistent, evicts no dirty page, grows within the
\* limit, and if the page is cached afterwards it has the content put.
LEMMA PutKeeps ==
    ASSUME CacheInv, NEW p \in PageID, NEW c \in Content, PutEffect(p, c)
    PROVE  /\ ListOK'
           /\ \A q \in Cached \cap dirty : q \in Cached'
           /\ Len(lru') > Len(lru) => Len(lru') <= maxPages
           /\ p \in Cached' => pages'[p] = c
<1>1. /\ Cached \subseteq PageID /\ pages \in [Cached -> Content]
      /\ lru \in Seq(PageID) /\ Len(lru) \in Nat /\ maxPages \in Nat
      /\ NoRepeats(lru) /\ Members(lru) = Cached
  BY CacheSizesAssumption DEF CacheInv, TypeOK, LRUConsistent
<1>2. CASE PutExisting(p, c)
  <2>1. PICK i \in 1..Len(lru) : /\ lru[i] = p
                                 /\ pages' = [pages EXCEPT ![p] = c]
                                 /\ lru' = MoveToFront(lru, i)
    BY <1>2 DEF PutExisting
  <2>2. p \in Cached
    BY <1>1, <2>1 DEF Members
  <2>3. Cached' = Cached /\ pages' \in [Cached -> Content] /\ pages'[p] = c
    BY <1>1, <2>1, <2>2 DEF Cached
  <2>4. /\ lru' \in Seq(PageID) /\ Len(lru') = Len(lru)
        /\ NoRepeats(lru') /\ Members(lru') = Cached
    BY <1>1, <2>1, MoveToFrontKeeps
  <2> QED BY <1>1, <2>3, <2>4 DEF ListOK, LRUConsistent
<1>3. CASE PutNew(p, c)
  <2> DEFINE k == NeedForPut
             d == DropBack(lru, k)
  <2>1. Evicts(k, k) /\ p \notin Cached
    BY <1>3 DEF PutNew
  <2>2. /\ k \in 0..Len(lru)
        /\ \A q \in Cached \cap dirty : q \in Survivors(k)
    BY <2>1, EvictionKeepsDirty
  <2>3. /\ d \in Seq(PageID) /\ Len(d) = Len(lru) - k /\ NoRepeats(d)
        /\ Members(d) \subseteq Cached /\ Survivors(k) = Members(d)
    BY <1>1, <2>2, DropBackKeeps DEF Survivors
  <2>4. Len(lru) - k + 1 <= maxPages
    BY <1>1, <2>2 DEF NeedForPut
  <2>5. /\ pages' = [q \in Survivors(k) \cup {p} |-> IF q = p THEN c ELSE pages[q]]
        /\ lru' = PushFront(d, p)
    BY <1>3 DEF PutNew
  <2> HIDE DEF k, d
  <2>6. /\ Cached' = Survivors(k) \cup {p} /\ pages'[p] = c
        /\ pages' \in [Cached' -> Content]
    BY <1>1, <2>3, <2>5 DEF Cached
  <2>7. /\ lru' \in Seq(PageID) /\ Len(lru') = Len(lru) - k + 1
        /\ NoRepeats(lru') /\ Members(lru') = Survivors(k) \cup {p}
    <3>1. p \notin Members(d)
      BY <2>1, <2>3
    <3>2. d \in Seq(PageID) /\ NoRepeats(d)
      BY <2>3
    <3>3. /\ PushFront(d, p) \in Seq(PageID) /\ Len(PushFront(d, p)) = Len(d) + 1
          /\ Members(PushFront(d, p)) = Members(d) \cup {p}
      BY <3>2, PushFrontAdds
    <3>4. NoRepeats(PushFront(d, p))
      BY <3>1, <3>2, PushFrontAdds
    <3> QED BY <2>3, <2>5, <3>3, <3>4
  <2> QED BY <1>1, <2>2, <2>3, <2>4, <2>6, <2>7 DEF ListOK, LRUConsistent
<1>4. CASE PutFails(p)
  <2>1. PICK k \in 0..Len(lru) : /\ Evicts(k, NeedForPut)
                                 /\ pages' = [q \in Survivors(k) |-> pages[q]]
                                 /\ lru' = AfterFailure(k)
    BY <1>4 DEF PutFails
  <2>2. p \notin Cached
    BY <1>4 DEF PutFails
  <2>3. \A q \in Cached \cap dirty : q \in Survivors(k)
    BY <2>1, EvictionKeepsDirty
  <2>4. /\ Cached' = Survivors(k) /\ Cached' \subseteq PageID
        /\ pages' \in [Cached' -> Content]
    BY <2>1, SurvivorsOK
  <2>5. /\ lru' \in Seq(PageID) /\ Len(lru') = Len(lru) - k
        /\ NoRepeats(lru') /\ Members(lru') = Survivors(k)
    BY <2>1, AfterFailureKeeps
  <2>6. Survivors(k) \subseteq Cached
    BY <1>1, DropBackKeeps DEF Survivors
  <2> QED BY <1>1, <2>2, <2>3, <2>4, <2>5, <2>6 DEF ListOK, LRUConsistent
<1> QED BY <1>2, <1>3, <1>4 DEF PutEffect

\* Remove keeps pages and list consistent; the page leaves with its mark.
LEMMA RemoveKeeps ==
    ASSUME CacheInv, NEW p \in PageID, Remove(p)
    PROVE  ListOK' /\ Cached' = Cached \ {p} /\ Len(lru') <= Len(lru)
<1>1. /\ Cached \subseteq PageID /\ pages \in [Cached -> Content]
      /\ lru \in Seq(PageID) /\ Len(lru) \in Nat
      /\ NoRepeats(lru) /\ Members(lru) = Cached
  BY DEF CacheInv, TypeOK, LRUConsistent
<1>2. Cached' = Cached \ {p} /\ pages' \in [Cached' -> Content]
  BY <1>1 DEF Remove, Cached
<1>3. CASE p \notin Cached /\ UNCHANGED lru
  BY <1>1, <1>2, <1>3 DEF ListOK, LRUConsistent
<1>4. CASE \E i \in 1..Len(lru) : lru[i] = p /\ lru' = RemovePos(lru, i)
  <2>1. PICK i \in 1..Len(lru) : lru[i] = p /\ lru' = RemovePos(lru, i)
    BY <1>4
  <2>2. /\ lru' \in Seq(PageID) /\ Len(lru') = Len(lru) - 1
        /\ NoRepeats(lru') /\ Members(lru') = Cached \ {p}
    BY <1>1, <2>1, RemovePosKeeps
  <2> QED BY <1>1, <1>2, <2>2 DEF ListOK, LRUConsistent
<1> QED BY <1>3, <1>4 DEF Remove

\* Resize keeps pages and list consistent, evicts no dirty page and never grows.
LEMMA ResizeKeeps ==
    ASSUME CacheInv, NEW n \in CacheSizes, Resize(n)
    PROVE  /\ ListOK'
           /\ \A q \in Cached \cap dirty : q \in Cached'
           /\ Len(lru') <= Len(lru)
<1>1. lru \in Seq(PageID) /\ Len(lru) \in Nat /\ NoRepeats(lru)
  BY DEF CacheInv, TypeOK, LRUConsistent
<1>2. PICK k \in 0..Len(lru) :
          /\ Evicts(k, NeedForResize(n))
          /\ pages' = [q \in Survivors(k) |-> pages[q]]
          /\ lru' = IF k = NeedForResize(n) THEN DropBack(lru, k) ELSE AfterFailure(k)
  BY DEF Resize
<1>3. \A q \in Cached \cap dirty : q \in Survivors(k)
  BY <1>2, EvictionKeepsDirty
<1>4. /\ Cached' = Survivors(k) /\ Cached' \subseteq PageID
      /\ pages' \in [Cached' -> Content]
  BY <1>2, SurvivorsOK
<1>5. /\ DropBack(lru, k) \in Seq(PageID) /\ Len(DropBack(lru, k)) = Len(lru) - k
      /\ NoRepeats(DropBack(lru, k)) /\ Members(DropBack(lru, k)) = Survivors(k)
  BY <1>1, DropBackKeeps DEF Survivors
<1>6. /\ lru' \in Seq(PageID) /\ Len(lru') = Len(lru) - k
      /\ NoRepeats(lru') /\ Members(lru') = Survivors(k)
  BY <1>2, <1>5, AfterFailureKeeps
<1> QED BY <1>1, <1>3, <1>4, <1>6 DEF ListOK, LRUConsistent

\* The facts every step of the cache satisfies: the invariant is kept, and the
\* three action properties hold of the step.
SparesDirtyStep == \A p \in Cached \cap dirty : p \notin Cached' => p \notin dirty'
GrowsWithinStep == Len(lru') > Len(lru) => Len(lru') <= maxPages'
CleanedStep == \A p \in (dirty \ dirty') \cap Cached' : disk'[p] = pages'[p]
StepOK == CacheInv' /\ SparesDirtyStep /\ GrowsWithinStep /\ CleanedStep

LEMMA InitOK == Init => CacheInv
<1> SUFFICES ASSUME Init PROVE CacheInv
  OBVIOUS
<1>1. Cached = {} /\ pages \in [{} -> Content] /\ lru = << >>
  BY DEF Init, Cached
<1>2. Members(<< >>) = {} /\ NoRepeats(<< >>)
  BY DEF Members, NoRepeats
<1> QED BY <1>1, <1>2 DEF Init, CacheInv, TypeOK, LRUConsistent

LEMMA StepPreserves == ASSUME CacheInv, [Next]_vars PROVE StepOK
<1> USE DEF StepOK, SparesDirtyStep, GrowsWithinStep, CleanedStep
<1>0. /\ ListOK /\ dirty \subseteq PageID /\ maxPages \in CacheSizes
      /\ disk \in [PageID -> Content] /\ Len(lru) \in Nat
  BY DEF CacheInv, TypeOK, ListOK
<1>a. ASSUME ListOK', dirty' \subseteq PageID, maxPages' \in CacheSizes,
             disk' \in [PageID -> Content]
      PROVE  CacheInv'
  BY <1>a DEF CacheInv, TypeOK, ListOK
<1>1. ASSUME NEW i \in 1..Len(lru), Get(i) PROVE StepOK
  <2>1. /\ lru' = MoveToFront(lru, i)
        /\ UNCHANGED <<pages, dirty, maxPages, disk>>
    BY <1>1 DEF Get
  <2>2. /\ lru' \in Seq(PageID) /\ Len(lru') = Len(lru)
        /\ NoRepeats(lru') /\ Members(lru') = Cached
    BY <1>0, <2>1, MoveToFrontKeeps DEF ListOK, LRUConsistent
  <2>3. Cached' = Cached
    BY <2>1 DEF Cached
  <2>4. ListOK'
    BY <1>0, <2>1, <2>2, <2>3 DEF ListOK, LRUConsistent
  <2> QED BY <1>0, <1>a, <2>1, <2>2, <2>3, <2>4
<1>2. ASSUME NEW p \in PageID, NEW c \in Content, Put(p, c) PROVE StepOK
  BY <1>0, <1>a, <1>2, PutKeeps DEF Put
<1>3. ASSUME NEW p \in PageID, NEW c \in Content, WritePage(p, c) PROVE StepOK
  <2>1. /\ ListOK'
        /\ \A q \in Cached \cap dirty : q \in Cached'
        /\ Len(lru') > Len(lru) => Len(lru') <= maxPages
        /\ p \in Cached' => pages'[p] = c
    BY <1>3, PutKeeps DEF WritePage
  <2>2. /\ disk' = [disk EXCEPT ![p] = c]
        /\ dirty' = dirty \ {p} /\ maxPages' = maxPages
    BY <1>3 DEF WritePage
  <2>3. disk' \in [PageID -> Content] /\ disk'[p] = c
    BY <1>0, <2>2
  <2> QED BY <1>0, <1>a, <2>1, <2>2, <2>3
<1>4. ASSUME NEW p \in PageID, MarkDirty(p) PROVE StepOK
  <2>1. ListOK' /\ Cached' = Cached
    BY <1>0, <1>4 DEF MarkDirty, ListOK, LRUConsistent, Cached
  <2> QED BY <1>0, <1>a, <1>4, <2>1 DEF MarkDirty
<1>5. ASSUME NEW p \in PageID, Remove(p) PROVE StepOK
  <2>1. ListOK' /\ Cached' = Cached \ {p} /\ Len(lru') <= Len(lru)
    BY <1>5, RemoveKeeps
  <2>2. dirty' = dirty \ {p} /\ UNCHANGED <<maxPages, disk>>
    BY <1>5 DEF Remove
  <2>3. Len(lru') \in Nat
    BY <2>1 DEF ListOK
  <2> QED BY <1>0, <1>a, <2>1, <2>2, <2>3
<1>6. CASE Clear
  <2>1. Cached' = {} /\ pages' \in [{} -> Content] /\ lru' = << >> /\ dirty' = {}
    BY <1>6 DEF Clear, Cached
  <2>2. Members(<< >>) = {} /\ NoRepeats(<< >>)
    BY DEF Members, NoRepeats
  <2>3. ListOK'
    BY <2>1, <2>2 DEF ListOK, LRUConsistent
  <2> QED BY <1>0, <1>a, <1>6, <2>1, <2>3 DEF Clear
<1>7. ASSUME NEW done \in SUBSET dirty, Flush(done) PROVE StepOK
  <2>1. /\ disk' = [p \in PageID |-> IF p \in done \cap Cached THEN pages[p] ELSE disk[p]]
        /\ dirty' = dirty \ done /\ UNCHANGED <<pages, lru, maxPages>>
    BY <1>7 DEF Flush
  <2>2. ListOK' /\ Cached' = Cached
    BY <1>0, <2>1 DEF ListOK, LRUConsistent, Cached
  <2>3. disk' \in [PageID -> Content]
    BY <1>0, <2>1 DEF ListOK
  <2> QED BY <1>0, <1>a, <2>1, <2>2, <2>3
<1>8. ASSUME NEW p \in PageID, FlushPage(p) PROVE StepOK
  <2>1. /\ disk' = IF p \in Cached THEN [disk EXCEPT ![p] = pages[p]] ELSE disk
        /\ dirty' = dirty \ {p} /\ UNCHANGED <<pages, lru, maxPages>>
    BY <1>8 DEF FlushPage
  <2>2. ListOK' /\ Cached' = Cached
    BY <1>0, <2>1 DEF ListOK, LRUConsistent, Cached
  <2>3. disk' \in [PageID -> Content]
    BY <1>0, <2>1 DEF ListOK
  <2> QED BY <1>0, <1>a, <2>1, <2>2, <2>3
<1>9. ASSUME NEW n \in CacheSizes, Resize(n) PROVE StepOK
  <2>1. /\ ListOK'
        /\ \A q \in Cached \cap dirty : q \in Cached'
        /\ Len(lru') <= Len(lru)
    BY <1>9, ResizeKeeps
  <2>2. maxPages' = n /\ UNCHANGED <<dirty, disk>>
    BY <1>9 DEF Resize
  <2>3. Len(lru') \in Nat
    BY <2>1 DEF ListOK
  <2> QED BY <1>0, <1>a, <2>1, <2>2, <2>3
<1>10. CASE UNCHANGED vars
  <2>1. ListOK' /\ Cached' = Cached
    BY <1>0, <1>10 DEF vars, ListOK, LRUConsistent, Cached
  <2> QED BY <1>0, <1>a, <1>10, <2>1 DEF vars
<1> QED BY <1>1, <1>2, <1>3, <1>4, <1>5, <1>6, <1>7, <1>8, <1>9, <1>10 DEF Next

\* The recency list, the page map and the types stay consistent.
THEOREM CacheInvariant == Spec => []CacheInv
<1>1. CacheInv /\ [Next]_vars => CacheInv'
  BY StepPreserves DEF StepOK
<1> QED BY <1>1, InitOK, PTL DEF Spec

\* Every reachable state of the cache is well typed.
THEOREM TypeCorrect == Spec => []TypeOK
<1>1. CacheInv => TypeOK
  BY DEF CacheInv
<1> QED BY <1>1, CacheInvariant, PTL

\* The recency list holds exactly the cached pages, each once: whatever the
\* order of Put, Remove, Resize and failed evictions, no page of the map is out
\* of the reach of evictLRU and none is evicted twice.
THEOREM ListMatchesPages == Spec => []LRUConsistent
<1>1. CacheInv => LRUConsistent
  BY DEF CacheInv
<1> QED BY <1>1, CacheInvariant, PTL

\* evictLRU never drops a page marked dirty.
THEOREM DirtyPagesAreSpared == Spec => EvictionSparesDirty
<1>1. CacheInv /\ [Next]_vars => [SparesDirtyStep]_vars
  BY StepPreserves DEF StepOK
<1> QED BY <1>1, CacheInvariant, PTL DEF Spec, EvictionSparesDirty, SparesDirtyStep

\* The cache only grows within config.MaxPages.
THEOREM GrowthIsBounded == Spec => GrowsWithinLimit
<1>1. CacheInv /\ [Next]_vars => [GrowsWithinStep]_vars
  BY StepPreserves DEF StepOK
<1> QED BY <1>1, CacheInvariant, PTL DEF Spec, GrowsWithinLimit, GrowsWithinStep

\* A cached page loses its dirty mark only once the file holds its content.
THEOREM CleanMeansWritten == Spec => CleanedIsWritten
<1>1. CacheInv /\ [Next]_vars => [CleanedStep]_vars
  BY StepPreserves DEF StepOK
<1> QED BY <1>1, CacheInvariant, PTL DEF Spec, CleanedIsWritten, CleanedStep

----------------------------------------------------------------------------
(* The slotted page.                                                        *)

\* The sizes UpdateRow is called with do not wrap in CanInsert.
NoWrap == \A s \in UpdateSizes : s + PointerBytes < WordMod

Cell == [start : Nat, size : Nat \ {0}]
Extent(c, i) == c[i].start..(c[i].start + c[i].size - 1)

PageType(p) == /\ p = [free |-> p.free, ptr |-> p.ptr, frag |-> p.frag, bytes |-> p.bytes]
               /\ p.free \in Nat /\ p.ptr \in Seq(Nat) /\ p.frag \in Word
               /\ p.bytes \in [Offsets -> Nat]

\* The cells lie between FreeSpace and the end of the page, one against the
\* other, the pointer array lies below FreeSpace.
Layout(p, c) ==
    /\ PointerBytes * Len(p.ptr) <= p.free /\ p.free <= MaxContent
    /\ \A i \in 1..Len(c) : c[i].start >= p.free /\ c[i].start + c[i].size <= MaxContent
    /\ \A i, j \in 1..Len(c) : i < j => c[j].start + c[j].size <= c[i].start
    /\ p.free = IF Len(c) = 0 THEN MaxContent ELSE c[Len(c)].start
    /\ \A i \in 1..Len(c) :
           c[i].start + c[i].size = IF i = 1 THEN MaxContent ELSE c[i - 1].start

\* The pointer of a cell is its place, or 0 once deleted.
PointersOK(p, c) == \A i \in 1..Len(c) : p.ptr[i] = 0 \/ p.ptr[i] = c[i].start

\* The bytes of every cell, deleted or not, are those of its row.
BytesOK(p, c) == \A i \in 1..Len(c) : \A b \in Extent(c, i) : p.bytes[b] = i

PageInv(p, c) ==
    /\ PageType(p)
    /\ c \in Seq(Cell) /\ Len(c) = Len(p.ptr)
    /\ Layout(p, c) /\ PointersOK(p, c) /\ BytesOK(p, c)

\* 16-bit arithmetic is exact as long as it stays within a word.
LEMMA ModSmall == ASSUME NEW a \in Nat, NEW m \in Nat, a < m PROVE a % m = a
  OBVIOUS

LEMMA ModRange == ASSUME NEW a \in Int, NEW m \in Nat \ {0} PROVE a % m \in 0..(m - 1)
  OBVIOUS

\* Inserting a row that CanInsert accepts keeps the page well formed.
LEMMA InsertKeeps ==
    ASSUME NEW p, NEW c, PageInv(p, c), NEW s \in Nat \ {0},
           s + PointerBytes < WordMod, CanInsert(p, s)
    PROVE  /\ CellOffset(p, s) = p.free - s
           /\ PageInv(InsertRowToPage(p, s),
                      Append(c, [start |-> CellOffset(p, s), size |-> s]))
<1> DEFINE n == Len(c) + 1
           off == p.free - s
           cell == [start |-> off, size |-> s]
           d == Append(c, cell)
           q == InsertRowToPage(p, s)
<1>0. /\ MaxContent \in Nat /\ WordMod \in Nat /\ MaxContent + 2 < WordMod
      /\ PointerBytes = 2
  BY SizesAssumption DEF PointerBytes
<1>1. /\ PageType(p) /\ c \in Seq(Cell) /\ Len(c) = Len(p.ptr) /\ Len(c) \in Nat
      /\ Layout(p, c) /\ PointersOK(p, c) /\ BytesOK(p, c)
  BY DEF PageInv
<1>2. s % WordMod = s /\ (s + PointerBytes) % WordMod = s + PointerBytes
  BY <1>0, ModSmall
<1>3. 2 * n <= off
  <2> DEFINE gap == p.free - PointerBytes * Len(p.ptr)
  <2>1. p.free \in Nat /\ p.frag \in Nat /\ gap \in Int /\ gap = p.free - 2 * Len(c)
    BY <1>0, <1>1 DEF PageType, Word
  <2>2. AvailableSpace(p) >= s + 2
    BY <1>0, <1>2 DEF CanInsert
  <2>3. AvailableSpace(p) = IF gap < 0 \/ gap < p.frag THEN 0 ELSE gap - p.frag
    BY DEF AvailableSpace
  <2> HIDE DEF gap
  <2>4. gap >= s + 2
    BY <2>1, <2>2, <2>3
  <2> QED BY <1>1, <2>1, <2>4
<1>4. off \in Nat /\ off < p.free /\ off < WordMod /\ off > 0 /\ p.free <= MaxContent
  <2>1. n \in Nat \ {0} /\ p.free \in Nat /\ p.free <= MaxContent
    BY <1>1 DEF PageType, Layout
  <2>2. off \in Int /\ off < p.free /\ off > 0
    BY <1>3, <2>1
  <2> QED BY <1>0, <2>1, <2>2
<1>5. CellOffset(p, s) = off
  BY <1>0, <1>2, <1>4, ModSmall DEF CellOffset
<1>6. /\ q = [free |-> off, ptr |-> Append(p.ptr, off), frag |-> p.frag,
              bytes |-> [b \in Offsets |-> IF b \in PointerAt(n) THEN 0
                                           ELSE IF b >= off /\ b < off + s THEN n
                                           ELSE p.bytes[b]]]
  BY <1>1, <1>5 DEF InsertRowToPage
<1>7. cell \in Cell /\ d \in Seq(Cell) /\ Len(d) = n /\ d[n] = cell
      /\ \A i \in 1..Len(c) : d[i] = c[i]
  BY <1>1, <1>4 DEF Cell
<1>8. /\ q.ptr \in Seq(Nat) /\ Len(q.ptr) = n /\ q.ptr[n] = off
      /\ \A i \in 1..Len(c) : q.ptr[i] = p.ptr[i]
  BY <1>1, <1>4, <1>6 DEF PageType
<1>9. q.bytes \in [Offsets -> Nat]
      /\ \A b \in Offsets : q.bytes[b] = IF b \in PointerAt(n) THEN 0
                                         ELSE IF b >= off /\ b < off + s THEN n
                                         ELSE p.bytes[b]
  BY <1>1, <1>6 DEF PageType
<1>10. q.free = off /\ q.frag = p.frag
  BY <1>6
<1>11. PageType(q)
  BY <1>1, <1>4, <1>6, <1>8, <1>9, <1>10 DEF PageType
<1>12. \A i \in 1..Len(c) : c[i].start \in Nat /\ c[i].size \in Nat \ {0}
  <2>1. \A i \in 1..Len(c) : c[i] \in Cell
    BY <1>1
  <2> QED BY <2>1 DEF Cell
<1>13. d[n].start = off /\ d[n].size = s
  BY <1>7
<1>a. n \in Nat \ {0} /\ \A i \in 1..n : i = n \/ i \in 1..Len(c)
  BY <1>1
<1>b. p.free \in Nat
  BY <1>1 DEF PageType
<1>c. /\ Len(d) = n /\ \A i \in 1..Len(c) : d[i] = c[i]
  BY <1>7
<1> HIDE DEF q, d, cell, n, off
<1>14. Layout(q, d)
  <2>1. \A i \in 1..Len(c) : c[i].start >= p.free /\ c[i].start + c[i].size <= MaxContent
    BY <1>1 DEF Layout
  <2>2. PointerBytes * Len(q.ptr) <= q.free /\ q.free <= MaxContent
    <3>1. Len(q.ptr) = n /\ q.free = off
      BY <1>8, <1>10
    <3>2. PointerBytes * n <= off
      BY <1>3 DEF PointerBytes
    <3> QED BY <1>4, <1>0, <1>a, <1>b, <3>1, <3>2
  <2>3. \A i \in 1..n : d[i].start >= q.free /\ d[i].start + d[i].size <= MaxContent
    <3>1. off + s = p.free
      BY <1>b DEF off
    <3> QED BY <1>0, <1>4, <1>a, <1>b, <1>c, <1>10, <1>12, <1>13, <2>1, <3>1
  <2>4. \A i, j \in 1..n : i < j => d[j].start + d[j].size <= d[i].start
    <3>1. off + s = p.free
      BY <1>b DEF off
    <3>2. \A i, j \in 1..Len(c) : i < j => c[j].start + c[j].size <= c[i].start
      BY <1>1 DEF Layout
    <3> SUFFICES ASSUME NEW i \in 1..n, NEW j \in 1..n, i < j
                 PROVE  d[j].start + d[j].size <= d[i].start
      OBVIOUS
    <3>3. i \in 1..Len(c)
      BY <1>1, <1>a DEF n
    <3> QED BY <1>a, <1>b, <1>c, <1>12, <1>13, <2>1, <3>1, <3>2, <3>3
  <2>5. q.free = d[n].start
    BY <1>10, <1>13
  <2>6. \A i \in 1..n :
           d[i].start + d[i].size = IF i = 1 THEN MaxContent ELSE d[i - 1].start
    <3> SUFFICES ASSUME NEW i \in 1..n
                 PROVE  d[i].start + d[i].size = IF i = 1 THEN MaxContent ELSE d[i - 1].start
      OBVIOUS
    <3>1. CASE i # n
      <4>1. i \in 1..Len(c) /\ (i # 1 => i - 1 \in 1..Len(c))
        BY <3>1, <1>1, <1>a
      <4>2. c[i].start + c[i].size = IF i = 1 THEN MaxContent ELSE c[i - 1].start
        BY <1>1, <4>1 DEF Layout
      <4> QED BY <1>c, <4>1, <4>2
    <3>2. CASE i = n
      <4>1. d[n].start + d[n].size = p.free
        BY <1>b, <1>13 DEF off
      <4>2. p.free = IF n = 1 THEN MaxContent ELSE c[n - 1].start
        BY <1>1 DEF Layout, n
      <4>3. n # 1 => d[n - 1] = c[n - 1]
        BY <1>1, <1>c DEF n
      <4> QED BY <3>2, <4>1, <4>2, <4>3
    <3> QED BY <3>1, <3>2
  <2> QED BY <1>a, <1>c, <2>2, <2>3, <2>4, <2>5, <2>6 DEF Layout
<1>15. PointersOK(q, d)
  BY <1>1, <1>a, <1>c, <1>8, <1>13 DEF PointersOK
<1>16. BytesOK(q, d)
  <2> SUFFICES ASSUME NEW i \in 1..n, NEW b \in Extent(d, i)
               PROVE  q.bytes[b] = i
    BY <1>7 DEF BytesOK
  <2>1. d[i].start \in Nat /\ d[i].size \in Nat /\ d[i].start >= off
        /\ d[i].start + d[i].size <= MaxContent
    BY <1>4, <1>a, <1>c, <1>10, <1>12, <1>13, <1>14 DEF Layout
  <2>2. b \in Offsets /\ b >= off
    BY <1>0, <1>4, <2>1 DEF Extent, Offsets
  <2>3. b \notin PointerAt(n)
    BY <1>0, <1>a, <1>3, <1>4, <2>2 DEF PointerAt, Offsets
  <2>4. CASE i = n
    BY <1>9, <1>13, <2>2, <2>3, <2>4, <1>4 DEF Extent
  <2>5. CASE i # n
    <3>1. i \in 1..Len(c) /\ d[i] = c[i] /\ b \in Extent(c, i)
      BY <2>5, <1>a, <1>c DEF Extent
    <3>2. p.bytes[b] = i /\ b >= p.free
      BY <3>1, <1>1, <1>b, <1>12 DEF BytesOK, Layout, Extent
    <3>3. ~(b >= off /\ b < off + s)
      BY <3>2, <2>2, <1>4, <1>b DEF Offsets, off
    <3> QED BY <1>9, <2>2, <2>3, <3>2, <3>3
  <2> QED BY <2>4, <2>5
<1>17. PageInv(q, d)
  BY <1>7, <1>8, <1>11, <1>14, <1>15, <1>16 DEF PageInv
<1> QED BY <1>5, <1>17 DEF q, d, cell, off

\* Deleting a readable cell keeps the page well formed.
LEMMA DeleteKeeps ==
    ASSUME NEW p, NEW c, PageInv(p, c), NEW i \in 1..Len(p.ptr), Readable(p, i)
    PROVE  PageInv(DeleteRowFromPage(p, i), c)
<1> DEFINE q == DeleteRowFromPage(p, i)
           f == (p.frag + (CellEnd(p, i) - p.ptr[i])) % WordMod
<1>0. MaxContent \in Nat /\ WordMod \in Nat \ {0}
  BY SizesAssumption DEF PointerBytes
<1>1. /\ PageType(p) /\ c \in Seq(Cell) /\ Len(c) = Len(p.ptr)
      /\ Layout(p, c) /\ PointersOK(p, c) /\ BytesOK(p, c)
  BY DEF PageInv
<1>2. CellEnd(p, i) \in Nat /\ p.ptr[i] \in Nat /\ p.frag \in Nat
  BY <1>0, <1>1 DEF CellEnd, PageType, Word
<1>3. f \in Word
  <2>1. p.frag + (CellEnd(p, i) - p.ptr[i]) \in Int
    BY <1>2
  <2> QED BY <1>0, <2>1, ModRange DEF Word
<1>4. q = [free |-> p.free, ptr |-> [p.ptr EXCEPT ![i] = 0], frag |-> f, bytes |-> p.bytes]
  BY <1>1 DEF DeleteRowFromPage, PageType
<1>5. /\ q.ptr \in Seq(Nat) /\ Len(q.ptr) = Len(p.ptr) /\ q.ptr[i] = 0
      /\ \A j \in 1..Len(p.ptr) : j # i => q.ptr[j] = p.ptr[j]
  BY <1>1, <1>4 DEF PageType
<1> HIDE DEF f
<1>6. q.free = p.free /\ q.frag = f /\ q.bytes = p.bytes
  BY <1>4
<1>7. PageType(q)
  BY <1>1, <1>3, <1>4, <1>5, <1>6 DEF PageType
<1> HIDE DEF q
<1>8. Layout(q, c)
  BY <1>1, <1>5, <1>6 DEF Layout
<1>9. PointersOK(q, c) /\ BytesOK(q, c)
  BY <1>1, <1>5, <1>6 DEF PointersOK, BytesOK
<1> QED BY <1>1, <1>5, <1>7, <1>8, <1>9 DEF PageInv, q

\* The inductive invariant: the page and the history of its cells fit together.
Inv == PageInv(page, cells)

LEMMA InitInv == PageInit => Inv
<1> SUFFICES ASSUME PageInit PROVE Inv
  OBVIOUS
<1>1. /\ page = [free |-> MaxContent, ptr |-> << >>, frag |-> 0, bytes |-> [b \in Offsets |-> 0]]
      /\ cells = << >>
  BY DEF PageInit, EmptyPage
<1>2. MaxContent \in Nat /\ WordMod \in Nat \ {0}
  BY SizesAssumption DEF PointerBytes
<1>3. PageType(page)
  BY <1>1, <1>2 DEF PageType, Word
<1>4. Layout(page, cells) /\ PointersOK(page, cells) /\ BytesOK(page, cells)
  BY <1>1, <1>2 DEF Layout, PointersOK, BytesOK, PointerBytes
<1> QED BY <1>1, <1>3, <1>4 DEF Inv, PageInv

LEMMA StepInv == ASSUME NoWrap, Inv, [PageNext]_pageVars PROVE Inv'
<1>0. /\ MaxContent \in Nat /\ WordMod \in Nat /\ Reserve \in Nat
      /\ PointerBytes = 2 /\ 2 <= Reserve /\ MaxContent + 2 < WordMod
  BY SizesAssumption DEF PointerBytes
<1>1. ASSUME NEW s \in RowSizes, InsertRow(s) PROVE Inv'
  <2>1. s \in Nat \ {0} /\ s + PointerBytes < WordMod
    BY <1>0, <1>1, SizesAssumption DEF InsertRow
  <2>2. PageInv(InsertRowToPage(page, s), Placed(page, s))
    BY <1>1, <2>1, InsertKeeps DEF InsertRow, Inv, Placed
  <2> QED BY <1>1, <2>2 DEF InsertRow, Inv
<1>2. ASSUME NEW i \in 1..Len(page.ptr), DeleteRow(i) PROVE Inv'
  <2>1. PageInv(DeleteRowFromPage(page, i), cells)
    BY <1>2, DeleteKeeps DEF DeleteRow, Inv
  <2> QED BY <1>2, <2>1 DEF DeleteRow, Inv
<1>3. ASSUME NEW i \in 1..Len(page.ptr), NEW s \in UpdateSizes, UpdateRowInPlace(i, s)
      PROVE  Inv'
  <2> DEFINE p == DeleteRowFromPage(page, i)
  <2>1. s \in Nat \ {0} /\ s + PointerBytes < WordMod
    BY <1>0, SizesAssumption DEF NoWrap
  <2>2. PageInv(p, cells)
    BY <1>3, DeleteKeeps DEF UpdateRowInPlace, Inv
  <2>3. /\ CanInsert(p, s) /\ page' = InsertRowToPage(p, s) /\ cells' = Placed(p, s)
    BY <1>3 DEF UpdateRowInPlace
  <2> HIDE DEF p
  <2>4. PageInv(InsertRowToPage(p, s), Placed(p, s))
    BY <2>1, <2>2, <2>3, InsertKeeps DEF Placed
  <2> QED BY <2>3, <2>4 DEF Inv
<1>4. ASSUME NEW i \in 1..Len(page.ptr), NEW s \in UpdateSizes, UpdateRowMoves(i, s)
      PROVE  Inv'
  <2>1. PageInv(DeleteRowFromPage(page, i), cells)
    BY <1>4, DeleteKeeps DEF UpdateRowMoves, Inv
  <2> QED BY <1>4, <2>1 DEF UpdateRowMoves, Inv
<1>5. CASE UNCHANGED pageVars
  BY <1>5 DEF pageVars, Inv
<1> QED BY <1>1, <1>2, <1>3, <1>4, <1>5 DEF PageNext

LEMMA Invariant == NoWrap => (PageSpec => []Inv)
<1> SUFFICES ASSUME NoWrap PROVE PageSpec => []Inv
  OBVIOUS
<1>1. Inv /\ [PageNext]_pageVars => Inv'
  BY StepInv
<1> QED BY <1>1, InitInv, PTL DEF PageSpec

\* What the invariant says of the cells, in terms of the page and the history.
LEMMA InvFacts ==
    ASSUME Inv
    PROVE  /\ page.free \in Nat /\ page.ptr \in Seq(Nat) /\ Len(cells) = Len(page.ptr)
           /\ Layout(page, cells) /\ PointersOK(page, cells) /\ BytesOK(page, cells)
           /\ \A i \in 1..Len(cells) : cells[i].start \in Nat /\ cells[i].size \in Nat \ {0}
<1>1. \A i \in 1..Len(cells) : cells[i] \in Cell
  BY DEF Inv, PageInv
<1> QED BY <1>1 DEF Inv, PageInv, PageType, Cell

\* A sequence whose elements are in T is a sequence over T.
LEMMA SeqOver ==
    ASSUME NEW S, NEW T, NEW s \in Seq(S), \A i \in 1..Len(s) : s[i] \in T
    PROVE  s \in Seq(T)
  OBVIOUS

\* Every offset, size and counter of a page fits in 16 bits.
THEOREM PageTypeCorrect == NoWrap => (PageSpec => []PageTypeOK)
<1> SUFFICES ASSUME NoWrap PROVE PageSpec => []PageTypeOK
  OBVIOUS
<1>1. ASSUME Inv PROVE PageTypeOK
  <2>1. MaxContent \in Nat /\ WordMod \in Nat /\ MaxContent < WordMod
    BY SizesAssumption DEF PointerBytes
  <2>2. page.frag \in Word /\ page.bytes \in [Offsets -> Nat]
    BY <1>1 DEF Inv, PageInv, PageType
  <2>3. page.free \in Word
    BY <1>1, <2>1, InvFacts DEF Layout, Word
  <2>4. \A i \in 1..Len(cells) : cells[i].start \in Word
    BY <1>1, <2>1, InvFacts DEF Layout, Word
  <2>5. page.ptr \in Seq(Word)
    <3>1. \A i \in 1..Len(page.ptr) : page.ptr[i] \in Word
      <4>1. 0 \in Word
        BY <2>1 DEF Word
      <4>2. \A i \in 1..Len(page.ptr) : page.ptr[i] = 0 \/ page.ptr[i] = cells[i].start
        BY <1>1, InvFacts DEF PointersOK
      <4> QED BY <1>1, <2>4, <4>1, <4>2, InvFacts
    <3> QED BY <1>1, <3>1, InvFacts, SeqOver
  <2>6. cells \in Seq([start : Word, size : Nat])
    <3>1. cells \in Seq(Cell) /\ \A i \in 1..Len(cells) : cells[i] \in Cell
      BY <1>1 DEF Inv, PageInv
    <3>2. \A i \in 1..Len(cells) : cells[i] \in [start : Word, size : Nat]
      BY <2>4, <3>1 DEF Cell
    <3> QED BY <3>1, <3>2, SeqOver
  <2> QED BY <1>1, <2>2, <2>3, <2>5, <2>6, InvFacts DEF PageTypeOK
<1> QED BY <1>1, Invariant, PTL

\* The pointer array never runs into the cells.
THEOREM PointerArrayFits == NoWrap => (PageSpec => []PointersBelowCells)
<1> SUFFICES ASSUME NoWrap PROVE PageSpec => []PointersBelowCells
  OBVIOUS
<1>1. Inv => PointersBelowCells
  BY InvFacts DEF PointersBelowCells, Layout
<1> QED BY <1>1, Invariant, PTL

\* The live pointers of a page decrease, as GetRowFromPage relies on.
THEOREM PointersOrdered == NoWrap => (PageSpec => []PointersDecrease)
<1> SUFFICES ASSUME NoWrap PROVE PageSpec => []PointersDecrease
  OBVIOUS
<1>1. ASSUME Inv PROVE PointersDecrease
  <2> SUFFICES ASSUME NEW i \in 1..Len(page.ptr), NEW j \in 1..Len(page.ptr),
                      i < j, Live(i), Live(j)
               PROVE  page.ptr[j] < page.ptr[i]
    BY DEF PointersDecrease
  <2>1. i \in 1..Len(cells) /\ j \in 1..Len(cells)
    BY <1>1, InvFacts
  <2>2. page.ptr[i] = cells[i].start /\ page.ptr[j] = cells[j].start
    BY <1>1, <2>1, InvFacts DEF PointersOK, Live
  <2>3. cells[j].start + cells[j].size <= cells[i].start
    BY <1>1, <2>1, InvFacts DEF Layout
  <2>4. /\ cells[i].start \in Nat /\ cells[j].start \in Nat /\ cells[j].size \in Nat \ {0}
    BY <1>1, <2>1, InvFacts
  <2> QED BY <2>2, <2>3, <2>4
<1> QED BY <1>1, Invariant, PTL

\* No insertion, deletion or update touches a byte of another live row.
THEOREM RowsStayIntact == NoWrap => (PageSpec => []LiveRowsIntact)
<1> SUFFICES ASSUME NoWrap PROVE PageSpec => []LiveRowsIntact
  OBVIOUS
<1>1. ASSUME Inv PROVE LiveRowsIntact
  <2> SUFFICES ASSUME NEW i \in 1..Len(page.ptr), Live(i)
               PROVE  /\ page.ptr[i] = cells[i].start
                      /\ \A b \in cells[i].start..(cells[i].start + cells[i].size - 1) :
                             b \in Offsets /\ page.bytes[b] = i
    BY DEF LiveRowsIntact
  <2>1. MaxContent \in Nat
    BY SizesAssumption
  <2>2. /\ i \in 1..Len(cells) /\ cells[i].start \in Nat /\ cells[i].size \in Nat
        /\ cells[i].start + cells[i].size <= MaxContent
    BY <1>1, InvFacts DEF Layout
  <2>3. page.ptr[i] = cells[i].start
    BY <1>1, <2>2, InvFacts DEF PointersOK, Live
  <2>4. \A b \in Extent(cells, i) : page.bytes[b] = i
    BY <1>1, <2>2, InvFacts DEF BytesOK
  <2> QED BY <2>1, <2>2, <2>3, <2>4 DEF Extent, Offsets
<1> QED BY <1>1, Invariant, PTL

\* A read that succeeds returns the whole row and nothing else.
THEOREM ReadsAreExact == NoWrap => (PageSpec => []ReadsWholeRow)
<1> SUFFICES ASSUME NoWrap PROVE PageSpec => []ReadsWholeRow
  OBVIOUS
<1>1. ASSUME Inv PROVE ReadsWholeRow
  <2> SUFFICES ASSUME NEW i \in 1..Len(page.ptr), Readable(page, i)
               PROVE  CellEnd(page, i) = cells[i].start + cells[i].size
    BY DEF ReadsWholeRow
  <2>1. i \in 1..Len(cells) /\ cells[i].start + cells[i].size =
                               IF i = 1 THEN MaxContent ELSE cells[i - 1].start
    BY <1>1, InvFacts DEF Layout
  <2>2. CASE i = 1
    BY <2>1, <2>2 DEF CellEnd
  <2>3. CASE i # 1
    <3>1. /\ i - 1 \in 1..Len(cells) /\ page.ptr[i - 1] \in Nat /\ page.ptr[i] \in Nat
      BY <1>1, <2>1, <2>3, InvFacts
    <3>2. page.ptr[i - 1] # 0
      BY <2>3, <3>1 DEF Readable, CellEnd
    <3>3. page.ptr[i - 1] = cells[i - 1].start
      BY <1>1, <3>1, <3>2, InvFacts DEF PointersOK
    <3> QED BY <2>1, <2>3, <3>3 DEF CellEnd
  <2> QED BY <2>2, <2>3
<1> QED BY <1>1, Invariant, PTL

\* In a page without deleted rows every row can be read.
THEOREM ReadableUntilDelete == NoWrap => (PageSpec => []ReadableWithoutDeletes)
<1> SUFFICES ASSUME NoWrap PROVE PageSpec => []ReadableWithoutDeletes
  OBVIOUS
<1>1. ASSUME Inv PROVE ReadableWithoutDeletes
  <2> SUFFICES ASSUME \A j \in 1..Len(page.ptr) : Live(j), NEW i \in 1..Len(page.ptr)
               PROVE  Readable(page, i)
    BY DEF ReadableWithoutDeletes
  <2>1. \A j \in 1..Len(page.ptr) : page.ptr[j] = cells[j].start /\ page.ptr[j] # 0
    BY <1>1, InvFacts DEF PointersOK, Live
  <2>2. /\ i \in 1..Len(cells) /\ cells[i].start \in Nat /\ cells[i].size \in Nat \ {0}
        /\ cells[i].start + cells[i].size =
               IF i = 1 THEN MaxContent ELSE cells[i - 1].start
    BY <1>1, InvFacts DEF Layout
  <2>3. CellEnd(page, i) = cells[i].start + cells[i].size
    <3>1. i # 1 => i - 1 \in 1..Len(page.ptr)
      BY <1>1, InvFacts
    <3> QED BY <2>1, <2>2, <3>1 DEF CellEnd
  <2> QED BY <2>1, <2>2, <2>3 DEF Readable
<1> QED BY <1>1, Invariant, PTL

\* The layout that readers and writers of a page rely on holds in 16-bit arithmetic.
THEOREM PageIsSound == NoWrap => (PageSpec => []PageSound)
<1> SUFFICES ASSUME NoWrap PROVE PageSpec => []PageSound
  OBVIOUS
<1>1. PageSpec => [](PageTypeOK /\ PointersBelowCells /\ PointersDecrease)
  BY PageTypeCorrect, PointerArrayFits, PointersOrdered, PTL
<1> QED BY <1>1, PTL DEF PageSound

\* Rows keep their bytes and are read back whole.
THEOREM RowsAreIntact == NoWrap => (PageSpec => []RowsIntact)
<1> SUFFICES ASSUME NoWrap PROVE PageSpec => []RowsIntact
  OBVIOUS
<1>1. PageSpec => [](LiveRowsIntact /\ ReadsWholeRow /\ ReadableWithoutDeletes)
  BY RowsStayIntact, ReadsAreExact, ReadableUntilDelete, PTL
<1> QED BY <1>1, PTL DEF RowsIntact

----------------------------------------------------------------------------
(* Fragmented.                                                              *)

\* Induction over the numbers, for a set of them.
LEMMA NatSetInduction ==
    ASSUME NEW T, 0 \in T, \A n \in Nat : n \in T => n + 1 \in T
    PROVE  \A n \in Nat : n \in T
<1> SUFFICES ASSUME Nat \ T # {} PROVE FALSE
  OBVIOUS
<1> DEFINE R == {ss \in Nat \X Nat : ss[1] < ss[2]}
<1>1. IsWellFoundedOn(R, Nat)
  BY NatLessThanWellFounded, Zenon DEF OpToRel
<1> HIDE DEF R
<1>2. PICK x \in Nat \ T : \A y \in Nat \ T : <<y, x>> \notin R
  BY <1>1, WFMin
<1>3. x # 0 /\ x - 1 \in Nat
  BY <1>2
<1>4. x - 1 \notin T
  BY <1>2, <1>3
<1>5. <<x - 1, x>> \in R
  BY <1>2, <1>3 DEF R
<1> QED BY <1>2, <1>3, <1>4, <1>5

\* What the i-th cell adds to the space of the deleted cells.
Deleted(ptr, c, i) == IF ptr[i] = 0 THEN c[i].size ELSE 0

\* The function that DeletedSpace takes its result from.
IsSum(g, n, ptr, c) == g = [i \in 0..n |-> IF i = 0 THEN 0 ELSE g[i - 1] + Deleted(ptr, c, i)]

\* There is such a function for every number of cells.
LEMMA SumExists ==
    ASSUME NEW ptr, NEW c
    PROVE  \A n \in Nat : \E g : IsSum(g, n, ptr, c)
<1> DEFINE T == {n \in Nat : \E g : IsSum(g, n, ptr, c)}
<1>1. 0 \in T
  <2> DEFINE g == [i \in 0..0 |-> 0]
  <2>1. IsSum(g, 0, ptr, c)
    BY DEF IsSum
  <2> QED BY <2>1
<1>2. ASSUME NEW n \in Nat, n \in T PROVE n + 1 \in T
  <2>1. PICK g : IsSum(g, n, ptr, c)
    BY <1>2
  <2> DEFINE w(f, i) == IF i = 0 THEN 0 ELSE f[i - 1] + Deleted(ptr, c, i)
             v == g[n] + Deleted(ptr, c, n + 1)
             h == [i \in 0..(n + 1) |-> IF i = n + 1 THEN v ELSE g[i]]
  <2>2. \A i \in 0..n : g[i] = w(g, i)
    BY <2>1 DEF IsSum
  <2> HIDE DEF v
  <2>3. h[n + 1] = v /\ \A i \in 0..n : h[i] = g[i]
    OBVIOUS
  <2>4. h = [i \in 0..(n + 1) |-> h[i]]
    OBVIOUS
  <2> HIDE DEF h
  <2>5. ASSUME NEW i \in 0..(n + 1) PROVE h[i] = w(h, i)
    <3>1. CASE i = n + 1
      <4>1. i # 0 /\ i - 1 = n /\ h[n] = g[n]
        BY <2>3, <3>1
      <4> QED BY <2>3, <3>1, <4>1 DEF v
    <3>2. CASE i # n + 1 /\ i # 0
      <4>1. i \in 0..n /\ i - 1 \in 0..n
        BY <3>2
      <4> QED BY <2>2, <2>3, <3>2, <4>1
    <3>3. CASE i = 0
      BY <2>2, <2>3, <3>3
    <3> QED BY <3>1, <3>2, <3>3
  <2> HIDE DEF w
  <2>6. h = [i \in 0..(n + 1) |-> w(h, i)]
    BY <2>4, <2>5
  <2>7. IsSum(h, n + 1, ptr, c)
    BY <2>6 DEF IsSum, w
  <2> QED BY <2>7
<1> HIDE DEF T
<1>3. \A n \in Nat : n \in T
  BY <1>1, <1>2, NatSetInduction
<1> QED BY <1>3 DEF T

\* DeletedSpace adds up the deleted cells from the first to the last.
Sums(g, n, ptr, c) ==
    g[0] = 0 /\ \A i \in 1..n : g[i] = g[i - 1] + Deleted(ptr, c, i)

LEMMA DeletedSpaceSums ==
    ASSUME NEW ptr, NEW S, NEW c \in Seq(S)
    PROVE  \E g : Sums(g, Len(c), ptr, c) /\ DeletedSpace(ptr, c) = g[Len(c)]
<1> DEFINE n == Len(c)
           g == CHOOSE h : IsSum(h, n, ptr, c)
<1>1. n \in Nat
  OBVIOUS
<1>2. DeletedSpace(ptr, c) = g[n]
  BY Zenon DEF DeletedSpace, IsSum, Deleted
<1>3. IsSum(g, n, ptr, c)
  BY <1>1, SumExists
<1> HIDE DEF g, n
<1>4. \A i \in 0..n : g[i] = IF i = 0 THEN 0 ELSE g[i - 1] + Deleted(ptr, c, i)
  BY <1>3 DEF IsSum
<1>5. 0 \in 0..n /\ \A i \in 1..n : i \in 0..n /\ i # 0
  BY <1>1
<1>6. Sums(g, n, ptr, c)
  BY <1>4, <1>5, Zenon DEF Sums
<1> QED BY <1>2, <1>6 DEF n

\* The deleted cells among the first i take up no more than all of these cells do, which lie one
\* against the other from the end of the page down.
LEMMA SumBounded ==
    ASSUME NEW p, NEW c, PageInv(p, c), NEW g, Sums(g, Len(c), p.ptr, c)
    PROVE  /\ \A i \in 0..Len(c) : g[i] \in Nat
           /\ g[Len(c)] <= MaxContent - p.free
<1> DEFINE n == Len(c)
           low(i) == IF i = 0 THEN MaxContent ELSE c[i].start
           T == {i \in Nat : i <= n => g[i] \in Nat /\ g[i] <= MaxContent - low(i)}
<1>1. n \in Nat /\ MaxContent \in Nat /\ p.free = low(n)
  BY SizesAssumption DEF PageInv, Layout
<1>2. \A i \in 1..n : c[i] \in Cell
  BY DEF PageInv
<1>3. \A i \in 1..n : c[i].start \in Nat /\ c[i].size \in Nat
  BY <1>2 DEF Cell
<1>4. \A i \in 1..n : c[i].start + c[i].size = low(i - 1)
  BY DEF PageInv, Layout
<1>5. 0 \in T
  BY <1>1 DEF Sums
<1>6. ASSUME NEW i \in Nat, i \in T PROVE i + 1 \in T
  <2> SUFFICES ASSUME i + 1 <= n PROVE g[i + 1] \in Nat /\ g[i + 1] <= MaxContent - low(i + 1)
    OBVIOUS
  <2>1. i <= n /\ i + 1 \in 1..n /\ (i + 1) - 1 = i /\ i + 1 # 0
    BY <1>1
  <2>2. g[i] \in Nat /\ g[i] <= MaxContent - low(i)
    BY <1>6, <2>1
  <2>3. g[i + 1] = g[i] + Deleted(p.ptr, c, i + 1)
    BY <2>1 DEF Sums
  <2>4. /\ c[i + 1].start \in Nat /\ c[i + 1].size \in Nat /\ c[i + 1].start + c[i + 1].size = low(i)
        /\ low(i + 1) = c[i + 1].start
    BY <1>3, <1>4, <2>1
  <2> HIDE DEF low
  <2>5. Deleted(p.ptr, c, i + 1) \in Nat /\ Deleted(p.ptr, c, i + 1) <= c[i + 1].size
    BY <2>4 DEF Deleted
  <2> QED BY <1>1, <2>2, <2>3, <2>4, <2>5
<1> HIDE DEF T
<1>7. \A i \in Nat : i \in T
  BY <1>5, <1>6, NatSetInduction
<1>8. \A i \in 0..n : g[i] \in Nat /\ g[i] <= MaxContent - low(i)
  BY <1>1, <1>7 DEF T
<1>9. n \in 0..n
  BY <1>1
<1> QED BY <1>1, <1>8, <1>9

\* A live cell at the end adds nothing.
LEMMA InsertSum ==
    ASSUME NEW p, NEW c, PageInv(p, c), NEW q, NEW d, PageInv(q, d),
           Len(d) = Len(c) + 1, q.ptr[Len(d)] # 0,
           \A i \in 1..Len(c) : q.ptr[i] = p.ptr[i] /\ d[i] = c[i]
    PROVE  DeletedSpace(q.ptr, d) = DeletedSpace(p.ptr, c)
<1> DEFINE n == Len(c)
<1>1. c \in Seq(Cell) /\ d \in Seq(Cell) /\ n \in Nat
  BY DEF PageInv
<1>2. PICK g : Sums(g, n, p.ptr, c) /\ DeletedSpace(p.ptr, c) = g[n]
  BY <1>1, DeletedSpaceSums
<1>3. PICK h : Sums(h, n + 1, q.ptr, d) /\ DeletedSpace(q.ptr, d) = h[n + 1]
  BY <1>1, DeletedSpaceSums
<1> DEFINE T == {i \in Nat : i <= n => h[i] = g[i]}
<1>4. 0 \in T
  BY <1>2, <1>3 DEF Sums
<1>5. ASSUME NEW i \in Nat, i \in T PROVE i + 1 \in T
  <2> SUFFICES ASSUME i + 1 <= n PROVE h[i + 1] = g[i + 1]
    OBVIOUS
  <2>1. i <= n /\ i + 1 \in 1..n /\ i + 1 \in 1..(n + 1) /\ (i + 1) - 1 = i
    BY <1>1
  <2>2. h[i] = g[i]
    BY <1>5, <2>1
  <2>3. Deleted(q.ptr, d, i + 1) = Deleted(p.ptr, c, i + 1)
    BY <2>1 DEF Deleted
  <2> QED BY <1>2, <1>3, <2>1, <2>2, <2>3 DEF Sums
<1> HIDE DEF T
<1>6. n \in T
  BY <1>1, <1>4, <1>5, NatSetInduction
<1>7. h[n] = g[n]
  BY <1>1, <1>6 DEF T
<1>8. n + 1 \in 1..(n + 1) /\ (n + 1) - 1 = n
  BY <1>1
<1>9. h[n + 1] = h[n] + 0
  BY <1>3, <1>8 DEF Sums, Deleted
<1>10. g[n] \in Nat
  <2>1. \A i \in 0..n : g[i] \in Nat
    BY <1>2, SumBounded
  <2> QED BY <1>1, <2>1
<1> QED BY <1>2, <1>3, <1>7, <1>9, <1>10

\* Deleting a live cell adds its size.
LEMMA DeleteSum ==
    ASSUME NEW p, NEW c, PageInv(p, c), NEW q, PageInv(q, c),
           NEW i \in 1..Len(c), p.ptr[i] # 0, q.ptr[i] = 0,
           \A j \in 1..Len(c) : j # i => q.ptr[j] = p.ptr[j]
    PROVE  DeletedSpace(q.ptr, c) = DeletedSpace(p.ptr, c) + c[i].size
<1> DEFINE n == Len(c)
<1>1. c \in Seq(Cell) /\ n \in Nat
  BY DEF PageInv
<1>a. c[i].size \in Nat
  <2>1. c[i] \in Cell
    BY <1>1
  <2> QED BY <2>1 DEF Cell
<1>2. PICK g : Sums(g, n, p.ptr, c) /\ DeletedSpace(p.ptr, c) = g[n]
  BY <1>1, DeletedSpaceSums
<1>3. PICK h : Sums(h, n, q.ptr, c) /\ DeletedSpace(q.ptr, c) = h[n]
  BY <1>1, DeletedSpaceSums
<1>b. \A j \in 0..n : g[j] \in Nat
  BY <1>2, SumBounded
<1> DEFINE extra(j) == IF i <= j THEN c[i].size ELSE 0
           T == {j \in Nat : j <= n => h[j] = g[j] + extra(j)}
<1>4. 0 \in T
  BY <1>1, <1>2, <1>3 DEF Sums
<1>5. ASSUME NEW j \in Nat, j \in T PROVE j + 1 \in T
  <2> SUFFICES ASSUME j + 1 <= n PROVE h[j + 1] = g[j + 1] + extra(j + 1)
    OBVIOUS
  <2>1. j <= n /\ j + 1 \in 1..n /\ (j + 1) - 1 = j /\ j \in 0..n
    BY <1>1
  <2>2. h[j] = g[j] + extra(j) /\ g[j] \in Nat
    BY <1>5, <1>b, <2>1
  <2>3. /\ h[j + 1] = h[j] + Deleted(q.ptr, c, j + 1)
        /\ g[j + 1] = g[j] + Deleted(p.ptr, c, j + 1)
    BY <1>2, <1>3, <2>1 DEF Sums
  <2>4. CASE j + 1 = i
    <3>1. Deleted(q.ptr, c, j + 1) = c[i].size /\ Deleted(p.ptr, c, j + 1) = 0
      BY <2>4 DEF Deleted
    <3>2. extra(j) = 0 /\ extra(j + 1) = c[i].size
      BY <2>4
    <3> QED BY <1>a, <2>2, <2>3, <3>1, <3>2
  <2>5. CASE j + 1 # i
    <3>1. Deleted(q.ptr, c, j + 1) = Deleted(p.ptr, c, j + 1)
      BY <2>1, <2>5 DEF Deleted
    <3>2. extra(j) = extra(j + 1) /\ extra(j) \in Nat
      BY <1>1, <1>a, <2>5
    <3>3. Deleted(p.ptr, c, j + 1) \in Nat
      <4>1. c[j + 1] \in Cell
        BY <1>1, <2>1
      <4> QED BY <4>1 DEF Deleted, Cell
    <3> HIDE DEF extra
    <3> QED BY <2>2, <2>3, <3>1, <3>2, <3>3
  <2> QED BY <2>4, <2>5
<1> HIDE DEF T
<1>6. n \in T
  BY <1>1, <1>4, <1>5, NatSetInduction
<1>7. h[n] = g[n] + extra(n)
  BY <1>1, <1>6 DEF T
<1> QED BY <1>1, <1>2, <1>3, <1>7

\* Fragmented of a page is the space of its deleted cells.
FragInv(p, c) == PageInv(p, c) /\ p.frag = DeletedSpace(p.ptr, c)

\* InsertRowToPage leaves Fragmented and the deleted cells alone.
LEMMA InsertKeepsFrag ==
    ASSUME NEW p, NEW c, FragInv(p, c), NEW s \in Nat \ {0}, s + PointerBytes < WordMod, CanInsert(p, s)
    PROVE  FragInv(InsertRowToPage(p, s), Append(c, [start |-> CellOffset(p, s), size |-> s]))
<1> DEFINE off == CellOffset(p, s)
           cell == [start |-> off, size |-> s]
           d == Append(c, cell)
           q == InsertRowToPage(p, s)
<1>1. PageInv(p, c) /\ PageInv(q, d)
  BY InsertKeeps DEF FragInv
<1>2. q.frag = p.frag /\ q.ptr = Append(p.ptr, off) /\ q.free = off
  BY DEF InsertRowToPage
<1>3. c \in Seq(Cell) /\ p.ptr \in Seq(Nat) /\ Len(p.ptr) = Len(c) /\ d \in Seq(Cell) /\ q.ptr \in Seq(Nat)
  BY <1>1 DEF PageInv, PageType
<1>4. Len(d) = Len(c) + 1 /\ \A i \in 1..Len(c) : d[i] = c[i]
  BY <1>3
<1>5. q.ptr[Len(d)] = off /\ \A i \in 1..Len(c) : q.ptr[i] = p.ptr[i]
  BY <1>2, <1>3, <1>4
<1>6. off # 0
  <2>1. PointerBytes * Len(q.ptr) <= off /\ Len(q.ptr) = Len(d)
    BY <1>1, <1>2 DEF PageInv, Layout
  <2> HIDE DEF off, q, d
  <2>2. Len(c) \in Nat
    BY <1>3
  <2> QED BY <1>4, <2>1, <2>2 DEF PointerBytes
<1> HIDE DEF off, d, q
<1>7. DeletedSpace(q.ptr, d) = DeletedSpace(p.ptr, c)
  BY <1>1, <1>4, <1>5, <1>6, InsertSum
<1>8. FragInv(q, d)
  BY <1>1, <1>2, <1>7 DEF FragInv
<1> QED BY <1>8 DEF q, d, off

\* DeleteRowFromPage adds the size of the cell, which it finds from the pointer before it, and the
\* sum stays below a word.
LEMMA DeleteKeepsFrag ==
    ASSUME NEW p, NEW c, FragInv(p, c), NEW i \in 1..Len(p.ptr), Readable(p, i)
    PROVE  FragInv(DeleteRowFromPage(p, i), c)
<1> DEFINE q == DeleteRowFromPage(p, i)
           taken == CellEnd(p, i) - p.ptr[i]
<1>1. PageInv(p, c) /\ PageInv(q, c) /\ p.frag = DeletedSpace(p.ptr, c)
  BY DeleteKeeps DEF FragInv
<1>2. /\ c \in Seq(Cell) /\ Len(c) = Len(p.ptr) /\ p.ptr \in Seq(Nat) /\ p.free \in Nat
      /\ Layout(p, c) /\ PointersOK(p, c) /\ i \in 1..Len(c)
  BY <1>1 DEF PageInv, PageType
<1>3. q.frag = (p.frag + taken) % WordMod /\ q.ptr = [p.ptr EXCEPT ![i] = 0]
  BY DEF DeleteRowFromPage
<1>4. q.ptr[i] = 0 /\ \A j \in 1..Len(c) : j # i => q.ptr[j] = p.ptr[j]
  BY <1>2, <1>3
<1>5. p.ptr[i] # 0 /\ p.ptr[i] = c[i].start
  BY <1>2 DEF Readable, PointersOK
<1>6. c[i].start \in Nat /\ c[i].size \in Nat
  <2>1. c[i] \in Cell
    BY <1>2
  <2> QED BY <2>1 DEF Cell
<1>7. CellEnd(p, i) = c[i].start + c[i].size
  <2>1. c[i].start + c[i].size = IF i = 1 THEN MaxContent ELSE c[i - 1].start
    BY <1>2 DEF Layout
  <2>2. CASE i = 1
    BY <2>1, <2>2 DEF CellEnd
  <2>3. CASE i # 1
    <3>1. i - 1 \in 1..Len(c) /\ p.ptr[i - 1] \in Nat /\ p.ptr[i] \in Nat
      BY <1>2, <2>3
    <3>2. p.ptr[i - 1] # 0
      BY <2>3, <3>1 DEF Readable, CellEnd
    <3>3. p.ptr[i - 1] = c[i - 1].start
      BY <1>2, <3>1, <3>2 DEF PointersOK
    <3> QED BY <2>1, <2>3, <3>3 DEF CellEnd
  <2> QED BY <2>2, <2>3
<1>8. taken = c[i].size
  BY <1>5, <1>6, <1>7
<1> HIDE DEF q, taken
<1>9. DeletedSpace(q.ptr, c) = p.frag + c[i].size
  BY <1>1, <1>2, <1>4, <1>5, DeleteSum
<1>10. DeletedSpace(q.ptr, c) <= MaxContent - q.free /\ DeletedSpace(q.ptr, c) \in Nat /\ q.free \in Nat
  <2>1. PICK g : Sums(g, Len(c), q.ptr, c) /\ DeletedSpace(q.ptr, c) = g[Len(c)]
    BY <1>2, DeletedSpaceSums
  <2>2. (\A j \in 0..Len(c) : g[j] \in Nat) /\ g[Len(c)] <= MaxContent - q.free
    BY <1>1, <2>1, SumBounded
  <2>3. Len(c) \in 0..Len(c)
    BY <1>2
  <2>4. q.free \in Nat
    BY <1>1 DEF PageInv, PageType
  <2> QED BY <2>1, <2>2, <2>3, <2>4
<1>11. MaxContent \in Nat /\ WordMod \in Nat /\ MaxContent < WordMod
  BY SizesAssumption DEF PointerBytes
<1>12. p.frag + taken \in Nat /\ p.frag + taken < WordMod
  BY <1>8, <1>9, <1>10, <1>11
<1>13. q.frag = p.frag + taken
  BY <1>3, <1>11, <1>12, ModSmall
<1>14. FragInv(q, c)
  BY <1>1, <1>8, <1>9, <1>13 DEF FragInv
<1> QED BY <1>14 DEF q

\* Fragmented counts the bytes of the deleted rows, each once and without wrapping, although
\* DeleteRowFromPage finds the end of a cell from a pointer that another deletion may have zeroed.
THEOREM FragmentedIsExact == NoWrap => (PageSpec => []FragmentedIsDeleted)
<1> SUFFICES ASSUME NoWrap PROVE PageSpec => []FragmentedIsDeleted
  OBVIOUS
<1> DEFINE Frag == FragInv(page, cells)
<1>1. PageInit => Frag
  <2> SUFFICES ASSUME PageInit PROVE Frag
    OBVIOUS
  <2>1. PageInv(page, cells)
    BY InitInv DEF Inv
  <2>2. page.frag = 0 /\ page.ptr = << >> /\ cells = << >>
    BY DEF PageInit, EmptyPage
  <2>3. cells \in Seq(Cell) /\ Len(cells) = 0
    BY <2>1, <2>2 DEF PageInv
  <2>4. DeletedSpace(page.ptr, cells) = 0
    BY <2>3, DeletedSpaceSums DEF Sums
  <2> QED BY <2>1, <2>2, <2>4 DEF FragInv
<1>2. ASSUME Frag, [PageNext]_pageVars PROVE Frag'
  <2>1. /\ MaxContent \in Nat /\ WordMod \in Nat /\ Reserve \in Nat
        /\ PointerBytes = 2 /\ 2 <= Reserve /\ MaxContent + 2 < WordMod
    BY SizesAssumption DEF PointerBytes
  <2>2. ASSUME NEW s \in RowSizes, InsertRow(s) PROVE Frag'
    <3>1. s \in Nat \ {0} /\ s + PointerBytes < WordMod
      BY <2>1, <2>2, SizesAssumption DEF InsertRow
    <3>2. FragInv(InsertRowToPage(page, s), Placed(page, s))
      BY <1>2, <2>2, <3>1, InsertKeepsFrag DEF InsertRow, Placed
    <3> QED BY <2>2, <3>2 DEF InsertRow
  <2>3. ASSUME NEW i \in 1..Len(page.ptr), DeleteRow(i) PROVE Frag'
    <3>1. FragInv(DeleteRowFromPage(page, i), cells)
      BY <1>2, <2>3, DeleteKeepsFrag DEF DeleteRow
    <3> QED BY <2>3, <3>1 DEF DeleteRow
  <2>4. ASSUME NEW i \in 1..Len(page.ptr), NEW s \in UpdateSizes, UpdateRowInPlace(i, s) PROVE Frag'
    <3> DEFINE p == DeleteRowFromPage(page, i)
    <3>1. s \in Nat \ {0} /\ s + PointerBytes < WordMod
      BY <2>1, SizesAssumption DEF NoWrap
    <3>2. FragInv(p, cells)
      BY <1>2, <2>4, DeleteKeepsFrag DEF UpdateRowInPlace
    <3>3. CanInsert(p, s) /\ page' = InsertRowToPage(p, s) /\ cells' = Placed(p, s)
      BY <2>4 DEF UpdateRowInPlace
    <3> HIDE DEF p
    <3>4. FragInv(InsertRowToPage(p, s), Placed(p, s))
      BY <3>1, <3>2, <3>3, InsertKeepsFrag DEF Placed
    <3> QED BY <3>3, <3>4
  <2>5. ASSUME NEW i \in 1..Len(page.ptr), NEW s \in UpdateSizes, UpdateRowMoves(i, s) PROVE Frag'
    <3>1. FragInv(DeleteRowFromPage(page, i), cells)
      BY <1>2, <2>5, DeleteKeepsFrag DEF UpdateRowMoves
    <3> QED BY <2>5, <3>1 DEF UpdateRowMoves
  <2>6. CASE UNCHANGED pageVars
    BY <1>2, <2>6 DEF pageVars
  <2> QED BY <1>2, <2>2, <2>3, <2>4, <2>5, <2>6 DEF PageNext
<1>3. Frag => FragmentedIsDeleted
  BY DEF FragInv, FragmentedIsDeleted
<1> QED BY <1>1, <1>2, <1>3, PTL DEF PageSpec
=============================================================================
