----------------------------- MODULE PageCache -----------------------------
(***************************************************************************)
(* The LRU page cache of storage/pagecache.go.  Every method holds c.mu    *)
(* for its whole body, so each is one action.  A page is its id and an     *)
(* opaque content.  The hit and miss counters are left out.                *)
(*                                                                         *)
(* disk is what the write function given to Flush and FlushPage (the file  *)
(* behind the cache) holds; it is external to the cache.                   *)
(***************************************************************************)
EXTENDS Integers, LRUList

CONSTANTS PageID,       \* the page ids the callers use
          Content,      \* the contents a page can have
          CacheSizes    \* the values of config.MaxPages: the initial one and
                        \* those given to Resize

ASSUME CacheSizesAssumption == CacheSizes \subseteq Nat

VARIABLES pages,     \* c.pages, a function on the ids in the cache
          lru,       \* c.lruList, front first (c.lruMap is its index)
          dirty,     \* c.dirty, the ids marked dirty, cached or not
          maxPages,  \* c.config.MaxPages
          disk       \* the content of each page in the file

vars == <<pages, lru, dirty, maxPages, disk>>

Cached == DOMAIN pages

TypeOK ==
    /\ Cached \subseteq PageID
    /\ pages \in [Cached -> Content]
    /\ lru \in Seq(PageID)
    /\ dirty \subseteq PageID
    /\ maxPages \in CacheSizes
    /\ disk \in [PageID -> Content]

\* NewPageCache over a file with arbitrary pages.
Init ==
    /\ pages = [p \in {} |-> CHOOSE c \in Content : TRUE]
    /\ lru = << >>
    /\ dirty = {}
    /\ maxPages \in CacheSizes
    /\ disk \in [PageID -> Content]

----------------------------------------------------------------------------

\* The pages without those at the last k positions of the list.
Survivors(k) == Members(DropBack(lru, k))

\* The ids of the k least recently used pages.
BackIDs(k) == {lru[j] : j \in (Len(lru) - k + 1)..Len(lru)}

\* Mutant of Evicts: evictLRU does not look at the dirty marks.
EvictsDirty(k, need) ==
    /\ k \in 0..Len(lru)
    /\ k <= need
    /\ (k < need => k = Len(lru))

\* The eviction loop of Put and Resize, asked to make `need' pages leave,
\* removes k of them: evictLRU takes the page at the back as long as it is
\* clean, and fails at a dirty one or when the list is empty.
Evicts(k, need) ==
    /\ k \in 0..Len(lru)
    /\ k <= need
    /\ BackIDs(k) \cap dirty = {}
    /\ (k < need /\ k < Len(lru)) => lru[Len(lru) - k] \in dirty

\* What is left of the list when evictLRU fails after k evictions: the dirty
\* page it met is moved to the front; an empty list stays empty.
AfterFailure(k) ==
    IF k = Len(lru) THEN << >> ELSE MoveToFront(DropBack(lru, k), Len(lru) - k)

\* Get of a cached page; a miss changes nothing.
Get(i) ==
    /\ i \in 1..Len(lru)
    /\ lru' = MoveToFront(lru, i)
    /\ UNCHANGED <<pages, dirty, maxPages, disk>>

\* Put's first branch: the page is in the cache already.
PutExisting(p, c) ==
    \E i \in 1..Len(lru) :
        /\ lru[i] = p
        /\ pages' = [pages EXCEPT ![p] = c]
        /\ lru' = MoveToFront(lru, i)

\* Mutant of NeedForPut: > in place of >= in the loop condition of Put.
NeedForPutOffByOne == IF Len(lru) > maxPages THEN Len(lru) - maxPages ELSE 0

\* How many pages must leave before one more fits.
NeedForPut == IF Len(lru) >= maxPages THEN Len(lru) - maxPages + 1 ELSE 0

\* Put of a new page for which there is room, or room can be made.
PutNew(p, c) ==
    /\ p \notin Cached
    /\ Evicts(NeedForPut, NeedForPut)
    /\ pages' = [q \in Survivors(NeedForPut) \cup {p} |-> IF q = p THEN c ELSE pages[q]]
    /\ lru' = PushFront(DropBack(lru, NeedForPut), p)

\* Put of a new page when the eviction loop fails: the error is returned, the
\* page is not added, what was evicted before the failure stays evicted.
PutFails(p) ==
    /\ p \notin Cached
    /\ \E k \in 0..Len(lru) :
          /\ k < NeedForPut
          /\ Evicts(k, NeedForPut)
          /\ pages' = [q \in Survivors(k) |-> pages[q]]
          /\ lru' = AfterFailure(k)

\* What Put does to the pages and the list.
PutEffect(p, c) == PutExisting(p, c) \/ PutNew(p, c) \/ PutFails(p)

\* Put by a caller that read the page from the file or changed it.
Put(p, c) ==
    /\ PutEffect(p, c)
    /\ UNCHANGED <<dirty, maxPages, disk>>

\* TableFile.writePage: the page goes to the file, then to the cache (the
\* error of Put is ignored), then ClearDirty drops its mark.
WritePage(p, c) ==
    /\ disk' = [disk EXCEPT ![p] = c]
    /\ PutEffect(p, c)
    /\ dirty' = dirty \ {p}
    /\ UNCHANGED maxPages

MarkDirty(p) ==
    /\ dirty' = dirty \cup {p}
    /\ UNCHANGED <<pages, lru, maxPages, disk>>

\* Mutant of Remove: the list keeps its element.
RemoveLeavesElement(p) ==
    /\ pages' = [q \in Cached \ {p} |-> pages[q]]
    /\ dirty' = dirty \ {p}
    /\ UNCHANGED <<lru, maxPages, disk>>

\* Remove of a page, cached or not.
Remove(p) ==
    /\ \/ /\ p \notin Cached
          /\ UNCHANGED lru
       \/ \E i \in 1..Len(lru) : lru[i] = p /\ lru' = RemovePos(lru, i)
    /\ pages' = [q \in Cached \ {p} |-> pages[q]]
    /\ dirty' = dirty \ {p}
    /\ UNCHANGED <<maxPages, disk>>

Clear ==
    /\ pages' = [q \in {} |-> pages[q]]
    /\ lru' = << >>
    /\ dirty' = {}
    /\ UNCHANGED <<maxPages, disk>>

\* Mutant of Flush: the dirty map is emptied also when a write failed.
FlushForgets(done) ==
    /\ done \subseteq dirty
    /\ done = dirty \/ (dirty \ done) \cap Cached # {}
    /\ disk' = [p \in PageID |-> IF p \in done \cap Cached THEN pages[p] ELSE disk[p]]
    /\ dirty' = {}
    /\ UNCHANGED <<pages, lru, maxPages>>

\* Flush visits the dirty pages in map order, that is any order, and stops at
\* the first write that fails: done are the ones visited before.  A dirty mark
\* of a page that is not cached is dropped without a write.
Flush(done) ==
    /\ done \subseteq dirty
    /\ done = dirty \/ (dirty \ done) \cap Cached # {}
    /\ disk' = [p \in PageID |-> IF p \in done \cap Cached THEN pages[p] ELSE disk[p]]
    /\ dirty' = dirty \ done
    /\ UNCHANGED <<pages, lru, maxPages>>

\* FlushPage of a dirty page; a write that fails changes nothing.
FlushPage(p) ==
    /\ p \in dirty
    /\ disk' = IF p \in Cached THEN [disk EXCEPT ![p] = pages[p]] ELSE disk
    /\ dirty' = dirty \ {p}
    /\ UNCHANGED <<pages, lru, maxPages>>

\* How many pages must leave for the cache to have n pages at most.
NeedForResize(n) == IF Len(lru) > n THEN Len(lru) - n ELSE 0

\* Resize sets the new limit first, then evicts; it stops with an error, and
\* more pages than the limit, when the eviction loop fails.
Resize(n) ==
    /\ maxPages' = n
    /\ \E k \in 0..Len(lru) :
          /\ Evicts(k, NeedForResize(n))
          /\ pages' = [q \in Survivors(k) |-> pages[q]]
          /\ lru' = IF k = NeedForResize(n) THEN DropBack(lru, k) ELSE AfterFailure(k)
    /\ UNCHANGED <<dirty, disk>>

Next ==
    \/ \E i \in 1..Len(lru) : Get(i)
    \/ \E p \in PageID, c \in Content : Put(p, c)
    \/ \E p \in PageID, c \in Content : WritePage(p, c)
    \/ \E p \in PageID : MarkDirty(p)
    \/ \E p \in PageID : Remove(p)
    \/ Clear
    \/ \E done \in SUBSET dirty : Flush(done)
    \/ \E p \in PageID : FlushPage(p)
    \/ \E n \in CacheSizes : Resize(n)

Spec == Init /\ [][Next]_vars

----------------------------------------------------------------------------

\* The recency list holds exactly the cached pages, each once.  pages, lruList
\* and lruMap are updated separately by every method; a page missing from the
\* list could never be evicted, one too many would be evicted twice.
LRUConsistent ==
    /\ NoRepeats(lru)
    /\ Members(lru) = Cached

\* No eviction throws away a page that is still dirty: a page that leaves the
\* cache while marked leaves through Remove or Clear, which drop the mark too.
EvictionSparesDirty ==
    [][\A p \in Cached \cap dirty : p \notin Cached' => p \notin dirty']_vars

\* The cache grows within its limit only, also after a Resize below the present
\* size that could not evict enough.
GrowsWithinLimit == [][Len(lru') > Len(lru) => Len(lru') <= maxPages']_vars

\* A page that stays cached loses its dirty mark only when the file holds its
\* content, also when Flush fails half way.
CleanedIsWritten ==
    [][\A p \in (dirty \ dirty') \cap Cached' : disk'[p] = pages'[p]]_vars

\* The cache is sound after every method: list, map and dirty marks are of their types
\* and tell the same story.  It is inductive, and every other theorem rests on it.
CacheInv == TypeOK /\ LRUConsistent
=============================================================================
