------------------------------ MODULE LRUList ------------------------------
(***************************************************************************)
(* The recency list of the page cache (container/list as pagecache.go uses *)
(* it): a sequence of page ids without repetitions whose first element is  *)
(* the front, the most recently used page.                                 *)
(***************************************************************************)
EXTENDS Naturals, Sequences

\* PushFront: the new element becomes the most recently used one.
PushFront(s, p) == <<p>> \o s

\* MoveToFront of the element at position i; the ones before it move back.
MoveToFront(s, i) ==
    [j \in 1..Len(s) |-> CASE j = 1 -> s[i]
                           [] j > 1 /\ j <= i -> s[j - 1]
                           [] OTHER -> s[j]]

\* Remove of the element at position i.
RemovePos(s, i) ==
    [j \in 1..(Len(s) - 1) |-> IF j < i THEN s[j] ELSE s[j + 1]]

\* Remove of the k elements at the back, the least recently used ones.
DropBack(s, k) == [j \in 1..(Len(s) - k) |-> s[j]]

\* The set of elements of the list.
Members(s) == {s[j] : j \in 1..Len(s)}

\* No element occurs twice.
NoRepeats(s) == \A i, j \in 1..Len(s) : s[i] = s[j] => i = j
=============================================================================
