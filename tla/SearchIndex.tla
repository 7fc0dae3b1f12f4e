---------------------------- MODULE SearchIndex ----------------------------
(***************************************************************************)
(* What full-text indexes promise: each keeps the terms of every document  *)
(* put into it until the document is replaced or removed, one at a time,   *)
(* and a search returns the documents that have all terms of the query,    *)
(* all of them unless there are more than the limit.                       *)
(***************************************************************************)
EXTENDS FiniteSets, Integers

CONSTANTS Table, Row, Term, MaxHits, MaxRestarts, None

VARIABLES docs,      \* the terms of each document by table, or None without an index
          answer,    \* the rows that the last search found, and the index it asked
          restarts

NoSearch == [table |-> "none", rows |-> {}]

Init == docs = [t \in Table |-> None] /\ answer = NoSearch /\ restarts = 0

\* A document is added, replaced, or removed (no terms).
Put(t, r) ==
    /\ docs[t] # None /\ docs'[t] # None
    /\ docs'[t][r] \subseteq Term
    /\ docs' = [docs EXCEPT ![t][r] = docs'[t][r]]
    /\ answer' = NoSearch /\ UNCHANGED restarts

\* An index comes into being with the documents there are, and goes.
Create(t) ==
    /\ docs[t] = None
    /\ docs'[t] \in [Row -> SUBSET Term]
    /\ docs' = [docs EXCEPT ![t] = docs'[t]]
    /\ answer' = NoSearch /\ UNCHANGED restarts

Drop(t) ==
    /\ docs[t] # None
    /\ docs' = [docs EXCEPT ![t] = None]
    /\ answer' = NoSearch /\ UNCHANGED restarts

\* The answer is forgotten.
Forget == answer' = NoSearch /\ UNCHANGED <<docs, restarts>>

\* What a restart restores is left open.
Restart ==
    /\ restarts < MaxRestarts /\ restarts' = restarts + 1
    /\ \A t \in Table : docs'[t] \in [Row -> SUBSET Term] \cup {None}
    /\ answer' = NoSearch

Matching(t, terms) == {r \in Row : terms # {} /\ terms \subseteq docs[t][r]}

\* A search for all terms; a search at one level of terms may find fewer.
Search(t, terms) ==
    /\ docs[t] # None
    /\ answer'.table = t /\ answer'.rows \subseteq Matching(t, terms)
    /\ answer'.rows = Matching(t, terms) \/ Cardinality(Matching(t, terms)) > MaxHits
    /\ UNCHANGED <<docs, restarts>>

SearchLevel(t, terms) ==
    /\ docs[t] # None
    /\ answer'.table = t /\ answer'.rows \subseteq Matching(t, terms)
    /\ UNCHANGED <<docs, restarts>>

Next ==
    \/ \E t \in Table, r \in Row : Put(t, r)
    \/ \E t \in Table : Create(t) \/ Drop(t)
    \/ Forget \/ Restart
    \/ \E t \in Table, terms \in SUBSET Term : Search(t, terms) \/ SearchLevel(t, terms)

Spec == Init /\ [][Next]_<<docs, answer, restarts>>
=============================================================================
