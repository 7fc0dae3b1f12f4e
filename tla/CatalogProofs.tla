--------------------------- MODULE CatalogProofs ---------------------------
(* Proofs for the catalog, for any names, ids, rows, crashes and failing     *)
(* writes.                                                                   *)
EXTENDS Catalog, SequenceTheorems, WellFoundedInduction, TLAPS

----------------------------------------------------------------------------
(* The types of the variables, and what the operation in progress has left. *)

Entry == [type : RecordTypes, tid : Nat, name : Name \cup {None}, row : Row]
Pair == [key : Nat, val : {0, 1}]
State == [tables : [Name -> Nat], rows : [Name -> Seq(Row)], nextID : Nat]
TableFile == [state : {"none", "bad", "ok"}, rows : SUBSET Pair]
Promises == [tables : [Name -> Nat], rows : [Name -> SUBSET Pair]]

RowKinds == {"truncate", "insert", "update", "delete"}
Statements == {"create", "drop", "rename"} \cup RowKinds
Kinds == {"idle", "empty", "close", "recover"} \cup Statements
Steps == {"start", "makefile", "header", "wal", "save", "record", "empty", "closing", "done"}
Operation == [kind : Kinds, at : Steps, name : Name \cup {None}, to : Name \cup {None},
              pos : Seq(Nat), todo : Seq(Entry)]

TypeInv ==
    /\ meta \in State /\ mem \in State
    /\ log \in Seq(Entry)
    /\ dir \in [Name -> TableFile]
    /\ up \in BOOLEAN /\ skipSave \in BOOLEAN
    /\ open \subseteq {n \in Name : dir[n].state = "ok"}
    /\ op \in Operation
    /\ acked \in Promises
    /\ loose \subseteq Name /\ unlogged \subseteq Name
    /\ keys \in Nat /\ crashes \in 0..MaxCrashes /\ faults \in 0..MaxFaults

\* A statement is in progress and its record is still to be written.
Unwritten == op.at \in {"makefile", "header", "wal"}
InStatement == Unwritten \/ op.at = "save"

\* The record that operation o writes, or the last one of several.
RecordOf(o, rec) ==
    /\ rec.type = o.kind /\ rec.name = o.name
    /\ o.kind = "create" => rec.tid = mem.tables[o.name]

OpInv ==
    /\ ~up => op = Idle
    /\ \/ op = Idle
       \/ InStatement
       \/ /\ op.at \in {"record", "empty", "closing", "done"}
          /\ op.kind \in {"empty", "close", "recover"}
          /\ op.name = None /\ op.to = None
    /\ InStatement =>
          /\ op.kind \in Statements
          /\ op.name \in Name
          /\ IF op.kind = "rename" THEN op.to \in Name \ {op.name} ELSE op.to = None
    /\ op.at \in {"makefile", "header"} => op.kind = "create" /\ op.name \notin open
    /\ Unwritten => op.todo # << >> /\ \A j \in 1..Len(op.todo) : RecordOf(op, op.todo[j])
    /\ op.at = "wal" /\ op.kind = "update" =>
          /\ Len(op.pos) = Len(op.todo)
          /\ \A j \in 1..Len(op.pos) : op.pos[j] \in 1..Len(mem.rows[op.name])
    /\ op.at = "save" => log # << >> /\ RecordOf(op, log[Len(log)])

ShapeInv == TypeInv /\ OpInv

----------------------------------------------------------------------------
(* The tables that the metadata file and the log lead to.                   *)

\* The record decides whether there is a table n, and which.
Defines(rec, n) == rec.type \in {"create", "drop"} /\ rec.name = n
Gives(rec) == IF rec.type = "create" THEN rec.tid ELSE 0

\* Replaying the first k records of l on a catalog whose table n has the id base makes it id.
LeadsBy(k, l, n, base, id) ==
    IF \A i \in 1..k : ~Defines(l[i], n) THEN base = id
    ELSE \E i \in 1..k : /\ Defines(l[i], n) /\ Gives(l[i]) = id
                         /\ \A j \in (i + 1)..k : ~Defines(l[j], n)

LeadsTo(l, n, base, id) == LeadsBy(Len(l), l, n, base, id)

HasTorn(l) == \E i \in 1..Len(l) : IsTorn(l[i])

\* The names whose tables the operation in progress changes.
Changing == IF InStatement /\ op.kind \notin RowKinds THEN {op.name, op.to} \ {None} ELSE {}

\* What DROP and RENAME in progress have done to the tables in memory.
MovedInv ==
    /\ InStatement /\ op.kind = "drop" => mem.tables[op.name] = 0
    /\ InStatement /\ op.kind = "rename" =>
          /\ mem.tables[op.name] = 0
          /\ op.name \notin loose => mem.tables[op.to] = acked.tables[op.name]
          /\ {op.name, op.to} \subseteq unlogged

\* The tables in memory are those promised, but for those that the operation in progress changes.
MemoryInv ==
    up => MovedInv /\ \A n \in Name \ (loose \cup Changing) : mem.tables[n] = acked.tables[n]

\* The log leads from the metadata file to the tables promised.
LogInv ==
    ~HasTorn(log) =>
        \A n \in Name \ (loose \cup unlogged \cup Changing) :
            LeadsTo(log, n, meta.tables[n], acked.tables[n])

\* What a crash or Close has left: where the log will not be read the metadata file has the tables.
DownInv ==
    ~up => /\ unlogged \subseteq loose
           /\ HasTorn(log) \/ meta = NoMeta =>
                 \A n \in Name \ loose : meta.tables[n] = acked.tables[n]
           /\ (\E i \in 1..(Len(log) - 1) : IsTorn(log[i])) => loose = Name

CatalogInv == MemoryInv /\ LogInv /\ DownInv

----------------------------------------------------------------------------
(* The rows of the tables, until the first crash.                           *)

\* No two rows have one key, and the keys are at most top.
Keyed(s, top) ==
    /\ \A i, j \in 1..Len(s) : s[i].key = s[j].key => i = j
    /\ \A i \in 1..Len(s) : s[i].key <= top

\* A catalog: no two tables have one id, every id is below nextID, a name without a table has
\* no rows, and no two rows of a table have one key.
Regular(c, top) ==
    /\ \A m, n \in Name : c.tables[m] = c.tables[n] => m = n \/ c.tables[n] = 0
    /\ \A n \in Name : c.tables[n] < c.nextID \/ c.tables[n] = 0
    /\ \A n \in Name : c.tables[n] = 0 => c.rows[n] = << >>
    /\ \A n \in Name : Keyed(c.rows[n], top)

\* A table that has a file has no rows in memory, and none in the metadata file, whatever its
\* name is there.
FileOnly(n) ==
    dir[n].state = "ok" =>
        /\ mem.rows[n] = << >>
        /\ \A m \in Name : meta.tables[m] = mem.tables[n] => meta.rows[m] = << >>

\* What the rows of n must be at this step of the operation in progress.
Expected(n) ==
    IF op.at = "save" \/ (InStatement /\ op.kind \in {"create", "drop", "rename", "truncate"})
    THEN Promise.rows[n] ELSE acked.rows[n]

\* The table has its rows.
Shows(n) == FileOnly(n) /\ (mem.tables[n] # 0 => Visible(n) = Expected(n))

UpInv ==
    /\ mem.nextID # 0 /\ meta.nextID <= mem.nextID
    /\ \A n \in Name \ LooseAfter : Shows(n)

\* What a statement has done when its record is still to be written.
StatementInv ==
    /\ op.at \in {"makefile", "header"} =>
          dir[op.name].state # "ok" /\ mem.rows[op.name] = << >> /\ meta.nextID <= mem.tables[op.name]
    /\ InStatement /\ op.kind \notin {"drop", "rename"} => mem.tables[op.name] # 0
    /\ Unwritten => Len(op.todo) = 1
    /\ op.at = "wal" /\ op.kind = "insert" =>
          /\ op.name \notin open /\ dir[op.name].state # "ok"
          /\ op.todo[1].row.key = keys /\ op.todo[1].row.val = 0
          /\ \A i \in 1..Len(mem.rows[op.name]) : mem.rows[op.name][i].key < keys
    /\ op.at = "wal" /\ op.kind \in {"update", "delete"} =>
          /\ Len(op.pos) = 1 /\ op.pos[1] \in 1..Len(mem.rows[op.name])
          /\ op.todo[1].row.key = mem.rows[op.name][op.pos[1]].key

\* After a clean stop the metadata file has the tables and the rows.
StoppedInv ==
    /\ log = << >>
    /\ \A n \in Name \ loose :
          /\ dir[n].state = "ok" => meta.rows[n] = << >>
          /\ meta.tables[n] # 0 => acked.rows[n] = IF dir[n].state = "ok" THEN dir[n].rows ELSE V1Rows(meta, n)

RowsInv ==
    crashes = 0 =>
        /\ Regular(meta, keys) /\ Regular(mem, keys)
        /\ meta = NoMeta \/ meta.nextID # 0
        /\ up => UpInv /\ StatementInv
        /\ ~up => StoppedInv

----------------------------------------------------------------------------
(* What the recursive functions of the model compute.                       *)

\* Induction over the numbers, for a set of them.
LEMMA NatSetInduction ==
    ASSUME NEW T, 0 \in T, \A n \in Nat : n \in T => n + 1 \in T
    PROVE  \A n \in Nat : n \in T
<1> SUFFICES ASSUME Nat \ T # {} PROVE FALSE
  OBVIOUS
<1> DEFINE R == {ss \in Nat \X Nat : ss[1] < ss[2]}
<1>1. IsWellFoundedOn(R, Nat)
  BY NatLessThanWellFounded, Zenon DEF OpToRel
<1> HIDE DEF R
<1>2. PICK x \in Nat \ T : \A y \in Nat \ T : <<y, x>> \notin R
  BY <1>1, WFMin
<1>3. x # 0 /\ x - 1 \in Nat
  BY <1>2
<1>4. x - 1 \notin T
  BY <1>2, <1>3
<1>5. <<x - 1, x>> \in R
  BY <1>2, <1>3 DEF R
<1> QED BY <1>2, <1>3, <1>4, <1>5

\* The function that Without takes its result from: what is kept of the first i rows.
KeptNext(g, rows, k, i) ==
    IF i = 0 THEN << >>
    ELSE IF rows[i].key = k THEN g[i - 1] ELSE Append(g[i - 1], rows[i])
IsKept(g, n, rows, k) == g = [i \in 0..n |-> KeptNext(g, rows, k, i)]

LEMMA KeptExists ==
    ASSUME NEW rows, NEW k
    PROVE  \A n \in Nat : \E g : IsKept(g, n, rows, k)
<1> DEFINE T == {n \in Nat : \E g : IsKept(g, n, rows, k)}
<1>1. 0 \in T
  <2> DEFINE g == [i \in 0..0 |-> << >>]
  <2>1. g = [i \in 0..0 |-> KeptNext(g, rows, k, i)]
    BY DEF KeptNext
  <2> QED BY <2>1 DEF IsKept
<1>2. ASSUME NEW n \in Nat, n \in T PROVE n + 1 \in T
  <2>1. PICK g : IsKept(g, n, rows, k)
    BY <1>2
  <2> DEFINE v == KeptNext(g, rows, k, n + 1)
             h == [i \in 0..(n + 1) |-> IF i = n + 1 THEN v ELSE g[i]]
  <2>2. \A i \in 0..n : g[i] = KeptNext(g, rows, k, i)
    BY <2>1 DEF IsKept
  <2> HIDE DEF v
  <2>3. h[n + 1] = v /\ \A i \in 0..n : h[i] = g[i]
    OBVIOUS
  <2>4. h = [i \in 0..(n + 1) |-> h[i]]
    OBVIOUS
  <2> HIDE DEF h
  <2>5. \A i \in 0..(n + 1) : h[i] = KeptNext(h, rows, k, i)
    <3> SUFFICES ASSUME NEW i \in 0..(n + 1) PROVE h[i] = KeptNext(h, rows, k, i)
      OBVIOUS
    <3>1. CASE i = n + 1
      <4>1. i # 0 /\ i - 1 = n /\ (n + 1) - 1 = n /\ h[n] = g[n] /\ n + 1 # 0
        BY <2>3, <3>1
      <4>2. KeptNext(h, rows, k, n + 1) = KeptNext(g, rows, k, n + 1)
        BY <4>1 DEF KeptNext
      <4> QED BY <2>3, <3>1, <4>2 DEF v
    <3>2. CASE i # n + 1 /\ i # 0
      <4>1. i \in 0..n /\ i - 1 \in 0..n
        BY <3>2
      <4>2. KeptNext(h, rows, k, i) = KeptNext(g, rows, k, i)
        BY <2>3, <3>2, <4>1 DEF KeptNext
      <4> QED BY <2>2, <2>3, <4>1, <4>2
    <3>3. CASE i = 0
      <4>1. 0 \in 0..n /\ KeptNext(h, rows, k, 0) = KeptNext(g, rows, k, 0)
        BY DEF KeptNext
      <4> QED BY <2>2, <2>3, <3>3, <4>1
    <3> QED BY <3>1, <3>2, <3>3
  <2>6. h = [i \in 0..(n + 1) |-> KeptNext(h, rows, k, i)]
    BY <2>4, <2>5
  <2> QED BY <2>6 DEF IsKept
<1> HIDE DEF T
<1>3. \A n \in Nat : n \in T
  BY <1>1, <1>2, NatSetInduction
<1> QED BY <1>3 DEF T

\* Without gives the rows that do not have the key: all of them, no other, none twice.
LEMMA WithoutRows ==
    ASSUME NEW S, NEW rows \in Seq(S), NEW k
    PROVE  /\ Without(rows, k) \in Seq(S)
           /\ \A r : (\E j \in 1..Len(Without(rows, k)) : r = Without(rows, k)[j])
                        <=> r.key # k /\ \E j \in 1..Len(rows) : r = rows[j]
           /\ (\A i, j \in 1..Len(rows) : rows[i].key = rows[j].key => i = j) =>
                 \A i, j \in 1..Len(Without(rows, k)) :
                     Without(rows, k)[i].key = Without(rows, k)[j].key => i = j
<1> DEFINE n == Len(rows)
           g == CHOOSE h : IsKept(h, n, rows, k)
           Unique == \A i, j \in 1..n : rows[i].key = rows[j].key => i = j
           P(i) == /\ g[i] \in Seq(S)
                   /\ \A r : (\E j \in 1..Len(g[i]) : r = g[i][j])
                                <=> r.key # k /\ \E j \in 1..i : r = rows[j]
                   /\ Unique => \A a, b \in 1..Len(g[i]) : g[i][a].key = g[i][b].key => a = b
           T == {i \in Nat : i <= n => P(i)}
<1>1. n \in Nat
  OBVIOUS
<1>2. Without(rows, k) = g[n]
  BY Zenon DEF Without, IsKept, KeptNext
<1>3. IsKept(g, n, rows, k)
  BY <1>1, KeptExists
<1> HIDE DEF g, n
<1>4. \A i \in 0..n : g[i] = KeptNext(g, rows, k, i)
  BY <1>3 DEF IsKept
<1>5. 0 \in T
  <2>1. 0 \in 0..n
    BY <1>1
  <2>2. g[0] = << >>
    BY <1>4, <2>1, Zenon DEF KeptNext
  <2>3. g[0] \in Seq(S) /\ Len(g[0]) = 0
    BY <2>2
  <2>4. \A r : ~\E j \in 1..0 : r = rows[j]
    OBVIOUS
  <2>5. P(0)
    BY <2>3, <2>4
  <2> HIDE DEF P
  <2> QED BY <2>5
<1>6. ASSUME NEW i \in Nat, i \in T PROVE i + 1 \in T
  <2> SUFFICES ASSUME i + 1 <= n PROVE P(i + 1)
    <3> HIDE DEF P
    <3> QED OBVIOUS
  <2>1. P(i) /\ i + 1 \in 0..n /\ i + 1 # 0 /\ (i + 1) - 1 = i /\ i + 1 \in 1..n
    <3> HIDE DEF P
    <3> QED BY <1>1, <1>6
  <2>2. g[i + 1] = IF rows[i + 1].key = k THEN g[i] ELSE Append(g[i], rows[i + 1])
    BY <1>4, <2>1 DEF KeptNext
  <2>3. rows[i + 1] \in S
    BY <2>1 DEF n
  <2>4. \A r : (\E j \in 1..(i + 1) : r = rows[j]) <=> r = rows[i + 1] \/ \E j \in 1..i : r = rows[j]
    OBVIOUS
  <2>5. CASE rows[i + 1].key = k
    <3>1. g[i + 1] = g[i]
      BY <2>2, <2>5
    <3>2. \A r : r.key # k /\ (\E j \in 1..(i + 1) : r = rows[j]) <=> r.key # k /\ \E j \in 1..i : r = rows[j]
      BY <2>4, <2>5
    <3> QED BY <2>1, <3>1, <3>2
  <2>6. CASE rows[i + 1].key # k
    <3> DEFINE s == g[i]
               e == rows[i + 1]
               m == Len(s)
    <3>1. s \in Seq(S) /\ e \in S /\ m \in Nat
      BY <2>1, <2>3
    <3>2. /\ g[i + 1] = Append(s, e) /\ Len(Append(s, e)) = m + 1 /\ Append(s, e)[m + 1] = e
          /\ Append(s, e) \in Seq(S) /\ \A j \in 1..m : Append(s, e)[j] = s[j]
      BY <2>2, <2>6, <3>1
    <3>3. \A r : (\E j \in 1..m : r = s[j]) <=> r.key # k /\ \E j \in 1..i : r = rows[j]
      BY <2>1
    <3>4. Unique => \A a, b \in 1..m : s[a].key = s[b].key => a = b
      BY <2>1
    <3>5. e.key # k /\ \A r : (\E j \in 1..(i + 1) : r = rows[j]) <=> r = e \/ \E j \in 1..i : r = rows[j]
      BY <2>4, <2>6
    <3>6. Unique => \A a \in 1..m : s[a].key # e.key
      <4> SUFFICES ASSUME Unique, NEW a \in 1..m, s[a].key = e.key PROVE FALSE
        OBVIOUS
      <4>1. PICK j \in 1..i : s[a] = rows[j]
        BY <3>3
      <4>2. j \in 1..n /\ j # i + 1
        BY <1>1, <2>1
      <4>3. rows[j].key = rows[i + 1].key
        BY <4>1
      <4> QED BY <2>1, <4>2, <4>3
    <3> DEFINE w == g[i + 1]
    <3>7. w \in Seq(S) /\ Len(w) = m + 1 /\ w[m + 1] = e /\ \A j \in 1..m : w[j] = s[j]
      BY <3>2
    <3> HIDE DEF s, e, m, w, Unique
    <3>8. \A r : (\E j \in 1..Len(w) : r = w[j]) <=> r = e \/ \E j \in 1..m : r = s[j]
      BY <3>1, <3>7
    <3>9. Unique => \A a, b \in 1..Len(w) : w[a].key = w[b].key => a = b
      BY <3>1, <3>4, <3>6, <3>7
    <3> QED BY <3>3, <3>5, <3>7, <3>8, <3>9 DEF w, e
  <2> QED BY <2>5, <2>6
<1> HIDE DEF T
<1>7. n \in T
  BY <1>1, <1>5, <1>6, NatSetInduction
<1>8. P(n)
  <2> HIDE DEF P
  <2> QED BY <1>1, <1>7 DEF T
<1> QED BY <1>2, <1>8 DEF n

\* The function that Matches takes its result from: the positions among the first i rows.
FirstNext(g, rows, k, i) ==
    IF i = 0 THEN << >>
    ELSE IF rows[i].key = k THEN Append(g[i - 1], i) ELSE g[i - 1]
IsFirst(g, n, rows, k) == g = [i \in 0..n |-> FirstNext(g, rows, k, i)]

LEMMA FirstExists ==
    ASSUME NEW rows, NEW k
    PROVE  \A n \in Nat : \E g : IsFirst(g, n, rows, k)
<1> DEFINE T == {n \in Nat : \E g : IsFirst(g, n, rows, k)}
<1>1. 0 \in T
  <2> DEFINE g == [i \in 0..0 |-> << >>]
  <2>1. g = [i \in 0..0 |-> FirstNext(g, rows, k, i)]
    BY DEF FirstNext
  <2> QED BY <2>1 DEF IsFirst
<1>2. ASSUME NEW n \in Nat, n \in T PROVE n + 1 \in T
  <2>1. PICK g : IsFirst(g, n, rows, k)
    BY <1>2
  <2> DEFINE v == FirstNext(g, rows, k, n + 1)
             h == [i \in 0..(n + 1) |-> IF i = n + 1 THEN v ELSE g[i]]
  <2>2. \A i \in 0..n : g[i] = FirstNext(g, rows, k, i)
    BY <2>1 DEF IsFirst
  <2> HIDE DEF v
  <2>3. h[n + 1] = v /\ \A i \in 0..n : h[i] = g[i]
    OBVIOUS
  <2>4. h = [i \in 0..(n + 1) |-> h[i]]
    OBVIOUS
  <2> HIDE DEF h
  <2>5. \A i \in 0..(n + 1) : h[i] = FirstNext(h, rows, k, i)
    <3> SUFFICES ASSUME NEW i \in 0..(n + 1) PROVE h[i] = FirstNext(h, rows, k, i)
      OBVIOUS
    <3>1. CASE i = n + 1
      <4>1. i # 0 /\ i - 1 = n /\ (n + 1) - 1 = n /\ h[n] = g[n] /\ n + 1 # 0
        BY <2>3, <3>1
      <4>2. FirstNext(h, rows, k, n + 1) = FirstNext(g, rows, k, n + 1)
        BY <4>1 DEF FirstNext
      <4> QED BY <2>3, <3>1, <4>2 DEF v
    <3>2. CASE i # n + 1 /\ i # 0
      <4>1. i \in 0..n /\ i - 1 \in 0..n
        BY <3>2
      <4>2. FirstNext(h, rows, k, i) = FirstNext(g, rows, k, i)
        BY <2>3, <3>2, <4>1 DEF FirstNext
      <4> QED BY <2>2, <2>3, <4>1, <4>2
    <3>3. CASE i = 0
      <4>1. 0 \in 0..n /\ FirstNext(h, rows, k, 0) = FirstNext(g, rows, k, 0)
        BY DEF FirstNext
      <4> QED BY <2>2, <2>3, <3>3, <4>1
    <3> QED BY <3>1, <3>2, <3>3
  <2>6. h = [i \in 0..(n + 1) |-> FirstNext(h, rows, k, i)]
    BY <2>4, <2>5
  <2> QED BY <2>6 DEF IsFirst
<1> HIDE DEF T
<1>3. \A n \in Nat : n \in T
  BY <1>1, <1>2, NatSetInduction
<1> QED BY <1>3 DEF T


\* Matches gives the positions of the rows with the key, each once.
LEMMA MatchesPositions ==
    ASSUME NEW n \in Name, NEW k, mem.rows[n] \in Seq(Row)
    PROVE  /\ Matches(n, k) \in Seq(Nat)
           /\ \A j \in 1..Len(Matches(n, k)) : /\ Matches(n, k)[j] \in 1..Len(mem.rows[n])
                                               /\ mem.rows[n][Matches(n, k)[j]].key = k
           /\ \A i, j \in 1..Len(Matches(n, k)) : Matches(n, k)[i] = Matches(n, k)[j] => i = j
<1> DEFINE rows == mem.rows[n]
           m == Len(rows)
           g == CHOOSE h : IsFirst(h, m, rows, k)
           P(i) == /\ g[i] \in Seq(Nat)
                   /\ \A j \in 1..Len(g[i]) : g[i][j] \in 1..i /\ rows[g[i][j]].key = k
                   /\ \A a, b \in 1..Len(g[i]) : g[i][a] = g[i][b] => a = b
           T == {i \in Nat : i <= m => P(i)}
<1>1. m \in Nat
  OBVIOUS
<1>2. Matches(n, k) = g[m]
  BY Zenon DEF Matches, IsFirst, FirstNext
<1>3. IsFirst(g, m, rows, k)
  BY <1>1, FirstExists
<1> HIDE DEF g, m, rows
<1>4. \A i \in 0..m : g[i] = FirstNext(g, rows, k, i)
  BY <1>3 DEF IsFirst
<1>5. 0 \in T
  <2>1. 0 \in 0..m
    BY <1>1
  <2>2. g[0] = << >>
    BY <1>4, <2>1, Zenon DEF FirstNext
  <2>3. g[0] \in Seq(Nat) /\ Len(g[0]) = 0
    BY <2>2
  <2>4. P(0)
    BY <2>3
  <2> HIDE DEF P
  <2> QED BY <2>4
<1>6. ASSUME NEW i \in Nat, i \in T PROVE i + 1 \in T
  <2> SUFFICES ASSUME i + 1 <= m PROVE P(i + 1)
    <3> HIDE DEF P
    <3> QED OBVIOUS
  <2>1. P(i) /\ i + 1 \in 0..m /\ i + 1 # 0 /\ (i + 1) - 1 = i
    BY <1>1, <1>6
  <2>2. g[i + 1] = IF rows[i + 1].key = k THEN Append(g[i], i + 1) ELSE g[i]
    BY <1>4, <2>1 DEF FirstNext
  <2>3. CASE rows[i + 1].key # k
    <3>1. g[i + 1] = g[i]
      BY <2>2, <2>3
    <3> QED BY <2>1, <3>1
  <2>4. CASE rows[i + 1].key = k
    <3> DEFINE s == g[i]
               w == g[i + 1]
               q == Len(s)
    <3>1. s \in Seq(Nat) /\ q \in Nat
      BY <2>1
    <3>2. w \in Seq(Nat) /\ Len(w) = q + 1 /\ w[q + 1] = i + 1 /\ \A j \in 1..q : w[j] = s[j]
      BY <2>2, <2>4, <3>1
    <3>3. \A j \in 1..q : s[j] \in 1..i /\ rows[s[j]].key = k
      BY <2>1
    <3>4. \A a, b \in 1..q : s[a] = s[b] => a = b
      BY <2>1
    <3> HIDE DEF s, w, q
    <3>5. \A j \in 1..Len(w) : w[j] \in 1..(i + 1) /\ rows[w[j]].key = k
      <4> SUFFICES ASSUME NEW j \in 1..Len(w) PROVE w[j] \in 1..(i + 1) /\ rows[w[j]].key = k
        OBVIOUS
      <4>1. CASE j \in 1..q
        BY <3>2, <3>3, <4>1
      <4>2. CASE j = q + 1
        BY <2>4, <3>2, <4>2
      <4> QED BY <3>1, <3>2, <4>1, <4>2
    <3>6. \A a, b \in 1..Len(w) : w[a] = w[b] => a = b
      BY <3>1, <3>2, <3>3, <3>4
    <3> QED BY <3>2, <3>5, <3>6 DEF w
  <2> QED BY <2>3, <2>4
<1> HIDE DEF T
<1>7. m \in T
  BY <1>1, <1>5, <1>6, NatSetInduction
<1>8. P(m)
  BY <1>1, <1>7 DEF T
<1> QED BY <1>2, <1>8 DEF m, rows

\* The function that Replayed takes its result from: the catalogs after the first i records.
AfterNext(g, l, c, i) ==
    IF i = 0 THEN {c} ELSE UNION {Replay(l[i], d) : d \in g[i - 1]}
IsAfter(g, n, l, c) == g = [i \in 0..n |-> AfterNext(g, l, c, i)]

LEMMA AfterExists ==
    ASSUME NEW l, NEW c
    PROVE  \A n \in Nat : \E g : IsAfter(g, n, l, c)
<1> DEFINE T == {n \in Nat : \E g : IsAfter(g, n, l, c)}
<1>1. 0 \in T
  <2> DEFINE g == [i \in 0..0 |-> {c}]
  <2>1. g = [i \in 0..0 |-> AfterNext(g, l, c, i)]
    BY DEF AfterNext
  <2> QED BY <2>1 DEF IsAfter
<1>2. ASSUME NEW n \in Nat, n \in T PROVE n + 1 \in T
  <2>1. PICK g : IsAfter(g, n, l, c)
    BY <1>2
  <2> DEFINE v == AfterNext(g, l, c, n + 1)
             h == [i \in 0..(n + 1) |-> IF i = n + 1 THEN v ELSE g[i]]
  <2>2. \A i \in 0..n : g[i] = AfterNext(g, l, c, i)
    BY <2>1 DEF IsAfter
  <2> HIDE DEF v
  <2>3. h[n + 1] = v /\ \A i \in 0..n : h[i] = g[i]
    OBVIOUS
  <2>4. h = [i \in 0..(n + 1) |-> h[i]]
    OBVIOUS
  <2> HIDE DEF h
  <2>5. \A i \in 0..(n + 1) : h[i] = AfterNext(h, l, c, i)
    <3> SUFFICES ASSUME NEW i \in 0..(n + 1) PROVE h[i] = AfterNext(h, l, c, i)
      OBVIOUS
    <3>1. CASE i = n + 1
      <4>1. i # 0 /\ i - 1 = n /\ (n + 1) - 1 = n /\ h[n] = g[n] /\ n + 1 # 0
        BY <2>3, <3>1
      <4>2. AfterNext(h, l, c, n + 1) = AfterNext(g, l, c, n + 1)
        BY <4>1 DEF AfterNext
      <4> QED BY <2>3, <3>1, <4>2 DEF v
    <3>2. CASE i # n + 1 /\ i # 0
      <4>1. i \in 0..n /\ i - 1 \in 0..n
        BY <3>2
      <4>2. AfterNext(h, l, c, i) = AfterNext(g, l, c, i)
        BY <2>3, <3>2, <4>1 DEF AfterNext
      <4> QED BY <2>2, <2>3, <4>1, <4>2
    <3>3. CASE i = 0
      <4>1. 0 \in 0..n /\ AfterNext(h, l, c, 0) = AfterNext(g, l, c, 0)
        BY DEF AfterNext
      <4> QED BY <2>2, <2>3, <3>3, <4>1
    <3> QED BY <3>1, <3>2, <3>3
  <2>6. h = [i \in 0..(n + 1) |-> AfterNext(h, l, c, i)]
    BY <2>4, <2>5
  <2> QED BY <2>6 DEF IsAfter
<1> HIDE DEF T
<1>3. \A n \in Nat : n \in T
  BY <1>1, <1>2, NatSetInduction
<1> QED BY <1>3 DEF T


\* One more record.
LEMMA LeadsByNext ==
    ASSUME NEW k \in Nat, NEW l, NEW n, NEW base, NEW id, LeadsBy(k, l, n, base, id)
    PROVE  LeadsBy(k + 1, l, n, base, IF Defines(l[k + 1], n) THEN Gives(l[k + 1]) ELSE id)
<1>1. CASE Defines(l[k + 1], n)
  <2>1. k + 1 \in 1..(k + 1) /\ \A j \in ((k + 1) + 1)..(k + 1) : ~Defines(l[j], n)
    OBVIOUS
  <2> QED BY <1>1, <2>1 DEF LeadsBy
<1>2. CASE ~Defines(l[k + 1], n)
  <2>1. \A i \in 1..(k + 1) : i = k + 1 \/ i \in 1..k
    OBVIOUS
  <2>2. CASE \A i \in 1..k : ~Defines(l[i], n)
    BY <1>2, <2>1, <2>2 DEF LeadsBy
  <2>3. CASE \E i \in 1..k : Defines(l[i], n)
    <3>1. PICK i \in 1..k : /\ Defines(l[i], n) /\ Gives(l[i]) = id
                            /\ \A j \in (i + 1)..k : ~Defines(l[j], n)
      BY <2>3 DEF LeadsBy
    <3>2. i \in 1..(k + 1) /\ \A j \in (i + 1)..(k + 1) : j = k + 1 \/ j \in (i + 1)..k
      OBVIOUS
    <3> QED BY <1>2, <3>1, <3>2 DEF LeadsBy
  <2> QED BY <2>2, <2>3
<1> QED BY <1>1, <1>2

\* A log leads to one table only.
LEMMA LeadsToOne ==
    ASSUME NEW l \in Seq(Entry), NEW n, NEW base, NEW id, NEW other,
           LeadsTo(l, n, base, id), LeadsTo(l, n, base, other)
    PROVE  id = other
<1>1. Len(l) \in Nat
  OBVIOUS
<1>2. CASE \A i \in 1..Len(l) : ~Defines(l[i], n)
  BY <1>2 DEF LeadsTo, LeadsBy
<1>3. CASE \E i \in 1..Len(l) : Defines(l[i], n)
  <2>1. PICK i \in 1..Len(l) : /\ Defines(l[i], n) /\ Gives(l[i]) = id
                               /\ \A j \in (i + 1)..Len(l) : ~Defines(l[j], n)
    BY <1>3 DEF LeadsTo, LeadsBy
  <2>2. PICK k \in 1..Len(l) : /\ Defines(l[k], n) /\ Gives(l[k]) = other
                               /\ \A j \in (k + 1)..Len(l) : ~Defines(l[j], n)
    BY <1>3 DEF LeadsTo, LeadsBy
  <2>3. k \notin (i + 1)..Len(l) /\ i \notin (k + 1)..Len(l)
    BY <2>1, <2>2
  <2>4. i = k
    BY <1>1, <2>3
  <2> QED BY <2>1, <2>2, <2>4
<1> QED BY <1>2, <1>3

\* The fields of a catalog.
LEMMA StateFields ==
    ASSUME NEW c \in State
    PROVE  /\ c = [tables |-> c.tables, rows |-> c.rows, nextID |-> c.nextID]
           /\ c.tables \in [Name -> Nat] /\ c.rows \in [Name -> Seq(Row)] /\ c.nextID \in Nat
  BY DEF State

\* Creating or dropping table n.
LEMMA SetTableTyped ==
    ASSUME NEW c \in State, NEW n, NEW id \in Nat
    PROVE  /\ SetTable(c, n, id) \in State
           /\ SetTable(c, n, id).nextID = c.nextID
           /\ \A m \in Name : /\ SetTable(c, n, id).tables[m] = IF m = n THEN id ELSE c.tables[m]
                              /\ SetTable(c, n, id).rows[m] = IF m = n THEN << >> ELSE c.rows[m]
<1>1. << >> \in Seq(Row)
  OBVIOUS
<1> QED BY <1>1 DEF SetTable, State

\* The position that Find gives.
LEMMA FindTyped == ASSUME NEW rows \in Seq(Row), NEW id PROVE Find(rows, id) \in 0..Len(rows)
<1> DEFINE I == {i \in 1..Len(rows) : rows[i].id = id}
<1>1. Find(rows, id) = IF I # {} THEN Min(I) ELSE 0
  BY DEF Find, SelectInSeq
<1>2. CASE I = {}
  BY <1>1, <1>2
<1>3. CASE I # {}
  <2> DEFINE R == {ss \in Nat \X Nat : ss[1] < ss[2]}
  <2>1. IsWellFoundedOn(R, Nat)
    BY NatLessThanWellFounded, Zenon DEF OpToRel
  <2>2. I \subseteq Nat
    OBVIOUS
  <2> HIDE DEF I, R
  <2>3. PICK x \in I : \A y \in I : <<y, x>> \notin R
    BY <1>3, <2>1, <2>2, WFMin
  <2>4. ASSUME NEW y \in I PROVE x <= y
    <3>1. x \in Nat /\ y \in Nat /\ <<y, x>> \in Nat \X Nat
      BY <2>2, <2>3
    <3>2. ~(y < x)
      BY <2>3, <3>1 DEF R
    <3> QED BY <3>1, <3>2
  <2>5. Min(I) \in I
    BY <2>3, <2>4 DEF Min
  <2> QED BY <1>1, <1>3, <2>5 DEF I
<1> QED BY <1>2, <1>3

\* A sequence without one of its rows, or with another in its place.
LEMMA RowsReplaced ==
    ASSUME NEW rows \in Seq(Row), NEW i \in 1..Len(rows), NEW r \in Row
    PROVE  RemoveAt(rows, i) \in Seq(Row) /\ ReplaceAt(rows, i, r) \in Seq(Row)
<1>1. ReplaceAt(rows, i, r) \in Seq(Row)
  BY DEF ReplaceAt
<1> DEFINE a == SubSeq(rows, 1, i - 1)
           b == SubSeq(rows, i + 1, Len(rows))
<1>2. a \in Seq(Row) /\ b \in Seq(Row)
  <2>1. \A j \in 1..(i - 1) : rows[j] \in Row
    OBVIOUS
  <2>2. \A j \in (i + 1)..Len(rows) : rows[j] \in Row
    OBVIOUS
  <2> QED BY <2>1, <2>2, SubSeqProperties
<1> HIDE DEF a, b
<1>3. a \o b \in Seq(Row)
  BY <1>2
<1> QED BY <1>1, <1>3 DEF RemoveAt, a, b

\* Replaying a row changes the rows of one table.
LEMMA ReplayRowTyped ==
    ASSUME NEW rec \in Entry, NEW c \in State, NEW n \in Name
    PROVE  ReplayRow(rec, c, n) \in State /\ ReplayRow(rec, c, n).tables = c.tables
<1> DEFINE at == Find(c.rows[n], rec.row.id)
           Put(s) == [c EXCEPT !.rows[n] = s]
<1>1. c.rows[n] \in Seq(Row) /\ rec.row \in Row
  BY DEF State, Entry
<1>2. at \in 0..Len(c.rows[n])
  BY <1>1, FindTyped
<1>3. ASSUME NEW s \in Seq(Row) PROVE Put(s) \in State /\ Put(s).tables = c.tables
  BY <1>3 DEF State
<1>4. Append(c.rows[n], rec.row) \in Seq(Row)
  BY <1>1
<1>5. ASSUME at # 0
      PROVE  ReplaceAt(c.rows[n], at, rec.row) \in Seq(Row) /\ RemoveAt(c.rows[n], at) \in Seq(Row)
  <2>1. at \in 1..Len(c.rows[n])
    BY <1>1, <1>2, <1>5
  <2> QED BY <1>1, <2>1, RowsReplaced
<1>6. \/ ReplayRow(rec, c, n) = c
      \/ ReplayRow(rec, c, n) = Put(Append(c.rows[n], rec.row))
      \/ at # 0 /\ ReplayRow(rec, c, n) = Put(ReplaceAt(c.rows[n], at, rec.row))
      \/ at # 0 /\ ReplayRow(rec, c, n) = Put(RemoveAt(c.rows[n], at))
  BY DEF ReplayRow
<1>7. CASE ReplayRow(rec, c, n) = Put(Append(c.rows[n], rec.row))
  <2> DEFINE q == Append(c.rows[n], rec.row)
  <2>1. q \in Seq(Row)
    BY <1>4
  <2>2. ReplayRow(rec, c, n) = Put(q)
    BY <1>7
  <2> HIDE DEF q
  <2> QED BY <1>3, <2>1, <2>2
<1>8. CASE at # 0 /\ ReplayRow(rec, c, n) = Put(ReplaceAt(c.rows[n], at, rec.row))
  <2> DEFINE q == ReplaceAt(c.rows[n], at, rec.row)
  <2>1. q \in Seq(Row)
    BY <1>5, <1>8
  <2>2. ReplayRow(rec, c, n) = Put(q)
    BY <1>8
  <2> HIDE DEF q
  <2> QED BY <1>3, <2>1, <2>2
<1>9. CASE at # 0 /\ ReplayRow(rec, c, n) = Put(RemoveAt(c.rows[n], at))
  <2> DEFINE q == RemoveAt(c.rows[n], at)
  <2>1. q \in Seq(Row)
    BY <1>5, <1>9
  <2>2. ReplayRow(rec, c, n) = Put(q)
    BY <1>9
  <2> HIDE DEF q
  <2> QED BY <1>3, <2>1, <2>2
<1> QED BY <1>6, <1>7, <1>8, <1>9, Zenon

\* Replaying a record.
LEMMA ReplayTyped ==
    ASSUME NEW rec \in Entry, NEW c \in State, NEW d \in Replay(rec, c)
    PROVE  /\ d \in State
           /\ \A n \in Name : d.tables[n] = IF Defines(rec, n) THEN Gives(rec) ELSE c.tables[n]
<1>1. rec.tid \in Nat
  BY DEF Entry
<1>2. CASE rec.type = "create"
  <2>1. d = SetTable(c, rec.name, rec.tid)
    BY <1>2 DEF Replay, IsRowRecord
  <2> QED BY <1>1, <1>2, <2>1, SetTableTyped DEF Defines, Gives
<1>3. CASE rec.type = "drop"
  <2>1. d = SetTable(c, rec.name, 0)
    BY <1>3 DEF Replay, IsRowRecord
  <2> QED BY <1>1, <1>3, <2>1, SetTableTyped DEF Defines, Gives
<1>4. CASE rec.type # "create" /\ rec.type # "drop"
  <2>1. d = c \/ \E n \in Name : d = ReplayRow(rec, c, n)
    BY <1>4 DEF Replay, Owners
  <2> QED BY <1>4, <2>1, ReplayRowTyped DEF Defines
<1> QED BY <1>2, <1>3, <1>4

\* Replaying a log.
LEMMA ReplayedTyped ==
    ASSUME NEW l \in Seq(Entry), NEW c \in State, NEW d \in Replayed(l, c)
    PROVE  /\ d \in State
           /\ \A n \in Name : LeadsTo(l, n, c.tables[n], d.tables[n])
<1> DEFINE m == Len(l)
           g == CHOOSE h : IsAfter(h, m, l, c)
           P(i) == \A e \in g[i] : e \in State /\ \A n \in Name : LeadsBy(i, l, n, c.tables[n], e.tables[n])
           T == {i \in Nat : i <= m => P(i)}
<1>1. m \in Nat
  OBVIOUS
<1>2. Replayed(l, c) = g[m]
  BY Zenon DEF Replayed, IsAfter, AfterNext
<1>3. IsAfter(g, m, l, c)
  BY <1>1, AfterExists
<1> HIDE DEF g, m
<1>4. \A i \in 0..m : g[i] = AfterNext(g, l, c, i)
  BY <1>3 DEF IsAfter
<1>5. 0 \in T
  <2>1. 0 \in 0..m
    BY <1>1
  <2>2. g[0] = {c}
    BY <1>4, <2>1, Zenon DEF AfterNext
  <2>3. \A n \in Name : LeadsBy(0, l, n, c.tables[n], c.tables[n])
    BY DEF LeadsBy
  <2>4. P(0)
    BY <2>2, <2>3
  <2> HIDE DEF P
  <2> QED BY <2>4
<1>6. ASSUME NEW i \in Nat, i \in T PROVE i + 1 \in T
  <2> SUFFICES ASSUME i + 1 <= m PROVE P(i + 1)
    <3> HIDE DEF P
    <3> QED OBVIOUS
  <2>1. P(i) /\ i + 1 \in 0..m /\ i + 1 # 0 /\ (i + 1) - 1 = i /\ i + 1 \in 1..m
    <3> HIDE DEF P
    <3> QED BY <1>1, <1>6
  <2>2. g[i + 1] = UNION {Replay(l[i + 1], e) : e \in g[i]}
    BY <1>4, <2>1 DEF AfterNext
  <2>3. l[i + 1] \in Entry
    BY <2>1 DEF m
  <2> SUFFICES ASSUME NEW e \in g[i + 1]
               PROVE  e \in State /\ \A n \in Name : LeadsBy(i + 1, l, n, c.tables[n], e.tables[n])
    OBVIOUS
  <2>4. PICK b \in g[i] : e \in Replay(l[i + 1], b)
    BY <2>2
  <2>5. b \in State /\ \A n \in Name : LeadsBy(i, l, n, c.tables[n], b.tables[n])
    BY <2>1
  <2>6. /\ e \in State
        /\ \A n \in Name : e.tables[n] = IF Defines(l[i + 1], n) THEN Gives(l[i + 1]) ELSE b.tables[n]
    BY <2>3, <2>4, <2>5, ReplayTyped
  <2>7. ASSUME NEW n \in Name PROVE LeadsBy(i + 1, l, n, c.tables[n], e.tables[n])
    BY <2>5, <2>6, LeadsByNext
  <2> QED BY <2>6, <2>7
<1> HIDE DEF T
<1>7. m \in T
  BY <1>1, <1>5, <1>6, NatSetInduction
<1>8. P(m)
  <2> HIDE DEF P
  <2> QED BY <1>1, <1>7 DEF T
<1> QED BY <1>2, <1>8 DEF LeadsTo, m

\* Nothing to replay.
LEMMA ReplayedNothing == ASSUME NEW c, NEW d \in Replayed(<< >>, c) PROVE d = c
<1> DEFINE l == << >>
           g == CHOOSE h : IsAfter(h, 0, l, c)
<1>1. Len(l) = 0 /\ 0 \in 0..0 /\ 0 \in Nat
  OBVIOUS
<1> HIDE DEF l
<1>2. Replayed(l, c) = g[0]
  <2>1. Replayed(l, c) = (CHOOSE h : IsAfter(h, Len(l), l, c))[Len(l)]
    BY Zenon DEF Replayed, IsAfter, AfterNext
  <2> QED BY <1>1, <2>1
<1>3. IsAfter(g, 0, l, c)
  BY <1>1, AfterExists
<1> HIDE DEF g
<1>4. g[0] = {c}
  BY <1>1, <1>3 DEF IsAfter, AfterNext
<1> QED BY <1>2, <1>4 DEF l

----------------------------------------------------------------------------
(* Every step keeps the types and the shape of the operation in progress.   *)

LEMMA NoneIsNoName == None \notin Name
  BY CatalogAssumption

LEMMA RecordTyped ==
    ASSUME NEW type \in RecordTypes, NEW tid \in Nat, NEW n \in Name \cup {None}, NEW row \in Row
    PROVE  Record(type, tid, n, row) \in Entry
  BY DEF Record, Entry

LEMMA NoRowTyped == NoRow \in Row
  BY DEF NoRow, Row

LEMMA TornTyped == Torn \in Entry
  BY RecordTyped, NoRowTyped DEF Torn, RecordTypes

LEMMA EmptyTyped == EmptyCatalog \in State /\ NoMeta \in State
<1>1. << >> \in Seq(Row)
  OBVIOUS
<1> QED BY <1>1 DEF EmptyCatalog, NoMeta, NoTables, State

LEMMA IdleTyped == Idle \in Operation
<1>1. << >> \in Seq(Nat) /\ << >> \in Seq(Entry)
  OBVIOUS
<1> QED BY <1>1 DEF Idle, Operation, Kinds, Steps

\* The fields of the operation in progress.
LEMMA OpFields ==
    ASSUME TypeInv
    PROVE  /\ op.name \in Name \cup {None} /\ op.to \in Name \cup {None}
           /\ op.pos \in Seq(Nat) /\ op.todo \in Seq(Entry)
           /\ op = [kind |-> op.kind, at |-> op.at, name |-> op.name, to |-> op.to,
                    pos |-> op.pos, todo |-> op.todo]
           /\ op.kind \in Kinds /\ op.at \in Steps
  BY DEF TypeInv, Operation

\* A statement begins.
LEMMA StatementStarts ==
    ASSUME op'.kind \in Statements, op'.at \in {"makefile", "wal"}, op'.name \in Name, up',
           IF op'.kind = "rename" THEN op'.to \in Name \ {op'.name} ELSE op'.to = None,
           op'.at = "makefile" => op'.kind = "create" /\ op'.name \notin open',
           op'.todo # << >>,
           \A j \in 1..Len(op'.todo) :
               /\ op'.todo[j].type = op'.kind /\ op'.todo[j].name = op'.name
               /\ op'.kind = "create" => op'.todo[j].tid = mem'.tables[op'.name],
           op'.kind = "update" =>
               /\ Len(op'.pos) = Len(op'.todo)
               /\ \A j \in 1..Len(op'.pos) : op'.pos[j] \in 1..Len(mem'.rows[op'.name])
    PROVE  OpInv'
<1>1. Unwritten' /\ InStatement' /\ op'.at # "save"
  BY DEF Unwritten, InStatement
<1>2. \A j \in 1..Len(op'.todo) : RecordOf(op, op.todo[j])'
  BY DEF RecordOf
<1> QED BY <1>1, <1>2 DEF OpInv

\* A statement on one table, with one record, begins.
LEMMA SimpleStarts ==
    ASSUME NEW k \in Statements \ {"update"}, NEW n \in Name, NEW to \in Name \cup {None},
           NEW at \in {"makefile", "wal"}, NEW rec \in Entry,
           op' = NewOp(k, n, to, at, << >>, <<rec>>), up',
           IF k = "rename" THEN to \in Name \ {n} ELSE to = None,
           at = "makefile" => k = "create" /\ n \notin open',
           rec.type = k /\ rec.name = n /\ (k = "create" => rec.tid = mem'.tables[n])
    PROVE  op' \in Operation /\ OpInv'
<1> DEFINE none == << >>
           todo == <<rec>>
<1>1. none \in Seq(Nat) /\ todo \in Seq(Entry) /\ Len(todo) = 1 /\ todo[1] = rec /\ todo # << >>
  OBVIOUS
<1>2. op' = NewOp(k, n, to, at, none, todo)
  OBVIOUS
<1> HIDE DEF none, todo
<1>3. k \in Kinds /\ at \in Steps
  BY DEF Kinds, Steps
<1>4. /\ op'.kind = k /\ op'.at = at /\ op'.name = n /\ op'.to = to /\ op'.pos = none /\ op'.todo = todo
      /\ op' \in Operation
  BY <1>1, <1>2, <1>3 DEF NewOp, Operation
<1>5. \A j \in 1..Len(op'.todo) :
               /\ op'.todo[j].type = op'.kind /\ op'.todo[j].name = op'.name
               /\ op'.kind = "create" => op'.todo[j].tid = mem'.tables[op'.name]
  BY <1>1, <1>4
<1> QED BY <1>1, <1>4, <1>5, StatementStarts

\* An operation ends.
LEMMA OperationEnds == ASSUME op' = Idle PROVE op' \in Operation /\ OpInv'
<1>1. op'.at = "start"
  BY DEF Idle
<1> QED BY <1>1, IdleTyped DEF OpInv, Unwritten, InStatement

\* An operation on no table goes on.
LEMMA OperationGoesOn ==
    ASSUME NEW k \in {"empty", "close", "recover"}, NEW at \in {"record", "empty", "closing", "done"},
           op' = [Idle EXCEPT !.kind = k, !.at = at], up'
    PROVE  op' \in Operation /\ OpInv'
<1>1. op'.kind = k /\ op'.at = at /\ op'.name = None /\ op'.to = None /\ op' \in Operation
  <2>1. << >> \in Seq(Nat) /\ << >> \in Seq(Entry)
    OBVIOUS
  <2> QED BY <2>1 DEF Idle, Operation, Kinds, Steps
<1> QED BY <1>1 DEF OpInv, Unwritten, InStatement

\* An id is taken.
LEMMA IdTaken ==
    ASSUME NEW c \in State, NEW n \in Name
    PROVE  /\ [c EXCEPT !.nextID = @ + 1] \in State /\ [c EXCEPT !.nextID = @ + 2] \in State
           /\ [c EXCEPT !.tables[n] = c.nextID, !.nextID = @ + 1] \in State
           /\ c.nextID \in Nat /\ c.tables[n] \in Nat
<1>1. c.nextID \in Nat /\ c.nextID + 1 \in Nat /\ c.nextID + 2 \in Nat
  BY DEF State
<1> QED BY <1>1 DEF State

\* A new file, or one without rows.
LEMMA FilesTyped == NoFile \in TableFile /\ BadFile \in TableFile /\ NewFile \in TableFile
  BY DEF NoFile, BadFile, NewFile, TableFile

LEMMA CreateTableOK == ASSUME TypeInv, OpInv, NEW n \in Name, CreateTable(n) PROVE TypeInv' /\ OpInv'
<1>1. mem' \in State /\ mem'.tables[n] = mem.nextID /\ mem.nextID \in Nat
  <2>1. mem \in State /\ mem' = [mem EXCEPT !.tables[n] = mem.nextID, !.nextID = @ + 1]
    BY DEF CreateTable, TypeInv
  <2>2. mem'.tables[n] = mem.nextID
    BY <2>1 DEF State
  <2> QED BY <2>1, <2>2, IdTaken
<1>2. n \in open => dir[n] # NoFile
  BY DEF TypeInv, NoFile
<1>3. loose' \subseteq Name /\ up'
  BY DEF CreateTable, TypeInv, Ready
<1>4. CASE dir[n] # NoFile
  BY <1>1, <1>3, <1>4, OperationEnds DEF CreateTable, TypeInv, disk, bounds
<1>5. CASE dir[n] = NoFile
  <2> DEFINE rec == Record("create", mem.nextID, n, NoRow)
  <2>1. rec \in Entry
    BY <1>1, RecordTyped, NoRowTyped DEF RecordTypes
  <2>2. rec.type = "create" /\ rec.name = n /\ rec.tid = mem'.tables[n]
    BY <1>1 DEF Record
  <2>3. op' = NewOp("create", n, None, "makefile", << >>, <<rec>>) /\ n \notin open'
    BY <1>2, <1>5 DEF CreateTable
  <2> HIDE DEF rec
  <2>5. op' \in Operation /\ OpInv'
    BY <1>3, <2>1, <2>2, <2>3, SimpleStarts DEF Statements
  <2> QED BY <1>1, <1>3, <2>5 DEF CreateTable, TypeInv, disk, bounds
<1> QED BY <1>4, <1>5

LEMMA DropTableOK == ASSUME TypeInv, OpInv, NEW n \in Name, DropTable(n) PROVE TypeInv' /\ OpInv'
<1>1. mem' \in State /\ mem.tables[n] \in Nat /\ up'
  <2>1. mem \in State /\ mem' = SetTable(mem, n, 0)
    BY DEF DropTable, TypeInv
  <2> QED BY <2>1, SetTableTyped, StateFields DEF DropTable, Ready
<1> DEFINE rec == Record("drop", mem.tables[n], n, NoRow)
<1>2. rec \in Entry
  BY <1>1, RecordTyped, NoRowTyped DEF RecordTypes
<1>3. rec.type = "drop" /\ rec.name = n
  BY DEF Record
<1>4. op' = NewOp("drop", n, None, "wal", << >>, <<rec>>)
  BY DEF DropTable
<1> HIDE DEF rec
<1>6. op' \in Operation /\ OpInv'
  BY <1>1, <1>2, <1>3, <1>4, SimpleStarts DEF Statements
<1> QED BY <1>1, <1>6 DEF DropTable, TypeInv, disk, bounds

\* What a rename makes of the catalog in memory.
LEMMA RenamedTyped ==
    ASSUME mem \in State, NEW o \in Name, NEW n \in Name, o # n
    PROVE  /\ Renamed(o, n) \in State /\ Renamed(o, n).nextID = mem.nextID
           /\ \A m \in Name :
                 /\ Renamed(o, n).tables[m] = IF m = n THEN mem.tables[o]
                                              ELSE IF m = o THEN 0 ELSE mem.tables[m]
                 /\ Renamed(o, n).rows[m] = IF m = n THEN mem.rows[o]
                                            ELSE IF m = o THEN << >> ELSE mem.rows[m]
<1>1. << >> \in Seq(Row)
  OBVIOUS
<1> QED BY <1>1 DEF Renamed, State

LEMMA RenameTableOK ==
    ASSUME TypeInv, OpInv, NEW o \in Name, NEW n \in Name, RenameTable(o, n)
    PROVE  TypeInv' /\ OpInv'
<1>1. o # n /\ up' /\ mem \in State /\ mem.tables[o] \in Nat
  BY DEF RenameTable, Ready, Exists, TypeInv, State
<1>2. mem' \in State
  BY <1>1, RenamedTyped DEF RenameTable
<1> DEFINE rec == Record("rename", mem.tables[o], o, NoRow)
<1>3. rec \in Entry
  BY <1>1, RecordTyped, NoRowTyped DEF RecordTypes
<1>4. rec.type = "rename" /\ rec.name = o
  BY DEF Record
<1>5. op' = NewOp("rename", o, n, "wal", << >>, <<rec>>)
  BY DEF RenameTable
<1> HIDE DEF rec
<1>7. op' \in Operation /\ OpInv'
  BY <1>1, <1>3, <1>4, <1>5, SimpleStarts DEF Statements
<1>8. dir' \in [Name -> TableFile] /\ open' \subseteq {m \in Name : dir'[m].state = "ok"}
  <2>1. CASE o \in open
    <3>1. dir' = [dir EXCEPT ![n] = dir[o], ![o] = NoFile] /\ open' = (open \ {o}) \cup {n}
      BY <2>1 DEF RenameTable
    <3>2. dir \in [Name -> TableFile] /\ open \subseteq {m \in Name : dir[m].state = "ok"}
      BY DEF TypeInv
    <3>3. dir' \in [Name -> TableFile]
      BY <3>1, <3>2, FilesTyped
    <3>4. \A m \in Name : m # o => dir'[m] = IF m = n THEN dir[o] ELSE dir[m]
      BY <1>1, <3>1, <3>2
    <3> QED BY <1>1, <2>1, <3>1, <3>2, <3>3, <3>4
  <2>2. CASE o \notin open
    BY <2>2 DEF RenameTable, TypeInv
  <2> QED BY <2>1, <2>2
<1>9. loose' \subseteq Name /\ unlogged' \subseteq Name
  BY DEF RenameTable, TypeInv
<1> QED BY <1>2, <1>7, <1>8, <1>9 DEF RenameTable, TypeInv, bounds

LEMMA TruncateTableOK == ASSUME TypeInv, OpInv, NEW n \in Name, TruncateTable(n) PROVE TypeInv' /\ OpInv'
<1>1. mem' \in State /\ mem.tables[n] \in Nat /\ up'
  <2>1. << >> \in Seq(Row)
    OBVIOUS
  <2> QED BY <2>1 DEF TruncateTable, TypeInv, State, Ready
<1> DEFINE rec == Record("truncate", mem.tables[n], n, NoRow)
<1>2. rec \in Entry
  BY <1>1, RecordTyped, NoRowTyped DEF RecordTypes
<1>3. rec.type = "truncate" /\ rec.name = n
  BY DEF Record
<1>4. op' = NewOp("truncate", n, None, "wal", << >>, <<rec>>)
  BY DEF TruncateTable
<1> HIDE DEF rec
<1>6. op' \in Operation /\ OpInv'
  BY <1>1, <1>2, <1>3, <1>4, SimpleStarts DEF Statements, RowKinds
<1>7. loose' \subseteq Name /\ unlogged' \subseteq Name
  BY DEF TruncateTable, TypeInv
<1> QED BY <1>1, <1>6, <1>7 DEF TruncateTable, TypeInv, disk, bounds

LEMMA InsertRowV1OK == ASSUME TypeInv, OpInv, NEW n \in Name, InsertRowV1(n) PROVE TypeInv' /\ OpInv'
<1>1. mem' \in State /\ mem.tables[n] \in Nat /\ mem.nextID \in Nat /\ up' /\ keys' \in Nat
  <2>1. mem \in State /\ mem' = [mem EXCEPT !.nextID = @ + 1] /\ keys \in Nat /\ keys' = keys + 1 /\ up'
    BY DEF InsertRowV1, TypeInv, Ready
  <2>2. mem' \in State /\ mem.tables[n] \in Nat /\ mem.nextID \in Nat
    BY <2>1, IdTaken
  <2> QED BY <2>1, <2>2
<1> DEFINE row == [id |-> mem.nextID, key |-> keys', val |-> 0]
           rec == Record("insert", mem.tables[n], n, row)
<1>2. row \in Row
  BY <1>1 DEF Row
<1>3. op' = NewOp("insert", n, None, "wal", << >>, <<rec>>)
  BY DEF InsertRowV1
<1> HIDE DEF row
<1>4. rec \in Entry
  BY <1>1, <1>2, RecordTyped DEF RecordTypes
<1>5. rec.type = "insert" /\ rec.name = n
  BY DEF Record
<1> HIDE DEF rec
<1>7. op' \in Operation /\ OpInv'
  BY <1>1, <1>3, <1>4, <1>5, SimpleStarts DEF Statements, RowKinds
<1> QED BY <1>1, <1>7 DEF InsertRowV1, TypeInv, disk

LEMMA ChangeRowsOK ==
    ASSUME TypeInv, OpInv, NEW kind \in {"update", "delete"}, NEW n \in Name, NEW k, NEW val \in {0, 1},
           ChangeRows(kind, n, k, val)
    PROVE  TypeInv' /\ OpInv'
<1> DEFINE pos == Matches(n, k)
           rec(i) == Record(kind, mem.tables[n], n, [mem.rows[n][i] EXCEPT !.val = val])
           todo == [j \in 1..Len(pos) |-> rec(pos[j])]
<1>1. /\ op' = NewOp(kind, n, None, "wal", pos, todo) /\ pos # << >> /\ up'
      /\ UNCHANGED <<disk, up, mem, open, skipSave, acked, loose, unlogged, reused, bounds>>
  BY DEF ChangeRows, Ready
<1>2. mem.rows[n] \in Seq(Row) /\ mem.tables[n] \in Nat
  BY DEF TypeInv, State
<1>3. pos \in Seq(Nat) /\ \A j \in 1..Len(pos) : pos[j] \in 1..Len(mem.rows[n])
  BY <1>2, MatchesPositions
<1> HIDE DEF pos
<1>4. ASSUME NEW i \in 1..Len(mem.rows[n]) PROVE rec(i) \in Entry /\ rec(i).type = kind /\ rec(i).name = n
  <2> DEFINE row == [mem.rows[n][i] EXCEPT !.val = val]
  <2>1. row \in Row
    <3>1. mem.rows[n][i] \in Row
      BY <1>2
    <3> QED BY <3>1 DEF Row
  <2> HIDE DEF row
  <2>2. Record(kind, mem.tables[n], n, row) \in Entry
    BY <1>2, <2>1, RecordTyped DEF RecordTypes
  <2>3. Record(kind, mem.tables[n], n, row).type = kind /\ Record(kind, mem.tables[n], n, row).name = n
    BY DEF Record
  <2> QED BY <2>2, <2>3 DEF row
<1> HIDE DEF rec
<1>5. Len(pos) \in Nat /\ Len(pos) # 0
  BY <1>1, <1>3
<1>6. todo \in Seq(Entry) /\ Len(todo) = Len(pos) /\ todo # << >>
      /\ \A j \in 1..Len(todo) : todo[j].type = kind /\ todo[j].name = n
  BY <1>3, <1>4, <1>5
<1> HIDE DEF todo
<1>7. mem' = mem
  BY <1>1
<1>0. kind \in Kinds /\ "wal" \in Steps
  BY DEF Kinds, Statements, RowKinds, Steps
<1>8. /\ op'.kind = kind /\ op'.at = "wal" /\ op'.name = n /\ op'.to = None /\ op'.pos = pos
      /\ op'.todo = todo /\ op' \in Operation
  BY <1>0, <1>1, <1>3, <1>6 DEF NewOp, Operation
<1>9. OpInv'
  BY <1>1, <1>3, <1>6, <1>7, <1>8, StatementStarts DEF Statements, RowKinds
<1> QED BY <1>1, <1>8, <1>9 DEF TypeInv, disk, bounds

\* A change of the rows of one table.
LEMMA RowsPut ==
    ASSUME NEW c \in State, NEW n \in Name, NEW s \in Seq(Row)
    PROVE  /\ [c EXCEPT !.rows[n] = s] \in State
           /\ [c EXCEPT !.rows[n] = s].tables = c.tables
           /\ [c EXCEPT !.rows[n] = s].nextID = c.nextID
           /\ \A m \in Name : [c EXCEPT !.rows[n] = s].rows[m] = IF m = n THEN s ELSE c.rows[m]
  BY DEF State

\* A statement's step that updates a row.
LEMMA TouchedTyped ==
    ASSUME TypeInv, OpInv, op.at = "wal"
    PROVE  /\ Touched \in State /\ Touched.tables = mem.tables /\ Touched.nextID = mem.nextID
           /\ \A m \in Name : Len(Touched.rows[m]) = Len(mem.rows[m])
           /\ \A m \in Name : m # op.name \/ op.kind # "update" => Touched.rows[m] = mem.rows[m]
           /\ op.kind = "update" =>
                 \A i \in 1..Len(mem.rows[op.name]) :
                     Touched.rows[op.name][i] = IF i = op.pos[1] THEN [mem.rows[op.name][i] EXCEPT !.val = 1]
                                                ELSE mem.rows[op.name][i]
<1>1. mem \in State
  BY DEF TypeInv
<1>2. CASE op.kind # "update"
  BY <1>1, <1>2 DEF Touched
<1>3. CASE op.kind = "update"
  <2> DEFINE n == op.name
             s == mem.rows[n]
             i == Head(op.pos)
             r == [s[i] EXCEPT !.val = 1]
             t == [s EXCEPT ![i] = r]
  <2>1. n \in Name /\ op.pos \in Seq(Nat) /\ op.todo # << >> /\ op.todo \in Seq(Entry)
    BY <1>3, OpFields DEF OpInv, Unwritten, InStatement
  <2>2. Len(op.pos) = Len(op.todo) /\ \A j \in 1..Len(op.pos) : op.pos[j] \in 1..Len(s)
    BY <1>3 DEF OpInv
  <2>3. Len(op.todo) # 0 /\ 1 \in 1..Len(op.pos)
    BY <2>1, <2>2
  <2>4. i = op.pos[1] /\ i \in 1..Len(s)
    BY <2>1, <2>2, <2>3
  <2>5. s \in Seq(Row) /\ s[i] \in Row
    BY <1>1, <2>1, <2>4 DEF State
  <2>6. r \in Row
    BY <2>5 DEF Row
  <2>7. Touched = [mem EXCEPT !.rows[n] = t]
    BY <1>3 DEF Touched
  <2> HIDE DEF r
  <2>8. t \in Seq(Row) /\ Len(t) = Len(s) /\ \A j \in 1..Len(s) : t[j] = IF j = i THEN r ELSE s[j]
    BY <2>4, <2>5, <2>6
  <2> HIDE DEF t
  <2>9. /\ Touched \in State /\ Touched.tables = mem.tables /\ Touched.nextID = mem.nextID
        /\ \A m \in Name : Touched.rows[m] = IF m = n THEN t ELSE mem.rows[m]
    BY <1>1, <2>1, <2>7, <2>8, RowsPut
  <2>10. \A j \in 1..Len(s) : t[j] = IF j = i THEN [s[j] EXCEPT !.val = 1] ELSE s[j]
    BY <2>8 DEF r
  <2>11. \A m \in Name : Len(Touched.rows[m]) = Len(mem.rows[m])
    BY <2>8, <2>9
  <2>12. Touched.rows[n] = t
    BY <2>1, <2>9
  <2> QED BY <1>3, <2>4, <2>9, <2>10, <2>11, <2>12
<1> QED BY <1>2, <1>3

\* What writing a record does to the catalog in memory.
LEMMA AppliedTyped ==
    ASSUME TypeInv, OpInv, op.at = "wal"
    PROVE  LET rec == Head(op.todo)
           IN  /\ rec = op.todo[1] /\ rec \in Entry
               /\ Applied(rec) \in State /\ Applied(rec).tables = mem.tables
               /\ Applied(rec).nextID = mem.nextID
               /\ \A m \in Name : m # op.name => Applied(rec).rows[m] = mem.rows[m]
               /\ Applied(rec).rows[op.name] =
                     CASE op.kind = "insert" -> Append(mem.rows[op.name], rec.row)
                       [] op.kind = "delete" /\ Len(op.todo) = 1 -> Without(mem.rows[op.name], rec.row.key)
                       [] OTHER -> Touched.rows[op.name]
<1> DEFINE rec == Head(op.todo)
           n == op.name
           s == mem.rows[n]
<1>1. /\ n \in Name /\ mem \in State /\ s \in Seq(Row)
      /\ rec = op.todo[1] /\ rec \in Entry /\ rec.row \in Row
  <2>1. n \in Name /\ op.todo # << >> /\ op.todo \in Seq(Entry) /\ mem \in State
    BY OpFields DEF OpInv, Unwritten, InStatement, TypeInv
  <2>2. rec = op.todo[1] /\ rec \in Entry
    BY <2>1
  <2> QED BY <2>1, <2>2 DEF State, Entry
<1> HIDE DEF rec, n
<1>2. CASE op.kind = "insert"
  <2> DEFINE t == Append(s, rec.row)
  <2>1. t \in Seq(Row)
    BY <1>1
  <2>2. Applied(rec) = [mem EXCEPT !.rows[n] = t]
    BY <1>2 DEF Applied, n
  <2> HIDE DEF t
  <2>3. /\ Applied(rec) \in State /\ Applied(rec).tables = mem.tables /\ Applied(rec).nextID = mem.nextID
        /\ \A m \in Name : Applied(rec).rows[m] = IF m = n THEN t ELSE mem.rows[m]
    BY <1>1, <2>1, <2>2, RowsPut
  <2> QED BY <1>1, <1>2, <2>3 DEF rec, n, t
<1>3. CASE op.kind = "delete" /\ Len(op.todo) = 1
  <2> DEFINE t == Without(s, rec.row.key)
  <2>1. t \in Seq(Row)
    BY <1>1, WithoutRows
  <2>2. Applied(rec) = [mem EXCEPT !.rows[n] = t]
    BY <1>3 DEF Applied, n
  <2> HIDE DEF t
  <2>3. /\ Applied(rec) \in State /\ Applied(rec).tables = mem.tables /\ Applied(rec).nextID = mem.nextID
        /\ \A m \in Name : Applied(rec).rows[m] = IF m = n THEN t ELSE mem.rows[m]
    BY <1>1, <2>1, <2>2, RowsPut
  <2> QED BY <1>1, <1>3, <2>3 DEF rec, n, t
<1>4. CASE ~(op.kind = "insert") /\ ~(op.kind = "delete" /\ Len(op.todo) = 1)
  <2>1. Applied(rec) = Touched
    BY <1>4 DEF Applied
  <2> QED BY <1>1, <1>4, <2>1, TouchedTyped DEF rec, n
<1> QED BY <1>2, <1>3, <1>4

LEMMA WriteWALOK == ASSUME TypeInv, OpInv, WriteWAL PROVE TypeInv' /\ OpInv'
<1> DEFINE rec == Head(op.todo)
           todo == op.todo
           pos == op.pos
<1>0. op.at = "wal" /\ up
  BY DEF WriteWAL, Running
<1>1. rec = todo[1] /\ rec \in Entry /\ mem' \in State /\ mem'.tables = mem.tables
  BY <1>0, AppliedTyped DEF WriteWAL
<1>2. /\ op.name \in Name /\ op.kind \in Statements /\ todo # << >> /\ todo \in Seq(Entry)
      /\ IF op.kind = "rename" THEN op.to \in Name \ {op.name} ELSE op.to = None
      /\ \A j \in 1..Len(todo) : RecordOf(op, todo[j])
      /\ pos \in Seq(Nat) /\ op \in Operation
  BY <1>0, OpFields DEF OpInv, Unwritten, InStatement, TypeInv
<1>3. log' = Append(log, rec) /\ log' \in Seq(Entry) /\ Len(log') = Len(log) + 1 /\ log'[Len(log')] = rec
      /\ log' # << >>
  BY <1>1 DEF WriteWAL, TypeInv
<1>4. /\ op'.kind = op.kind /\ op'.name = op.name /\ op'.to = op.to /\ op'.todo = Tail(todo)
      /\ op'.pos = (IF pos = << >> THEN pos ELSE Tail(pos))
      /\ op'.at = IF Len(todo) = 1 THEN "save" ELSE "wal"
  BY <1>2 DEF WriteWAL, Operation
<1>5. Len(todo) \in Nat \ {0} /\ Tail(todo) \in Seq(Entry) /\ Len(Tail(todo)) = Len(todo) - 1
      /\ \A j \in 1..Len(Tail(todo)) : j + 1 \in 1..Len(todo) /\ Tail(todo)[j] = todo[j + 1]
  BY <1>2
<1>6. op'.pos \in Seq(Nat)
  BY <1>2, <1>4
<1>7. op' \in Operation
  <2>1. op'.at \in Steps
    BY <1>4 DEF Steps
  <2> QED BY <1>2, <1>4, <1>5, <1>6, <2>1 DEF WriteWAL, Operation
<1>9. OpInv'
  <2>1. CASE Len(todo) = 1
    <3>1. op'.at = "save" /\ InStatement' /\ ~Unwritten'
      BY <1>4, <2>1 DEF InStatement, Unwritten
    <3>2. RecordOf(op, rec)
      BY <1>1, <1>2, <1>5
    <3>3. RecordOf(op, log[Len(log)])'
      BY <1>1, <1>3, <1>4, <3>2 DEF RecordOf
    <3> QED BY <1>0, <1>2, <1>3, <1>4, <3>1, <3>3 DEF OpInv, WriteWAL
  <2>2. CASE Len(todo) # 1
    <3>1. op'.at = "wal" /\ up'
      BY <1>0, <1>4, <2>2 DEF WriteWAL
    <3>2. \A j \in 1..Len(op'.todo) :
               /\ op'.todo[j].type = op'.kind /\ op'.todo[j].name = op'.name
               /\ op'.kind = "create" => op'.todo[j].tid = mem'.tables[op'.name]
      BY <1>1, <1>2, <1>4, <1>5 DEF RecordOf
    <3>3. op'.todo # << >>
      <4>1. Len(op'.todo) # 0
        BY <1>4, <1>5, <2>2
      <4> QED BY <4>1
    <3>4. ASSUME op.kind = "update"
          PROVE  /\ Len(op'.pos) = Len(op'.todo)
                 /\ \A j \in 1..Len(op'.pos) : op'.pos[j] \in 1..Len(mem'.rows[op.name])
      <4>1. Len(pos) = Len(todo) /\ \A j \in 1..Len(pos) : pos[j] \in 1..Len(mem.rows[op.name])
        BY <1>0, <3>4 DEF OpInv
      <4>2. mem' = Touched
        BY <3>4 DEF WriteWAL, Applied
      <4>3. Len(mem'.rows[op.name]) = Len(mem.rows[op.name])
        BY <1>0, <1>2, <4>2, TouchedTyped
      <4>4. Tail(pos) \in Seq(Nat) /\ Len(Tail(pos)) = Len(pos) - 1 /\ op'.pos = Tail(pos)
            /\ \A j \in 1..Len(Tail(pos)) : j + 1 \in 1..Len(pos) /\ Tail(pos)[j] = pos[j + 1]
        BY <1>2, <1>4, <1>5, <4>1
      <4> QED BY <1>4, <1>5, <4>1, <4>3, <4>4
    <3> QED BY <1>2, <1>4, <3>1, <3>2, <3>3, <3>4, StatementStarts
  <2> QED BY <2>1, <2>2
<1> QED BY <1>1, <1>3, <1>7, <1>9 DEF WriteWAL, TypeInv

LEMMA MakeFileOK == ASSUME TypeInv, OpInv, MakeFile \/ WriteHeader \/ CreateFileFails PROVE TypeInv' /\ OpInv'
<1>1. /\ op.at \in {"makefile", "header"} /\ op.name \in Name /\ op.kind = "create" /\ op.name \notin open /\ up
      /\ op.to = None /\ op.todo # << >> /\ op \in Operation
      /\ \A j \in 1..Len(op.todo) : RecordOf(op, op.todo[j])
  BY OpFields DEF MakeFile, WriteHeader, CreateFileFails, Running, OpInv, Unwritten, InStatement, TypeInv
<1>2. dir \in [Name -> TableFile] /\ open \subseteq {m \in Name : dir[m].state = "ok"}
  BY DEF TypeInv
<1>3. ASSUME NEW at \in {"header", "wal"}, Goto(at), up', mem' = mem, op.name \notin open' \/ at = "wal"
      PROVE  op' \in Operation /\ OpInv'
  <2>1. /\ op'.kind = op.kind /\ op'.name = op.name /\ op'.to = op.to /\ op'.todo = op.todo
        /\ op'.pos = op.pos /\ op'.at = at
    BY <1>1, <1>3 DEF Goto, Operation
  <2>2. op' \in Operation
    BY <1>1, <1>3 DEF Goto, Operation, Steps
  <2>3. Unwritten' /\ InStatement' /\ op'.at # "save" /\ op'.kind \in Statements
    BY <1>1, <2>1 DEF Unwritten, InStatement, Statements
  <2>4. \A j \in 1..Len(op'.todo) : RecordOf(op, op.todo[j])'
    BY <1>1, <1>3, <2>1 DEF RecordOf
  <2> QED BY <1>1, <1>3, <2>1, <2>2, <2>3, <2>4 DEF OpInv
<1>4. CASE MakeFile
  <2>1. op' \in Operation /\ OpInv'
    BY <1>1, <1>3, <1>4 DEF MakeFile
  <2>2. dir' \in [Name -> TableFile] /\ open' \subseteq {m \in Name : dir'[m].state = "ok"}
    BY <1>1, <1>2, <1>4, FilesTyped DEF MakeFile
  <2> QED BY <1>4, <2>1, <2>2 DEF MakeFile, TypeInv, bounds
<1>5. CASE WriteHeader
  <2>1. op' \in Operation /\ OpInv'
    BY <1>1, <1>3, <1>5 DEF WriteHeader
  <2>2. dir' \in [Name -> TableFile] /\ open' \subseteq {m \in Name : dir'[m].state = "ok"}
    BY <1>1, <1>2, <1>5, FilesTyped DEF WriteHeader, NewFile
  <2> QED BY <1>5, <2>1, <2>2 DEF WriteHeader, TypeInv, bounds
<1>6. CASE CreateFileFails
  <2>1. op' \in Operation /\ OpInv'
    BY <1>6, OperationEnds DEF CreateFileFails, Fail
  <2>2. dir' \in [Name -> TableFile] /\ open' \subseteq {m \in Name : dir'[m].state = "ok"}
    BY <1>1, <1>2, <1>6, FilesTyped DEF CreateFileFails
  <2>3. loose' \subseteq Name
    BY <1>1, <1>6 DEF CreateFileFails, Fail, TypeInv
  <2>4. faults' \in 0..MaxFaults
    BY <1>6, CatalogAssumption DEF CreateFileFails, TypeInv
  <2> QED BY <1>6, <2>1, <2>2, <2>3, <2>4 DEF CreateFileFails, Fail, TypeInv
<1> QED BY <1>4, <1>5, <1>6

LEMMA WriteWALFailsOK == ASSUME TypeInv, OpInv, WriteWALFails PROVE TypeInv' /\ OpInv'
<1>1. op.at = "wal" /\ mem' = Touched
  BY DEF WriteWALFails, Running
<1>2. mem' \in State
  BY <1>1, TouchedTyped
<1>3. op' \in Operation /\ OpInv'
  BY OperationEnds DEF WriteWALFails, Fail
<1>4. loose' \subseteq Name
  BY OpFields DEF WriteWALFails, Fail, TypeInv
<1>5. faults' \in 0..MaxFaults
  BY CatalogAssumption DEF WriteWALFails, TypeInv
<1>6. log' \in Seq(Entry)
  BY TornTyped DEF WriteWALFails, TypeInv
<1> QED BY <1>2, <1>3, <1>4, <1>5, <1>6 DEF WriteWALFails, Fail, TypeInv

LEMMA PromiseTyped ==
    ASSUME TypeInv, OpInv, op.at = "save"
    PROVE  Promise \in Promises /\ LooseAfter \subseteq Name
<1> DEFINE n == op.name
           row == log[Len(log)].row
           old == [key |-> row.key, val |-> 0]
<1>1. op.name \in Name /\ op.kind \in Statements /\ (op.kind = "rename" => op.to \in Name) /\ loose \subseteq Name
      /\ log # << >> /\ log \in Seq(Entry) /\ acked \in Promises /\ mem \in State
  BY DEF OpInv, InStatement, TypeInv
<1>2. row \in Row
  <2>1. Len(log) \in 1..Len(log)
    BY <1>1
  <2>2. log[Len(log)] \in Entry
    BY <1>1, <2>1
  <2> QED BY <2>2 DEF Entry
<1>3. old \in Pair /\ [old EXCEPT !.val = 1] \in Pair
  BY <1>2 DEF Row, Pair
<1>4. mem.tables[n] \in Nat /\ acked.tables[n] \in Nat /\ acked.rows[n] \subseteq Pair
  BY <1>1 DEF State, Promises
<1> DEFINE new == [old EXCEPT !.val = 1]
<1>5. Promise = CASE op.kind = "create" -> [acked EXCEPT !.tables[n] = mem.tables[n], !.rows[n] = {}]
          [] op.kind = "drop" -> [acked EXCEPT !.tables[n] = 0, !.rows[n] = {}]
          [] op.kind = "rename" ->
                [acked EXCEPT !.tables[op.to] = acked.tables[n], !.tables[n] = 0,
                              !.rows[op.to] = acked.rows[n], !.rows[n] = {}]
          [] op.kind = "truncate" -> [acked EXCEPT !.rows[n] = {}]
          [] op.kind = "insert" -> [acked EXCEPT !.rows[n] = @ \cup {old}]
          [] op.kind = "update" -> [acked EXCEPT !.rows[n] = (@ \ {old}) \cup {new}]
          [] op.kind = "delete" -> [acked EXCEPT !.rows[n] = {r \in @ : r.key # row.key}]
          [] OTHER -> acked
  BY DEF Promise
<1> HIDE DEF n, old, row, new
<1>6. old \in Pair /\ new \in Pair
  BY <1>3 DEF new
<1>7. CASE op.kind = "create"
  <2>1. Promise = [acked EXCEPT !.tables[n] = mem.tables[n], !.rows[n] = {}]
    BY <1>5, <1>7
  <2> QED BY <1>1, <1>4, <1>7, <2>1 DEF Promises, LooseAfter
<1>8. CASE op.kind = "drop"
  <2>1. Promise = [acked EXCEPT !.tables[n] = 0, !.rows[n] = {}]
    BY <1>5, <1>8
  <2> QED BY <1>1, <1>8, <2>1 DEF Promises, LooseAfter
<1>9. CASE op.kind = "rename"
  <2>1. Promise = [acked EXCEPT !.tables[op.to] = acked.tables[n], !.tables[n] = 0,
                              !.rows[op.to] = acked.rows[n], !.rows[n] = {}]
    BY <1>5, <1>9
  <2> QED BY <1>1, <1>4, <1>9, <2>1 DEF Promises, LooseAfter
<1>10. CASE op.kind \in RowKinds
  <2> DEFINE Put(s) == [acked EXCEPT !.rows[n] = s]
  <2>1. \A s \in SUBSET Pair : Put(s) \in Promises
    BY <1>1 DEF Promises
  <2>2. \E s \in SUBSET Pair : Promise = Put(s)
    <3>1. CASE op.kind = "truncate"
      <4>1. Promise = Put({})
        BY <1>5, <3>1
      <4> QED BY <4>1
    <3>2. CASE op.kind = "insert"
      <4>1. Promise = Put(acked.rows[n] \cup {old}) /\ acked.rows[n] \cup {old} \in SUBSET Pair
        BY <1>1, <1>4, <1>5, <1>6, <3>2 DEF Promises
      <4> QED BY <4>1
    <3>3. CASE op.kind = "update"
      <4>1. /\ Promise = Put((acked.rows[n] \ {old}) \cup {new})
            /\ (acked.rows[n] \ {old}) \cup {new} \in SUBSET Pair
        BY <1>1, <1>4, <1>5, <1>6, <3>3 DEF Promises
      <4> QED BY <4>1
    <3>4. CASE op.kind = "delete"
      <4>1. /\ Promise = Put({r \in acked.rows[n] : r.key # row.key})
            /\ {r \in acked.rows[n] : r.key # row.key} \in SUBSET Pair
        BY <1>1, <1>4, <1>5, <3>4 DEF Promises
      <4> QED BY <4>1
    <3> QED BY <1>10, <3>1, <3>2, <3>3, <3>4 DEF RowKinds
  <2>3. Promise \in Promises
    <3> HIDE DEF Put
    <3> QED BY <2>1, <2>2
  <2>4. LooseAfter = loose
    BY <1>10 DEF LooseAfter, RowKinds
  <2> QED BY <1>1, <2>3, <2>4
<1> QED BY <1>1, <1>7, <1>8, <1>9, <1>10 DEF Statements

LEMMA FinishOK == ASSUME TypeInv, OpInv, Finish \/ SaveFails PROVE TypeInv' /\ OpInv'
<1>1. op' = Idle /\ op.at = "save" /\ op.name \in Name
  BY DEF Finish, SaveFails, Fail, Running, OpInv, InStatement
<1>2. op' \in Operation /\ OpInv'
  BY <1>1, OperationEnds
<1>3. CASE Finish
  <2>1. meta' \in State /\ acked' \in Promises /\ loose' \subseteq Name /\ unlogged' \subseteq Name
    BY <1>1, <1>3, PromiseTyped DEF Finish, Saved, TypeInv
  <2> QED BY <1>2, <1>3, <2>1 DEF Finish, TypeInv, bounds
<1>4. CASE SaveFails
  <2>1. loose' \subseteq Name
    BY <1>4, OpFields DEF SaveFails, Fail, TypeInv
  <2>2. faults' \in 0..MaxFaults
    BY <1>4, CatalogAssumption DEF SaveFails, TypeInv
  <2> QED BY <1>2, <1>4, <2>1, <2>2 DEF SaveFails, Fail, TypeInv, disk
<1> QED BY <1>3, <1>4

LEMMA TruncateOpenOK ==
    ASSUME TypeInv, OpInv, NEW n \in Name, TruncateOpen(n) \/ GetRows(n) PROVE TypeInv' /\ OpInv'
<1>1. OpInv'
  <2>1. UNCHANGED <<up, op, mem, log>> /\ op.kind = "idle"
    BY DEF TruncateOpen, GetRows, Ready, disk
  <2>2. ~InStatement
    BY <2>1 DEF OpInv, Statements, RowKinds
  <2> QED BY <2>1, <2>2 DEF OpInv, InStatement, Unwritten
<1>2. CASE TruncateOpen(n)
  <2>1. dir \in [Name -> TableFile] /\ dir' = [dir EXCEPT ![n].rows = {}] /\ open' = open
    BY <1>2 DEF TruncateOpen, TypeInv
  <2>2. dir' \in [Name -> TableFile] /\ \A m \in Name : dir'[m].state = dir[m].state
    BY <2>1 DEF TableFile
  <2>3. acked' \in Promises
    BY <1>2 DEF TruncateOpen, TypeInv, Promises
  <2> QED BY <1>1, <1>2, <2>1, <2>2, <2>3 DEF TruncateOpen, TypeInv, bounds
<1>3. CASE GetRows(n)
  BY <1>1, <1>3 DEF GetRows, TypeInv, disk, bounds
<1> QED BY <1>2, <1>3

LEMMA InsertRowV2OK == ASSUME TypeInv, OpInv, NEW n \in Name, InsertRowV2(n) PROVE TypeInv' /\ OpInv'
<1> DEFINE r == [key |-> keys', val |-> 0]
<1>1. keys' \in Nat /\ r \in Pair /\ mem' \in State
  <2>1. keys \in Nat /\ keys' = keys + 1 /\ mem \in State /\ mem' = [mem EXCEPT !.nextID = @ + 2]
    BY DEF InsertRowV2, TypeInv
  <2>2. mem' \in State
    BY <2>1, IdTaken
  <2>3. keys' \in Nat
    BY <2>1
  <2> QED BY <2>2, <2>3 DEF Pair
<1>2. /\ dir \in [Name -> TableFile] /\ dir' = [dir EXCEPT ![n].rows = @ \cup {r}]
      /\ open' = open \cup {n} /\ dir[n].state = "ok" /\ open \subseteq {m \in Name : dir[m].state = "ok"}
      /\ acked \in Promises /\ acked' = [acked EXCEPT !.rows[n] = @ \cup {r}]
  BY DEF InsertRowV2, TypeInv
<1> HIDE DEF r
<1>3. dir' \in [Name -> TableFile] /\ \A m \in Name : dir'[m].state = dir[m].state
  BY <1>1, <1>2 DEF TableFile
<1>4. acked' \in Promises
  BY <1>1, <1>2 DEF Promises
<1>5. OpInv'
  <2>1. UNCHANGED <<up, op, log>> /\ op.kind = "idle"
    BY DEF InsertRowV2, Ready
  <2>2. ~InStatement
    BY <2>1 DEF OpInv, Statements, RowKinds
  <2> QED BY <2>1, <2>2 DEF OpInv, InStatement, Unwritten
<1> QED BY <1>1, <1>2, <1>3, <1>4, <1>5 DEF InsertRowV2, TypeInv

LEMMA SavingOK ==
    ASSUME TypeInv, OpInv,
           \/ \E skip \in BOOLEAN : SetSkipSave(skip)
           \/ ForceSave \/ Checkpoint \/ CheckpointRecord \/ EmptyLog \/ Close \/ Recovered
    PROVE  TypeInv' /\ OpInv'
<1>1. CASE \E skip \in BOOLEAN : SetSkipSave(skip)
  <2>1. PICK skip \in BOOLEAN : SetSkipSave(skip)
    BY <1>1
  <2>2. UNCHANGED <<up, op, mem, log, open>>
    BY <2>1 DEF SetSkipSave, disk
  <2>3. OpInv'
    BY <2>2 DEF OpInv, Unwritten, InStatement, RecordOf
  <2> QED BY <2>1, <2>3 DEF SetSkipSave, TypeInv, disk, bounds
<1>2. CASE ForceSave \/ Checkpoint \/ Close
  <2>1. op' \in Operation /\ OpInv'
    BY <1>2, OperationGoesOn DEF ForceSave, Checkpoint, Close, Ready
  <2>2. meta' \in State
    BY <1>2 DEF ForceSave, Checkpoint, Close, Saved, TypeInv
  <2> QED BY <1>2, <2>1, <2>2 DEF ForceSave, Checkpoint, Close, TypeInv, bounds
<1>3. CASE CheckpointRecord
  <2> DEFINE rec == Record("checkpoint", 0, None, NoRow)
  <2>1. rec \in Entry
    BY RecordTyped, NoRowTyped DEF RecordTypes
  <2>2. log' = Append(log, rec) /\ log \in Seq(Entry) /\ op' = [op EXCEPT !.at = "empty"] /\ op \in Operation
        /\ op.at = "record" /\ up /\ up' = up
    BY <1>3 DEF CheckpointRecord, TypeInv, Goto, Running
  <2> HIDE DEF rec
  <2>3. log' \in Seq(Entry)
    BY <2>1, <2>2
  <2>4. op.kind \in {"empty", "close", "recover"} /\ op.name = None /\ op.to = None
    BY <2>2 DEF OpInv, InStatement, Unwritten, Idle
  <2>5. /\ op'.at = "empty" /\ op'.kind = op.kind /\ op'.name = op.name /\ op'.to = op.to
        /\ op' \in Operation
    BY <2>2 DEF Operation, Steps
  <2>6. OpInv'
    BY <2>2, <2>4, <2>5 DEF OpInv, InStatement, Unwritten
  <2> QED BY <1>3, <2>3, <2>5, <2>6 DEF CheckpointRecord, TypeInv
<1>4. CASE EmptyLog \/ Recovered
  <2>1. op' \in Operation /\ OpInv'
    BY <1>4, OperationEnds DEF EmptyLog, Recovered
  <2>2. log' \in Seq(Entry)
    <3>1. log' = << >> \/ log' = log
      BY <1>4 DEF EmptyLog, Recovered, disk
    <3>2. << >> \in Seq(Entry)
      OBVIOUS
    <3> QED BY <3>1, <3>2 DEF TypeInv
  <2>3. unlogged' \subseteq Name
    <3>1. unlogged' = Unsaved \/ unlogged' = unlogged
      BY <1>4 DEF EmptyLog, Recovered
    <3>2. Unsaved \subseteq Name
      BY DEF Unsaved
    <3> QED BY <3>1, <3>2 DEF TypeInv
  <2> QED BY <1>4, <2>1, <2>2, <2>3 DEF EmptyLog, Recovered, TypeInv, disk, bounds
<1> QED BY <1>1, <1>2, <1>3, <1>4

\* What stopping and crashing leave.
LEMMA DownOK ==
    ASSUME TypeInv, Down
    PROVE  /\ up' = FALSE /\ mem' \in State /\ open' = {} /\ skipSave' \in BOOLEAN
           /\ op' \in Operation /\ OpInv' /\ op' = Idle
  BY EmptyTyped, OperationEnds DEF Down

LEMMA StoppingOK == ASSUME TypeInv, OpInv, CloseEnds \/ Crash PROVE TypeInv' /\ OpInv'
<1>1. CASE CloseEnds
  <2>1. unlogged' \subseteq Name /\ loose' \subseteq Name /\ log' \in Seq(Entry)
    BY <1>1 DEF CloseEnds, Unsaved, TypeInv
  <2> QED BY <1>1, <2>1, DownOK DEF CloseEnds, TypeInv, bounds
<1>2. CASE Crash
  <2>1. log' \in {log, Append(log, Torn)} /\ loose' = loose \cup CrashLoses(log')
    BY <1>2 DEF Crash
  <2>2. log' \in Seq(Entry)
    BY <2>1, TornTyped DEF TypeInv
  <2>3. CrashLoses(log') \subseteq Name
    BY OpFields DEF CrashLoses, Unsaved, TypeInv
  <2>4. crashes' \in 0..MaxCrashes
    BY <1>2, CatalogAssumption DEF Crash, TypeInv
  <2>5. loose' \subseteq Name
    BY <2>1, <2>3 DEF TypeInv
  <2> QED BY <1>2, <2>2, <2>4, <2>5, DownOK DEF Crash, TypeInv
<1> QED BY <1>1, <1>2

\* What is read of a log: all of it, if no record is torn, and a part of it otherwise.
LEMMA ReadableTyped ==
    ASSUME NEW l \in Seq(Entry), NEW r \in Readable(l)
    PROVE  /\ r \in Seq(Entry)
           /\ ~HasTorn(l) => r = l
           /\ HasTorn(l) => r = << >> \/ \E i \in 1..(Len(l) - 1) : IsTorn(l[i])
<1> DEFINE torn == {i \in 1..Len(l) : IsTorn(l[i])}
           first == CHOOSE i \in torn : \A j \in torn : i <= j
<1>1. CASE torn = {}
  BY <1>1 DEF Readable, HasTorn
<1>2. CASE torn # {}
  <2>1. HasTorn(l)
    BY <1>2 DEF HasTorn
  <2>2. \E i \in torn : \A j \in torn : i <= j
    <3> DEFINE R == {ss \in Nat \X Nat : ss[1] < ss[2]}
    <3>1. IsWellFoundedOn(R, Nat)
      BY NatLessThanWellFounded, Zenon DEF OpToRel
    <3>2. torn \subseteq Nat
      OBVIOUS
    <3> HIDE DEF torn, R
    <3>3. PICK x \in torn : \A y \in torn : <<y, x>> \notin R
      BY <1>2, <3>1, <3>2, WFMin
    <3>4. ASSUME NEW y \in torn PROVE x <= y
      <4>1. x \in Nat /\ y \in Nat /\ <<y, x>> \in Nat \X Nat
        BY <3>2, <3>3
      <4>2. ~(y < x)
        BY <3>3, <4>1 DEF R
      <4> QED BY <4>1, <4>2
    <3> QED BY <3>3, <3>4
  <2>3. first \in torn
    BY <2>2
  <2>4. r = << >> \/ (first < Len(l) /\ r = SubSeq(l, 1, first - 1))
    BY <1>2 DEF Readable
  <2> HIDE DEF first
  <2>5. CASE r = << >>
    BY <2>1, <2>5
  <2>6. CASE first < Len(l) /\ r = SubSeq(l, 1, first - 1)
    <3>1. first \in 1..(Len(l) - 1) /\ IsTorn(l[first])
      BY <2>3, <2>6
    <3>2. \A j \in 1..(first - 1) : l[j] \in Entry
      BY <2>3
    <3>3. r \in Seq(Entry)
      BY <2>3, <2>6, <3>2, SubSeqProperties
    <3> QED BY <2>1, <3>1, <3>3
  <2> QED BY <2>4, <2>5, <2>6
<1> QED BY <1>1, <1>2

LEMMA RecoverOK == ASSUME TypeInv, OpInv, Recover PROVE TypeInv' /\ OpInv'
<1>1. op' \in Operation /\ OpInv'
  BY OperationGoesOn DEF Recover
<1>2. mem' \in State
  <2>1. CASE meta = NoMeta
    BY <2>1, EmptyTyped DEF Recover, Recoverable
  <2>2. CASE meta # NoMeta
    <3>1. PICK l \in Readable(log) : mem' \in Replayed(l, meta)
      BY <2>2 DEF Recover, Recoverable
    <3>2. l \in Seq(Entry)
      BY ReadableTyped DEF TypeInv
    <3> QED BY <3>1, <3>2, ReplayedTyped DEF TypeInv
  <2> QED BY <2>1, <2>2
<1> QED BY <1>1, <1>2 DEF Recover, TypeInv, disk, bounds

LEMMA InitOK == Init => TypeInv /\ OpInv
<1> SUFFICES ASSUME Init PROVE TypeInv /\ OpInv
  OBVIOUS
<1>1. V1Row \in Row
  BY DEF V1Row, Row
<1>2. ASSUME NEW n \in Name PROVE V1Meta(n) \in State
  <2>1. <<V1Row>> \in Seq(Row) /\ << >> \in Seq(Row)
    BY <1>1
  <2> HIDE DEF V1Row
  <2> QED BY <2>1 DEF V1Meta, State, NoTables, EmptyCatalog
<1>3. meta \in State /\ mem \in State /\ keys \in Nat
  BY <1>2, EmptyTyped DEF Init
<1>4. log \in Seq(Entry)
  <2>1. CASE log = << >>
    BY <2>1
  <2>2. CASE \E n \in Name : log = <<Record("insert", 1, n, V1Row)>>
    <3>1. PICK n \in Name : log = <<Record("insert", 1, n, V1Row)>>
      BY <2>2
    <3>2. Record("insert", 1, n, V1Row) \in Entry
      BY <1>1, RecordTyped DEF RecordTypes
    <3> QED BY <3>1, <3>2
  <2> QED BY <2>1, <2>2 DEF Init
<1>5. acked \in Promises
  <2>1. mem.tables \in [Name -> Nat]
    BY <1>3 DEF State
  <2>2. ASSUME NEW n \in Name PROVE V1Rows(mem, n) \subseteq Pair
    <3>1. mem.rows[n] \in Seq(Row)
      BY <1>3 DEF State
    <3>2. \A i \in 1..Len(mem.rows[n]) : mem.rows[n][i] \in Row
      BY <3>1
    <3> QED BY <3>2 DEF V1Rows, Row, Pair
  <2> QED BY <2>1, <2>2 DEF Init, Promises
<1>6. op \in Operation /\ OpInv
  BY IdleTyped DEF Init, OpInv, InStatement, Unwritten, Idle
<1>7. dir \in [Name -> TableFile]
  BY FilesTyped DEF Init
<1>8. 0 \in 0..MaxCrashes /\ 0 \in 0..MaxFaults
  BY CatalogAssumption
<1>9. crashes = 0 /\ faults = 0 /\ open = {} /\ loose \subseteq Name /\ unlogged \subseteq Name
  BY DEF Init
<1>10. up \in BOOLEAN /\ skipSave \in BOOLEAN
  BY DEF Init
<1> QED BY <1>3, <1>4, <1>5, <1>6, <1>7, <1>8, <1>9, <1>10 DEF TypeInv

\* The types hold, and an operation in progress has the shape that its steps expect.
LEMMA ShapeInvariant == Spec => []ShapeInv
<1>1. ShapeInv /\ [Next]_vars => ShapeInv'
  <2> SUFFICES ASSUME TypeInv, OpInv, [Next]_vars PROVE TypeInv' /\ OpInv'
    BY DEF ShapeInv
  <2>1. CASE UNCHANGED vars
    BY <2>1 DEF vars, TypeInv, OpInv, InStatement, Unwritten, RecordOf
  <2>2. ASSUME NEW n \in Name,
               \/ CreateTable(n) \/ DropTable(n) \/ TruncateOpen(n) \/ TruncateTable(n)
               \/ InsertRowV2(n) \/ InsertRowV1(n) \/ GetRows(n)
        PROVE  TypeInv' /\ OpInv'
    BY <2>2, CreateTableOK, DropTableOK, TruncateOpenOK, TruncateTableOK, InsertRowV2OK, InsertRowV1OK, Zenon
  <2>3. ASSUME NEW n \in Name, NEW k \in Keys, UpdateRows(n, k) \/ DeleteRows(n, k) PROVE TypeInv' /\ OpInv'
    BY <2>3, ChangeRowsOK DEF UpdateRows, DeleteRows
  <2>4. CASE MakeFile \/ WriteHeader \/ CreateFileFails \/ WriteWAL \/ WriteWALFails \/ Finish \/ SaveFails
    BY <2>4, MakeFileOK, WriteWALOK, WriteWALFailsOK, FinishOK, Zenon
  <2>5. CASE \/ \E skip \in BOOLEAN : SetSkipSave(skip)
             \/ ForceSave \/ Checkpoint \/ CheckpointRecord \/ EmptyLog \/ Close \/ Recovered
             \/ CloseEnds \/ Crash \/ Recover
    BY <2>5, SavingOK, StoppingOK, RecoverOK, Zenon
  <2>6. ASSUME NEW o \in Name, NEW n \in Name, RenameTable(o, n) PROVE TypeInv' /\ OpInv'
    BY <2>6, RenameTableOK
  <2> QED BY <2>1, <2>2, <2>3, <2>4, <2>5, <2>6, Zenon DEF Next
<1>2. Init => ShapeInv
  BY InitOK DEF ShapeInv
<1> QED BY <1>1, <1>2, PTL DEF Spec

----------------------------------------------------------------------------
(* The catalog survives.                                                    *)

\* A record appended to the log.
LEMMA LogAppended ==
    ASSUME NEW l \in Seq(Entry), NEW rec
    PROVE  /\ Len(Append(l, rec)) = Len(l) + 1 /\ Append(l, rec)[Len(l) + 1] = rec
           /\ \A i \in 1..Len(l) : Append(l, rec)[i] = l[i]
           /\ HasTorn(Append(l, rec)) <=> HasTorn(l) \/ IsTorn(rec)
           /\ \A n, base, id : LeadsTo(l, n, base, id) =>
                 LeadsTo(Append(l, rec), n, base, IF Defines(rec, n) THEN Gives(rec) ELSE id)
<1> DEFINE m == Append(l, rec)
<1>1. Len(m) = Len(l) + 1 /\ m[Len(l) + 1] = rec /\ Len(l) \in Nat
  OBVIOUS
<1>2. \A i \in 1..Len(l) : m[i] = l[i]
  OBVIOUS
<1> HIDE DEF m
<1>3. \A i \in 1..Len(m) : i = Len(l) + 1 \/ i \in 1..Len(l)
  BY <1>1
<1>4. \A i \in 1..Len(l) : i \in 1..Len(m)
  BY <1>1
<1>5. Len(l) + 1 \in 1..Len(m)
  BY <1>1
<1>6. HasTorn(m) <=> HasTorn(l) \/ IsTorn(rec)
  BY <1>1, <1>2, <1>3, <1>4, <1>5 DEF HasTorn
<1>7. ASSUME NEW n, NEW base, NEW id, LeadsTo(l, n, base, id)
      PROVE  LeadsTo(m, n, base, IF Defines(rec, n) THEN Gives(rec) ELSE id)
  <2>1. LeadsBy(Len(l), l, n, base, id)
    BY <1>7 DEF LeadsTo
  <2>2. LeadsBy(Len(l), m, n, base, id)
    <3>1. \A i \in 1..Len(l) : \A j \in (i + 1)..Len(l) : j \in 1..Len(l)
      BY <1>1
    <3> QED BY <1>2, <2>1, <3>1 DEF LeadsBy
  <2>3. LeadsBy(Len(l) + 1, m, n, base, IF Defines(m[Len(l) + 1], n) THEN Gives(m[Len(l) + 1]) ELSE id)
    BY <1>1, <2>2, LeadsByNext
  <2> QED BY <1>1, <2>3 DEF LeadsTo
<1> QED BY <1>1, <1>2, <1>6, <1>7 DEF m

\* A step that changes only tables nothing is promised of, and logs nothing of the others.
LEMMA Undisturbed ==
    ASSUME TypeInv, CatalogInv, up, up', UNCHANGED meta, acked'.tables = acked.tables,
           loose \subseteq loose', unlogged \subseteq unlogged',
           \A n \in Name \ (loose' \cup Changing') : n \notin loose \cup Changing /\ mem'.tables[n] = mem.tables[n],
           \/ log' = log
           \/ \E rec : /\ log' = Append(log, rec)
                       /\ IsTorn(rec) \/ \A n \in Name \ (loose' \cup Changing') : ~Defines(rec, n),
           MovedInv'
    PROVE  CatalogInv'
<1>1. MemoryInv'
  BY DEF CatalogInv, MemoryInv, MovedInv
<1>2. DownInv'
  BY DEF DownInv
<1>3. LogInv'
  <2> SUFFICES ASSUME ~HasTorn(log'), NEW n \in Name \ (loose' \cup unlogged' \cup Changing')
               PROVE  LeadsTo(log', n, meta.tables[n], acked.tables[n])
    BY DEF LogInv
  <2>1. CASE log' = log
    BY <2>1 DEF CatalogInv, LogInv
  <2>2. ASSUME NEW rec, log' = Append(log, rec), ~Defines(rec, n) \/ IsTorn(rec)
        PROVE  LeadsTo(log', n, meta.tables[n], acked.tables[n])
    <3>1. log \in Seq(Entry)
      BY DEF TypeInv
    <3>2. ~HasTorn(log) /\ ~IsTorn(rec)
      BY <2>2, <3>1, LogAppended
    <3>3. LeadsTo(log, n, meta.tables[n], acked.tables[n])
      BY <3>2 DEF CatalogInv, LogInv
    <3> QED BY <2>2, <3>1, <3>2, <3>3, LogAppended
  <2> QED BY <2>1, <2>2
<1> QED BY <1>1, <1>2, <1>3 DEF CatalogInv

\* Between statements no table is being changed.
LEMMA NothingChanging ==
    /\ ~InStatement => Changing = {} /\ MovedInv
    /\ op = Idle => ~InStatement
    /\ OpInv /\ Ready => op = Idle /\ ~InStatement
    /\ OpInv /\ op.at \in {"record", "empty", "closing", "done"} => ~InStatement
<1>1. op = Idle => ~InStatement
  BY DEF Idle, InStatement, Unwritten
<1>2. OpInv /\ Ready => op = Idle /\ ~InStatement
  BY <1>1 DEF OpInv, Ready, Statements, RowKinds
<1>3. ~InStatement => Changing = {} /\ MovedInv
  BY DEF Changing, MovedInv
<1>4. OpInv /\ op.at \in {"record", "empty", "closing", "done"} => ~InStatement
  BY DEF InStatement, Unwritten
<1> QED BY <1>1, <1>2, <1>3, <1>4

\* A statement begins: in memory it changes no tables but those it is about.
LEMMA StatementBegins ==
    ASSUME TypeInv, OpInv, CatalogInv, NEW n \in Name,
           \/ CreateTable(n) \/ DropTable(n) \/ TruncateOpen(n) \/ TruncateTable(n)
           \/ InsertRowV2(n) \/ InsertRowV1(n) \/ GetRows(n)
           \/ \E k, val : \/ ChangeRows("update", n, k, val)
                          \/ ChangeRows("delete", n, k, val)
    PROVE  CatalogInv'
<1>1. up /\ up' /\ op = Idle /\ Changing = {} /\ ~InStatement /\ UNCHANGED <<meta, log>>
  <2>1. Ready
    BY DEF CreateTable, DropTable, TruncateOpen, TruncateTable, InsertRowV2, InsertRowV1, GetRows, ChangeRows
  <2>2. up' = up /\ UNCHANGED <<meta, log>>
    BY DEF CreateTable, DropTable, TruncateOpen, TruncateTable, InsertRowV2, InsertRowV1, GetRows, ChangeRows, disk
  <2>3. op = Idle /\ Changing = {} /\ ~InStatement
    BY <2>1, NothingChanging
  <2> QED BY <2>1, <2>2, <2>3 DEF Ready
<1>2. mem \in State /\ acked \in Promises
  BY DEF TypeInv
<1>3. acked'.tables = acked.tables
  <2>1. CASE UNCHANGED acked
    BY <2>1
  <2>2. CASE TruncateOpen(n) \/ InsertRowV2(n)
    BY <1>2, <2>2 DEF TruncateOpen, InsertRowV2, Promises
  <2> QED BY <2>1, <2>2 DEF CreateTable, DropTable, TruncateTable, InsertRowV1, GetRows, ChangeRows
<1>4. loose \subseteq loose' /\ unlogged \subseteq unlogged'
  BY DEF CreateTable, DropTable, TruncateOpen, TruncateTable, InsertRowV2, InsertRowV1, GetRows, ChangeRows
<1>5. CASE CreateTable(n)
  <2>1. \A m \in Name : m # n => mem'.tables[m] = mem.tables[m]
    BY <1>2, <1>5 DEF CreateTable, State
  <2>2. n \in loose' \cup Changing' /\ MovedInv'
    <3>1. CASE dir[n] # NoFile
      <4>1. op' = Idle /\ n \in loose'
        BY <1>5, <3>1 DEF CreateTable
      <4>2. op'.at = "start"
        BY <4>1 DEF Idle
      <4> QED BY <4>1, <4>2 DEF MovedInv, InStatement, Unwritten
    <3>2. CASE dir[n] = NoFile
      <4>1. op'.kind = "create" /\ op'.at = "makefile" /\ op'.name = n
        BY <1>5, <3>2 DEF CreateTable, NewOp
      <4>2. n \in Changing'
        BY <4>1, NoneIsNoName DEF Changing, InStatement, Unwritten, RowKinds
      <4> QED BY <4>1, <4>2 DEF MovedInv
    <3> QED BY <3>1, <3>2
  <2> QED BY <1>1, <1>3, <1>4, <2>1, <2>2, Undisturbed
<1>6. CASE DropTable(n)
  <2>1. \A m \in Name : mem'.tables[m] = IF m = n THEN 0 ELSE mem.tables[m]
    BY <1>2, <1>6, SetTableTyped DEF DropTable
  <2>2. op'.kind = "drop" /\ op'.at = "wal" /\ op'.name = n
    BY <1>6 DEF DropTable, NewOp
  <2>3. n \in Changing'
    BY <2>2, NoneIsNoName DEF Changing, InStatement, Unwritten, RowKinds
  <2>4. MovedInv'
    BY <2>1, <2>2 DEF MovedInv
  <2> QED BY <1>1, <1>3, <1>4, <2>1, <2>3, <2>4, Undisturbed
<1>7. CASE TruncateOpen(n) \/ InsertRowV2(n) \/ GetRows(n)
  <2>1. mem'.tables = mem.tables /\ UNCHANGED <<op, loose>>
    BY <1>2, <1>7 DEF TruncateOpen, InsertRowV2, GetRows, State
  <2>2. Changing' = {} /\ MovedInv'
    BY <1>1, <2>1 DEF Changing, MovedInv, InStatement, Unwritten
  <2> QED BY <1>1, <1>3, <1>4, <2>1, <2>2, Undisturbed
<1>8. CASE TruncateTable(n) \/ InsertRowV1(n) \/ \E k, val : ChangeRows("update", n, k, val) \/ ChangeRows("delete", n, k, val)
  <2>1. mem'.tables = mem.tables
    BY <1>2, <1>8 DEF TruncateTable, InsertRowV1, ChangeRows, State
  <2>2. op'.kind \in RowKinds
    BY <1>8 DEF TruncateTable, InsertRowV1, ChangeRows, NewOp, RowKinds
  <2>3. Changing' = {} /\ MovedInv'
    BY <2>2 DEF Changing, MovedInv, RowKinds
  <2> QED BY <1>1, <1>3, <1>4, <2>1, <2>3, Undisturbed
<1> QED BY <1>5, <1>6, <1>7, <1>8

LEMMA RenameBegins ==
    ASSUME TypeInv, OpInv, CatalogInv, NEW o \in Name, NEW n \in Name, RenameTable(o, n)
    PROVE  CatalogInv'
<1>1. up /\ up' /\ op = Idle /\ Changing = {} /\ ~InStatement /\ UNCHANGED <<meta, log, acked>>
  BY NothingChanging DEF RenameTable, Ready
<1>2. mem \in State /\ o # n
  BY DEF TypeInv, RenameTable, Exists
<1>3. /\ op'.kind = "rename" /\ op'.at = "wal" /\ op'.name = o /\ op'.to = n
      /\ unlogged' = unlogged \cup {o, n} /\ loose \subseteq loose'
  BY DEF RenameTable, NewOp
<1>4. \A m \in Name : mem'.tables[m] = IF m = n THEN mem.tables[o] ELSE IF m = o THEN 0 ELSE mem.tables[m]
  BY <1>2, RenamedTyped DEF RenameTable
<1>5. o \in Changing' /\ n \in Changing'
  BY <1>3, NoneIsNoName DEF Changing, InStatement, Unwritten, RowKinds
<1>6. o \notin loose' => mem.tables[o] = acked.tables[o]
  BY <1>1, <1>3 DEF CatalogInv, MemoryInv, MovedInv
<1>7. MovedInv'
  BY <1>1, <1>2, <1>3, <1>4, <1>6 DEF MovedInv
<1> QED BY <1>1, <1>3, <1>4, <1>5, <1>7, Undisturbed
\* The steps of a statement, up to its last: what it logs is about its own table.
LEMMA StatementGoesOn ==
    ASSUME TypeInv, OpInv, CatalogInv,
           MakeFile \/ WriteHeader \/ CreateFileFails \/ WriteWAL \/ WriteWALFails \/ SaveFails
    PROVE  CatalogInv'
<1>1. up /\ up' /\ InStatement /\ UNCHANGED <<meta, acked, unlogged>> /\ loose \subseteq loose'
  BY DEF MakeFile, WriteHeader, CreateFileFails, WriteWAL, WriteWALFails, SaveFails, Running, InStatement, Unwritten, Fail, disk
<1>2. MovedInv
  BY <1>1 DEF CatalogInv, MemoryInv, MovedInv
<1>3. op \in Operation
  BY DEF TypeInv
<1>4. CASE MakeFile \/ WriteHeader \/ WriteWAL
  <2>1. mem'.tables = mem.tables
    BY <1>4, AppliedTyped DEF MakeFile, WriteHeader, WriteWAL, Running
  <2>2. op'.kind = op.kind /\ op'.name = op.name /\ op'.to = op.to /\ UNCHANGED loose
    BY <1>3, <1>4 DEF MakeFile, WriteHeader, WriteWAL, Goto, Operation
  <2>3. op'.at \in {"header", "wal", "save"}
    BY <1>3, <1>4 DEF MakeFile, WriteHeader, WriteWAL, Goto, Operation
  <2>4. InStatement'
    BY <2>3 DEF InStatement, Unwritten
  <2>5. Changing' = Changing
    BY <1>1, <2>2, <2>4 DEF Changing
  <2>6. MovedInv'
    BY <1>1, <1>2, <2>1, <2>2, <2>4 DEF MovedInv
  <2>7. CASE MakeFile \/ WriteHeader
    <3>1. log' = log
      BY <2>7 DEF MakeFile, WriteHeader
    <3> QED BY <1>1, <2>1, <2>2, <2>5, <2>6, <3>1, Undisturbed
  <2>8. CASE WriteWAL
    <3> DEFINE rec == Head(op.todo)
    <3>1. log' = Append(log, rec)
      BY <2>8 DEF WriteWAL
    <3>2. op.at = "wal"
      BY <2>8 DEF WriteWAL, Running
    <3>3. rec = op.todo[1] /\ Len(op.todo) # 0
      BY <3>2, AppliedTyped, OpFields DEF OpInv, Unwritten
    <3>4. 1 \in 1..Len(op.todo)
      BY <3>3, OpFields
    <3>5. rec.type = op.kind /\ rec.name = op.name
      BY <3>2, <3>3, <3>4 DEF OpInv, Unwritten, RecordOf
    <3> HIDE DEF rec
    <3>6. ASSUME NEW n \in Name, Defines(rec, n) PROVE n \in Changing
      BY <1>1, <3>5, <3>6, NoneIsNoName DEF Defines, Changing, RowKinds
    <3> QED BY <1>1, <2>1, <2>2, <2>5, <2>6, <3>1, <3>6, Undisturbed
  <2> QED BY <1>4, <2>7, <2>8
<1>5. CASE CreateFileFails \/ WriteWALFails \/ SaveFails
  <2>1. mem'.tables = mem.tables
    BY <1>5, TouchedTyped DEF CreateFileFails, WriteWALFails, SaveFails, Running
  <2>2. op' = Idle /\ loose' = loose \cup ({op.name, op.to} \ {None})
    BY <1>5 DEF CreateFileFails, WriteWALFails, SaveFails, Fail
  <2>3. op'.at = "start"
    BY <2>2 DEF Idle
  <2>4. Changing' = {} /\ MovedInv'
    BY <2>3 DEF Changing, MovedInv, InStatement, Unwritten
  <2>5. Changing \subseteq loose'
    BY <2>2 DEF Changing
  <2>6. log' = log \/ log' = Append(log, Torn)
    BY <1>5 DEF CreateFileFails, WriteWALFails, SaveFails, disk
  <2>7. IsTorn(Torn)
    BY DEF IsTorn, Torn, Record
  <2> QED BY <1>1, <2>1, <2>2, <2>4, <2>5, <2>6, <2>7, Undisturbed
<1> QED BY <1>4, <1>5

\* The log leads to the same table from a catalog that has it already.
LEMMA LeadsFromResult ==
    ASSUME NEW l, NEW n, NEW base, NEW id, LeadsTo(l, n, base, id)
    PROVE  LeadsTo(l, n, id, id)
  BY DEF LeadsTo, LeadsBy

\* A statement ends: it promises the tables that are in memory and that the log leads to.
LEMMA StatementEnds == ASSUME TypeInv, OpInv, CatalogInv, Finish PROVE CatalogInv'
<1>1. /\ op.at = "save" /\ InStatement /\ up /\ up' /\ op' = Idle /\ op.name \in Name /\ op.kind \in Statements
      /\ UNCHANGED <<log, mem>> /\ acked' = Promise /\ loose' = LooseAfter /\ unlogged \subseteq unlogged'
      /\ meta' \in {meta, mem}
  BY DEF Finish, Running, InStatement, OpInv, Saved
<1>2. op'.at = "start"
  BY <1>1 DEF Idle
<1>3. ~InStatement' /\ Changing' = {}
  BY <1>2 DEF InStatement, Unwritten, Changing
<1>4. acked \in Promises /\ mem \in State /\ log \in Seq(Entry) /\ loose \subseteq Name
  BY DEF TypeInv
<1>5. DownInv'
  BY <1>1 DEF DownInv
<1> DEFINE last == log[Len(log)]
<1>6. log # << >> /\ RecordOf(op, last)
  BY <1>1 DEF OpInv
<1>7. Len(log) \in Nat /\ Len(log) # 0
  BY <1>4, <1>6
<1>8. CASE op.kind \in RowKinds
  <2>1. acked'.tables = acked.tables
    BY <1>1, <1>4, <1>8 DEF Promise, Promises, RowKinds
  <2>2. loose' = loose
    BY <1>1, <1>8 DEF LooseAfter, RowKinds
  <2>3. Changing = {}
    BY <1>8 DEF Changing
  <2>4. MemoryInv'
    BY <1>1, <1>3, <2>1, <2>2, <2>3 DEF CatalogInv, MemoryInv, MovedInv
  <2>5. LogInv'
    <3> SUFFICES ASSUME ~HasTorn(log), NEW n \in Name \ (loose \cup unlogged)
                 PROVE  LeadsTo(log, n, meta'.tables[n], acked.tables[n])
      BY <1>1, <2>1, <2>2 DEF LogInv
    <3>1. LeadsTo(log, n, meta.tables[n], acked.tables[n]) /\ mem.tables[n] = acked.tables[n]
      BY <1>1, <2>3 DEF CatalogInv, LogInv, MemoryInv, MovedInv
    <3> QED BY <1>1, <3>1, LeadsFromResult
  <2> QED BY <1>5, <2>4, <2>5 DEF CatalogInv
<1>9. CASE op.kind \in {"create", "drop"}
  <2>1. op.to = None
    BY <1>1, <1>9 DEF OpInv
  <2>2. Changing = {op.name}
    BY <1>1, <1>9, <2>1, NoneIsNoName DEF Changing, RowKinds
  <2>3. loose' = loose \ {op.name}
    BY <1>1, <1>9 DEF LooseAfter
  <2>4. /\ \A n \in Name : n # op.name => acked'.tables[n] = acked.tables[n]
        /\ acked'.tables[op.name] = mem.tables[op.name]
    <3>1. CASE op.kind = "create"
      <4>1. acked' = [acked EXCEPT !.tables[op.name] = mem.tables[op.name], !.rows[op.name] = {}]
        BY <1>1, <3>1 DEF Promise
      <4> QED BY <1>1, <1>4, <4>1 DEF Promises
    <3>2. CASE op.kind = "drop"
      <4>1. acked' = [acked EXCEPT !.tables[op.name] = 0, !.rows[op.name] = {}]
        BY <1>1, <3>2 DEF Promise
      <4>2. mem.tables[op.name] = 0
        BY <1>1, <3>2 DEF CatalogInv, MemoryInv, MovedInv
      <4> QED BY <1>1, <1>4, <4>1, <4>2 DEF Promises
    <3> QED BY <1>9, <3>1, <3>2
  <2>5. MemoryInv'
    BY <1>1, <1>3, <2>2, <2>3, <2>4 DEF CatalogInv, MemoryInv, MovedInv
  <2>6. Defines(last, op.name) /\ Gives(last) = mem.tables[op.name]
    <3>1. last.type = op.kind /\ last.name = op.name /\ (op.kind = "create" => last.tid = mem.tables[op.name])
      BY <1>6 DEF RecordOf
    <3>2. op.kind = "drop" => mem.tables[op.name] = 0
      BY <1>1 DEF CatalogInv, MemoryInv, MovedInv
    <3> HIDE DEF last
    <3> QED BY <1>9, <3>1, <3>2 DEF Defines, Gives
  <2>7. LogInv'
    <3> SUFFICES ASSUME ~HasTorn(log), NEW n \in Name \ (loose' \cup unlogged)
                 PROVE  LeadsTo(log, n, meta'.tables[n], acked'.tables[n])
      BY <1>1 DEF LogInv
    <3>1. CASE n = op.name
      <4>1. Len(log) \in 1..Len(log) /\ \A j \in (Len(log) + 1)..Len(log) : FALSE
        BY <1>7
      <4> QED BY <2>4, <2>6, <3>1, <4>1 DEF LeadsTo, LeadsBy
    <3>2. CASE n # op.name
      <4>1. LeadsTo(log, n, meta.tables[n], acked.tables[n]) /\ mem.tables[n] = acked.tables[n]
        BY <1>1, <2>2, <2>3, <3>2 DEF CatalogInv, LogInv, MemoryInv, MovedInv
      <4> QED BY <1>1, <2>4, <3>2, <4>1, LeadsFromResult
    <3> QED BY <3>1, <3>2
  <2> QED BY <1>5, <2>5, <2>7 DEF CatalogInv
<1>10. CASE op.kind = "rename"
  <2>1. /\ op.to \in Name \ {op.name} /\ mem.tables[op.name] = 0
        /\ op.name \notin loose => mem.tables[op.to] = acked.tables[op.name]
        /\ {op.name, op.to} \subseteq unlogged
    BY <1>1, <1>10 DEF OpInv, CatalogInv, MemoryInv, MovedInv
  <2>2. Changing = {op.name, op.to}
    BY <1>1, <1>10, <2>1, NoneIsNoName DEF Changing, RowKinds
  <2>3. loose' = (loose \ {op.name, op.to}) \cup (IF op.name \in loose THEN {op.to} ELSE {})
    BY <1>1, <1>10 DEF LooseAfter
  <2>4. \A n \in Name : acked'.tables[n] = IF n = op.name THEN 0 ELSE IF n = op.to THEN acked.tables[op.name]
                                           ELSE acked.tables[n]
    <3>1. acked' = [acked EXCEPT !.tables[op.to] = acked.tables[op.name], !.tables[op.name] = 0,
                                 !.rows[op.to] = acked.rows[op.name], !.rows[op.name] = {}]
      BY <1>1, <1>10 DEF Promise
    <3> QED BY <1>1, <1>4, <2>1, <3>1 DEF Promises
  <2>5. MemoryInv'
    <3> SUFFICES ASSUME NEW n \in Name \ loose' PROVE mem.tables[n] = acked'.tables[n]
      BY <1>1, <1>3 DEF MemoryInv, MovedInv
    <3>1. CASE n \in {op.name, op.to}
      BY <2>1, <2>3, <2>4, <3>1
    <3>2. CASE n \notin {op.name, op.to}
      <4>1. mem.tables[n] = acked.tables[n]
        BY <1>1, <2>2, <2>3, <3>2 DEF CatalogInv, MemoryInv, MovedInv
      <4> QED BY <2>4, <3>2, <4>1
    <3> QED BY <3>1, <3>2
  <2>6. LogInv'
    <3> SUFFICES ASSUME ~HasTorn(log), NEW n \in Name \ (loose' \cup unlogged)
                 PROVE  LeadsTo(log, n, meta'.tables[n], acked'.tables[n])
      BY <1>1 DEF LogInv
    <3>1. n \notin {op.name, op.to} /\ n \notin loose
      BY <2>1, <2>3
    <3>2. LeadsTo(log, n, meta.tables[n], acked.tables[n]) /\ mem.tables[n] = acked.tables[n]
      BY <1>1, <2>2, <3>1 DEF CatalogInv, LogInv, MemoryInv, MovedInv
    <3> QED BY <1>1, <2>4, <3>1, <3>2, LeadsFromResult
  <2> QED BY <1>5, <2>5, <2>6 DEF CatalogInv
<1> QED BY <1>1, <1>8, <1>9, <1>10 DEF Statements

\* Saving the metadata and the steps that empty the log.
LEMMA SavingKeeps ==
    ASSUME TypeInv, OpInv, CatalogInv,
           \/ \E skip \in BOOLEAN : SetSkipSave(skip)
           \/ ForceSave \/ Checkpoint \/ CheckpointRecord \/ EmptyLog \/ Close \/ Recovered
    PROVE  CatalogInv'
<1>1. /\ up /\ up' /\ UNCHANGED <<mem, acked, loose>> /\ ~InStatement
  <2>1. up /\ up' = up /\ UNCHANGED <<mem, acked, loose>>
    BY DEF SetSkipSave, ForceSave, Checkpoint, CheckpointRecord, EmptyLog, Close, Recovered, Ready, Running
  <2>2. Ready \/ op.at \in {"record", "empty", "closing", "done"}
    BY DEF SetSkipSave, ForceSave, Checkpoint, CheckpointRecord, EmptyLog, Close, Recovered, Running
  <2> QED BY <2>1, <2>2, NothingChanging
<1>2. ~InStatement'
  <2>1. CASE \E skip \in BOOLEAN : SetSkipSave(skip)
    BY <1>1, <2>1 DEF SetSkipSave, InStatement, Unwritten
  <2>2. CASE ForceSave \/ Checkpoint \/ CheckpointRecord \/ EmptyLog \/ Close \/ Recovered
    <3>1. op \in Operation
      BY DEF TypeInv
    <3>2. op'.at \in {"empty", "record", "closing", "start"}
      <4>1. CASE CheckpointRecord
        BY <3>1, <4>1 DEF CheckpointRecord, Goto, Operation
      <4>2. CASE EmptyLog \/ Recovered
        BY <4>2 DEF EmptyLog, Recovered, Idle
      <4>3. CASE ForceSave \/ Checkpoint \/ Close
        BY <4>3 DEF ForceSave, Checkpoint, Close, Idle
      <4> QED BY <2>2, <4>1, <4>2, <4>3
    <3> QED BY <3>2 DEF InStatement, Unwritten
  <2> QED BY <2>1, <2>2
<1>3. Changing = {} /\ Changing' = {}
  BY <1>1, <1>2 DEF Changing
<1>4. MemoryInv'
  BY <1>1, <1>2, <1>3 DEF CatalogInv, MemoryInv, MovedInv
<1>5. DownInv'
  BY <1>1 DEF DownInv
<1>6. LogInv'
  <2> SUFFICES ASSUME ~HasTorn(log'), NEW n \in Name \ (loose \cup unlogged')
               PROVE  LeadsTo(log', n, meta'.tables[n], acked.tables[n])
    BY <1>1 DEF LogInv
  <2>1. mem.tables[n] = acked.tables[n]
    BY <1>1, <1>3 DEF CatalogInv, MemoryInv, MovedInv
  <2>2. CASE EmptyLog
    <3>1. log' = << >> /\ meta' = meta /\ unlogged' = Unsaved
      BY <2>2 DEF EmptyLog
    <3>2. meta.tables[n] = acked.tables[n]
      BY <3>1 DEF Unsaved
    <3>3. Len(log') = 0
      BY <3>1
    <3>4. \A i \in 1..Len(log') : FALSE
      BY <3>3
    <3> QED BY <3>1, <3>2, <3>4 DEF LeadsTo, LeadsBy
  <2>3. CASE CheckpointRecord
    <3> DEFINE rec == Record("checkpoint", 0, None, NoRow)
    <3>1. log' = Append(log, rec) /\ UNCHANGED <<meta, unlogged>>
      BY <2>3 DEF CheckpointRecord
    <3>2. ~Defines(rec, n)
      BY DEF Record, Defines
    <3>3. log \in Seq(Entry)
      BY DEF TypeInv
    <3> HIDE DEF rec
    <3>4. ~HasTorn(log)
      BY <3>1, <3>3, LogAppended
    <3>5. LeadsTo(log, n, meta.tables[n], acked.tables[n])
      BY <1>3, <3>1, <3>4 DEF CatalogInv, LogInv
    <3> QED BY <3>1, <3>2, <3>3, <3>5, LogAppended
  <2>4. CASE (\E skip \in BOOLEAN : SetSkipSave(skip)) \/ ForceSave \/ Checkpoint \/ Close \/ Recovered
    <3>1. UNCHANGED <<log, unlogged>> /\ meta' \in {meta, mem}
      BY <2>4 DEF SetSkipSave, ForceSave, Checkpoint, Close, Recovered, Saved, disk
    <3>2. LeadsTo(log, n, meta.tables[n], acked.tables[n])
      BY <1>3, <3>1 DEF CatalogInv, LogInv
    <3> QED BY <2>1, <3>1, <3>2, LeadsFromResult
  <2> QED BY <2>2, <2>3, <2>4
<1> QED BY <1>4, <1>5, <1>6 DEF CatalogInv
\* Stopping and dying: what only the log had is no longer promised where the log will not be read.
LEMMA StoppingKeeps == ASSUME TypeInv, OpInv, CatalogInv, CloseEnds \/ Crash PROVE CatalogInv'
<1>1. up' = FALSE /\ op' = Idle /\ UNCHANGED <<meta, acked>> /\ loose \subseteq loose' /\ unlogged' \subseteq loose'
  BY DEF CloseEnds, Crash, Down, CrashLoses
<1>2. op'.at = "start"
  BY <1>1 DEF Idle
<1>3. ~InStatement' /\ Changing' = {}
  BY <1>2 DEF InStatement, Unwritten, Changing
<1>4. MemoryInv'
  BY <1>1 DEF MemoryInv, MovedInv
<1>5. CASE CloseEnds
  <2>1. log' = << >> /\ Unsaved \subseteq loose'
    BY <1>5 DEF CloseEnds
  <2>2. Len(log') = 0
    BY <2>1
  <2>3. \A i \in 1..Len(log') : FALSE
    BY <2>2
  <2>4. \A n \in Name \ loose' : meta.tables[n] = acked.tables[n]
    BY <2>1 DEF Unsaved
  <2>5. ~ \E i \in 1..(Len(log') - 1) : IsTorn(log'[i])
    BY <2>2
  <2>6. DownInv'
    BY <1>1, <2>4, <2>5 DEF DownInv
  <2>7. LogInv'
    BY <1>1, <2>3, <2>4 DEF LogInv, LeadsTo, LeadsBy
  <2> QED BY <1>4, <2>6, <2>7 DEF CatalogInv
<1>6. CASE Crash
  <2>1. /\ log' = log \/ log' = Append(log, Torn)
        /\ loose' = loose \cup CrashLoses(log') /\ unlogged' = unlogged
    BY <1>6 DEF Crash
  <2>2. HasTorn(log') \/ meta = NoMeta => Unsaved \subseteq loose'
    BY <2>1 DEF CrashLoses, HasTorn
  <2>3. \A n \in Name \ Unsaved : meta.tables[n] = acked.tables[n]
    BY DEF Unsaved
  <2>4. log' \in Seq(Entry)
    BY <2>1, TornTyped DEF TypeInv
  <2>5. ASSUME \E i \in 1..(Len(log') - 1) : IsTorn(log'[i]) PROVE loose' = Name
    <3>1. PICK i \in 1..(Len(log') - 1) : IsTorn(log'[i])
      BY <2>5
    <3>2. i \in 1..Len(log') /\ i < Len(log')
      BY <2>4
    <3>3. Name \subseteq CrashLoses(log')
      BY <3>1, <3>2 DEF CrashLoses
    <3>4. TypeInv'
      BY <1>6, StoppingOK
    <3> QED BY <2>1, <3>3, <3>4 DEF TypeInv
  <2>6. DownInv'
    BY <1>1, <2>2, <2>3, <2>5 DEF DownInv
  <2>7. LogInv'
    <3> SUFFICES ASSUME ~HasTorn(log'), NEW n \in Name \ loose'
                 PROVE  LeadsTo(log', n, meta.tables[n], acked.tables[n])
      BY <1>1 DEF LogInv
    <3>1. log' = log
      <4>1. IsTorn(Torn)
        BY DEF IsTorn, Torn, Record
      <4> QED BY <2>1, <4>1, LogAppended DEF TypeInv
    <3>2. Changing \subseteq loose' /\ unlogged \subseteq loose'
      BY <1>1, <2>1 DEF CrashLoses, Changing
    <3> QED BY <1>1, <3>1, <3>2 DEF CatalogInv, LogInv
  <2> QED BY <1>4, <2>6, <2>7 DEF CatalogInv
<1> QED BY <1>5, <1>6

\* Starting: the tables that are read and replayed are those promised.
LEMMA StartingRestores == ASSUME TypeInv, OpInv, CatalogInv, Recover PROVE CatalogInv'
<1>1. /\ ~up /\ up' = TRUE /\ mem' \in Recoverable /\ UNCHANGED <<meta, log, acked, loose, unlogged>>
      /\ op'.at = "done"
  BY DEF Recover, disk, Idle
<1>2. ~InStatement' /\ Changing' = {}
  BY <1>1 DEF InStatement, Unwritten, Changing
<1>3. op = Idle
  BY <1>1 DEF OpInv
<1>4. Changing = {}
  BY <1>3, NothingChanging
<1>5. unlogged \subseteq loose
  BY <1>1 DEF CatalogInv, DownInv
<1>6. ASSUME NEW n \in Name \ loose PROVE mem'.tables[n] = acked.tables[n]
  <2>1. HasTorn(log) \/ meta = NoMeta => meta.tables[n] = acked.tables[n]
    BY <1>1 DEF CatalogInv, DownInv
  <2>2. CASE meta = NoMeta
    <3>1. mem' = EmptyCatalog
      BY <1>1, <2>2 DEF Recoverable
    <3>2. meta.tables = EmptyCatalog.tables
      BY <2>2 DEF NoMeta, EmptyCatalog
    <3> QED BY <2>1, <2>2, <3>1, <3>2
  <2>3. CASE meta # NoMeta
    <3>1. PICK l \in Readable(log) : mem' \in Replayed(l, meta)
      BY <1>1, <2>3 DEF Recoverable
    <3>2. log \in Seq(Entry) /\ meta \in State
      BY DEF TypeInv
    <3>3. /\ l \in Seq(Entry)
          /\ ~HasTorn(log) => l = log
          /\ HasTorn(log) => l = << >> \/ \E i \in 1..(Len(log) - 1) : IsTorn(log[i])
      BY <3>2, ReadableTyped
    <3>4. CASE ~HasTorn(log)
      <4>1. LeadsTo(log, n, meta.tables[n], acked.tables[n])
        BY <1>4, <1>5, <3>4 DEF CatalogInv, LogInv
      <4>2. LeadsTo(log, n, meta.tables[n], mem'.tables[n])
        BY <3>1, <3>2, <3>3, <3>4, ReplayedTyped
      <4> QED BY <3>2, <4>1, <4>2, LeadsToOne
    <3>5. CASE HasTorn(log) /\ l = << >>
      <4>1. mem' = meta
        BY <3>1, <3>5, ReplayedNothing
      <4> QED BY <2>1, <3>5, <4>1
    <3>6. CASE \E i \in 1..(Len(log) - 1) : IsTorn(log[i])
      BY <1>1, <3>6 DEF CatalogInv, DownInv
    <3> QED BY <3>3, <3>4, <3>5, <3>6
  <2> QED BY <2>2, <2>3
<1>7. MemoryInv'
  BY <1>1, <1>2, <1>6 DEF MemoryInv, MovedInv
<1>8. LogInv'
  BY <1>1, <1>2, <1>4 DEF CatalogInv, LogInv
<1>9. DownInv'
  BY <1>1 DEF DownInv
<1> QED BY <1>7, <1>8, <1>9 DEF CatalogInv

LEMMA CatalogBegins == Init => CatalogInv
<1> SUFFICES ASSUME Init PROVE CatalogInv
  OBVIOUS
<1>1. up /\ op = Idle /\ acked.tables = mem.tables
  BY DEF Init
<1>2. MemoryInv
  BY <1>1, NothingChanging DEF MemoryInv, MovedInv
<1>3. DownInv
  BY <1>1 DEF DownInv
<1>4. meta.tables = mem.tables
  BY DEF Init, NoMeta, EmptyCatalog
<1>5. \A i \in 1..Len(log) : log[i].type \notin {"create", "drop"}
  <2>1. CASE log = << >>
    <3>1. Len(log) = 0
      BY <2>1
    <3> QED BY <3>1
  <2>2. CASE \E n \in Name : log = <<Record("insert", 1, n, V1Row)>>
    <3>1. PICK n \in Name : log = <<Record("insert", 1, n, V1Row)>>
      BY <2>2
    <3>2. Len(log) = 1 /\ log[1].type = "insert"
      BY <3>1 DEF Record
    <3>3. \A i \in 1..Len(log) : i = 1
      BY <3>2
    <3> QED BY <3>2, <3>3
  <2> QED BY <2>1, <2>2 DEF Init
<1>6. LogInv
  BY <1>1, <1>4, <1>5 DEF LogInv, LeadsTo, LeadsBy, Defines
<1> QED BY <1>2, <1>3, <1>6 DEF CatalogInv

\* The tables in memory are those promised, and the log leads to them from the metadata file.
LEMMA CatalogInvariant == Spec => []CatalogInv
<1>1. ShapeInv /\ CatalogInv /\ [Next]_vars => CatalogInv'
  <2> SUFFICES ASSUME TypeInv, OpInv, CatalogInv, [Next]_vars PROVE CatalogInv'
    BY DEF ShapeInv
  <2>1. CASE UNCHANGED vars
    <3>1. MemoryInv'
      BY <2>1 DEF vars, CatalogInv, MemoryInv, MovedInv, Changing, InStatement, Unwritten
    <3>2. LogInv'
      BY <2>1 DEF vars, CatalogInv, LogInv, Changing, InStatement, Unwritten
    <3>3. DownInv'
      BY <2>1 DEF vars, CatalogInv, DownInv
    <3> QED BY <3>1, <3>2, <3>3 DEF CatalogInv
  <2>2. ASSUME NEW n \in Name,
               \/ CreateTable(n) \/ DropTable(n) \/ TruncateOpen(n) \/ TruncateTable(n)
               \/ InsertRowV2(n) \/ InsertRowV1(n) \/ GetRows(n)
        PROVE  CatalogInv'
    BY <2>2, StatementBegins
  <2>3. ASSUME NEW n \in Name, NEW k \in Keys, UpdateRows(n, k) \/ DeleteRows(n, k) PROVE CatalogInv'
    BY <2>3, StatementBegins DEF UpdateRows, DeleteRows
  <2>4. CASE MakeFile \/ WriteHeader \/ CreateFileFails \/ WriteWAL \/ WriteWALFails \/ Finish \/ SaveFails
    BY <2>4, StatementGoesOn, StatementEnds, Zenon
  <2>5. CASE \/ \E skip \in BOOLEAN : SetSkipSave(skip)
             \/ ForceSave \/ Checkpoint \/ CheckpointRecord \/ EmptyLog \/ Close \/ Recovered
             \/ CloseEnds \/ Crash \/ Recover
    BY <2>5, SavingKeeps, StoppingKeeps, StartingRestores, Zenon
  <2>6. ASSUME NEW o \in Name, NEW n \in Name, RenameTable(o, n) PROVE CatalogInv'
    BY <2>6, RenameBegins
  <2> QED BY <2>1, <2>2, <2>3, <2>4, <2>5, <2>6, Zenon DEF Next
<1>2. Init => CatalogInv
  BY CatalogBegins
<1> QED BY <1>1, <1>2, ShapeInvariant, PTL DEF Spec

\* After a restart the catalog has exactly the tables that CREATE, DROP and RENAME acknowledged.
THEOREM CatalogIsRestored == Spec => []CatalogSurvives
<1>1. ShapeInv /\ CatalogInv => CatalogSurvives
  <2> SUFFICES ASSUME OpInv, CatalogInv, Restarted, NEW n \in Name \ loose
               PROVE  mem.tables[n] = acked.tables[n]
    BY DEF CatalogSurvives, ShapeInv
  <2>1. up /\ op.at = "done"
    BY DEF Restarted, Running
  <2>2. Changing = {}
    BY <2>1, NothingChanging
  <2> QED BY <2>1, <2>2 DEF CatalogInv, MemoryInv, MovedInv
<1> QED BY <1>1, ShapeInvariant, CatalogInvariant, PTL
----------------------------------------------------------------------------
(* The rows of the tables follow their names.                               *)

\* The empty sequence of rows.
LEMMA NoRows == /\ \A top : Keyed(<< >>, top)
                /\ \A s : s = << >> => {[key |-> s[i].key, val |-> s[i].val] : i \in 1..Len(s)} = {}
<1>1. Len(<< >>) = 0
  OBVIOUS
<1>2. \A i \in 1..0 : FALSE
  OBVIOUS
<1> QED BY <1>1, <1>2 DEF Keyed

\* More keys.
LEMMA KeyedMore ==
    ASSUME NEW s \in Seq(Row), NEW top \in Nat, NEW more \in Nat, Keyed(s, top), top <= more
    PROVE  Keyed(s, more)
<1>1. \A i \in 1..Len(s) : s[i].key \in Nat
  <2>1. \A i \in 1..Len(s) : s[i] \in Row
    OBVIOUS
  <2> QED BY <2>1 DEF Row
<1> QED BY <1>1 DEF Keyed

LEMMA RegularMore ==
    ASSUME NEW c \in State, NEW top \in Nat, NEW more \in Nat, Regular(c, top), top <= more
    PROVE  Regular(c, more)
  BY KeyedMore, StateFields DEF Regular

\* What is known between statements, in this state and in the next.
LEMMA ExpectedIdle ==
    ASSUME OpInv, ~InStatement
    PROVE  LooseAfter = loose /\ \A n : Expected(n) = acked.rows[n]
<1>1. op.kind \notin {"create", "drop", "rename"}
  BY DEF OpInv, Idle
<1> QED BY <1>1 DEF LooseAfter, Expected, InStatement

LEMMA ExpectedIdleNext ==
    ASSUME OpInv', ~InStatement'
    PROVE  LooseAfter' = loose' /\ \A n : Expected(n)' = acked'.rows[n]
<1>1. op'.kind \notin {"create", "drop", "rename"}
  BY DEF OpInv, Idle
<1> QED BY <1>1 DEF LooseAfter, Expected, InStatement

\* Names that the operation in progress is not about.
LEMMA ExpectedElsewhere ==
    ASSUME TypeInv, OpInv, NEW n \in Name, n \notin {op.name, op.to}
    PROVE  Expected(n) = acked.rows[n] /\ (n \in LooseAfter <=> n \in loose)
<1>1. CASE ~InStatement
  BY <1>1, ExpectedIdle
<1>2. CASE InStatement
  <2>1. op.name \in Name /\ op.kind \in Statements /\ (op.kind = "rename" => op.to \in Name) /\ acked \in Promises
    BY <1>2 DEF OpInv, TypeInv
  <2>2. Promise.rows[n] = acked.rows[n]
    BY <2>1 DEF Promise, Promises, Statements, RowKinds
  <2>3. n \in LooseAfter <=> n \in loose
    BY DEF LooseAfter
  <2> QED BY <2>2, <2>3 DEF Expected
<1> QED BY <1>1, <1>2

LEMMA ExpectedElsewhereNext ==
    ASSUME TypeInv', OpInv', NEW n \in Name, n \notin {op'.name, op'.to}
    PROVE  Expected(n)' = acked'.rows[n] /\ (n \in LooseAfter' <=> n \in loose')
<1>1. CASE ~InStatement'
  BY <1>1, ExpectedIdleNext
<1>2. CASE InStatement'
  <2>1. op'.name \in Name /\ op'.kind \in Statements /\ (op'.kind = "rename" => op'.to \in Name) /\ acked' \in Promises
    BY <1>2 DEF OpInv, TypeInv
  <2>2. Promise'.rows[n] = acked'.rows[n]
    BY <2>1 DEF Promise, Promises, Statements, RowKinds
  <2>3. n \in LooseAfter' <=> n \in loose'
    BY DEF LooseAfter
  <2> QED BY <2>2, <2>3 DEF Expected
<1> QED BY <1>1, <1>2

\* A table that the step leaves alone.
LEMMA ShowsKept ==
    ASSUME NEW n \in Name, Shows(n), UNCHANGED meta, dir'[n] = dir[n], n \in open' <=> n \in open,
           mem'.tables[n] = mem.tables[n], mem'.rows[n] = mem.rows[n], Expected(n)' = Expected(n)
    PROVE  Shows(n)'
<1>1. Visible(n)' = Visible(n)
  BY DEF Visible, V1Rows
<1>2. FileOnly(n)'
  BY DEF Shows, FileOnly
<1> QED BY <1>1, <1>2 DEF Shows

\* A new table has no rows.
LEMMA CreateKeepsRows ==
    ASSUME TypeInv, OpInv, TypeInv', OpInv', RowsInv, NEW n \in Name, CreateTable(n)
    PROVE  RowsInv'
<1>1. /\ up /\ Ready /\ up' = up /\ UNCHANGED <<meta, dir, open, acked, crashes, keys>> /\ mem.tables[n] = 0
      /\ mem' = [mem EXCEPT !.tables[n] = mem.nextID, !.nextID = @ + 1]
  BY DEF CreateTable, Ready, disk, bounds, Exists
<1> SUFFICES ASSUME crashes = 0 PROVE Regular(mem', keys) /\ UpInv' /\ StatementInv'
  BY <1>1 DEF RowsInv
<1>2. Regular(meta, keys) /\ Regular(mem, keys) /\ UpInv
  BY <1>1 DEF RowsInv
<1>3. op = Idle /\ ~InStatement
  BY <1>1, NothingChanging
<1>4. LooseAfter = loose /\ \A m : Expected(m) = acked.rows[m]
  BY <1>3, ExpectedIdle
<1>5. /\ mem \in State /\ mem' \in State /\ mem.nextID \in Nat /\ mem'.nextID = mem.nextID + 1
      /\ \A m \in Name : /\ mem'.tables[m] = IF m = n THEN mem.nextID ELSE mem.tables[m]
                         /\ mem'.rows[m] = mem.rows[m] /\ mem.tables[m] \in Nat
      /\ meta.nextID \in Nat
  <2>1. mem \in State /\ mem' \in State /\ meta \in State
    BY DEF TypeInv
  <2> QED BY <1>1, <2>1 DEF State
<1>6. mem.rows[n] = << >> /\ mem.nextID # 0 /\ meta.nextID <= mem.nextID
  BY <1>1, <1>2 DEF Regular, UpInv
<1>7. Regular(mem', keys)
  BY <1>2, <1>5, <1>6 DEF Regular
<1>8. CASE dir[n] # NoFile
  <2>1. op' = Idle /\ loose' = loose \cup {n}
    BY <1>8 DEF CreateTable
  <2>2. op'.at = "start"
    BY <2>1 DEF Idle
  <2>3. ~InStatement' /\ ~Unwritten' /\ StatementInv'
    BY <2>2 DEF InStatement, Unwritten, StatementInv
  <2>4. LooseAfter' = loose' /\ \A m : Expected(m)' = acked'.rows[m]
    BY <2>3, ExpectedIdleNext
  <2>5. ASSUME NEW m \in Name \ loose' PROVE Shows(m)'
    <3>1. Shows(m) /\ m # n
      BY <1>2, <1>4, <2>1, <2>5 DEF UpInv
    <3> QED BY <1>1, <1>4, <1>5, <2>4, <3>1, ShowsKept
  <2> QED BY <1>1, <1>5, <1>6, <1>7, <2>3, <2>4, <2>5 DEF UpInv
<1>9. CASE dir[n] = NoFile
  <2>1. /\ op' = NewOp("create", n, None, "makefile", << >>, <<Record("create", mem.nextID, n, NoRow)>>)
        /\ loose' = loose
    BY <1>9 DEF CreateTable
  <2>2. op'.kind = "create" /\ op'.at = "makefile" /\ op'.name = n /\ op'.to = None /\ Len(op'.todo) = 1
    BY <2>1 DEF NewOp
  <2>3. dir[n].state = "none" /\ n \notin open
    BY <1>9 DEF NoFile, TypeInv
  <2>4. StatementInv'
    BY <1>1, <1>5, <1>6, <2>2, <2>3 DEF StatementInv, InStatement, Unwritten
  <2>5. LooseAfter' = loose \ {n}
    BY <2>1, <2>2 DEF LooseAfter
  <2>6. Shows(n)'
    <3>1. Expected(n)' = {}
      <4>1. acked \in Promises
        BY DEF TypeInv
      <4>2. Promise' = [acked' EXCEPT !.tables[n] = mem'.tables[n], !.rows[n] = {}]
        BY <2>2 DEF Promise
      <4>3. Promise'.rows[n] = {}
        BY <1>1, <4>1, <4>2 DEF Promises
      <4> QED BY <2>2, <4>3 DEF Expected, InStatement, Unwritten
    <3>2. Visible(n)' = {}
      BY <1>1, <1>5, <1>6, <2>3, NoRows DEF Visible, V1Rows
    <3> QED BY <1>1, <2>3, <3>1, <3>2 DEF Shows, FileOnly
  <2>7. ASSUME NEW m \in Name \ loose, m # n PROVE Shows(m)'
    <3>1. Shows(m)
      BY <1>2, <1>4, <2>7 DEF UpInv
    <3>2. Expected(m)' = acked.rows[m]
      BY <1>1, <2>2, <2>7, NoneIsNoName, ExpectedElsewhereNext
    <3> QED BY <1>1, <1>4, <1>5, <2>7, <3>1, <3>2, ShowsKept
  <2> QED BY <1>1, <1>5, <1>6, <1>7, <2>4, <2>5, <2>6, <2>7 DEF UpInv
<1> QED BY <1>8, <1>9

\* A dropped table has none.
LEMMA DropKeepsRows ==
    ASSUME TypeInv, OpInv, TypeInv', OpInv', RowsInv, NEW n \in Name, DropTable(n)
    PROVE  RowsInv'
<1>1. /\ up /\ Ready /\ up' = up /\ UNCHANGED <<meta, dir, open, acked, loose, crashes, keys>>
      /\ mem' = SetTable(mem, n, 0)
  BY DEF DropTable, Ready, disk, bounds
<1> SUFFICES ASSUME crashes = 0 PROVE Regular(mem', keys) /\ UpInv' /\ StatementInv'
  BY <1>1 DEF RowsInv
<1>2. Regular(meta, keys) /\ Regular(mem, keys) /\ UpInv
  BY <1>1 DEF RowsInv
<1>3. op = Idle /\ ~InStatement
  BY <1>1, NothingChanging
<1>4. LooseAfter = loose /\ \A m : Expected(m) = acked.rows[m]
  BY <1>3, ExpectedIdle
<1>5. /\ mem'.nextID = mem.nextID
      /\ \A m \in Name : /\ mem'.tables[m] = IF m = n THEN 0 ELSE mem.tables[m]
                         /\ mem'.rows[m] = IF m = n THEN << >> ELSE mem.rows[m]
  BY <1>1, SetTableTyped DEF TypeInv
<1>6. Regular(mem', keys)
  BY <1>2, <1>5, NoRows DEF Regular
<1>7. op'.kind = "drop" /\ op'.at = "wal" /\ op'.name = n /\ op'.to = None /\ Len(op'.todo) = 1
  BY DEF NewOp, DropTable
<1>8. StatementInv'
  BY <1>7 DEF StatementInv, InStatement, Unwritten
<1>9. LooseAfter' = loose \ {n}
  BY <1>1, <1>7 DEF LooseAfter
<1>10. Shows(n)'
  BY <1>1, <1>2, <1>5 DEF Shows, FileOnly, Regular
<1>11. ASSUME NEW m \in Name \ loose, m # n PROVE Shows(m)'
  <2>1. Shows(m)
    BY <1>2, <1>4, <1>11 DEF UpInv
  <2>2. Expected(m)' = acked.rows[m]
    BY <1>1, <1>7, <1>11, NoneIsNoName, ExpectedElsewhereNext
  <2> QED BY <1>1, <1>4, <1>5, <1>11, <2>1, <2>2, ShowsKept
<1> QED BY <1>1, <1>2, <1>5, <1>6, <1>8, <1>9, <1>10, <1>11 DEF UpInv

\* A renamed table takes its rows along: in its file, if that is open, or in memory.
LEMMA RenameKeepsRows ==
    ASSUME TypeInv, OpInv, TypeInv', OpInv', RowsInv, NEW o \in Name, NEW n \in Name, RenameTable(o, n)
    PROVE  RowsInv'
<1>1. /\ up /\ Ready /\ up' = up /\ UNCHANGED <<meta, acked, crashes, keys>> /\ mem.tables[o] # 0 /\ mem.tables[n] = 0
      /\ mem' = Renamed(o, n)
  BY DEF RenameTable, Ready, bounds, Exists
<1> SUFFICES ASSUME crashes = 0 PROVE Regular(mem', keys) /\ UpInv' /\ StatementInv'
  BY <1>1 DEF RowsInv
<1>2. Regular(meta, keys) /\ Regular(mem, keys) /\ UpInv
  BY <1>1 DEF RowsInv
<1>3. op = Idle /\ ~InStatement
  BY <1>1, NothingChanging
<1>4. LooseAfter = loose /\ \A m : Expected(m) = acked.rows[m]
  BY <1>3, ExpectedIdle
<1>5. /\ mem'.nextID = mem.nextID /\ o # n
      /\ \A m \in Name : /\ mem'.tables[m] = IF m = n THEN mem.tables[o] ELSE IF m = o THEN 0 ELSE mem.tables[m]
                         /\ mem'.rows[m] = IF m = n THEN mem.rows[o] ELSE IF m = o THEN << >> ELSE mem.rows[m]
  BY <1>1, RenamedTyped DEF TypeInv
<1>6. Regular(mem', keys)
  BY <1>1, <1>2, <1>5, NoRows DEF Regular
<1>7. op'.kind = "rename" /\ op'.at = "wal" /\ op'.name = o /\ op'.to = n /\ Len(op'.todo) = 1
  BY DEF NewOp, RenameTable
<1>8. StatementInv'
  BY <1>7 DEF StatementInv, InStatement, Unwritten
<1>9. LooseAfter' = (loose' \ {o, n}) \cup (IF o \in loose' THEN {n} ELSE {})
  BY <1>7 DEF LooseAfter
<1>10. Shows(o)'
  BY <1>1, <1>2, <1>5 DEF Shows, FileOnly, Regular
<1>11. ASSUME o \notin loose' PROVE Shows(n)'
  <2>1. o \notin loose /\ (o \in open \/ (dir[o] = NoFile /\ dir[n] = NoFile /\ UNCHANGED <<open, dir>>))
    BY <1>11 DEF RenameTable
  <2>2. FileOnly(o) /\ Visible(o) = acked.rows[o]
    BY <1>1, <1>2, <1>4, <2>1 DEF UpInv, Shows
  <2>3. Expected(n)' = acked.rows[o]
    <3>1. Promise' = [acked' EXCEPT !.tables[n] = acked'.tables[o], !.tables[o] = 0,
                                    !.rows[n] = acked'.rows[o], !.rows[o] = {}]
      BY <1>7 DEF Promise
    <3>2. acked \in Promises
      BY DEF TypeInv
    <3>3. Promise'.rows[n] = acked.rows[o]
      BY <1>1, <1>5, <3>1, <3>2 DEF Promises
    <3> QED BY <1>7, <3>3 DEF Expected, InStatement, Unwritten
  <2>4. CASE o \in open
    <3>1. dir[o].state = "ok" /\ dir \in [Name -> TableFile]
      BY <2>4 DEF TypeInv
    <3>2. n \in open' /\ dir'[n] = dir[o]
      BY <1>5, <2>4, <3>1 DEF RenameTable
    <3>3. FileOnly(n)'
      BY <1>1, <1>5, <2>2, <3>1 DEF FileOnly
    <3>4. Visible(n)' = Visible(o)
      BY <2>4, <3>2 DEF Visible
    <3> QED BY <2>2, <2>3, <3>3, <3>4 DEF Shows
  <2>5. CASE dir[o] = NoFile /\ dir[n] = NoFile /\ UNCHANGED <<open, dir>>
    <3>1. dir[o].state # "ok" /\ dir[n].state # "ok" /\ o \notin open /\ n \notin open
      BY <2>5 DEF NoFile, TypeInv
    <3>2. FileOnly(n)'
      BY <2>5, <3>1 DEF FileOnly
    <3>3. Visible(n)' = Visible(o)
      BY <1>5, <2>5, <3>1 DEF Visible, V1Rows
    <3> QED BY <2>2, <2>3, <3>2, <3>3 DEF Shows
  <2> QED BY <2>1, <2>4, <2>5
<1>12. ASSUME NEW m \in Name \ loose', m # n, m # o PROVE Shows(m)'
  <2>1. m \notin loose
    BY <1>12 DEF RenameTable
  <2>2. Shows(m)
    BY <1>2, <1>4, <2>1 DEF UpInv
  <2>3. Expected(m)' = acked.rows[m]
    BY <1>1, <1>7, <1>12, NoneIsNoName, ExpectedElsewhereNext
  <2>4. dir'[m] = dir[m] /\ (m \in open' <=> m \in open)
    BY <1>12 DEF RenameTable, TypeInv
  <2> QED BY <1>1, <1>4, <1>5, <1>12, <2>2, <2>3, <2>4, ShowsKept
<1> QED BY <1>1, <1>2, <1>5, <1>6, <1>8, <1>9, <1>10, <1>11, <1>12 DEF UpInv
\* A sequence with one position.
LEMMA OneAlone ==
    ASSUME NEW s \in Seq(Nat), s # << >>, \A i, j \in 1..Len(s) : i = j
    PROVE  Len(s) = 1
<1>1. Len(s) \in Nat /\ Len(s) # 0
  OBVIOUS
<1>2. 1 \in 1..Len(s) /\ Len(s) \in 1..Len(s)
  BY <1>1
<1> QED BY <1>2

\* Opening a file changes nothing; Clear empties the file and the promise.
LEMMA OpenKeepsRows ==
    ASSUME TypeInv, OpInv, TypeInv', OpInv', RowsInv, NEW n \in Name, TruncateOpen(n) \/ GetRows(n)
    PROVE  RowsInv'
<1>1. up /\ Ready /\ up' = up /\ UNCHANGED <<meta, mem, op, loose, crashes, keys>>
  BY DEF TruncateOpen, GetRows, Ready, disk, bounds
<1> SUFFICES ASSUME crashes = 0 PROVE UpInv' /\ StatementInv'
  BY <1>1 DEF RowsInv
<1>2. UpInv
  BY <1>1 DEF RowsInv
<1>3. op = Idle /\ ~InStatement
  BY <1>1, NothingChanging
<1>4. op.at = "start"
  BY <1>3 DEF Idle
<1>5. ~InStatement' /\ StatementInv'
  BY <1>1, <1>4 DEF InStatement, Unwritten, StatementInv
<1>6. LooseAfter = loose /\ \A m : Expected(m) = acked.rows[m]
  BY <1>3, ExpectedIdle
<1>7. LooseAfter' = loose' /\ \A m : Expected(m)' = acked'.rows[m]
  BY <1>5, ExpectedIdleNext
<1>8. ASSUME NEW m \in Name \ loose PROVE Shows(m)'
  <2>1. Shows(m)
    BY <1>2, <1>6 DEF UpInv
  <2>2. dir \in [Name -> TableFile] /\ acked \in Promises /\ (m \in open => dir[m].state = "ok")
    BY DEF TypeInv
  <2>3. CASE GetRows(n)
    <3>1. UNCHANGED <<dir, acked>> /\ open' = open \cup {n} /\ dir[n].state = "ok"
      BY <2>3 DEF GetRows, disk
    <3>2. Visible(m)' = Visible(m)
      BY <1>1, <2>2, <3>1 DEF Visible, V1Rows
    <3> QED BY <1>1, <1>6, <1>7, <2>1, <3>1, <3>2 DEF Shows, FileOnly
  <2>4. CASE TruncateOpen(n) /\ m # n
    <3>1. dir'[m] = dir[m] /\ acked'.rows[m] = acked.rows[m] /\ open' = open
      BY <2>2, <2>4 DEF TruncateOpen, Promises
    <3> QED BY <1>1, <1>6, <1>7, <2>1, <3>1, ShowsKept
  <2>5. CASE TruncateOpen(n) /\ m = n
    <3>1. n \in open /\ open' = open /\ dir'[n].rows = {} /\ dir[n].state = "ok" /\ acked'.rows[n] = {}
      BY <2>2, <2>5 DEF TruncateOpen, Promises, TableFile
    <3>2. Visible(n)' = {}
      BY <3>1 DEF Visible
    <3> QED BY <1>1, <1>7, <2>1, <2>5, <3>1, <3>2 DEF Shows, FileOnly
  <2> QED BY <2>3, <2>4, <2>5
<1> QED BY <1>1, <1>2, <1>5, <1>7, <1>8 DEF UpInv

\* A row inserted into the file of a table.
LEMMA InsertV2KeepsRows ==
    ASSUME TypeInv, OpInv, TypeInv', OpInv', RowsInv, NEW n \in Name, InsertRowV2(n)
    PROVE  RowsInv'
<1> DEFINE r == [key |-> keys', val |-> 0]
<1>1. /\ up /\ Ready /\ up' = up /\ UNCHANGED <<meta, op, loose, crashes>> /\ keys' = keys + 1
      /\ mem' = [mem EXCEPT !.nextID = @ + 2] /\ open' = open \cup {n} /\ (n \in open \/ dir[n].state = "ok")
      /\ dir' = [dir EXCEPT ![n].rows = @ \cup {r}] /\ acked' = [acked EXCEPT !.rows[n] = @ \cup {r}]
  BY DEF InsertRowV2, Ready
<1> HIDE DEF r
<1> SUFFICES ASSUME crashes = 0 PROVE Regular(meta, keys') /\ Regular(mem', keys') /\ UpInv' /\ StatementInv'
  BY <1>1 DEF RowsInv
<1>2. Regular(meta, keys) /\ Regular(mem, keys) /\ UpInv
  BY <1>1 DEF RowsInv
<1>3. /\ mem \in State /\ meta \in State /\ keys \in Nat /\ dir \in [Name -> TableFile] /\ acked \in Promises
      /\ \A m \in open : dir[m].state = "ok"
  BY DEF TypeInv
<1>4. /\ mem'.tables = mem.tables /\ mem'.rows = mem.rows /\ mem'.nextID = mem.nextID + 2
      /\ mem.nextID \in Nat /\ meta.nextID \in Nat /\ mem.tables \in [Name -> Nat]
  BY <1>1, <1>3 DEF State
<1>5. keys' \in Nat /\ keys <= keys'
  BY <1>1, <1>3
<1>6. Regular(meta, keys') /\ Regular(mem, keys')
  BY <1>2, <1>3, <1>5, RegularMore
<1>7. Regular(mem', keys')
  BY <1>4, <1>6 DEF Regular
<1>8. op = Idle /\ ~InStatement
  BY <1>1, NothingChanging
<1>9. op.at = "start"
  BY <1>8 DEF Idle
<1>10. ~InStatement' /\ StatementInv'
  BY <1>1, <1>9 DEF InStatement, Unwritten, StatementInv
<1>11. LooseAfter = loose /\ \A m : Expected(m) = acked.rows[m]
  BY <1>8, ExpectedIdle
<1>12. LooseAfter' = loose' /\ \A m : Expected(m)' = acked'.rows[m]
  BY <1>10, ExpectedIdleNext
<1>13. ASSUME NEW m \in Name \ loose PROVE Shows(m)'
  <2>1. Shows(m)
    BY <1>2, <1>11 DEF UpInv
  <2>2. CASE m # n
    <3>1. dir'[m] = dir[m] /\ acked'.rows[m] = acked.rows[m] /\ (m \in open' <=> m \in open)
      BY <1>1, <1>3, <2>2 DEF Promises
    <3> QED BY <1>1, <1>4, <1>11, <1>12, <2>1, <3>1, ShowsKept
  <2>3. CASE m = n
    <3>1. /\ dir'[n].rows = dir[n].rows \cup {r} /\ dir'[n].state = dir[n].state /\ dir[n].state = "ok"
          /\ acked'.rows[n] = acked.rows[n] \cup {r} /\ n \in open'
      BY <1>1, <1>3 DEF Promises, TableFile
    <3>2. Visible(n) = dir[n].rows /\ Visible(n)' = dir'[n].rows
      BY <3>1 DEF Visible
    <3>3. FileOnly(n)'
      BY <1>1, <1>4, <2>1, <2>3, <3>1 DEF Shows, FileOnly
    <3> QED BY <1>4, <1>11, <1>12, <2>1, <2>3, <3>1, <3>2, <3>3 DEF Shows
  <2> QED BY <2>2, <2>3
<1>14. mem'.nextID # 0 /\ meta.nextID <= mem'.nextID
  BY <1>2, <1>4 DEF UpInv
<1> QED BY <1>1, <1>6, <1>7, <1>10, <1>12, <1>13, <1>14 DEF UpInv

\* A statement on the rows in memory begins.
LEMMA RowStatementKeepsRows ==
    ASSUME TypeInv, OpInv, TypeInv', OpInv', RowsInv, NEW n \in Name,
           \/ InsertRowV1(n)
           \/ \E k, val : ChangeRows("update", n, k, val) \/ ChangeRows("delete", n, k, val)
    PROVE  RowsInv'
<1>1. /\ up /\ Ready /\ up' = up /\ UNCHANGED <<meta, dir, open, acked, loose, crashes>> /\ mem.tables[n] # 0
      /\ op'.at = "wal" /\ op'.name = n /\ op'.to = None /\ op'.kind \in {"insert", "update", "delete"}
  BY DEF InsertRowV1, ChangeRows, Ready, disk, bounds, Exists, NewOp
<1>2. /\ mem \in State /\ meta \in State /\ keys \in Nat /\ mem.nextID \in Nat /\ meta.nextID \in Nat
      /\ mem.tables \in [Name -> Nat] /\ mem.rows[n] \in Seq(Row)
  BY DEF TypeInv, State
<1>3. /\ mem'.tables = mem.tables /\ mem'.rows = mem.rows /\ mem'.nextID \in {mem.nextID, mem.nextID + 1}
      /\ keys' \in Nat /\ keys <= keys'
  <2>1. CASE InsertRowV1(n)
    <3>1. mem' = [mem EXCEPT !.nextID = @ + 1] /\ keys' = keys + 1
      BY <2>1 DEF InsertRowV1
    <3> QED BY <1>2, <3>1 DEF State
  <2>2. CASE UNCHANGED <<mem, keys>>
    BY <1>2, <2>2
  <2> QED BY <2>1, <2>2 DEF ChangeRows, bounds
<1> SUFFICES ASSUME crashes = 0 PROVE Regular(meta, keys') /\ Regular(mem', keys') /\ UpInv' /\ StatementInv'
  BY <1>1 DEF RowsInv
<1>4. Regular(meta, keys) /\ Regular(mem, keys) /\ UpInv
  BY <1>1 DEF RowsInv
<1>5. Regular(meta, keys') /\ Regular(mem, keys')
  BY <1>2, <1>3, <1>4, RegularMore
<1>6. Regular(mem', keys')
  BY <1>2, <1>3, <1>5 DEF Regular
<1>7. op = Idle /\ ~InStatement
  BY <1>1, NothingChanging
<1>8. LooseAfter = loose /\ \A m : Expected(m) = acked.rows[m]
  BY <1>7, ExpectedIdle
<1>9. LooseAfter' = loose' /\ \A m : Expected(m)' = acked'.rows[m]
  BY <1>1 DEF LooseAfter, Expected, InStatement, Unwritten
<1>10. ASSUME NEW m \in Name \ loose PROVE Shows(m)'
  <2>1. Shows(m)
    BY <1>4, <1>8 DEF UpInv
  <2> QED BY <1>1, <1>3, <1>8, <1>9, <2>1, ShowsKept
<1>11. mem'.nextID # 0 /\ meta.nextID <= mem'.nextID
  BY <1>2, <1>3, <1>4 DEF UpInv
<1>12. UpInv'
  BY <1>1, <1>9, <1>10, <1>11 DEF UpInv
<1>13. StatementInv'
  <2>1. CASE InsertRowV1(n)
    <3> DEFINE row == [id |-> mem.nextID, key |-> keys', val |-> 0]
    <3>1. /\ op' = NewOp("insert", n, None, "wal", << >>, <<Record("insert", mem.tables[n], n, row)>>)
          /\ n \notin open /\ dir[n].state # "ok" /\ keys' = keys + 1
      BY <2>1 DEF InsertRowV1
    <3>2. op'.kind = "insert" /\ op'.todo = <<Record("insert", mem.tables[n], n, row)>>
      BY <3>1 DEF NewOp
    <3>3. Len(op'.todo) = 1 /\ op'.todo[1] = Record("insert", mem.tables[n], n, row)
      BY <3>2
    <3>4. op'.todo[1].row = row
      BY <3>3 DEF Record
    <3>5. op'.todo[1].row.key = keys' /\ op'.todo[1].row.val = 0
      BY <3>4
    <3>6. \A i \in 1..Len(mem.rows[n]) : mem.rows[n][i].key < keys'
      <4>1. \A i \in 1..Len(mem.rows[n]) : mem.rows[n][i] \in Row
        BY <1>2
      <4>2. \A i \in 1..Len(mem.rows[n]) : mem.rows[n][i].key \in Nat /\ mem.rows[n][i].key <= keys
        BY <1>4, <4>1 DEF Regular, Keyed, Row
      <4> QED BY <1>2, <3>1, <4>2
    <3> QED BY <1>1, <1>3, <3>1, <3>2, <3>3, <3>5, <3>6 DEF StatementInv, InStatement, Unwritten
  <2>2. ASSUME NEW kind \in {"update", "delete"}, NEW k, NEW val, ChangeRows(kind, n, k, val)
        PROVE  StatementInv'
    <3> DEFINE pos == Matches(n, k)
               rec(i) == Record(kind, mem.tables[n], n, [mem.rows[n][i] EXCEPT !.val = val])
               todo == [j \in 1..Len(pos) |-> rec(pos[j])]
    <3>1. op' = NewOp(kind, n, None, "wal", pos, todo) /\ pos # << >>
      BY <2>2 DEF ChangeRows
    <3>2. /\ pos \in Seq(Nat)
          /\ \A j \in 1..Len(pos) : pos[j] \in 1..Len(mem.rows[n]) /\ mem.rows[n][pos[j]].key = k
          /\ \A i, j \in 1..Len(pos) : pos[i] = pos[j] => i = j
      BY <1>2, MatchesPositions
    <3>3. op'.kind = kind /\ op'.pos = pos /\ op'.todo = todo
      BY <3>1 DEF NewOp
    <3> HIDE DEF pos
    <3>4. Keyed(mem.rows[n], keys)
      BY <1>4 DEF Regular
    <3>5. ASSUME NEW i \in 1..Len(pos), NEW j \in 1..Len(pos) PROVE i = j
      <4>1. /\ pos[i] \in 1..Len(mem.rows[n]) /\ pos[j] \in 1..Len(mem.rows[n])
            /\ mem.rows[n][pos[i]].key = mem.rows[n][pos[j]].key
        BY <3>2
      <4>2. pos[i] = pos[j]
        BY <3>4, <4>1 DEF Keyed
      <4> QED BY <3>2, <4>2
    <3>7. Len(pos) = 1
      BY <3>1, <3>2, <3>5, OneAlone
    <3>8. pos[1] \in 1..Len(mem.rows[n])
      BY <3>2, <3>7
    <3>9. Len(todo) = 1 /\ todo[1] = rec(pos[1])
      BY <3>7
    <3>10. rec(pos[1]).row.key = mem.rows[n][pos[1]].key
      <4>1. mem.rows[n][pos[1]] \in Row
        BY <1>2, <3>8
      <4> QED BY <4>1 DEF Record, Row
    <3> HIDE DEF rec, todo
    <3> QED BY <1>1, <1>3, <3>3, <3>7, <3>8, <3>9, <3>10 DEF StatementInv, InStatement, Unwritten
  <2> QED BY <2>1, <2>2
<1> QED BY <1>5, <1>6, <1>12, <1>13

\* TRUNCATE of a table that is not open empties the rows in memory.
LEMMA TruncateKeepsRows ==
    ASSUME TypeInv, OpInv, TypeInv', OpInv', RowsInv, NEW n \in Name, TruncateTable(n)
    PROVE  RowsInv'
<1>1. /\ up /\ Ready /\ up' = up /\ UNCHANGED <<meta, dir, open, acked, crashes, keys>> /\ mem.tables[n] # 0
      /\ mem' = [mem EXCEPT !.rows[n] = << >>] /\ n \notin open
      /\ loose' = IF dir[n].state = "ok" THEN loose \cup {n} ELSE loose
  BY DEF TruncateTable, Ready, disk, bounds, Exists
<1> SUFFICES ASSUME crashes = 0 PROVE Regular(mem', keys) /\ UpInv' /\ StatementInv'
  BY <1>1 DEF RowsInv
<1>2. Regular(meta, keys) /\ Regular(mem, keys) /\ UpInv
  BY <1>1 DEF RowsInv
<1>3. op = Idle /\ ~InStatement
  BY <1>1, NothingChanging
<1>4. LooseAfter = loose /\ \A m : Expected(m) = acked.rows[m]
  BY <1>3, ExpectedIdle
<1>5. /\ mem'.nextID = mem.nextID /\ mem'.tables = mem.tables
      /\ \A m \in Name : mem'.rows[m] = IF m = n THEN << >> ELSE mem.rows[m]
  BY <1>1 DEF TypeInv, State
<1>6. Regular(mem', keys)
  BY <1>2, <1>5, NoRows DEF Regular
<1>7. op'.kind = "truncate" /\ op'.at = "wal" /\ op'.name = n /\ op'.to = None /\ Len(op'.todo) = 1
  BY DEF NewOp, TruncateTable
<1>8. StatementInv'
  BY <1>1, <1>5, <1>7 DEF StatementInv, InStatement, Unwritten
<1>9. LooseAfter' = loose'
  BY <1>7 DEF LooseAfter
<1>10. ASSUME NEW m \in Name \ loose' PROVE Shows(m)'
  <2>1. Shows(m)
    BY <1>1, <1>2, <1>4, <1>10 DEF UpInv
  <2>2. CASE m = n
    <3>1. dir[n].state # "ok"
      BY <1>1, <2>2
    <3>2. Expected(n)' = {}
      <4>1. acked \in Promises
        BY DEF TypeInv
      <4>2. Promise' = [acked' EXCEPT !.rows[n] = {}]
        BY <1>7 DEF Promise
      <4>3. Promise'.rows[n] = {}
        BY <1>1, <4>1, <4>2 DEF Promises
      <4> QED BY <1>7, <4>3 DEF Expected, InStatement, Unwritten
    <3>3. Visible(n)' = {}
      BY <1>1, <1>5, <3>1, NoRows DEF Visible, V1Rows
    <3> QED BY <1>1, <2>2, <3>1, <3>2, <3>3 DEF Shows, FileOnly
  <2>3. CASE m # n
    <3>1. Expected(m)' = acked.rows[m]
      BY <1>1, <1>7, <2>3, NoneIsNoName, ExpectedElsewhereNext
    <3> QED BY <1>1, <1>4, <1>5, <2>1, <2>3, <3>1, ShowsKept
  <2> QED BY <2>2, <2>3
<1> QED BY <1>1, <1>2, <1>5, <1>6, <1>8, <1>9, <1>10 DEF UpInv
\* The keys and values of a sequence of rows, and what the statements do to them.
RowsOf(s) == {[key |-> s[i].key, val |-> s[i].val] : i \in 1..Len(s)}

LEMMA RowAppended ==
    ASSUME NEW s \in Seq(Row), NEW r \in Row, NEW top \in Nat, Keyed(s, top), r.key = top,
           \A i \in 1..Len(s) : s[i].key < top
    PROVE  /\ RowsOf(Append(s, r)) = RowsOf(s) \cup {[key |-> r.key, val |-> r.val]}
           /\ Keyed(Append(s, r), top)
<1> DEFINE t == Append(s, r)
<1>1. Len(t) = Len(s) + 1 /\ t[Len(s) + 1] = r /\ Len(s) \in Nat /\ \A i \in 1..Len(s) : t[i] = s[i]
  OBVIOUS
<1> HIDE DEF t
<1>2. \A i \in 1..Len(t) : i \in 1..Len(s) \/ i = Len(s) + 1
  BY <1>1
<1>3. Len(s) + 1 \in 1..Len(t) /\ \A i \in 1..Len(s) : i \in 1..Len(t)
  BY <1>1
<1>4. RowsOf(t) = RowsOf(s) \cup {[key |-> r.key, val |-> r.val]}
  <2>1. ASSUME NEW x \in RowsOf(t) PROVE x \in RowsOf(s) \cup {[key |-> r.key, val |-> r.val]}
    <3>1. PICK i \in 1..Len(t) : x = [key |-> t[i].key, val |-> t[i].val]
      BY DEF RowsOf
    <3>2. CASE i \in 1..Len(s)
      BY <1>1, <3>1, <3>2 DEF RowsOf
    <3>3. CASE i = Len(s) + 1
      BY <1>1, <3>1, <3>3
    <3> QED BY <1>2, <3>2, <3>3
  <2>2. ASSUME NEW x \in RowsOf(s) PROVE x \in RowsOf(t)
    <3>1. PICK i \in 1..Len(s) : x = [key |-> s[i].key, val |-> s[i].val]
      BY DEF RowsOf
    <3> QED BY <1>1, <1>3, <3>1 DEF RowsOf
  <2>3. [key |-> r.key, val |-> r.val] \in RowsOf(t)
    BY <1>1, <1>3 DEF RowsOf
  <2> QED BY <2>1, <2>2, <2>3
<1>5. \A i \in 1..Len(s) : s[i].key \in Nat
  <2>1. \A i \in 1..Len(s) : s[i] \in Row
    OBVIOUS
  <2> QED BY <2>1 DEF Row
<1>6. Keyed(t, top)
  <2>1. ASSUME NEW i \in 1..Len(t), NEW j \in 1..Len(t), t[i].key = t[j].key PROVE i = j
    <3>1. CASE i \in 1..Len(s) /\ j \in 1..Len(s)
      BY <1>1, <2>1, <3>1 DEF Keyed
    <3>2. CASE i \in 1..Len(s) /\ j = Len(s) + 1
      <4>1. s[i].key < top /\ s[i].key = top
        BY <1>1, <2>1, <3>2
      <4> QED BY <1>5, <3>2, <4>1
    <3>3. CASE j \in 1..Len(s) /\ i = Len(s) + 1
      <4>1. s[j].key < top /\ s[j].key = top
        BY <1>1, <2>1, <3>3
      <4> QED BY <1>5, <3>3, <4>1
    <3> QED BY <1>2, <3>1, <3>2, <3>3
  <2>2. ASSUME NEW i \in 1..Len(t) PROVE t[i].key <= top
    <3>1. CASE i \in 1..Len(s)
      BY <1>1, <3>1 DEF Keyed
    <3>2. CASE i = Len(s) + 1
      BY <1>1, <3>2
    <3> QED BY <1>2, <3>1, <3>2
  <2> QED BY <2>1, <2>2 DEF Keyed
<1> QED BY <1>4, <1>6 DEF t

LEMMA RowsWithout ==
    ASSUME NEW s \in Seq(Row), NEW k, NEW top \in Nat, Keyed(s, top)
    PROVE  /\ RowsOf(Without(s, k)) = {r \in RowsOf(s) : r.key # k}
           /\ Keyed(Without(s, k), top)
<1> DEFINE t == Without(s, k)
<1>1. /\ \A r : (\E j \in 1..Len(t) : r = t[j]) <=> r.key # k /\ \E j \in 1..Len(s) : r = s[j]
      /\ (\A i, j \in 1..Len(s) : s[i].key = s[j].key => i = j) =>
             \A i, j \in 1..Len(t) : t[i].key = t[j].key => i = j
  <2>1. /\ Without(s, k) \in Seq(Row)
        /\ \A r : (\E j \in 1..Len(Without(s, k)) : r = Without(s, k)[j])
                     <=> r.key # k /\ \E j \in 1..Len(s) : r = s[j]
        /\ (\A i, j \in 1..Len(s) : s[i].key = s[j].key => i = j) =>
              \A i, j \in 1..Len(Without(s, k)) :
                  Without(s, k)[i].key = Without(s, k)[j].key => i = j
    BY WithoutRows, Zenon
  <2> QED BY <2>1, Zenon
<1> HIDE DEF t
<1>2. \A i \in 1..Len(t) : t[i].key # k /\ \E j \in 1..Len(s) : t[i] = s[j]
  BY <1>1
<1>3. \A j \in 1..Len(s) : s[j].key # k => \E i \in 1..Len(t) : s[j] = t[i]
  BY <1>1
<1>4. ASSUME NEW x \in RowsOf(t) PROVE x \in RowsOf(s) /\ x.key # k
  <2>1. PICK i \in 1..Len(t) : x = [key |-> t[i].key, val |-> t[i].val]
    BY DEF RowsOf
  <2>2. PICK j \in 1..Len(s) : t[i] = s[j]
    BY <1>2
  <2> QED BY <1>2, <2>1, <2>2 DEF RowsOf
<1>5. ASSUME NEW x \in RowsOf(s), x.key # k PROVE x \in RowsOf(t)
  <2>1. PICK j \in 1..Len(s) : x = [key |-> s[j].key, val |-> s[j].val]
    BY DEF RowsOf
  <2>2. s[j].key # k
    BY <1>5, <2>1
  <2>3. PICK i \in 1..Len(t) : s[j] = t[i]
    BY <1>3, <2>2
  <2> QED BY <2>1, <2>3 DEF RowsOf
<1>6. Keyed(t, top)
  BY <1>1, <1>2 DEF Keyed
<1> QED BY <1>4, <1>5, <1>6 DEF t

LEMMA RowUpdated ==
    ASSUME NEW s \in Seq(Row), NEW t, NEW p \in 1..Len(s), NEW top \in Nat, Keyed(s, top), Len(t) = Len(s),
           \A i \in 1..Len(s) : t[i] = IF i = p THEN [s[i] EXCEPT !.val = 1] ELSE s[i]
    PROVE  /\ RowsOf(t) = (RowsOf(s) \ {[key |-> s[p].key, val |-> 0]}) \cup {[key |-> s[p].key, val |-> 1]}
           /\ Keyed(t, top)
<1>1. \A i \in 1..Len(s) : s[i] \in Row
  OBVIOUS
<1>2. ASSUME NEW i \in 1..Len(s)
      PROVE  t[i].key = s[i].key /\ t[i].val = IF i = p THEN 1 ELSE s[i].val
  <2>1. s[i] \in Row /\ t[i] = IF i = p THEN [s[i] EXCEPT !.val = 1] ELSE s[i]
    BY <1>1
  <2> QED BY <2>1 DEF Row
<1>3. \A i, j \in 1..Len(s) : s[i].key = s[j].key => i = j
  BY DEF Keyed
<1>4. \A i \in 1..Len(s) : s[i].val \in {0, 1}
  BY <1>1 DEF Row
<1> DEFINE old == [key |-> s[p].key, val |-> 0]
           new == [key |-> s[p].key, val |-> 1]
<1>5. ASSUME NEW x \in RowsOf(t) PROVE x \in (RowsOf(s) \ {old}) \cup {new}
  <2>1. PICK i \in 1..Len(s) : x = [key |-> t[i].key, val |-> t[i].val]
    BY DEF RowsOf
  <2>2. CASE i = p
    BY <1>2, <2>1, <2>2
  <2>3. CASE i # p
    <3>1. x = [key |-> s[i].key, val |-> s[i].val] /\ s[i].key # s[p].key
      BY <1>2, <1>3, <2>1, <2>3
    <3>2. x \in RowsOf(s)
      BY <3>1 DEF RowsOf
    <3>3. x # old
      BY <3>1
    <3> QED BY <3>2, <3>3
  <2> QED BY <2>2, <2>3
<1>6. ASSUME NEW x \in RowsOf(s), x # old PROVE x \in RowsOf(t)
  <2>1. PICK i \in 1..Len(s) : x = [key |-> s[i].key, val |-> s[i].val]
    BY DEF RowsOf
  <2>2. i = p => s[i].val = 1
    BY <1>4, <1>6, <2>1
  <2>3. x = [key |-> t[i].key, val |-> t[i].val]
    BY <1>2, <2>1, <2>2
  <2> QED BY <2>3 DEF RowsOf
<1>7. new \in RowsOf(t)
  <2>1. new = [key |-> t[p].key, val |-> t[p].val]
    BY <1>2
  <2> QED BY <2>1 DEF RowsOf
<1> HIDE DEF old, new
<1>8. RowsOf(t) = (RowsOf(s) \ {old}) \cup {new}
  BY <1>5, <1>6, <1>7
<1>9. Keyed(t, top)
  BY <1>2, <1>3 DEF Keyed
<1> QED BY <1>8, <1>9 DEF old, new

\* The file of a new table.
LEMMA MakeFileKeepsRows ==
    ASSUME TypeInv, OpInv, TypeInv', OpInv', RowsInv, MakeFile \/ WriteHeader
    PROVE  RowsInv'
<1>0. PICK n : n = op.name
  OBVIOUS
<1>1. /\ up /\ up' = up /\ UNCHANGED <<meta, mem, acked, loose, crashes, keys>> /\ op.at \in {"makefile", "header"}
      /\ op \in Operation
  BY DEF MakeFile, WriteHeader, Running, bounds, TypeInv
<1> SUFFICES ASSUME crashes = 0 PROVE UpInv' /\ StatementInv'
  BY <1>1 DEF RowsInv
<1>2. Regular(meta, keys) /\ UpInv /\ StatementInv
  BY <1>1 DEF RowsInv
<1>3. op.kind = "create" /\ n \notin open /\ n \in Name /\ op.to = None /\ InStatement
  BY <1>0, <1>1 DEF OpInv, InStatement, Unwritten
<1>4. /\ dir[n].state # "ok" /\ mem.rows[n] = << >> /\ meta.nextID <= mem.tables[n] /\ mem.tables[n] # 0
      /\ Len(op.todo) = 1
  BY <1>0, <1>1, <1>2, <1>3 DEF StatementInv, Unwritten, InStatement
<1>5. /\ op'.kind = "create" /\ op'.name = n /\ op'.to = op.to /\ op'.todo = op.todo /\ op'.at \in {"header", "wal"}
      /\ op'.at = IF op.at = "makefile" THEN "header" ELSE "wal"
  BY <1>0, <1>1, <1>3 DEF MakeFile, WriteHeader, Goto, Operation, Running
<1>6. /\ dir \in [Name -> TableFile] /\ meta \in State /\ mem \in State /\ acked \in Promises
  BY DEF TypeInv
<1>7. dir' = [dir EXCEPT ![n] = IF op.at = "makefile" THEN BadFile ELSE NewFile]
  BY <1>0 DEF MakeFile, WriteHeader, Running
<1>8. open' = IF op.at = "makefile" THEN open ELSE open \cup {n}
  BY <1>0 DEF MakeFile, WriteHeader, Running
<1>9. InStatement'
  BY <1>5 DEF InStatement, Unwritten
<1>10. StatementInv'
  <2>1. op.at = "makefile" => dir'[n].state # "ok"
    BY <1>3, <1>6, <1>7 DEF BadFile
  <2> QED BY <1>1, <1>4, <1>5, <2>1 DEF StatementInv, InStatement, Unwritten
<1>11. LooseAfter' = LooseAfter /\ LooseAfter = loose \ {n}
  BY <1>0, <1>1, <1>3, <1>5 DEF LooseAfter
<1>12. Shows(n)'
  <2>1. Expected(n)' = {}
    <3>1. Promise' = [acked' EXCEPT !.tables[n] = mem'.tables[n], !.rows[n] = {}]
      BY <1>5 DEF Promise
    <3>2. Promise'.rows[n] = {}
      BY <1>1, <1>3, <1>6, <3>1 DEF Promises
    <3> QED BY <1>5, <1>9, <3>2 DEF Expected
  <2>2. CASE op.at = "makefile"
    <3>1. dir'[n].state # "ok" /\ n \notin open'
      BY <1>3, <1>6, <1>7, <1>8, <2>2 DEF BadFile
    <3>2. Visible(n)' = {}
      BY <1>1, <1>4, <3>1, NoRows DEF Visible, V1Rows
    <3> QED BY <2>1, <3>1, <3>2 DEF Shows, FileOnly
  <2>3. CASE op.at = "header"
    <3>1. n \in open' /\ dir'[n].rows = {}
      BY <1>3, <1>6, <1>7, <1>8, <2>3 DEF NewFile
    <3>2. Visible(n)' = {}
      BY <3>1 DEF Visible
    <3>3. \A m \in Name : meta.tables[m] # mem.tables[n]
      <4>1. /\ meta.tables \in [Name -> Nat] /\ meta.nextID \in Nat /\ mem.tables \in [Name -> Nat]
        BY <1>6 DEF State
      <4>2. \A m \in Name : meta.tables[m] < meta.nextID \/ meta.tables[m] = 0
        BY <1>2 DEF Regular
      <4> QED BY <1>3, <1>4, <4>1, <4>2
    <3>4. FileOnly(n)'
      BY <1>1, <1>4, <3>3 DEF FileOnly
    <3> QED BY <2>1, <3>2, <3>4 DEF Shows
  <2> QED BY <1>1, <2>2, <2>3
<1>13. ASSUME NEW m \in Name \ loose, m # n PROVE Shows(m)'
  <2>1. Shows(m)
    BY <1>2, <1>11, <1>13 DEF UpInv
  <2>2. Expected(m) = acked.rows[m] /\ Expected(m)' = acked'.rows[m]
    BY <1>0, <1>3, <1>5, <1>13, NoneIsNoName, ExpectedElsewhere, ExpectedElsewhereNext
  <2>3. dir'[m] = dir[m] /\ (m \in open' <=> m \in open)
    BY <1>3, <1>6, <1>7, <1>8, <1>13
  <2> QED BY <1>1, <1>13, <2>1, <2>2, <2>3, ShowsKept
<1> QED BY <1>1, <1>2, <1>10, <1>11, <1>12, <1>13 DEF UpInv

\* A statement fails: nothing is promised of its tables, and the others are as they were.
LEMMA FailingKeepsRows ==
    ASSUME TypeInv, OpInv, TypeInv', OpInv', RowsInv, CreateFileFails \/ WriteWALFails \/ SaveFails
    PROVE  RowsInv'
<1>1. /\ up /\ up' = up /\ UNCHANGED <<meta, acked, crashes, keys>> /\ InStatement /\ op.name \in Name
      /\ op' = Idle /\ loose' = loose \cup ({op.name, op.to} \ {None})
  BY DEF CreateFileFails, WriteWALFails, SaveFails, Running, Fail, disk, OpInv, InStatement, Unwritten
<1>2. mem \in State /\ keys \in Nat /\ dir \in [Name -> TableFile]
  BY DEF TypeInv
<1>3. /\ mem'.tables = mem.tables /\ mem'.nextID = mem.nextID
      /\ \A m \in Name : m # op.name => mem'.rows[m] = mem.rows[m]
  BY TouchedTyped DEF CreateFileFails, WriteWALFails, SaveFails, Running
<1>4. \A m \in Name : m # op.name => dir'[m] = dir[m] /\ (m \in open' <=> m \in open)
  BY <1>2 DEF CreateFileFails, WriteWALFails, SaveFails, disk
<1> SUFFICES ASSUME crashes = 0 PROVE Regular(mem', keys) /\ UpInv' /\ StatementInv'
  BY <1>1 DEF RowsInv
<1>5. Regular(mem, keys) /\ UpInv /\ StatementInv
  BY <1>1 DEF RowsInv
<1>6. op'.at = "start"
  BY <1>1 DEF Idle
<1>7. ~InStatement' /\ StatementInv'
  BY <1>6 DEF InStatement, Unwritten, StatementInv
<1>8. LooseAfter' = loose' /\ \A m : Expected(m)' = acked'.rows[m]
  BY <1>7, ExpectedIdleNext
<1>9. ASSUME NEW m \in Name \ loose' PROVE Shows(m)'
  <2>1. m \notin {op.name, op.to} /\ m \notin loose
    BY <1>1, <1>9, NoneIsNoName
  <2>2. Expected(m) = acked.rows[m] /\ m \notin LooseAfter
    BY <2>1, ExpectedElsewhere
  <2>3. Shows(m)
    BY <1>5, <2>2 DEF UpInv
  <2> QED BY <1>1, <1>3, <1>4, <1>8, <2>1, <2>2, <2>3, ShowsKept
<1>10. Regular(mem', keys)
  <2>1. CASE UNCHANGED mem
    BY <1>5, <2>1
  <2>2. CASE op.at = "wal" /\ mem' = Touched
    <3>1. Keyed(mem'.rows[op.name], keys) /\ (mem.rows[op.name] = << >> => mem'.rows[op.name] = << >>)
      <4>1. Keyed(mem.rows[op.name], keys)
        BY <1>1, <1>5 DEF Regular
      <4>2. CASE op.kind # "update"
        BY <1>1, <2>2, <4>1, <4>2, TouchedTyped
      <4>3. CASE op.kind = "update"
        <5>1. op.pos[1] \in 1..Len(mem.rows[op.name])
          BY <1>5, <2>2, <4>3 DEF StatementInv
        <5>2. mem.rows[op.name] \in Seq(Row)
          BY <1>1, <1>2 DEF State
        <5>3. mem.rows[op.name] # << >>
          BY <5>1
        <5>4. /\ Len(mem'.rows[op.name]) = Len(mem.rows[op.name])
              /\ \A i \in 1..Len(mem.rows[op.name]) :
                     mem'.rows[op.name][i] = IF i = op.pos[1] THEN [mem.rows[op.name][i] EXCEPT !.val = 1]
                                             ELSE mem.rows[op.name][i]
          BY <1>1, <2>2, <4>3, TouchedTyped
        <5>5. Keyed(mem'.rows[op.name], keys)
          <6>1. PICK s, t, p : s = mem.rows[op.name] /\ t = mem'.rows[op.name] /\ p = op.pos[1]
            OBVIOUS
          <6>2. /\ s \in Seq(Row) /\ p \in 1..Len(s) /\ Keyed(s, keys) /\ Len(t) = Len(s)
                /\ \A i \in 1..Len(s) : t[i] = IF i = p THEN [s[i] EXCEPT !.val = 1] ELSE s[i]
            BY <4>1, <5>1, <5>2, <5>4, <6>1, Zenon
          <6>3. Keyed(t, keys)
            BY <1>2, <6>2, RowUpdated, Zenon
          <6> QED BY <6>1, <6>3
        <5> QED BY <5>3, <5>5
      <4> QED BY <4>2, <4>3
    <3> QED BY <1>1, <1>3, <1>5, <3>1 DEF Regular
  <2> QED BY <2>1, <2>2 DEF CreateFileFails, WriteWALFails, SaveFails, Running
<1> QED BY <1>1, <1>3, <1>5, <1>7, <1>8, <1>9, <1>10 DEF UpInv
\* A record is written, and with it an insert, an update or a deletion is made in memory.
LEMMA WriteKeepsRows ==
    ASSUME TypeInv, OpInv, TypeInv', OpInv', RowsInv, WriteWAL
    PROVE  RowsInv'
<1>0. PICK n, rec, s, t : n = op.name /\ rec = Head(op.todo) /\ s = mem.rows[op.name] /\ t = mem'.rows[op.name]
  OBVIOUS
<1>1. /\ up /\ up' = up /\ UNCHANGED <<meta, dir, open, acked, loose, crashes, keys>> /\ op.at = "wal"
      /\ mem' = Applied(rec) /\ log' = Append(log, rec)
  BY <1>0 DEF WriteWAL, Running
<1> SUFFICES ASSUME crashes = 0 PROVE Regular(mem', keys) /\ UpInv' /\ StatementInv'
  BY <1>1 DEF RowsInv
<1>2. Regular(mem, keys) /\ UpInv /\ StatementInv
  BY <1>1 DEF RowsInv
<1>3. /\ InStatement /\ Unwritten /\ n \in Name /\ op.kind \in Statements
      /\ IF op.kind = "rename" THEN op.to \in Name \ {n} ELSE op.to = None
  BY <1>0, <1>1 DEF OpInv, InStatement, Unwritten
<1>4. Len(op.todo) = 1
  BY <1>2, <1>3 DEF StatementInv
<1>5. /\ op'.kind = op.kind /\ op'.name = n /\ op'.to = op.to /\ op'.at = "save"
  BY <1>0, <1>4 DEF WriteWAL, TypeInv, Operation
<1>6. /\ rec = op.todo[1] /\ rec \in Entry /\ mem'.tables = mem.tables /\ mem'.nextID = mem.nextID
      /\ \A m \in Name : m # n => mem'.rows[m] = mem.rows[m]
      /\ t = CASE op.kind = "insert" -> Append(s, rec.row)
               [] op.kind = "delete" /\ Len(op.todo) = 1 -> Without(s, rec.row.key)
               [] OTHER -> Touched.rows[n]
  BY <1>0, <1>1, AppliedTyped
<1>7. log'[Len(log')] = rec
  BY <1>1 DEF TypeInv
<1>8. /\ mem \in State /\ acked \in Promises /\ keys \in Nat /\ s \in Seq(Row) /\ rec.row \in Row /\ t \in Seq(Row)
  <2>1. mem \in State /\ mem' \in State /\ acked \in Promises /\ keys \in Nat
    BY DEF TypeInv
  <2>2. s \in Seq(Row) /\ t \in Seq(Row)
    BY <1>0, <1>3, <2>1 DEF State
  <2>3. rec.row \in Row
    BY <1>6 DEF Entry
  <2> QED BY <2>1, <2>2, <2>3
<1>9. Keyed(s, keys)
  BY <1>0, <1>2, <1>3 DEF Regular
<1>10. LooseAfter' = LooseAfter
  BY <1>0, <1>1, <1>5 DEF LooseAfter
<1>11. StatementInv'
  BY <1>0, <1>2, <1>3, <1>5, <1>6 DEF StatementInv, InStatement, Unwritten
<1>12. CASE op.kind \in {"create", "drop", "rename", "truncate"}
  <2>1. t = s
    BY <1>0, <1>1, <1>3, <1>6, <1>12, TouchedTyped
  <2>2. \A m \in Name : mem'.rows[m] = mem.rows[m]
    BY <1>0, <1>6, <2>1
  <2>3. Promise' = Promise
    BY <1>0, <1>1, <1>5, <1>6, <1>12 DEF Promise
  <2>4. \A m : Expected(m)' = Promise'.rows[m] /\ Expected(m) = Promise.rows[m]
    BY <1>3, <1>5, <1>12 DEF Expected
  <2>5. ASSUME NEW m \in Name \ LooseAfter PROVE Shows(m)'
    <3>1. Shows(m)
      BY <1>2 DEF UpInv
    <3> QED BY <1>1, <1>6, <2>2, <2>3, <2>4, <3>1, ShowsKept
  <2>6. Regular(mem', keys)
    BY <1>2, <1>6, <2>2 DEF Regular
  <2> QED BY <1>1, <1>2, <1>6, <1>10, <1>11, <2>5, <2>6 DEF UpInv
<1>13. CASE op.kind \in {"insert", "update", "delete"}
  <2>1. mem.tables[n] # 0
    BY <1>0, <1>2, <1>3, <1>13 DEF StatementInv
  <2>2. op.kind = "insert" => /\ n \notin open /\ dir[n].state # "ok" /\ rec.row.key = keys /\ rec.row.val = 0
                              /\ \A i \in 1..Len(s) : s[i].key < keys
    BY <1>0, <1>1, <1>2, <1>6 DEF StatementInv
  <2>3. op.kind # "insert" => op.pos[1] \in 1..Len(s) /\ rec.row.key = s[op.pos[1]].key
    BY <1>0, <1>1, <1>2, <1>6, <1>13 DEF StatementInv
  <2> DEFINE k == rec.row.key
             old == [key |-> k, val |-> 0]
             After(S) == CASE op.kind = "insert" -> S \cup {old}
                           [] op.kind = "update" -> (S \ {old}) \cup {[key |-> k, val |-> 1]}
                           [] OTHER -> {r \in S : r.key # k}
  <2>4. RowsOf(t) = After(RowsOf(s)) /\ Keyed(t, keys)
    <3>1. CASE op.kind = "insert"
      <4>1. t = Append(s, rec.row)
        BY <1>6, <3>1
      <4>2. /\ RowsOf(Append(s, rec.row)) = RowsOf(s) \cup {[key |-> rec.row.key, val |-> rec.row.val]}
            /\ Keyed(Append(s, rec.row), keys)
        BY <1>8, <1>9, <2>2, <3>1, RowAppended
      <4> QED BY <2>2, <3>1, <4>1, <4>2
    <3>2. CASE op.kind = "delete"
      <4>1. t = Without(s, k)
        BY <1>4, <1>6, <3>2
      <4>2. RowsOf(Without(s, k)) = {r \in RowsOf(s) : r.key # k} /\ Keyed(Without(s, k), keys)
        BY <1>8, <1>9, RowsWithout
      <4> QED BY <3>2, <4>1, <4>2
    <3>3. CASE op.kind = "update"
      <4>1. PICK p : p = op.pos[1]
        OBVIOUS
      <4>2. /\ Len(t) = Len(s) /\ p \in 1..Len(s) /\ k = s[p].key
            /\ \A i \in 1..Len(s) : t[i] = IF i = p THEN [s[i] EXCEPT !.val = 1] ELSE s[i]
        <5>1. t = Touched.rows[n]
          BY <1>6, <3>3
        <5>2. /\ Len(Touched.rows[n]) = Len(s)
              /\ \A i \in 1..Len(s) : Touched.rows[n][i] = IF i = p THEN [s[i] EXCEPT !.val = 1] ELSE s[i]
          BY <1>0, <1>1, <1>3, <3>3, <4>1, TouchedTyped
        <5> QED BY <2>3, <3>3, <4>1, <5>1, <5>2
      <4>3. /\ RowsOf(t) = (RowsOf(s) \ {[key |-> s[p].key, val |-> 0]}) \cup {[key |-> s[p].key, val |-> 1]}
            /\ Keyed(t, keys)
        BY <1>8, <1>9, <4>2, RowUpdated, Zenon
      <4> QED BY <3>3, <4>2, <4>3
    <3> QED BY <1>13, <3>1, <3>2, <3>3
  <2>5. LooseAfter = loose /\ op.to = None
    BY <1>3, <1>13 DEF LooseAfter
  <2>6. \A m \in Name : m # n => Expected(m) = acked.rows[m] /\ Expected(m)' = acked'.rows[m]
    BY <1>0, <1>5, <2>5, NoneIsNoName, ExpectedElsewhere, ExpectedElsewhereNext
  <2>7. Expected(n) = acked.rows[n] /\ Expected(n)' = After(acked.rows[n])
    <3>1. Expected(n) = acked.rows[n]
      BY <1>1, <1>13 DEF Expected
    <3>2. Expected(n)' = Promise'.rows[n]
      BY <1>5 DEF Expected
    <3>3. CASE op.kind = "insert"
      <4>1. Promise' = [acked' EXCEPT !.rows[n] = @ \cup {old}]
        BY <1>5, <1>7, <3>3 DEF Promise
      <4> QED BY <1>1, <1>3, <1>8, <3>1, <3>2, <3>3, <4>1 DEF Promises
    <3>4. CASE op.kind = "update"
      <4>1. Promise' = [acked' EXCEPT !.rows[n] = (@ \ {old}) \cup {[old EXCEPT !.val = 1]}]
        BY <1>5, <1>7, <3>4 DEF Promise
      <4>2. [old EXCEPT !.val = 1] = [key |-> k, val |-> 1]
        OBVIOUS
      <4> QED BY <1>1, <1>3, <1>8, <3>1, <3>2, <3>4, <4>1, <4>2 DEF Promises
    <3>5. CASE op.kind = "delete"
      <4>1. Promise' = [acked' EXCEPT !.rows[n] = {r \in @ : r.key # k}]
        BY <1>5, <1>7, <3>5 DEF Promise
      <4> QED BY <1>1, <1>3, <1>8, <3>1, <3>2, <3>5, <4>1 DEF Promises
    <3> QED BY <1>13, <3>3, <3>4, <3>5
  <2> HIDE DEF k, old, After
  <2>8. ASSUME NEW m \in Name \ loose PROVE Shows(m)'
    <3>1. Shows(m)
      BY <1>2, <2>5 DEF UpInv
    <3>2. CASE m # n
      BY <1>1, <1>6, <2>6, <3>1, <3>2, ShowsKept
    <3>3. CASE m = n
      <4>1. n \notin open /\ dir[n].state # "ok"
        <5>1. CASE op.kind = "insert"
          BY <2>2, <5>1
        <5>2. CASE op.kind # "insert"
          <6>1. s # << >>
            BY <2>3, <5>2
          <6>2. dir[n].state # "ok"
            BY <1>0, <3>1, <3>3, <6>1 DEF Shows, FileOnly
          <6> QED BY <6>2 DEF TypeInv
        <5> QED BY <5>1, <5>2
      <4>2. Visible(n) = RowsOf(s) /\ Visible(n)' = RowsOf(t)
        BY <1>0, <1>1, <4>1 DEF Visible, V1Rows, RowsOf
      <4>3. RowsOf(s) = acked.rows[n]
        BY <2>1, <2>7, <3>1, <3>3, <4>2 DEF Shows
      <4>4. FileOnly(n)'
        BY <1>1, <4>1 DEF FileOnly
      <4> QED BY <2>4, <2>7, <3>3, <4>2, <4>3, <4>4 DEF Shows
    <3> QED BY <3>2, <3>3
  <2>9. Regular(mem', keys)
    <3>1. mem'.rows[n] = t
      BY <1>0
    <3>2. \A m \in Name : Keyed(mem'.rows[m], keys)
      BY <1>2, <1>6, <2>4, <3>1 DEF Regular
    <3>3. \A m \in Name : mem.tables[m] = 0 => mem'.rows[m] = << >>
      BY <1>2, <1>6, <2>1 DEF Regular
    <3> QED BY <1>2, <1>6, <3>2, <3>3 DEF Regular
  <2> QED BY <1>1, <1>2, <1>6, <1>10, <1>11, <2>5, <2>8, <2>9 DEF UpInv
<1> QED BY <1>3, <1>12, <1>13 DEF Statements, RowKinds

\* The operation ends, or saves the metadata.
LEMMA FinishKeepsRows ==
    ASSUME TypeInv, OpInv, TypeInv', OpInv', RowsInv, Finish \/ ForceSave \/ Checkpoint \/ Close
    PROVE  RowsInv'
<1>1. /\ up /\ up' = up /\ UNCHANGED <<mem, dir, open, crashes, keys>> /\ meta' \in {meta, mem}
  BY DEF Finish, ForceSave, Checkpoint, Close, Running, Ready, Saved, bounds
<1> SUFFICES ASSUME crashes = 0
             PROVE Regular(meta', keys) /\ (meta' = NoMeta \/ meta'.nextID # 0) /\ UpInv' /\ StatementInv'
  BY <1>1 DEF RowsInv
<1>2. Regular(meta, keys) /\ Regular(mem, keys) /\ (meta = NoMeta \/ meta.nextID # 0) /\ UpInv /\ StatementInv
  BY <1>1 DEF RowsInv
<1>3. ~InStatement' /\ StatementInv'
  <2>1. op'.at \in {"start", "empty", "record", "closing"}
    <3>1. CASE Finish
      BY <3>1 DEF Finish, Idle
    <3>2. CASE ForceSave \/ Checkpoint \/ Close
      BY <3>2 DEF ForceSave, Checkpoint, Close, Idle
    <3> QED BY <3>1, <3>2
  <2> QED BY <2>1 DEF InStatement, Unwritten, StatementInv
<1>4. LooseAfter' = loose' /\ \A m : Expected(m)' = acked'.rows[m]
  BY <1>3, ExpectedIdleNext
<1>5. loose' = LooseAfter /\ \A m : Expected(m) = acked'.rows[m]
  <2>1. CASE Finish
    BY <2>1 DEF Finish, Running, Expected
  <2>2. CASE ForceSave \/ Checkpoint \/ Close
    <3>1. Ready /\ UNCHANGED <<loose, acked>>
      BY <2>2 DEF ForceSave, Checkpoint, Close
    <3>2. ~InStatement
      BY <3>1, NothingChanging
    <3> QED BY <3>1, <3>2, ExpectedIdle
  <2> QED BY <2>1, <2>2
<1>6. ASSUME NEW n \in Name \ LooseAfter PROVE Shows(n)'
  <2>1. Shows(n)
    BY <1>2 DEF UpInv
  <2>2. Visible(n)' = Visible(n)
    BY <1>1 DEF Visible, V1Rows
  <2>3. dir[n].state = "ok" => \A m \in Name : meta'.tables[m] = mem.tables[n] => meta'.rows[m] = << >>
    BY <1>1, <1>2, <2>1 DEF Shows, FileOnly, Regular
  <2>4. FileOnly(n)'
    BY <1>1, <2>1, <2>3 DEF Shows, FileOnly
  <2> QED BY <1>1, <1>4, <1>5, <2>1, <2>2, <2>4 DEF Shows
<1>7. Regular(meta', keys) /\ (meta' = NoMeta \/ meta'.nextID # 0)
  BY <1>1, <1>2 DEF UpInv
<1>8. meta'.nextID <= mem.nextID
  <2>1. mem.nextID \in Nat
    BY DEF TypeInv, State
  <2> QED BY <1>1, <1>2, <2>1 DEF UpInv
<1> QED BY <1>1, <1>2, <1>3, <1>4, <1>5, <1>6, <1>7, <1>8 DEF UpInv

\* The steps that touch neither tables nor rows.
LEMMA QuietKeepsRows ==
    ASSUME TypeInv, OpInv, TypeInv', OpInv', RowsInv,
           (\E skip \in BOOLEAN : SetSkipSave(skip)) \/ CheckpointRecord \/ EmptyLog \/ Recovered
    PROVE  RowsInv'
<1>1. /\ up /\ up' = up /\ UNCHANGED <<meta, mem, dir, open, acked, loose, crashes, keys>>
  BY DEF SetSkipSave, CheckpointRecord, EmptyLog, Recovered, Running, Ready, disk, bounds
<1>2. ~InStatement
  <2>1. Ready \/ op.at \in {"record", "empty", "done"}
    BY DEF SetSkipSave, CheckpointRecord, EmptyLog, Recovered, Running
  <2> QED BY <2>1, NothingChanging
<1>3. ~InStatement'
  <2>1. CASE \E skip \in BOOLEAN : SetSkipSave(skip)
    BY <1>2, <2>1 DEF SetSkipSave, InStatement, Unwritten
  <2>2. CASE EmptyLog \/ Recovered
    <3>1. op'.at = "start"
      BY <2>2 DEF EmptyLog, Recovered, Idle
    <3> QED BY <3>1 DEF InStatement, Unwritten
  <2>3. CASE CheckpointRecord
    <3>1. op'.at = "empty"
      BY <2>3 DEF CheckpointRecord, Goto, TypeInv, Operation
    <3> QED BY <3>1 DEF InStatement, Unwritten
  <2> QED BY <2>1, <2>2, <2>3
<1> SUFFICES ASSUME crashes = 0 PROVE UpInv' /\ StatementInv'
  BY <1>1 DEF RowsInv
<1>4. UpInv
  BY <1>1 DEF RowsInv
<1>5. StatementInv'
  BY <1>3 DEF InStatement, Unwritten, StatementInv
<1>6. LooseAfter = loose /\ \A m : Expected(m) = acked.rows[m]
  BY <1>2, ExpectedIdle
<1>7. LooseAfter' = loose' /\ \A m : Expected(m)' = acked'.rows[m]
  BY <1>3, ExpectedIdleNext
<1>8. ASSUME NEW m \in Name \ loose PROVE Shows(m)'
  <2>1. Shows(m)
    BY <1>4, <1>6 DEF UpInv
  <2> QED BY <1>1, <1>6, <1>7, <2>1, ShowsKept
<1> QED BY <1>1, <1>4, <1>5, <1>7, <1>8 DEF UpInv

\* Close leaves in the metadata file and the table files what was promised.
LEMMA CloseKeepsRows ==
    ASSUME TypeInv, OpInv, TypeInv', OpInv', CatalogInv, RowsInv, CloseEnds
    PROVE  RowsInv'
<1>1. /\ up /\ up' = FALSE /\ UNCHANGED <<meta, dir, acked, crashes, keys>> /\ mem' = EmptyCatalog
      /\ log' = << >> /\ loose' = loose \cup Unsaved /\ op.at = "closing"
  BY DEF CloseEnds, Down, Running, bounds
<1> SUFFICES ASSUME crashes = 0 PROVE Regular(EmptyCatalog, keys) /\ StoppedInv'
  BY <1>1 DEF RowsInv
<1>2. Regular(meta, keys) /\ Regular(mem, keys) /\ UpInv
  BY <1>1 DEF RowsInv
<1>3. ~InStatement
  BY <1>1, NothingChanging
<1>4. Changing = {}
  BY <1>3, NothingChanging
<1>5. LooseAfter = loose /\ \A m : Expected(m) = acked.rows[m]
  BY <1>3, ExpectedIdle
<1>6. Regular(EmptyCatalog, keys)
  <2>1. \A n \in Name : EmptyCatalog.tables[n] = 0 /\ EmptyCatalog.rows[n] = << >>
    BY DEF EmptyCatalog, NoTables
  <2> QED BY <2>1, NoRows DEF Regular
<1>7. ASSUME NEW n \in Name \ loose'
      PROVE  /\ dir[n].state = "ok" => meta.rows[n] = << >>
             /\ meta.tables[n] # 0 => acked.rows[n] = IF dir[n].state = "ok" THEN dir[n].rows ELSE V1Rows(meta, n)
  <2>1. Shows(n) /\ n \notin loose /\ n \notin Unsaved
    BY <1>1, <1>2, <1>5, <1>7 DEF UpInv
  <2>2. meta.tables[n] = acked.tables[n] /\ (dir[n].state = "ok" \/ AsPromised(V1Rows(meta, n), n))
    BY <2>1 DEF Unsaved
  <2>3. mem.tables[n] = acked.tables[n]
    BY <1>1, <1>4, <2>1 DEF CatalogInv, MemoryInv, MovedInv
  <2>4. CASE dir[n].state = "ok"
    <3>1. meta.rows[n] = << >>
      BY <2>1, <2>2, <2>3, <2>4 DEF Shows, FileOnly
    <3>2. Visible(n) = dir[n].rows
      BY <2>4 DEF Visible
    <3> QED BY <1>5, <2>1, <2>2, <2>3, <2>4, <3>1, <3>2 DEF Shows
  <2>5. CASE dir[n].state # "ok"
    <3>1. AsPromised(V1Rows(meta, n), n)
      BY <2>2, <2>5
    <3>2. ASSUME NEW x \in V1Rows(meta, n) PROVE x \in acked.rows[n]
      <4>1. PICK y \in acked.rows[n] : y.key = x.key
        BY <3>1 DEF AsPromised
      <4>2. y \in V1Rows(meta, n)
        BY <3>1 DEF AsPromised
      <4>3. PICK i \in 1..Len(meta.rows[n]) : x = [key |-> meta.rows[n][i].key, val |-> meta.rows[n][i].val]
        BY DEF V1Rows
      <4>4. PICK j \in 1..Len(meta.rows[n]) : y = [key |-> meta.rows[n][j].key, val |-> meta.rows[n][j].val]
        BY <4>2 DEF V1Rows
      <4>5. i = j
        BY <1>2, <4>1, <4>3, <4>4 DEF Regular, Keyed
      <4> QED BY <4>3, <4>4, <4>5
    <3>3. acked.rows[n] \subseteq V1Rows(meta, n)
      BY <3>1 DEF AsPromised
    <3>4. acked.rows[n] = V1Rows(meta, n)
      BY <3>2, <3>3
    <3> QED BY <2>5, <3>4
  <2> QED BY <2>4, <2>5
<1>8. StoppedInv'
  BY <1>1, <1>7 DEF StoppedInv, V1Rows
<1> QED BY <1>6, <1>8

\* Starting after a clean stop.
LEMMA StartKeepsRows ==
    ASSUME TypeInv, OpInv, TypeInv', OpInv', RowsInv, Recover
    PROVE  RowsInv'
<1>1. /\ ~up /\ up' = TRUE /\ UNCHANGED <<meta, log, dir, open, acked, loose, crashes, keys>> /\ mem' \in Recoverable
      /\ op'.at = "done"
  BY DEF Recover, disk, bounds, Idle
<1> SUFFICES ASSUME crashes = 0 PROVE Regular(mem', keys) /\ UpInv' /\ StatementInv'
  BY <1>1 DEF RowsInv
<1>2. Regular(meta, keys) /\ (meta = NoMeta \/ meta.nextID # 0) /\ StoppedInv
  BY <1>1 DEF RowsInv
<1>3. ~InStatement' /\ StatementInv'
  BY <1>1 DEF InStatement, Unwritten, StatementInv
<1>4. LooseAfter' = loose' /\ \A m : Expected(m)' = acked'.rows[m]
  BY <1>3, ExpectedIdleNext
<1>5. meta \in State /\ meta.nextID \in Nat
  BY DEF TypeInv, State
<1>6. CASE meta = NoMeta
  <2>1. mem' = EmptyCatalog
    BY <1>1, <1>6 DEF Recoverable
  <2>2. /\ \A n \in Name : mem'.tables[n] = 0 /\ mem'.rows[n] = << >> /\ meta.tables[n] = 0 /\ meta.rows[n] = << >>
        /\ mem'.nextID = 1 /\ meta.nextID = 0
    BY <1>6, <2>1 DEF NoMeta, EmptyCatalog, NoTables
  <2>3. Regular(mem', keys)
    BY <2>2, NoRows DEF Regular
  <2>4. \A n \in Name : Shows(n)'
    BY <1>1, <2>2 DEF Shows, FileOnly
  <2> QED BY <1>1, <1>3, <2>2, <2>3, <2>4 DEF UpInv
<1>7. CASE meta # NoMeta
  <2>1. PICK l \in Readable(log) : mem' \in Replayed(l, meta)
    BY <1>1, <1>7 DEF Recoverable
  <2>2. log = << >>
    BY <1>2 DEF StoppedInv
  <2>3. Len(log) = 0 /\ log \in Seq(Entry)
    BY <2>2
  <2>4. ~HasTorn(log)
    BY <2>3 DEF HasTorn
  <2>5. l = << >>
    BY <2>2, <2>3, <2>4, ReadableTyped
  <2>6. mem' = meta
    BY <2>1, <2>5, ReplayedNothing
  <2>7. ASSUME NEW n \in Name \ loose PROVE Shows(n)'
    <3>1. /\ dir[n].state = "ok" => meta.rows[n] = << >>
          /\ meta.tables[n] # 0 => acked.rows[n] = IF dir[n].state = "ok" THEN dir[n].rows ELSE V1Rows(meta, n)
      BY <1>2 DEF StoppedInv
    <3>2. FileOnly(n)'
      BY <1>1, <1>2, <2>6, <3>1 DEF FileOnly, Regular
    <3>3. n \in open => dir[n].state = "ok"
      BY DEF TypeInv
    <3>4. Visible(n)' = IF dir[n].state = "ok" THEN dir[n].rows ELSE V1Rows(meta, n)
      BY <1>1, <2>6, <3>3 DEF Visible, V1Rows
    <3> QED BY <1>1, <1>4, <2>6, <3>1, <3>2, <3>4 DEF Shows
  <2>8. mem'.nextID # 0 /\ meta.nextID <= mem'.nextID
    BY <1>2, <1>5, <1>7, <2>6
  <2> QED BY <1>1, <1>2, <1>3, <1>4, <2>6, <2>7, <2>8 DEF UpInv
<1> QED BY <1>6, <1>7
LEMMA RowsBegin == Init => RowsInv
<1> SUFFICES ASSUME Init PROVE RowsInv
  OBVIOUS
<1>1. up /\ op = Idle /\ loose = {} /\ acked.rows = [n \in Name |-> V1Rows(mem, n)] /\ open = {} /\ crashes = 0
      /\ dir = [n \in Name |-> NoFile]
  BY DEF Init
<1>2. OpInv /\ ~InStatement
  BY <1>1, InitOK, NothingChanging
<1>3. LooseAfter = loose /\ \A n : Expected(n) = acked.rows[n]
  BY <1>2, ExpectedIdle
<1>4. StatementInv
  BY <1>2 DEF StatementInv, InStatement, Unwritten
<1>5. ASSUME NEW n \in Name PROVE Shows(n)
  <2>1. dir[n].state # "ok" /\ n \notin open
    BY <1>1 DEF NoFile
  <2>2. Visible(n) = acked.rows[n]
    BY <1>1, <2>1 DEF Visible
  <2> QED BY <1>3, <2>1, <2>2 DEF Shows, FileOnly
<1>6. CASE meta = NoMeta /\ mem = EmptyCatalog /\ keys = 0
  <2>1. /\ \A n \in Name : mem.tables[n] = 0 /\ mem.rows[n] = << >> /\ meta.tables[n] = 0 /\ meta.rows[n] = << >>
        /\ mem.nextID = 1 /\ meta.nextID = 0
    BY <1>6 DEF NoMeta, EmptyCatalog, NoTables
  <2>2. Regular(mem, keys) /\ Regular(meta, keys)
    BY <2>1, NoRows DEF Regular
  <2>3. UpInv
    BY <1>5, <2>1 DEF UpInv
  <2> QED BY <1>1, <1>4, <1>6, <2>2, <2>3 DEF RowsInv
<1>7. ASSUME NEW n \in Name, meta = V1Meta(n), mem = meta, keys = 1 PROVE RowsInv
  <2> DEFINE s == <<V1Row>>
  <2>1. Len(s) = 1 /\ s[1].key = 1
    BY DEF V1Row
  <2>2. Keyed(s, 1)
    BY <2>1 DEF Keyed
  <2> HIDE DEF s
  <2>3. /\ \A m \in Name : /\ meta.tables[m] = IF m = n THEN 1 ELSE 0
                           /\ meta.rows[m] = IF m = n THEN s ELSE << >>
        /\ meta.nextID = 3
    BY <1>7 DEF V1Meta, NoTables, EmptyCatalog, s
  <2>4. Regular(meta, keys)
    BY <1>7, <2>2, <2>3, NoRows DEF Regular
  <2>5. UpInv
    BY <1>5, <1>7, <2>3 DEF UpInv
  <2> QED BY <1>1, <1>4, <1>7, <2>3, <2>4, <2>5 DEF RowsInv
<1> QED BY <1>6, <1>7 DEF Init

\* Until a crash, every table that is promised anything has its rows, in its file or in memory.
LEMMA RowsInvariant == Spec => []RowsInv
<1>1. ShapeInv /\ ShapeInv' /\ CatalogInv /\ RowsInv /\ [Next]_vars => RowsInv'
  <2> SUFFICES ASSUME TypeInv, OpInv, TypeInv', OpInv', CatalogInv, RowsInv, [Next]_vars PROVE RowsInv'
    BY DEF ShapeInv
  <2>1. CASE UNCHANGED vars
    <3>1. LooseAfter' = LooseAfter /\ \A n : Expected(n)' = Expected(n)
      BY <2>1 DEF vars, LooseAfter, Expected, Promise, InStatement, Unwritten
    <3>2. \A n \in Name : Shows(n)' = Shows(n)
      BY <2>1, <3>1 DEF vars, Shows, FileOnly, Visible, V1Rows
    <3>3. UpInv' = UpInv
      BY <2>1, <3>1, <3>2 DEF vars, UpInv
    <3>4. StatementInv' = StatementInv
      BY <2>1 DEF vars, StatementInv, InStatement, Unwritten
    <3>5. StoppedInv' = StoppedInv
      BY <2>1 DEF vars, StoppedInv, V1Rows
    <3> QED BY <2>1, <3>3, <3>4, <3>5 DEF vars, RowsInv
  <2>2. ASSUME NEW n \in Name,
               \/ CreateTable(n) \/ DropTable(n) \/ TruncateOpen(n) \/ TruncateTable(n)
               \/ InsertRowV2(n) \/ InsertRowV1(n) \/ GetRows(n)
        PROVE  RowsInv'
    BY <2>2, CreateKeepsRows, DropKeepsRows, OpenKeepsRows, TruncateKeepsRows, InsertV2KeepsRows,
       RowStatementKeepsRows, Zenon
  <2>3. ASSUME NEW n \in Name, NEW k \in Keys, UpdateRows(n, k) \/ DeleteRows(n, k) PROVE RowsInv'
    BY <2>3, RowStatementKeepsRows DEF UpdateRows, DeleteRows
  <2>4. CASE MakeFile \/ WriteHeader \/ CreateFileFails \/ WriteWAL \/ WriteWALFails \/ Finish \/ SaveFails
    BY <2>4, MakeFileKeepsRows, FailingKeepsRows, WriteKeepsRows, FinishKeepsRows, Zenon
  <2>5. CASE \/ \E skip \in BOOLEAN : SetSkipSave(skip)
             \/ ForceSave \/ Checkpoint \/ CheckpointRecord \/ EmptyLog \/ Close \/ Recovered
             \/ CloseEnds \/ Recover
    BY <2>5, QuietKeepsRows, FinishKeepsRows, CloseKeepsRows, StartKeepsRows, Zenon
  <2>6. CASE Crash
    <3>1. crashes' = crashes + 1 /\ crashes \in Nat
      BY <2>6, CatalogAssumption DEF Crash, TypeInv
    <3> QED BY <3>1 DEF RowsInv
  <2>7. ASSUME NEW o \in Name, NEW n \in Name, RenameTable(o, n) PROVE RowsInv'
    BY <2>7, RenameKeepsRows
  <2> QED BY <2>1, <2>2, <2>3, <2>4, <2>5, <2>6, <2>7, Zenon DEF Next
<1>2. Init => RowsInv
  BY RowsBegin
<1> QED BY <1>1, <1>2, ShapeInvariant, CatalogInvariant, PTL DEF Spec

\* While the process runs, names, handles, files and rows stay together: the types are right
\* and a table that statements succeeded on has the rows they left.
THEOREM RunningIsSound == Spec => []RunningSound
<1>1. ShapeInv => TypeOK
  <2> SUFFICES ASSUME TypeInv PROVE TypeOK
    BY DEF ShapeInv
  <2>1. \A c \in {meta, mem} : /\ c.tables \in [Name -> Nat] /\ c.nextID \in Nat
                               /\ \A n \in Name : c.rows[n] \in Seq(Row)
    BY DEF TypeInv, State
  <2>2. log \in Seq([type : RecordTypes, tid : Nat, name : Name \cup {None}, row : Row])
    BY DEF TypeInv, Entry
  <2>3. \A n \in Name : /\ dir[n].state \in {"none", "bad", "ok"}
                        /\ dir[n].rows \subseteq [key : Nat, val : {0, 1}]
    BY DEF TypeInv, TableFile, Pair
  <2> QED BY <2>1, <2>2, <2>3 DEF TypeInv, TypeOK
<1>2. ShapeInv /\ RowsInv => RowsFollowNames
  <2> SUFFICES ASSUME OpInv, RowsInv, Ready, crashes = 0, NEW n \in Name \ loose, mem.tables[n] # 0
               PROVE  Visible(n) = acked.rows[n]
    BY DEF ShapeInv, RowsFollowNames
  <2>1. ~InStatement
    BY NothingChanging
  <2>2. LooseAfter = loose /\ Expected(n) = acked.rows[n]
    BY <2>1, ExpectedIdle
  <2>3. Shows(n)
    BY <2>2 DEF RowsInv, UpInv, Ready
  <2> QED BY <2>2, <2>3 DEF Shows
<1>3. ShapeInv /\ RowsInv => RunningSound
  BY <1>1, <1>2 DEF RunningSound
<1> QED BY <1>3, ShapeInvariant, RowsInvariant, PTL
=============================================================================
