------------------------------- MODULE Catalog -------------------------------
(***************************************************************************)
(* The catalog of a persistent database: s.tables, the rows of V1 tables   *)
(* (s.rowData), the metadata file, the write-ahead log and the directory   *)
(* of table files (storage.go, wal.go).                                    *)
(*                                                                         *)
(* Every operation holds s.mu for its whole body, so one is in progress at *)
(* a time (op).  Its writes are separate steps, the process may die        *)
(* between any two of them or in the middle of a log record, and at most   *)
(* MaxFaults writes fail.  The metadata file is replaced by a rename and   *)
(* is never torn.                                                          *)
(*                                                                         *)
(* A V2 table keeps its rows in the file named after it.  What a crash     *)
(* leaves inside such a file is the subject of TableStore; here a file is  *)
(* the set of its rows.  A V1 table, of a database of the earlier format   *)
(* or one whose file is missing, keeps them in the metadata file.  A row   *)
(* is its row id, a key that no other row has and a column val.            *)
(*                                                                         *)
(* Left out: sequences, blobs, encryption, full-text indexes, the log      *)
(* sequence numbers (no decision depends on them) and failing renames.     *)
(***************************************************************************)
EXTENDS Integers, Sequences, SequencesExt

CONSTANTS Name,          \* table names
          None,          \* not a table name
          MaxID,         \* bound on s.nextID
          MaxKey,        \* bound on the number of rows ever inserted
          MaxWrites,     \* bound on the log records ever written
          MaxCrashes,    \* bound on the number of crashes
          MaxFaults      \* bound on the number of failed writes

ASSUME CatalogAssumption ==
    /\ None \notin Name
    /\ MaxID \in Nat /\ MaxKey \in Nat /\ MaxWrites \in Nat
    /\ MaxCrashes \in Nat /\ MaxFaults \in Nat

VARIABLES meta,      \* on disk: the metadata file
          log,       \* on disk: the write-ahead log
          dir,       \* on disk: the table file of each name
          up,        \* a Storage is open
          mem,       \* s.tables (the id, 0 if absent), s.rowData and s.nextID
          open,      \* the names in s.tableFiles
          skipSave,  \* s.skipSave: bulk import mode
          op,        \* the operation in progress
          acked,     \* history: the tables and rows the statements promised
          loose,     \* history: names of which nothing is promised
          unlogged,  \* history: names changed since the log was emptied by
                     \* something that replay does not repeat
          reused,    \* history: an id was given out that the log also holds
          keys, writes, crashes, faults

disk == <<meta, log, dir>>
bounds == <<keys, writes, crashes, faults>>
vars == <<meta, log, dir, up, mem, open, skipSave, op, acked, loose, unlogged,
          reused, keys, writes, crashes, faults>>

----------------------------------------------------------------------------
(* Files, records and states of the catalog.                                *)

NoFile == [state |-> "none", rows |-> {}]
BadFile == [state |-> "bad", rows |-> {}]     \* created, its header not written
NewFile == [state |-> "ok", rows |-> {}]

NoRow == [id |-> 0, key |-> 0, val |-> 0]
Record(type, tid, name, row) == [type |-> type, tid |-> tid, name |-> name, row |-> row]
Torn == Record("torn", 0, None, NoRow)
IsTorn(rec) == rec.type = "torn"

NoTables == [n \in Name |-> 0]
EmptyCatalog == [tables |-> NoTables, rows |-> [n \in Name |-> << >>], nextID |-> 1]

\* The metadata file before its first save.
NoMeta == [EmptyCatalog EXCEPT !.nextID = 0]

SetTable(c, n, id) == [c EXCEPT !.tables[n] = id, !.rows[n] = << >>]
Find(rows, id) == SelectInSeq(rows, LAMBDA r : r.id = id)

----------------------------------------------------------------------------
(* Operations.                                                              *)

Idle == [kind |-> "idle", at |-> "start", name |-> None, to |-> None, pos |-> << >>, todo |-> << >>]
NewOp(kind, n, to, at, pos, todo) ==
    [kind |-> kind, at |-> at, name |-> n, to |-> to, pos |-> pos, todo |-> todo]

Ready == up /\ op.kind = "idle"
Running(at) == up /\ op.at = at
Exists(n) == mem.tables[n] # 0
Goto(at) == op' = [op EXCEPT !.at = at]

\* The id the operation takes is one that a record of the log also has.
InLog(id) == \E i \in 1..Len(log) : id \in {log[i].tid, log[i].row.id}

\* The operation fails: the statement promises nothing of its tables.
Fail ==
    /\ op' = Idle
    /\ loose' = loose \cup ({op.name, op.to} \ {None})
    /\ UNCHANGED <<acked, unlogged, reused>>

\* What the rows of a table are when it is read.
V1Rows(c, n) == {[key |-> c.rows[n][i].key, val |-> c.rows[n][i].val] : i \in 1..Len(c.rows[n])}
Visible(n) == IF n \in open \/ dir[n].state = "ok" THEN dir[n].rows ELSE V1Rows(mem, n)

\* (history) rows are what n was promised to hold, but that replay may repeat a row
\* with a value it had before.
AsPromised(rows, n) ==
    /\ acked.rows[n] \subseteq rows
    /\ {r.key : r \in rows} \subseteq {r.key : r \in acked.rows[n]}

\* CreateTable registers the table and takes an id before anything is written.
\* A file of that name fails the statement and leaves the table registered.
CreateTable(n) ==
    /\ Ready /\ ~Exists(n) /\ mem.nextID < MaxID /\ writes < MaxWrites
    /\ mem' = [mem EXCEPT !.tables[n] = mem.nextID, !.nextID = @ + 1]
    /\ reused' = (reused \/ InLog(mem.nextID))
    /\ IF dir[n] # NoFile
       THEN op' = Idle /\ loose' = loose \cup {n}
       ELSE /\ op' = NewOp("create", n, None, "makefile", << >>,
                           <<Record("create", mem.nextID, n, NoRow)>>)
            /\ UNCHANGED loose
    /\ UNCHANGED <<disk, up, open, skipSave, acked, unlogged, bounds>>

\* CreateTableFile: the file is created, then its header is written; when that
\* fails the file is removed.
MakeFile ==
    /\ Running("makefile")
    /\ dir' = [dir EXCEPT ![op.name] = BadFile]
    /\ Goto("header")
    /\ UNCHANGED <<meta, log, up, mem, open, skipSave, acked, loose, unlogged, reused, bounds>>

WriteHeader ==
    /\ Running("header")
    /\ dir' = [dir EXCEPT ![op.name] = NewFile]
    /\ open' = open \cup {op.name}
    /\ Goto("wal")
    /\ UNCHANGED <<meta, log, up, mem, skipSave, acked, loose, unlogged, reused, bounds>>

CreateFileFails ==
    /\ op.at \in {"makefile", "header"} /\ up
    /\ faults < MaxFaults /\ faults' = faults + 1
    /\ dir' = [dir EXCEPT ![op.name] = NoFile]
    /\ Fail
    /\ UNCHANGED <<meta, log, up, mem, open, skipSave, keys, writes, crashes>>

\* DropTable removes table_<id>.db, a file that does not exist; the table's file
\* and its entry in s.tableFiles stay.
DropTable(n) ==
    /\ Ready /\ Exists(n) /\ writes < MaxWrites
    /\ mem' = SetTable(mem, n, 0)
    /\ op' = NewOp("drop", n, None, "wal", << >>, <<Record("drop", mem.tables[n], n, NoRow)>>)
    /\ UNCHANGED <<disk, up, open, skipSave, acked, loose, unlogged, reused, bounds>>

\* Mutant of Renamed: the rows of a V1 table stay under the old name.
RenamedWithoutRows(o, n) ==
    [mem EXCEPT !.tables[n] = mem.tables[o], !.tables[o] = 0]

Renamed(o, n) ==
    [mem EXCEPT !.tables[n] = mem.tables[o], !.tables[o] = 0,
                !.rows[n] = mem.rows[o], !.rows[o] = << >>]

\* The file follows only an open table, and replaces one that has the new name.
\* (history) A table that is not open leaves its file behind, or meets one.
RenameTable(o, n) ==
    /\ Ready /\ Exists(o) /\ ~Exists(n) /\ writes < MaxWrites
    /\ mem' = Renamed(o, n)
    /\ IF o \in open
       THEN /\ open' = (open \ {o}) \cup {n}
            /\ dir' = [dir EXCEPT ![n] = dir[o], ![o] = NoFile]
       ELSE UNCHANGED <<open, dir>>
    /\ op' = NewOp("rename", o, n, "wal", << >>, <<Record("rename", mem.tables[o], o, NoRow)>>)
    /\ unlogged' = unlogged \cup {o, n}
    /\ loose' = IF o \in open \/ (dir[o] = NoFile /\ dir[n] = NoFile)
                THEN loose ELSE loose \cup {o}
    /\ UNCHANGED <<meta, log, up, skipSave, acked, reused, bounds>>

\* TruncateTable of an open V2 table: Clear, and nothing is logged.
TruncateOpen(n) ==
    /\ Ready /\ Exists(n) /\ n \in open
    /\ dir' = [dir EXCEPT ![n].rows = {}]
    /\ acked' = [acked EXCEPT !.rows[n] = {}]
    /\ UNCHANGED <<meta, log, up, mem, open, skipSave, op, loose, unlogged, reused, bounds>>

\* ... of any other: a V2 table that is not open keeps its rows.
TruncateTable(n) ==
    /\ Ready /\ Exists(n) /\ n \notin open /\ writes < MaxWrites
    /\ mem' = [mem EXCEPT !.rows[n] = << >>]
    /\ op' = NewOp("truncate", n, None, "wal", << >>,
                   <<Record("truncate", mem.tables[n], n, NoRow)>>)
    /\ unlogged' = unlogged \cup {n}
    /\ loose' = IF dir[n].state = "ok" THEN loose \cup {n} ELSE loose
    /\ UNCHANGED <<disk, up, open, skipSave, acked, reused, bounds>>

\* InsertRow into a V2 table opens its file; the row takes two ids, one here and
\* one in TableFile.InsertRow.
InsertRowV2(n) ==
    /\ Ready /\ Exists(n) /\ (n \in open \/ dir[n].state = "ok")
    /\ mem.nextID + 1 < MaxID /\ keys < MaxKey
    /\ keys' = keys + 1
    /\ mem' = [mem EXCEPT !.nextID = @ + 2]
    /\ dir' = [dir EXCEPT ![n].rows = @ \cup {[key |-> keys', val |-> 0]}]
    /\ open' = open \cup {n}
    /\ acked' = [acked EXCEPT !.rows[n] = @ \cup {[key |-> keys', val |-> 0]}]
    /\ reused' = (reused \/ InLog(mem.nextID))
    /\ UNCHANGED <<meta, log, up, skipSave, op, loose, unlogged, writes, crashes, faults>>

InsertRowV1(n) ==
    /\ Ready /\ Exists(n) /\ n \notin open /\ dir[n].state # "ok"
    /\ mem.nextID < MaxID /\ keys < MaxKey /\ writes < MaxWrites
    /\ keys' = keys + 1
    /\ mem' = [mem EXCEPT !.nextID = @ + 1]
    /\ op' = NewOp("insert", n, None, "wal", << >>,
                   <<Record("insert", mem.tables[n], n,
                            [id |-> mem.nextID, key |-> keys', val |-> 0])>>)
    /\ reused' = (reused \/ InLog(mem.nextID))
    /\ UNCHANGED <<disk, up, open, skipSave, acked, loose, unlogged, writes, crashes, faults>>

\* The positions of the V1 rows with key k, in order, and a record for each.  The
\* WithFunc and WithCallback variants look at them even when a file is open too.
Matches(n, k) ==
    LET rows == mem.rows[n]
        first[i \in 0..Len(rows)] ==
            IF i = 0 THEN << >>
            ELSE IF rows[i].key = k THEN Append(first[i - 1], i) ELSE first[i - 1]
    IN  first[Len(rows)]

ChangeRows(kind, n, k, val) ==
    LET pos == Matches(n, k)
        rec(i) == Record(kind, mem.tables[n], n, [mem.rows[n][i] EXCEPT !.val = val])
    IN  /\ Ready /\ Exists(n) /\ pos # << >>
        /\ writes + Len(pos) <= MaxWrites
        /\ op' = NewOp(kind, n, None, "wal", pos, [j \in 1..Len(pos) |-> rec(pos[j])])
        /\ UNCHANGED <<disk, up, mem, open, skipSave, acked, loose, unlogged, reused, bounds>>

\* UpdateRows, UpdateRowsWithFunc and UpdateRowsWithCallback on a V1 table.
UpdateRows(n, k) == ChangeRows("update", n, k, 1)

\* DeleteRows and DeleteRowsWithCallback on a V1 table.
DeleteRows(n, k) == ChangeRows("delete", n, k, 0)

\* An update changes each row in memory before it is logged.
Touched == IF op.kind = "update"
           THEN [mem EXCEPT !.rows[op.name][Head(op.pos)].val = 1] ELSE mem

\* The rows that do not have key k, in their order.
Without(rows, k) ==
    LET kept[i \in 0..Len(rows)] ==
            IF i = 0 THEN << >>
            ELSE IF rows[i].key = k THEN kept[i - 1] ELSE Append(kept[i - 1], rows[i])
    IN  kept[Len(rows)]

\* After the last record, inserts and deletions change the rows in memory.  (A
\* deletion removes the rows whose records it wrote, those with the key.)
Applied(rec) ==
    CASE op.kind = "insert" -> [mem EXCEPT !.rows[op.name] = Append(@, rec.row)]
      [] op.kind = "delete" /\ Len(op.todo) = 1 ->
            [mem EXCEPT !.rows[op.name] = Without(@, rec.row.key)]
      [] OTHER -> Touched

\* writeWAL.
WriteWAL ==
    /\ Running("wal")
    /\ log' = Append(log, Head(op.todo))
    /\ writes' = writes + 1
    /\ mem' = Applied(Head(op.todo))
    /\ op' = [op EXCEPT !.todo = Tail(@), !.pos = IF @ = << >> THEN @ ELSE Tail(@),
                        !.at = IF Len(op.todo) = 1 THEN "save" ELSE "wal"]
    /\ UNCHANGED <<meta, dir, up, open, skipSave, acked, loose, unlogged, reused,
                   keys, crashes, faults>>

\* A failed write may leave a part of the record.
WriteWALFails ==
    /\ Running("wal")
    /\ faults < MaxFaults /\ faults' = faults + 1
    /\ log' \in {log, Append(log, Torn)}
    /\ mem' = Touched
    /\ Fail
    /\ UNCHANGED <<meta, dir, up, open, skipSave, keys, writes, crashes>>

\* saveMetadata.
Saved == IF skipSave THEN meta ELSE mem

\* What an operation that succeeded promises.
Promise ==
    LET n == op.name
        row == log[Len(log)].row
        old == [key |-> row.key, val |-> 0]
    IN  CASE op.kind = "create" -> [acked EXCEPT !.tables[n] = mem.tables[n], !.rows[n] = {}]
          [] op.kind = "drop" -> [acked EXCEPT !.tables[n] = 0, !.rows[n] = {}]
          [] op.kind = "rename" ->
                [acked EXCEPT !.tables[op.to] = acked.tables[n], !.tables[n] = 0,
                              !.rows[op.to] = acked.rows[n], !.rows[n] = {}]
          [] op.kind = "truncate" -> [acked EXCEPT !.rows[n] = {}]
          [] op.kind = "insert" -> [acked EXCEPT !.rows[n] = @ \cup {old}]
          [] op.kind = "update" ->
                [acked EXCEPT !.rows[n] = (@ \ {old}) \cup {[old EXCEPT !.val = 1]}]
          [] op.kind = "delete" ->
                [acked EXCEPT !.rows[n] = {r \in @ : r.key # row.key}]
          [] OTHER -> acked

\* Of which names nothing is promised once it succeeded.
LooseAfter ==
    CASE op.kind \in {"create", "drop"} -> loose \ {op.name}
      [] op.kind = "rename" -> (loose \ {op.name, op.to})
                                   \cup (IF op.name \in loose THEN {op.to} ELSE {})
      [] OTHER -> loose

\* A deletion that only the log has, of a row that the log inserts and that the
\* metadata file may hold as well: replay removes one of the two.
HalfDeleted ==
    /\ op.kind = "delete" /\ skipSave
    /\ \E i \in 1..Len(log) : log[i].type = "insert" /\ log[i].row.id = log[Len(log)].row.id

Finish ==
    /\ Running("save")
    /\ meta' = Saved
    /\ acked' = Promise
    /\ loose' = LooseAfter
    /\ unlogged' = IF HalfDeleted THEN unlogged \cup {op.name} ELSE unlogged
    /\ op' = Idle
    /\ UNCHANGED <<log, dir, up, mem, open, skipSave, reused, bounds>>

SaveFails ==
    /\ Running("save") /\ ~skipSave
    /\ faults < MaxFaults /\ faults' = faults + 1
    /\ Fail
    /\ UNCHANGED <<disk, up, mem, open, skipSave, keys, writes, crashes>>

\* GetRows opens the file of a table that is not open.
GetRows(n) ==
    /\ Ready /\ Exists(n) /\ n \notin open /\ dir[n].state = "ok"
    /\ open' = open \cup {n}
    /\ UNCHANGED <<disk, up, mem, skipSave, op, acked, loose, unlogged, reused, bounds>>

----------------------------------------------------------------------------
(* Saving, emptying the log, stopping and starting.                         *)

\* The names whose table or rows the metadata file does not have as promised.
Unsaved ==
    {n \in Name : \/ meta.tables[n] # acked.tables[n]
                  \/ dir[n].state # "ok" /\ ~AsPromised(V1Rows(meta, n), n)}

SetSkipSave(skip) ==
    /\ Ready /\ skipSave # skip
    /\ skipSave' = skip
    /\ UNCHANGED <<disk, up, mem, open, op, acked, loose, unlogged, reused, bounds>>

\* ForceSave saves whatever skipSave says, then empties the log.
ForceSave ==
    /\ Ready
    /\ meta' = mem
    /\ op' = [Idle EXCEPT !.kind = "empty", !.at = "empty"]
    /\ UNCHANGED <<log, dir, up, mem, open, skipSave, acked, loose, unlogged, reused, bounds>>

\* Checkpoint saves only if skipSave allows it, logs a record and empties the log.
Checkpoint ==
    /\ Ready /\ writes < MaxWrites
    /\ meta' = Saved
    /\ op' = [Idle EXCEPT !.kind = "empty", !.at = "record"]
    /\ UNCHANGED <<log, dir, up, mem, open, skipSave, acked, loose, unlogged, reused, bounds>>

CheckpointRecord ==
    /\ Running("record")
    /\ log' = Append(log, Record("checkpoint", 0, None, NoRow))
    /\ writes' = writes + 1
    /\ Goto("empty")
    /\ UNCHANGED <<meta, dir, up, mem, open, skipSave, acked, loose, unlogged, reused,
                   keys, crashes, faults>>

\* (history) What only the log had is gone.
EmptyLog ==
    /\ Running("empty")
    /\ log' = << >>
    /\ unlogged' = Unsaved
    /\ op' = Idle
    /\ UNCHANGED <<meta, dir, up, mem, open, skipSave, acked, loose, reused, bounds>>

\* Close saves if skipSave allows it and empties the log; TableStore has the
\* flushing of the table files.
Close ==
    /\ Ready
    /\ meta' = Saved
    /\ op' = [Idle EXCEPT !.kind = "close", !.at = "closing"]
    /\ UNCHANGED <<log, dir, up, mem, open, skipSave, acked, loose, unlogged, reused, bounds>>

Down ==
    /\ up' = FALSE
    /\ mem' = EmptyCatalog /\ open' = {} /\ skipSave' = FALSE /\ op' = Idle

CloseEnds ==
    /\ Running("closing")
    /\ Down
    /\ log' = << >>
    /\ unlogged' = Unsaved
    /\ loose' = loose \cup unlogged'
    /\ UNCHANGED <<meta, dir, acked, reused, bounds>>

\* (history) The names that a crash may change.  A torn record spoils the log, and
\* without a metadata file it is not read: then the metadata file is all there is.
\* Records that follow a torn one spoil the rest.
CrashLoses(l) ==
    LET torn == {i \in 1..Len(l) : IsTorn(l[i])}
    IN  (IF torn # {} \/ meta = NoMeta THEN Unsaved ELSE {})
            \cup (IF \E i \in torn : i < Len(l) THEN Name ELSE {})
            \cup unlogged \cup ({op.name, op.to} \ {None})

\* The process dies, perhaps in the middle of a record.
Crash ==
    /\ up /\ crashes < MaxCrashes /\ crashes' = crashes + 1
    /\ \E l \in {log} \cup (IF op.at \in {"wal", "record"} THEN {Append(log, Torn)} ELSE {}) :
           log' = l /\ loose' = loose \cup CrashLoses(l)
    /\ Down
    /\ UNCHANGED <<meta, dir, acked, unlogged, reused, keys, writes, faults>>

\* ReadAll: a record that ends with the file is an error, and nothing is replayed.
\* Where others follow, the reader takes their bytes for its own: the checksum
\* ends the reading there, unless the length it takes goes past the end of the file.
Readable(l) ==
    LET torn == {i \in 1..Len(l) : IsTorn(l[i])}
        first == CHOOSE i \in torn : \A j \in torn : i <= j
    IN  IF torn = {} THEN {l}
        ELSE {<< >>} \cup (IF first < Len(l) THEN {SubSeq(l, 1, first - 1)} ELSE {})

\* Mutant of ReplayRow: DELETE records are not replayed.
ReplayRowWithoutDelete(rec, c, n) ==
    LET at == Find(c.rows[n], rec.row.id)
    IN  CASE rec.type = "insert" -> [c EXCEPT !.rows[n] = Append(@, rec.row)]
          [] rec.type = "update" /\ at # 0 -> [c EXCEPT !.rows[n] = ReplaceAt(@, at, rec.row)]
          [] OTHER -> c

\* recoverFromWAL: a row record applied to table n of catalog c.
ReplayRow(rec, c, n) ==
    LET at == Find(c.rows[n], rec.row.id)
    IN  CASE rec.type = "insert" -> [c EXCEPT !.rows[n] = Append(@, rec.row)]
          [] rec.type = "update" /\ at # 0 -> [c EXCEPT !.rows[n] = ReplaceAt(@, at, rec.row)]
          [] rec.type = "delete" /\ at # 0 -> [c EXCEPT !.rows[n] = RemoveAt(@, at)]
          [] OTHER -> c

\* Any table that has the record's table id.
Owners(rec, c) == {n \in Name : c.tables[n] # 0 /\ c.tables[n] = rec.tid}
IsRowRecord(rec) == rec.type \in {"insert", "update", "delete"}

\* Mutant of Replay: DROP records are not replayed.
ReplayWithoutDrop(rec, c) ==
    IF rec.type = "create" THEN {SetTable(c, rec.name, rec.tid)}
    ELSE IF IsRowRecord(rec) /\ Owners(rec, c) # {}
         THEN {ReplayRow(rec, c, n) : n \in Owners(rec, c)} ELSE {c}

\* recoverFromWAL: one record applied to catalog c.  RENAME, TRUNCATE and
\* CHECKPOINT records have no effect.
Replay(rec, c) ==
    CASE rec.type = "create" -> {SetTable(c, rec.name, rec.tid)}
      [] rec.type = "drop" -> {SetTable(c, rec.name, 0)}
      [] IsRowRecord(rec) /\ Owners(rec, c) # {} ->
            {ReplayRow(rec, c, n) : n \in Owners(rec, c)}
      [] OTHER -> {c}

Replayed(l, c) ==
    LET After[i \in 0..Len(l)] ==
            IF i = 0 THEN {c} ELSE UNION {Replay(l[i], d) : d \in After[i - 1]}
    IN  After[Len(l)]

\* loadMetadata and recoverFromWAL: what a restart may find.  Without a metadata
\* file the log is not read.
Recoverable ==
    IF meta = NoMeta THEN {EmptyCatalog} ELSE UNION {Replayed(l, meta) : l \in Readable(log)}

\* NewStorage.
Recover ==
    /\ ~up
    /\ up' = TRUE
    /\ mem' \in Recoverable
    /\ op' = [Idle EXCEPT !.kind = "recover", !.at = "done"]
    /\ UNCHANGED <<disk, open, skipSave, acked, loose, unlogged, reused, bounds>>

Recovered ==
    /\ Running("done")
    /\ op' = Idle
    /\ UNCHANGED <<disk, up, mem, open, skipSave, acked, loose, unlogged, reused, bounds>>

----------------------------------------------------------------------------
\* A database of the V1 format with a table n of one row.
V1Row == [id |-> 2, key |-> 1, val |-> 0]
V1Meta(n) == [tables |-> [NoTables EXCEPT ![n] = 1],
              rows |-> [EmptyCatalog.rows EXCEPT ![n] = <<V1Row>>], nextID |-> 3]

\* A new directory, or a V1 database whose log is empty or still has the row.
Init ==
    /\ \/ meta = NoMeta /\ log = << >> /\ mem = EmptyCatalog /\ keys = 0
       \/ \E n \in Name : /\ meta = V1Meta(n) /\ mem = meta /\ keys = 1
                          /\ log \in {<< >>, <<Record("insert", 1, n, V1Row)>>}
    /\ dir = [n \in Name |-> NoFile]
    /\ up = TRUE /\ open = {} /\ skipSave = FALSE /\ op = Idle
    /\ acked = [tables |-> mem.tables, rows |-> [n \in Name |-> V1Rows(mem, n)]]
    /\ loose = {} /\ unlogged = {} /\ reused = FALSE
    /\ writes = 0 /\ crashes = 0 /\ faults = 0

Keys == 1..MaxKey

Next ==
    \/ \E n \in Name : CreateTable(n)
    \/ MakeFile
    \/ WriteHeader
    \/ CreateFileFails
    \/ \E n \in Name : DropTable(n)
    \/ \E o, n \in Name : RenameTable(o, n)
    \/ \E n \in Name : TruncateOpen(n)
    \/ \E n \in Name : TruncateTable(n)
    \/ \E n \in Name : InsertRowV2(n)
    \/ \E n \in Name : InsertRowV1(n)
    \/ \E n \in Name, k \in Keys : UpdateRows(n, k)
    \/ \E n \in Name, k \in Keys : DeleteRows(n, k)
    \/ WriteWAL
    \/ WriteWALFails
    \/ Finish
    \/ SaveFails
    \/ \E n \in Name : GetRows(n)
    \/ \E skip \in BOOLEAN : SetSkipSave(skip)
    \/ ForceSave
    \/ Checkpoint
    \/ CheckpointRecord
    \/ EmptyLog
    \/ Close
    \/ CloseEnds
    \/ Crash
    \/ Recover
    \/ Recovered

Spec == Init /\ [][Next]_vars

----------------------------------------------------------------------------
(* Properties.                                                              *)

Row == [id : Nat, key : Nat, val : {0, 1}]
RecordTypes == {"create", "drop", "rename", "truncate", "insert", "update", "delete",
                "checkpoint", "torn"}
TypeOK ==
    /\ \A c \in {meta, mem} : /\ c.tables \in [Name -> Nat] /\ c.nextID \in Nat
                              /\ \A n \in Name : c.rows[n] \in Seq(Row)
    /\ log \in Seq([type : RecordTypes, tid : Nat, name : Name \cup {None}, row : Row])
    /\ \A n \in Name : /\ dir[n].state \in {"none", "bad", "ok"}
                       /\ dir[n].rows \subseteq [key : Nat, val : {0, 1}]
    /\ open \subseteq {n \in Name : dir[n].state = "ok"}
    /\ loose \subseteq Name /\ unlogged \subseteq Name
    /\ crashes \in 0..MaxCrashes /\ faults \in 0..MaxFaults

Restarted == Running("done")

\* After a restart the catalog has exactly the tables that CREATE, DROP and RENAME
\* acknowledged, with their ids: from the metadata file and a log that repeats, or
\* lacks, what the file already holds.  Excepted are the tables of statements that
\* failed or were cut off, and what is known to be lost: a rename that is only in the
\* log, everything that is only in a log with a torn record or without a metadata file.
CatalogSurvives ==
    Restarted => \A n \in Name \ loose : mem.tables[n] = acked.tables[n]

\* After a restart a V1 table has every row that was inserted, with its last value,
\* and no row that was deleted: replay on top of the metadata repeats rows but loses
\* none.  Excepted too are databases in which an id was given out twice.
RowsSurvive ==
    (Restarted /\ ~reused) => \A n \in Name \ loose :
        mem.tables[n] # 0 => AsPromised(Visible(n), n)

\* While the process runs, a table that statements succeeded on has the rows they
\* left, through every rename and reuse of names, files and handles.
RowsFollowNames ==
    (Ready /\ crashes = 0) => \A n \in Name \ loose :
        mem.tables[n] # 0 => Visible(n) = acked.rows[n]

\* Without a crash, names, handles, files and rows stay together.
RunningSound == TypeOK /\ RowsFollowNames
=============================================================================
