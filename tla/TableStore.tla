----------------------------- MODULE TableStore -----------------------------
(***************************************************************************)
(* The row data path of a persistent database: storage.go over             *)
(* tablefile.go over the page cache that all tables share.                 *)
(*                                                                         *)
(* Every operation of Storage that changes rows holds s.mu for its whole   *)
(* body, so one operation is in progress at a time (op); its file writes   *)
(* are separate steps, and the process may die between any two of them.    *)
(* What was written before survives.  A write may also fail (at most       *)
(* MaxFaults times).                                                       *)
(*                                                                         *)
(* A row is the value of its auto-increment column (key) and one more      *)
(* column (val), 0 when inserted and 1 once updated; RowsPerPage of them   *)
(* fill a page.  Page 0 of a file is its header, kept in memory by an open *)
(* handle.  The cache is a sequence of pages, most recently used first,    *)
(* found by their page id alone.  No page is ever marked dirty by          *)
(* TableFile, so evictLRU never fails here.                                *)
(*                                                                         *)
(* The tables exist already, in the V2 format, without blobs.  Reads hold  *)
(* s.mu shared and change only the cache; they too run one at a time here. *)
(***************************************************************************)
EXTENDS Integers, Sequences, SequencesExt

CONSTANTS Table,         \* the tables
          RowsPerPage,   \* how many rows CanInsert lets into a page
          MaxPages,      \* the limit of the page cache
          MaxID,         \* bound on s.nextID
          MaxCrashes,    \* bound on the number of crashes
          MaxFaults      \* bound on the number of failed writes

ASSUME BoundsAssumption ==
    /\ RowsPerPage \in Nat \ {0} /\ MaxPages \in Nat \ {0}
    /\ MaxID \in Nat /\ MaxCrashes \in Nat /\ MaxFaults \in Nat

VARIABLES file,      \* on disk: the header and the data pages of each table
          meta,      \* on disk: next_id and the sequences of the metadata file
          up,        \* a Storage is open
          mem,       \* s.nextID and s.sequences
          hdr,       \* the header of each open TableFile, or Closed
          cache,     \* s.pageCache
          op,        \* the operation in progress
          acked,     \* history: the rows each table must hold, in order
          exact,     \* history: the table must hold these rows and no others
          durable,   \* history: acked at the last header write, if no Clear since
          stale,     \* history: "cleared" since the header was last written, "torn"
                     \* when the process died in between, or "no"
          crashes, faults

disk == <<file, meta>>
history == <<acked, exact, durable, stale>>
vars == <<file, meta, up, mem, hdr, cache, op, acked, exact, durable, stale,
          crashes, faults>>

----------------------------------------------------------------------------
(* Pages, headers and the cache.                                            *)

NewPage(p) == [id |-> p, rows |-> << >>, right |-> 0]

\* What a read finds where the file was extended past its end: all zero, with
\* page id 0, no rows and no free space.
Hole == NewPage(0)

NewHeader == [count |-> 1, first |-> 0, last |-> 0, rows |-> 0]

\* The handle of a table that is not in s.tableFiles.
Closed == [count |-> 0, first |-> 0, last |-> 0, rows |-> 0]
IsOpen(t) == hdr[t] # Closed

\* A header page overwritten by a data page: OpenTableFile rejects its magic.
BadHeader == [count |-> 0, first |-> 0, last |-> 0, rows |-> 1]

\* The file after page pg is written at the offset of its id.
WriteAt(f, pg) ==
    IF pg.id = 0 THEN [f EXCEPT !.hdr = BadHeader]
    ELSE [f EXCEPT !.pages =
             [i \in 1..(IF pg.id > Len(@) THEN pg.id ELSE Len(@)) |->
                 IF i = pg.id THEN pg ELSE IF i <= Len(@) THEN @[i] ELSE Hole]]

InCache(p) == \E i \in 1..Len(cache) : cache[i].id = p
CachedAt(p) == CHOOSE i \in 1..Len(cache) : cache[i].id = p
CachedPage(p) == cache[CachedAt(p)]

\* PageCache.Put and, for a page that is cached already, PageCache.Get.
CachePut(pg) ==
    LET others == IF InCache(pg.id) THEN RemoveAt(cache, CachedAt(pg.id)) ELSE cache
        kept == IF Len(others) >= MaxPages THEN MaxPages - 1 ELSE Len(others)
    IN  <<pg>> \o SubSeq(others, 1, kept)

\* A page object that the cache also points to changes in place.
CacheInPlace(pg) == [i \in 1..Len(cache) |-> IF cache[i].id = pg.id THEN pg ELSE cache[i]]

\* readPageNoLock: the cache is asked first, then the file; a page past the end
\* of the file cannot be read.
CanRead(t, p) == InCache(p) \/ p \in 1..Len(file[t].pages)
ReadPage(t, p) == IF InCache(p) THEN CachedPage(p) ELSE file[t].pages[p]

Fits(pg) == pg.id # 0 /\ Len(pg.rows) < RowsPerPage

----------------------------------------------------------------------------
(* Operations.                                                              *)

Idle == [kind |-> "idle", at |-> "start"]
Running(at) == up /\ op.at = at

NewOp(kind, t, at) ==
    [kind |-> kind, t |-> t, at |-> at, err |-> FALSE, todo |-> << >>, seen |-> << >>,
     page |-> 0, id |-> 0, target |-> Hole, key |-> 0, val |-> 0, left |-> {}]

\* The operation returns, with the rows it read; err tells whether it failed.
Return(err) ==
    op' = [NewOp(op.kind, op.t, "done") EXCEPT
              !.err = err, !.key = op.key, !.val = op.val,
              !.seen = IF op.kind = "get" THEN op.seen ELSE << >>]

\* The operation fails; an update or deletion that fails has cleared the table
\* before, so nothing is promised of its rows.
ReturnError ==
    /\ Return(TRUE)
    /\ exact' = [exact EXCEPT ![op.t] = FALSE]
    /\ acked' = IF op.kind = "insert" THEN acked ELSE [acked EXCEPT ![op.t] = << >>]

\* Mutant of Opened: the last page and the page count are taken from the file's size.
OpenedFromSize(t) ==
    [hdr EXCEPT ![t] = IF IsOpen(t) THEN hdr[t]
                       ELSE [file[t].hdr EXCEPT !.last = Len(file[t].pages),
                                                !.count = Len(file[t].pages) + 1]]

\* The header after the handle of t was opened if it was not.
Opened(t) == [hdr EXCEPT ![t] = IF IsOpen(t) THEN hdr[t] ELSE file[t].hdr]
CanOpen(t) == IsOpen(t) \/ file[t].hdr # BadHeader

Init ==
    /\ file = [t \in Table |-> [hdr |-> NewHeader, pages |-> << >>]]
    /\ meta = [nextID |-> 1, seq |-> [t \in Table |-> 0]]
    /\ up = TRUE
    /\ mem = meta
    /\ hdr = [t \in Table |-> NewHeader]
    /\ cache = << >>
    /\ op = Idle
    /\ acked = [t \in Table |-> << >>]
    /\ exact = [t \in Table |-> TRUE]
    /\ durable = [t \in Table |-> << >>]
    /\ stale = [t \in Table |-> "no"]
    /\ crashes = 0 /\ faults = 0

\* The operation's caller has its result.
Finish ==
    /\ Running("done")
    /\ op' = Idle
    /\ UNCHANGED <<disk, up, mem, hdr, cache, history, crashes, faults>>

\* Storage.InsertRow up to the call of TableFile.InsertRow: the handle is opened,
\* the next key and a first id are taken.
InsertRow(t) ==
    /\ Running("start")
    /\ CanOpen(t)
    /\ mem.nextID + 2 <= MaxID
    /\ hdr' = Opened(t)
    /\ mem' = [nextID |-> mem.nextID + 1, seq |-> [mem.seq EXCEPT ![t] = @ + 1]]
    /\ op' = [NewOp("insert", t, "find") EXCEPT
                !.todo = <<[key |-> mem.seq[t] + 1, val |-> 0]>>,
                !.key = mem.seq[t] + 1]
    /\ UNCHANGED <<disk, up, cache, history, crashes, faults>>

\* A row larger than a page: TableFile.InsertRow takes an id, then fails.
InsertTooLarge(t) ==
    /\ Running("start")
    /\ CanOpen(t)
    /\ mem.nextID + 2 <= MaxID
    /\ hdr' = Opened(t)
    /\ mem' = [nextID |-> mem.nextID + 2, seq |-> [mem.seq EXCEPT ![t] = @ + 1]]
    /\ UNCHANGED <<disk, up, cache, op, history, crashes, faults>>

\* TableFile.InsertRow takes an id and looks at the last data page.
FindPage ==
    /\ Running("find")
    /\ mem' = [mem EXCEPT !.nextID = @ + 1]
    /\ LET t == op.t
           last == hdr[t].last
       IN  \/ /\ last = 0
              /\ op' = [op EXCEPT !.at = "alloc", !.id = mem.nextID]
              /\ UNCHANGED cache
           \/ /\ last # 0 /\ CanRead(t, last)
              /\ cache' = CachePut(ReadPage(t, last))
              /\ op' = [op EXCEPT !.at = IF Fits(ReadPage(t, last)) THEN "row" ELSE "alloc",
                                  !.id = mem.nextID, !.target = ReadPage(t, last)]
    /\ UNCHANGED <<disk, up, hdr, history, crashes, faults>>

\* The last data page cannot be read; the id is taken all the same.
FindPageFails ==
    /\ Running("find")
    /\ hdr[op.t].last # 0 /\ ~CanRead(op.t, hdr[op.t].last)
    /\ mem' = [mem EXCEPT !.nextID = @ + 1]
    /\ ReturnError
    /\ UNCHANGED <<disk, up, hdr, cache, durable, stale, crashes, faults>>

\* Mutant of AllocatePage: the page count is not incremented.
AllocateKeepsCount ==
    /\ Running("alloc")
    /\ LET t == op.t
           pg == NewPage(hdr[t].count)
       IN  /\ file' = [file EXCEPT ![t] = WriteAt(@, pg)]
           /\ cache' = CachePut(pg)
           /\ hdr' = [hdr EXCEPT ![t].first = IF @ = 0 THEN pg.id ELSE @,
                                 ![t].last = IF @ = 0 THEN pg.id ELSE @]
           /\ op' = [op EXCEPT !.at = IF hdr[t].last = 0 THEN "row" ELSE "link",
                               !.target = pg]
    /\ UNCHANGED <<meta, up, mem, history, crashes, faults>>

\* allocatePageNoLock: the new page is written at the end of the file.
AllocatePage ==
    /\ Running("alloc")
    /\ LET t == op.t
           pg == NewPage(hdr[t].count)
       IN  /\ file' = [file EXCEPT ![t] = WriteAt(@, pg)]
           /\ cache' = CachePut(pg)
           /\ hdr' = [hdr EXCEPT ![t].count = @ + 1,
                                 ![t].first = IF @ = 0 THEN pg.id ELSE @,
                                 ![t].last = IF @ = 0 THEN pg.id ELSE @]
           /\ op' = [op EXCEPT !.at = IF hdr[t].last = 0 THEN "row" ELSE "link",
                               !.target = pg]
    /\ UNCHANGED <<meta, up, mem, history, crashes, faults>>

\* The write of the new page fails; the page count was incremented before.
AllocateFails ==
    /\ Running("alloc")
    /\ faults < MaxFaults
    /\ faults' = faults + 1
    /\ hdr' = [hdr EXCEPT ![op.t].count = @ + 1]
    /\ ReturnError
    /\ UNCHANGED <<disk, up, mem, cache, durable, stale, crashes>>

\* Mutant of LinkPage: the link is made in the cache and not written.
LinkInCacheOnly(ok) ==
    /\ Running("link")
    /\ IF CanRead(op.t, hdr[op.t].last)
         THEN cache' = CachePut([ReadPage(op.t, hdr[op.t].last) EXCEPT !.right = op.target.id])
         ELSE UNCHANGED cache
    /\ hdr' = [hdr EXCEPT ![op.t].last = op.target.id]
    /\ op' = [op EXCEPT !.at = "row"]
    /\ UNCHANGED <<disk, up, mem, history, crashes, faults>>

\* Mutant of LinkPage: the new page is made to point to the last one.
LinkBackwards(ok) ==
    /\ Running("link")
    /\ LET pg == [op.target EXCEPT !.right = hdr[op.t].last]
       IN  /\ cache' = CachePut(pg)
           /\ file' = [file EXCEPT ![op.t] = WriteAt(@, pg)]
           /\ op' = [op EXCEPT !.at = "row", !.target = pg]
    /\ hdr' = [hdr EXCEPT ![op.t].last = op.target.id]
    /\ UNCHANGED <<meta, up, mem, history, crashes, faults>>

\* The last data page is made to point to the new one, and written; the error of
\* that write, or of reading the page, is ignored.
LinkPage(ok) ==
    /\ Running("link")
    /\ LET t == op.t
           old == ReadPage(t, hdr[t].last)
           pg == [old EXCEPT !.right = op.target.id]
       IN  /\ IF CanRead(t, hdr[t].last)
                THEN /\ cache' = CachePut(pg)
                     /\ file' = IF ok THEN [file EXCEPT ![t] = WriteAt(@, pg)] ELSE file
                ELSE UNCHANGED <<cache, file>>
           /\ hdr' = [hdr EXCEPT ![t].last = op.target.id]
    /\ op' = [op EXCEPT !.at = "row"]
    /\ ok \/ faults < MaxFaults
    /\ faults' = IF ok THEN faults ELSE faults + 1
    /\ UNCHANGED <<meta, up, mem, history, crashes>>

\* The rows whose key is not k, in their order.
Without(rows, k) ==
    LET kept[i \in 0..Len(rows)] ==
            IF i = 0 THEN << >>
            ELSE IF rows[i].key = k THEN kept[i - 1] ELSE Append(kept[i - 1], rows[i])
    IN  kept[Len(rows)]

\* What the table must hold after the operation succeeded.
Outcome(rows) ==
    CASE op.kind = "insert" -> Append(rows, [key |-> op.key, val |-> op.val])
      [] op.kind = "update" -> [i \in 1..Len(rows) |->
                                  IF rows[i].key = op.key THEN [rows[i] EXCEPT !.val = op.val]
                                  ELSE rows[i]]
      [] op.kind = "delete" -> Without(rows, op.key)

\* InsertRowToPage changes the page in place, then writePage writes it; with the
\* last row the operation succeeds.
WriteRow ==
    /\ Running("row")
    /\ LET t == op.t
           row == Head(op.todo)
           pg == [op.target EXCEPT !.rows =
                     Append(@, [id |-> op.id, key |-> row.key, val |-> row.val])]
       IN  /\ file' = [file EXCEPT ![t] = WriteAt(@, pg)]
           /\ cache' = CachePut(pg)
           /\ hdr' = [hdr EXCEPT ![t].rows = @ + 1]
           /\ IF Len(op.todo) > 1
                THEN /\ op' = [op EXCEPT !.at = "find", !.todo = Tail(@)]
                     /\ UNCHANGED acked
                ELSE /\ Return(FALSE)
                     /\ acked' = [acked EXCEPT ![t] = Outcome(@)]
    /\ UNCHANGED <<meta, up, mem, exact, durable, stale, crashes, faults>>

\* The write of the page fails: the caller gets an error, the page the cache
\* points to keeps the row.
WriteRowFails ==
    /\ Running("row")
    /\ faults < MaxFaults
    /\ faults' = faults + 1
    /\ LET row == Head(op.todo)
       IN  cache' = CacheInPlace([op.target EXCEPT !.rows =
                        Append(@, [id |-> op.id, key |-> row.key, val |-> row.val])])
    /\ ReturnError
    /\ UNCHANGED <<disk, up, mem, hdr, durable, stale, crashes>>

\* GetRows and GetRowsWithIDs open the handle and start a scan of the table.
GetRows(t) ==
    /\ Running("start")
    /\ CanOpen(t)
    /\ hdr' = Opened(t)
    /\ op' = [NewOp("get", t, "scan") EXCEPT !.page = Opened(t)[t].first]
    /\ UNCHANGED <<disk, up, mem, cache, history, crashes, faults>>

\* UpdateRows and DeleteRows of the rows with a given key.  A table whose file
\* was not opened yet is taken for one of the old format, without rows.
Rewrite(kind, t, k) ==
    /\ Running("start")
    /\ mem.nextID + RowsPerPage * Len(file[t].pages) <= MaxID
    /\ op' = [NewOp(kind, t, IF IsOpen(t) THEN "scan" ELSE "done") EXCEPT
                !.page = hdr[t].first, !.key = k, !.val = 1]
    /\ UNCHANGED <<disk, up, mem, hdr, cache, history, crashes, faults>>

UpdateRows(t, k) == Rewrite("update", t, k)
DeleteRows(t, k) == Rewrite("delete", t, k)

\* UpdateRowsWithCallback and DeleteRowsWithCallback, which SQL UPDATE and DELETE
\* call, look for rows in s.rowData only, where a V2 table has none: no row
\* matches, whatever the table holds.
RewriteWithCallback(kind, t, k) ==
    /\ Running("start")
    /\ op' = [NewOp(kind, t, "done") EXCEPT !.key = k, !.val = 1]
    /\ UNCHANGED <<disk, up, mem, hdr, cache, history, crashes, faults>>

UpdateRowsWithCallback(t, k) == RewriteWithCallback("updateSQL", t, k)
DeleteRowsWithCallback(t, k) == RewriteWithCallback("deleteSQL", t, k)

\* Mutant of ScanPage: started is not reset, the first row of a next page is
\* skipped.
ScanSkipsFirst ==
    /\ Running("scan")
    /\ op.page # 0
    /\ CanRead(op.t, op.page)
    /\ LET pg == ReadPage(op.t, op.page)
       IN  /\ cache' = CachePut(pg)
           /\ op' = [op EXCEPT !.page = pg.right,
                        !.seen = @ \o (IF op.page = hdr[op.t].first \/ pg.rows = << >>
                                       THEN pg.rows ELSE Tail(pg.rows))]
    /\ UNCHANGED <<disk, up, mem, hdr, history, crashes, faults>>

\* Mutant of ScanPage: a page without rows is read again and again.
ScanStaysOnEmpty ==
    /\ Running("scan")
    /\ op.page # 0
    /\ CanRead(op.t, op.page)
    /\ LET pg == ReadPage(op.t, op.page)
       IN  /\ cache' = CachePut(pg)
           /\ op' = IF pg.rows = << >> THEN op
                    ELSE [op EXCEPT !.seen = @ \o pg.rows, !.page = pg.right]
    /\ UNCHANGED <<disk, up, mem, hdr, history, crashes, faults>>

\* RowIterator.Next and Row over one page.
ScanPage ==
    /\ Running("scan")
    /\ op.page # 0 /\ CanRead(op.t, op.page)
    /\ cache' = CachePut(ReadPage(op.t, op.page))
    /\ op' = [op EXCEPT !.seen = @ \o ReadPage(op.t, op.page).rows,
                        !.page = ReadPage(op.t, op.page).right]
    /\ UNCHANGED <<disk, up, mem, hdr, history, crashes, faults>>

\* The next page cannot be read: the scan ends with an error.
ScanPageFails ==
    /\ Running("scan")
    /\ op.page # 0 /\ ~CanRead(op.t, op.page)
    /\ Return(TRUE)
    /\ UNCHANGED <<disk, up, mem, hdr, cache, history, crashes, faults>>

Untagged(rows) == [i \in 1..Len(rows) |-> [key |-> rows[i].key, val |-> rows[i].val]]

\* The rows to insert again after the table was cleared.
Rewritten == Outcome(Untagged(op.seen))
Matches == \E i \in 1..Len(op.seen) : op.seen[i].key = op.key

\* The scan is over: a read returns its rows; an update or deletion that matches
\* a row goes on to clear the table.
ScanEnds ==
    /\ Running("scan")
    /\ op.page = 0
    /\ IF op.kind = "get" \/ ~Matches THEN Return(FALSE)
       ELSE op' = [op EXCEPT !.at = "clear", !.todo = Rewritten]
    /\ UNCHANGED <<disk, up, mem, hdr, cache, history, crashes, faults>>

\* TruncateTable on an open table.
TruncateTable(t) ==
    /\ Running("start")
    /\ IsOpen(t)
    /\ op' = NewOp("truncate", t, "clear")
    /\ UNCHANGED <<disk, up, mem, hdr, cache, history, crashes, faults>>

\* TruncateTable on a table whose file was not opened yet takes the path of the
\* old format: the sequence is reset and the metadata saved, the file stays.
TruncateUnopened(t) ==
    /\ Running("start")
    /\ ~IsOpen(t)
    /\ mem' = [mem EXCEPT !.seq[t] = 0]
    /\ meta' = mem'
    /\ op' = NewOp("truncate", t, "done")
    /\ exact' = [exact EXCEPT ![t] = FALSE]
    /\ UNCHANGED <<file, up, hdr, cache, acked, durable, stale, crashes, faults>>

\* What is promised of a table that is rewritten: nothing, if it was torn.
Promised(t) == IF stale[t] = "torn" THEN << >> ELSE acked[t]

\* Mutant of ClearTable: the row count is not reset.
ClearKeepsCount ==
    /\ Running("clear")
    /\ hdr' = [hdr EXCEPT ![op.t] = [NewHeader EXCEPT !.rows = hdr[op.t].rows]]
    /\ cache' = << >>
    /\ file' = [file EXCEPT ![op.t].pages = << >>]
    /\ Return(FALSE)
    /\ acked' = [acked EXCEPT ![op.t] = << >>]
    /\ op.kind = "truncate"
    /\ UNCHANGED <<meta, up, mem, exact, durable, stale, crashes, faults>>

\* TableFile.Clear: the header is reset in memory, the whole cache emptied, the
\* file truncated at once.  A truncation resets the sequence too.
ClearTable ==
    /\ Running("clear")
    /\ hdr' = [hdr EXCEPT ![op.t] = NewHeader]
    /\ cache' = << >>
    /\ file' = [file EXCEPT ![op.t].pages = << >>]
    /\ durable' = [durable EXCEPT ![op.t] = << >>]
    /\ stale' = [stale EXCEPT ![op.t] = "cleared"]
    /\ IF op.kind = "truncate"
         THEN /\ mem' = [mem EXCEPT !.seq[op.t] = 0]
              /\ Return(FALSE)
              /\ acked' = [acked EXCEPT ![op.t] = << >>]
              /\ exact' = [exact EXCEPT ![op.t] = TRUE]
         ELSE /\ IF op.todo = << >>
                   THEN Return(FALSE) /\ acked' = [acked EXCEPT ![op.t] = Outcome(Promised(op.t))]
                   ELSE /\ op' = [op EXCEPT !.at = "find"]
                        /\ acked' = [acked EXCEPT ![op.t] = Promised(op.t)]
              /\ UNCHANGED <<mem, exact>>
    /\ UNCHANGED <<meta, up, crashes, faults>>

\* The truncation of the file fails, after the header was reset except for its
\* page count.  TruncateTable returns the error; an update or deletion ignores it
\* and inserts the rows again behind the old pages.
ClearFails ==
    /\ Running("clear")
    /\ faults < MaxFaults
    /\ faults' = faults + 1
    /\ hdr' = [hdr EXCEPT ![op.t] = [NewHeader EXCEPT !.count = hdr[op.t].count]]
    /\ cache' = << >>
    /\ IF op.kind = "truncate"
         THEN ReturnError
         ELSE /\ IF op.todo = << >>
                   THEN Return(FALSE) /\ acked' = [acked EXCEPT ![op.t] = Outcome(Promised(op.t))]
                   ELSE /\ op' = [op EXCEPT !.at = "find"]
                        /\ acked' = [acked EXCEPT ![op.t] = Promised(op.t)]
              /\ UNCHANGED exact
    /\ UNCHANGED <<disk, up, mem, durable, stale, crashes>>

\* What FlushAll and Close work on.
AllTables == "all"

\* FlushAll and Close start; they visit the open tables in any order.
StartFlush(kind) ==
    /\ Running("start")
    /\ op' = [NewOp(kind, AllTables, "flush") EXCEPT
                !.left = {t \in Table : IsOpen(t)}]
    /\ UNCHANGED <<disk, up, mem, hdr, cache, history, crashes, faults>>

FlushAll == StartFlush("flush")
Close == StartFlush("close")

\* TableFile.Flush writes the header; Close then closes the handle.
FlushTable(t) ==
    /\ Running("flush")
    /\ t \in op.left
    /\ file' = [file EXCEPT ![t].hdr = hdr[t]]
    /\ durable' = [durable EXCEPT ![t] = acked[t]]
    /\ stale' = [stale EXCEPT ![t] = IF @ = "cleared" THEN "no" ELSE @]
    /\ hdr' = IF op.kind = "close" THEN [hdr EXCEPT ![t] = Closed] ELSE hdr
    /\ op' = [op EXCEPT !.left = @ \ {t}]
    /\ UNCHANGED <<meta, up, mem, cache, acked, exact, crashes, faults>>

\* The handle of t is dropped and its header not written: what the file does not
\* hold is lost as in a crash.
LoseHandle(t) ==
    /\ faults < MaxFaults
    /\ faults' = faults + 1
    /\ hdr' = [hdr EXCEPT ![t] = Closed]
    /\ acked' = [acked EXCEPT ![t] = durable[t]]
    /\ exact' = [exact EXCEPT ![t] = FALSE]
    /\ stale' = [stale EXCEPT ![t] = IF @ = "no" THEN "no" ELSE "torn"]
    /\ UNCHANGED durable

\* The header cannot be written.  FlushAll returns the error; Close ignores it.
FlushTableFails(t) ==
    /\ Running("flush")
    /\ t \in op.left
    /\ IF op.kind = "close"
         THEN LoseHandle(t) /\ op' = [op EXCEPT !.left = @ \ {t}]
         ELSE /\ faults < MaxFaults
              /\ faults' = faults + 1
              /\ Return(TRUE)
              /\ UNCHANGED <<hdr, history>>
    /\ UNCHANGED <<disk, up, mem, cache, crashes>>

FlushEnds ==
    /\ Running("flush")
    /\ op.kind = "flush" /\ op.left = {}
    /\ Return(FALSE)
    /\ UNCHANGED <<disk, up, mem, hdr, cache, history, crashes, faults>>

\* Close saves the metadata last.
CloseEnds ==
    /\ Running("flush")
    /\ op.kind = "close" /\ op.left = {}
    /\ meta' = mem
    /\ up' = FALSE
    /\ op' = Idle
    /\ cache' = << >>
    /\ UNCHANGED <<file, mem, hdr, history, crashes, faults>>

\* GetTableFile opens the handle of a table.
GetTableFile(t) ==
    /\ Running("start")
    /\ ~IsOpen(t) /\ CanOpen(t)
    /\ hdr' = Opened(t)
    /\ UNCHANGED <<disk, up, mem, cache, op, history, crashes, faults>>

\* CloseTableFile writes the header and forgets the handle; its pages stay cached.
CloseTableFile(t) ==
    /\ Running("start")
    /\ IsOpen(t)
    /\ file' = [file EXCEPT ![t].hdr = hdr[t]]
    /\ hdr' = [hdr EXCEPT ![t] = Closed]
    /\ durable' = [durable EXCEPT ![t] = acked[t]]
    /\ stale' = [stale EXCEPT ![t] = IF @ = "cleared" THEN "no" ELSE @]
    /\ UNCHANGED <<meta, up, mem, cache, op, acked, exact, crashes, faults>>

CloseTableFileFails(t) ==
    /\ Running("start")
    /\ IsOpen(t)
    /\ LoseHandle(t)
    /\ UNCHANGED <<disk, up, mem, cache, op, crashes>>

\* Checkpoint, ForceSave and every statement that changes the catalog save the
\* metadata; the headers of the tables are not written.
Checkpoint ==
    /\ Running("start")
    /\ meta' = mem
    /\ UNCHANGED <<file, up, mem, hdr, cache, op, history, crashes, faults>>

\* The process dies, between two operations or in the middle of one.
Crash ==
    /\ up
    /\ crashes < MaxCrashes
    /\ crashes' = crashes + 1
    /\ up' = FALSE
    /\ op' = Idle
    /\ cache' = << >>
    /\ hdr' = [t \in Table |-> Closed]
    /\ acked' = durable
    /\ exact' = [t \in Table |-> FALSE]
    /\ stale' = [t \in Table |-> IF stale[t] = "no" THEN "no" ELSE "torn"]
    /\ UNCHANGED <<disk, mem, durable, faults>>

\* NewStorage loads the metadata; tables are opened when they are first used.
Open ==
    /\ ~up
    /\ up' = TRUE
    /\ mem' = meta
    /\ UNCHANGED <<disk, hdr, cache, op, history, crashes, faults>>

Keys == 1..MaxID

Next ==
    \/ \E t \in Table : InsertRow(t)
    \/ \E t \in Table : InsertTooLarge(t)
    \/ FindPage
    \/ FindPageFails
    \/ AllocatePage
    \/ AllocateFails
    \/ \E ok \in BOOLEAN : LinkPage(ok)
    \/ WriteRow
    \/ WriteRowFails
    \/ \E t \in Table : GetRows(t)
    \/ \E t \in Table, k \in Keys : k <= mem.seq[t] /\ UpdateRows(t, k)
    \/ \E t \in Table, k \in Keys : k <= mem.seq[t] /\ DeleteRows(t, k)
    \/ \E t \in Table, k \in Keys : k <= mem.seq[t] /\ UpdateRowsWithCallback(t, k)
    \/ \E t \in Table, k \in Keys : k <= mem.seq[t] /\ DeleteRowsWithCallback(t, k)
    \/ ScanPage
    \/ ScanPageFails
    \/ ScanEnds
    \/ \E t \in Table : TruncateTable(t)
    \/ \E t \in Table : TruncateUnopened(t)
    \/ ClearTable
    \/ ClearFails
    \/ FlushAll
    \/ Close
    \/ \E t \in Table : FlushTable(t)
    \/ \E t \in Table : FlushTableFails(t)
    \/ FlushEnds
    \/ CloseEnds
    \/ \E t \in Table : GetTableFile(t)
    \/ \E t \in Table : CloseTableFile(t)
    \/ \E t \in Table : CloseTableFileFails(t)
    \/ Checkpoint
    \/ Finish
    \/ Crash
    \/ Open

Spec == Init /\ [][Next]_vars

\* An operation that was started goes on until it returns: its steps are the
\* process's own, it holds the lock they need.
OpStep ==
    \/ FindPage \/ FindPageFails \/ AllocatePage \/ LinkPage(TRUE) \/ WriteRow
    \/ ScanPage \/ ScanPageFails \/ ScanEnds \/ ClearTable
    \/ (\E t \in Table : FlushTable(t)) \/ FlushEnds \/ CloseEnds \/ Finish

FairSpec == Spec /\ WF_vars(OpStep)

----------------------------------------------------------------------------
(* Properties.                                                              *)

Page == [id : Nat, rows : Seq([id : Nat, key : Nat, val : {0, 1}]), right : Nat]
Header == [count : Nat, first : Nat, last : Nat, rows : Nat]
Rows == Seq([key : Nat, val : {0, 1}])

TypeOK ==
    /\ \A t \in Table : /\ file[t].hdr \in Header /\ hdr[t] \in Header
                        /\ file[t].pages \in Seq(Page)
                        /\ acked[t] \in Rows /\ durable[t] \in Rows
    /\ cache \in Seq(Page)
    /\ mem.nextID \in Nat /\ mem.seq \in [Table -> Nat]
    /\ meta.nextID \in Nat /\ meta.seq \in [Table -> Nat]
    /\ up \in BOOLEAN /\ exact \in [Table -> BOOLEAN]
    /\ stale \in [Table -> {"no", "cleared", "torn"}]
    /\ crashes \in 0..MaxCrashes /\ faults \in 0..MaxFaults

Points(pg) == pg.right = 0 \/ pg.right > pg.id

\* The data pages of a table form a chain whose page numbers increase, on disk
\* and in the cache: no crash, failed write or page of another table closes it
\* into a ring in which GetAllRows would never return.
ChainIncreases ==
    /\ \A t \in Table : \A i \in 1..Len(file[t].pages) :
           file[t].pages[i].id \in {0, i} /\ Points(file[t].pages[i])
    /\ \A i \in 1..Len(cache) : Points(cache[i])

\* The last data page of a header, in memory and on disk, is below its page
\* count: the next page allocated is never one that is linked.
LastBelowCount ==
    \A t \in Table : \A h \in {hdr[t], file[t].hdr} :
        h \notin {Closed, BadHeader} => h.last < h.count /\ (h.first = 0 <=> h.last = 0)

\* The cache holds at most MaxPages pages and each page id once.
CacheBounded ==
    /\ Len(cache) <= MaxPages
    /\ \A i, j \in 1..Len(cache) : cache[i].id = cache[j].id => i = j

\* GetRows returns the rows that were inserted and not deleted, with their last
\* values, in the order of insertion: after any inserts, updates, deletions,
\* truncations, evictions, and clean restarts.
ReturnsAllRows ==
    (Running("done") /\ op.kind = "get" /\ exact[op.t])
        => ~op.err /\ Untagged(op.seen) = acked[op.t]

SeqRange(s) == {s[i] : i \in 1..Len(s)}

RowsSurvive ==
    (Running("done") /\ op.kind = "get")
        => SeqRange(acked[op.t]) \subseteq SeqRange(Untagged(op.seen))

\* After a crash, GetRows still returns every row whose table was flushed after
\* it, and every row inserted since the restart, unless the crash came between
\* the Clear of a table and the next write of its header.
SurvivesCrash == (op.kind = "get" /\ stale[op.t] # "torn") => RowsSurvive

\* Between operations every cached page is what the file holds: write-through
\* leaves nothing that only the cache knows.
CacheCoherent ==
    op.at \in {"start", "done"} =>
        \A t \in Table : \A i \in 1..Len(cache) :
            LET p == cache[i].id
            IN  p # 0 => p \in 1..Len(file[t].pages) /\ file[t].pages[p] = cache[i]

\* The row count of the header is the number of rows, which inserts, rewrites and
\* truncations each compute in their own way.
RowCountExact ==
    \A t \in Table : (op.at \in {"start", "done"} /\ IsOpen(t) /\ exact[t])
        => hdr[t].rows = Len(acked[t])

\* No two rows of a table have the same row id while no crash has taken the
\* counter back.
RowIDsUnique ==
    crashes = 0 =>
        \A t \in Table : \A i, j \in 1..Len(file[t].pages) :
            \A k \in 1..Len(file[t].pages[i].rows), l \in 1..Len(file[t].pages[j].rows) :
                file[t].pages[i].rows[k].id = file[t].pages[j].rows[l].id => i = j /\ k = l

\* Every operation that is started returns, unless the process dies.
OpsReturn == (op.at # "start") ~> (op.at = "start")

\* The cache is within its limit and agrees with the files between operations.
StoreSound == TypeOK /\ CacheBounded /\ CacheCoherent

\* The header counts the rows and row ids are given out once, through inserts, the
\* rewriting of updates and deletions, truncations and clean restarts.
RowsAccounted == RowCountExact /\ RowIDsUnique
=============================================================================
