-------------------------- MODULE TableStoreProofs --------------------------
(***************************************************************************)
(* Theorems about TableStore.                                              *)
(*                                                                         *)
(* For any tables, page and cache sizes and any number of crashes and      *)
(* failed writes: headers never lead to a page that is in use              *)
(* (LastBelowCount), chains of pages never close into a ring               *)
(* (ChainIncreases), the cache stays within its limit (CacheBounded), and  *)
(* types are kept (TypeOK).  StoreInv is about headers and handles;        *)
(* ChainInv, about pages, CacheBounded and TypeInv are inductive relative  *)
(* to it.                                                                  *)
(*                                                                         *)
(* For one table, if no write fails: the cache agrees with the file        *)
(* (StoreSound), GetRows returns exactly the rows (ReturnsAllRows) and,    *)
(* after crashes, every durable one (SurvivesCrash), rows are counted and  *)
(* their ids given out once (RowsAccounted).  Both conditions are needed:  *)
(* two tables share a cache that finds pages by their number alone, and a  *)
(* failed write leaves in the cache what the file does not have.  Each     *)
(* invariant is inductive relative to those before it:                     *)
(*   CoherentInv  the cache and the page at hand are what the file holds;  *)
(*   IdInv        row ids are below the counter;                           *)
(*   LinkInv      the header in use leads from page 1 to the last page,    *)
(*                the header on disk to an earlier one;                    *)
(*   KeptInv      the rows a table must hold are on those pages, or still  *)
(*                to be inserted;                                          *)
(*   ExactInv     and no others are, in their order.                       *)
(***************************************************************************)
EXTENDS TableStore, SequenceTheorems, WellFoundedInduction, TLAPS

\* A header whose next page number is above every page it leads to.
Good(h) == h.last < h.count /\ (h.first = 0 <=> h.last = 0)

OpFields == {"kind", "t", "at", "err", "todo", "seen", "page", "id", "target", "key",
             "val", "left"}

HeadersOK ==
    /\ hdr \in [Table -> Header]
    /\ \A t \in Table : hdr[t] = Closed \/ Good(hdr[t])

FilesOK ==
    /\ DOMAIN file = Table
    /\ \A t \in Table : /\ DOMAIN file[t] = {"hdr", "pages"}
                        /\ file[t].hdr \in Header
                        /\ file[t].hdr = BadHeader \/ Good(file[t].hdr)

\* The handles that the operation in progress relies on are open, and the page
\* that is about to be linked is below the page count.
OpOK ==
    /\ op.at = "start" \/ DOMAIN op = OpFields
    /\ (\/ op.at \in {"find", "alloc", "link", "row", "clear"}
        \/ op.at = "scan" /\ op.kind # "get")
           => op.t \in Table /\ Good(hdr[op.t])
    /\ op.at = "link" => /\ op.target.id \in Nat \ {0} /\ op.target.id < hdr[op.t].count
                         /\ hdr[op.t].first # 0
    /\ op.at = "flush" => \A t \in op.left : t \in Table /\ Good(hdr[t])

StoreInv == HeadersOK /\ FilesOK /\ OpOK

----------------------------------------------------------------------------
\* Writing a page leaves the header or, at offset 0, destroys it.
LEMMA WriteAtHeader ==
    ASSUME NEW f, NEW pg, DOMAIN f = {"hdr", "pages"}
    PROVE  /\ DOMAIN WriteAt(f, pg) = {"hdr", "pages"}
           /\ WriteAt(f, pg).hdr \in {f.hdr, BadHeader}
<1>1. CASE pg.id = 0
  BY <1>1 DEF WriteAt
<1>2. CASE pg.id # 0
  <2> DEFINE p == [i \in 1..(IF pg.id > Len(f.pages) THEN pg.id ELSE Len(f.pages)) |->
                 IF i = pg.id THEN pg ELSE IF i <= Len(f.pages) THEN f.pages[i] ELSE Hole]
  <2>1. WriteAt(f, pg) = [f EXCEPT !.pages = p]
    BY <1>2 DEF WriteAt
  <2> HIDE DEF p
  <2> QED BY <2>1
<1> QED BY <1>1, <1>2

\* The special headers are headers; neither is one that leads to pages.
LEMMA SpecialHeaders ==
    /\ NewHeader \in Header /\ Good(NewHeader)
    /\ Closed \in Header /\ ~Good(Closed)
    /\ BadHeader \in Header /\ ~Good(BadHeader) /\ BadHeader # Closed
  BY DEF NewHeader, Closed, BadHeader, Header, Good

\* An operation that returns relies on no handle.
LEMMA ReturnIsDone ==
    ASSUME NEW e, Return(e)
    PROVE  op'.at = "done" /\ DOMAIN op' = OpFields
  BY DEF Return, NewOp, OpFields

\* Writing pages keeps the files in order.
LEMMA FilesAfterWrite ==
    ASSUME StoreInv, NEW t \in Table, NEW pg, file' = [file EXCEPT ![t] = WriteAt(@, pg)]
    PROVE  FilesOK'
<1>1. /\ DOMAIN WriteAt(file[t], pg) = {"hdr", "pages"}
      /\ WriteAt(file[t], pg).hdr \in {file[t].hdr, BadHeader}
  BY WriteAtHeader DEF StoreInv, FilesOK
<1>2. DOMAIN file' = Table /\ file'[t] = WriteAt(file[t], pg)
      /\ \A u \in Table \ {t} : file'[u] = file[u]
  BY DEF StoreInv, FilesOK
<1> QED BY <1>1, <1>2, SpecialHeaders DEF StoreInv, FilesOK

\* Opening the handle of a table.
LEMMA OpenedOK ==
    ASSUME StoreInv, NEW t \in Table, CanOpen(t), hdr' = Opened(t)
    PROVE  /\ HeadersOK' /\ Good(hdr'[t]) /\ Opened(t)[t] = hdr'[t]
<1>1. /\ hdr' \in [Table -> Header] /\ \A u \in Table \ {t} : hdr'[u] = hdr[u]
      /\ hdr'[t] = IF IsOpen(t) THEN hdr[t] ELSE file[t].hdr
  BY DEF StoreInv, HeadersOK, FilesOK, Opened
<1>2. Good(hdr'[t])
  BY <1>1 DEF StoreInv, HeadersOK, FilesOK, CanOpen, IsOpen
<1> QED BY <1>1, <1>2 DEF StoreInv, HeadersOK

\* A step that leaves headers and files alone and ends the operation, or does not
\* touch it.
LEMMA QuietStep ==
    ASSUME StoreInv, UNCHANGED <<file, hdr>>,
           \/ op' = op
           \/ op'.at = "start"
           \/ op'.at = "done" /\ DOMAIN op' = OpFields
    PROVE  StoreInv'
  BY DEF StoreInv, HeadersOK, FilesOK, OpOK

\* A database whose tables are new is in order.
LEMMA InitOK == Init => StoreInv
<1> SUFFICES ASSUME Init PROVE StoreInv
  OBVIOUS
<1>1. HeadersOK
  BY SpecialHeaders DEF Init, HeadersOK
<1>2. FilesOK
  BY SpecialHeaders DEF Init, FilesOK
<1>3. OpOK
  BY DEF Init, OpOK, Idle
<1> QED BY <1>1, <1>2, <1>3 DEF StoreInv

----------------------------------------------------------------------------
\* A handle gets a new header, or is closed.
LEMMA HeaderSet ==
    ASSUME StoreInv, NEW t \in Table, NEW h \in Header, h = Closed \/ Good(h),
           hdr' = [hdr EXCEPT ![t] = h]
    PROVE  HeadersOK' /\ hdr'[t] = h /\ \A u \in Table \ {t} : hdr'[u] = hdr[u]
  BY DEF StoreInv, HeadersOK

\* A good header is written to the file.
LEMMA FilesAfterFlush ==
    ASSUME StoreInv, NEW t \in Table, Good(hdr[t]), file' = [file EXCEPT ![t].hdr = hdr[t]]
    PROVE  FilesOK'
<1>1. DOMAIN [file[t] EXCEPT !.hdr = hdr[t]] = {"hdr", "pages"}
      /\ [file[t] EXCEPT !.hdr = hdr[t]].hdr = hdr[t]
  BY Zenon DEF StoreInv, FilesOK
<1>2. DOMAIN file' = Table /\ file'[t] = [file[t] EXCEPT !.hdr = hdr[t]]
      /\ \A u \in Table \ {t} : file'[u] = file[u]
  BY Zenon DEF StoreInv, FilesOK
<1>3. hdr[t] \in Header
  BY DEF StoreInv, HeadersOK
<1> QED BY <1>1, <1>2, <1>3 DEF StoreInv, FilesOK

\* The data pages of a file are cut off.
LEMMA FilesAfterTruncate ==
    ASSUME StoreInv, NEW t \in Table, file' = [file EXCEPT ![t].pages = << >>]
    PROVE  FilesOK'
<1>1. DOMAIN [file[t] EXCEPT !.pages = << >>] = {"hdr", "pages"}
      /\ [file[t] EXCEPT !.pages = << >>].hdr = file[t].hdr
  BY Zenon DEF StoreInv, FilesOK
<1>2. DOMAIN file' = Table /\ file'[t] = [file[t] EXCEPT !.pages = << >>]
      /\ \A u \in Table \ {t} : file'[u] = file[u]
  BY Zenon DEF StoreInv, FilesOK
<1> QED BY <1>1, <1>2 DEF StoreInv, FilesOK

\* Storage.InsertRow opens the handle before TableFile.InsertRow uses it.
LEMMA InsertRowOK == ASSUME StoreInv, NEW t \in Table, InsertRow(t) PROVE StoreInv'
<1>1. HeadersOK' /\ Good(hdr'[t])
  BY OpenedOK DEF InsertRow
<1>2. op'.at = "find" /\ op'.t = t /\ DOMAIN op' = OpFields
  BY Zenon DEF InsertRow, NewOp, OpFields
<1>3. FilesOK'
  BY DEF InsertRow, disk, StoreInv, FilesOK
<1> QED BY <1>1, <1>2, <1>3 DEF StoreInv, OpOK, Good

\* The steps that open a handle and start nothing.
LEMMA OpenStepOK ==
    ASSUME StoreInv, NEW t \in Table, InsertTooLarge(t) \/ GetTableFile(t) PROVE StoreInv'
<1>1. CanOpen(t) /\ hdr' = Opened(t) /\ op' = op /\ op.at = "start" /\ file' = file
  BY DEF InsertTooLarge, GetTableFile, Running, disk
<1>2. HeadersOK'
  BY <1>1, OpenedOK
<1> QED BY <1>1, <1>2 DEF StoreInv, OpOK, FilesOK

\* Looking at the last page changes no header.
LEMMA FindPageOK == ASSUME StoreInv, FindPage PROVE StoreInv'
<1>1. UNCHANGED <<file, hdr>> /\ op.at = "find"
  BY DEF FindPage, Running, disk
<1>2. DOMAIN op = OpFields /\ op.t \in Table /\ Good(hdr[op.t])
  BY <1>1 DEF StoreInv, OpOK
<1>3. op'.at \in {"alloc", "row"} /\ op'.t = op.t /\ DOMAIN op' = OpFields
  <2>1. CASE op' = [op EXCEPT !.at = "alloc", !.id = mem.nextID]
    BY <1>2, <2>1, Zenon DEF OpFields
  <2>2. ASSUME NEW a \in {"alloc", "row"}, NEW pg,
               op' = [op EXCEPT !.at = a, !.id = mem.nextID, !.target = pg]
        PROVE  op'.at \in {"alloc", "row"} /\ op'.t = op.t /\ DOMAIN op' = OpFields
    BY <1>2, <2>2, Zenon DEF OpFields
  <2> QED BY <2>1, <2>2, Zenon DEF FindPage
<1> QED BY <1>1, <1>2, <1>3 DEF StoreInv, HeadersOK, FilesOK, OpOK, Good

\* allocatePageNoLock: the new page has the old page count as its number, which is
\* above the last page, and the count moves past it.
LEMMA AllocatePageOK == ASSUME StoreInv, AllocatePage PROVE StoreInv'
<1> DEFINE t == op.t
           h == hdr[t]
           pg == NewPage(h.count)
           g == [count |-> h.count + 1, first |-> IF h.first = 0 THEN h.count ELSE h.first,
                 last |-> IF h.last = 0 THEN h.count ELSE h.last, rows |-> h.rows]
<1>1. DOMAIN op = OpFields /\ t \in Table /\ Good(h) /\ h \in Header
  BY DEF AllocatePage, Running, StoreInv, OpOK, HeadersOK
<1>2. pg.id = h.count
  BY DEF NewPage
<1>3. hdr' = [hdr EXCEPT ![t] = g]
  <2>1. hdr' = [hdr EXCEPT ![t].count = @ + 1, ![t].first = IF @ = 0 THEN h.count ELSE @,
                           ![t].last = IF @ = 0 THEN h.count ELSE @]
    BY <1>2 DEF AllocatePage
  <2>2. /\ hdr' \in [Table -> Header] /\ \A u \in Table \ {t} : hdr'[u] = hdr[u]
        /\ hdr'[t].count = g.count /\ hdr'[t].first = g.first /\ hdr'[t].last = g.last
        /\ hdr'[t].rows = g.rows
    BY <1>1, <2>1 DEF StoreInv, HeadersOK, Header
  <2>3. hdr'[t] = g
    BY <1>1, <2>2 DEF Header
  <2> HIDE DEF g, h
  <2> QED BY <1>1, <2>2, <2>3 DEF StoreInv, HeadersOK
<1>4. g \in Header /\ Good(g)
  BY <1>1 DEF Header, Good
<1>5. op' = [op EXCEPT !.at = IF h.last = 0 THEN "row" ELSE "link", !.target = pg]
  BY DEF AllocatePage
<1>6. /\ op'.at = IF h.last = 0 THEN "row" ELSE "link"
      /\ op'.t = t /\ op'.target = pg /\ DOMAIN op' = OpFields
  <2> HIDE DEF h, pg
  <2> QED BY <1>1, <1>5, Zenon DEF OpFields
<1>7. FilesOK'
  BY <1>1, FilesAfterWrite DEF AllocatePage
<1>8. HeadersOK' /\ hdr'[t] = g
  <2> HIDE DEF g, h
  <2> QED BY <1>1, <1>3, <1>4, HeaderSet
<1>9. OpOK'
  <2>1. op'.t \in Table /\ hdr'[op'.t] = g
    BY <1>1, <1>6, <1>8
  <2>2. h.last # 0 => op'.target.id \in Nat \ {0} /\ op'.target.id < g.count /\ g.first # 0
    BY <1>1, <1>2, <1>6 DEF Header, Good
  <2> HIDE DEF g, h, pg
  <2> QED BY <1>4, <1>6, <2>1, <2>2 DEF OpOK, Good
<1> QED BY <1>7, <1>8, <1>9 DEF StoreInv

\* A page number is lost when its page cannot be written; the count has moved on.
LEMMA AllocateFailsOK == ASSUME StoreInv, AllocateFails PROVE StoreInv'
<1>1. op.t \in Table /\ Good(hdr[op.t]) /\ hdr[op.t] \in Header
  BY DEF AllocateFails, Running, StoreInv, OpOK, HeadersOK
<1>2. hdr' = [hdr EXCEPT ![op.t].count = @ + 1] /\ file' = file
  BY DEF AllocateFails, disk
<1>3. /\ hdr' \in [Table -> Header] /\ \A u \in Table \ {op.t} : hdr'[u] = hdr[u]
      /\ Good(hdr'[op.t])
  BY <1>1, <1>2 DEF StoreInv, HeadersOK, Header, Good
<1>4. HeadersOK'
  BY <1>1, <1>3 DEF StoreInv, HeadersOK
<1>5. op'.at = "done" /\ DOMAIN op' = OpFields
  BY ReturnIsDone DEF AllocateFails, ReturnError
<1> QED BY <1>2, <1>4, <1>5 DEF StoreInv, FilesOK, OpOK

\* The last page becomes the new one, which is below the count, even when the link
\* could not be written.
LEMMA LinkPageOK == ASSUME StoreInv, NEW ok \in BOOLEAN, LinkPage(ok) PROVE StoreInv'
<1>1. /\ DOMAIN op = OpFields /\ op.t \in Table /\ Good(hdr[op.t]) /\ hdr[op.t] \in Header
      /\ op.target.id \in Nat \ {0} /\ op.target.id < hdr[op.t].count /\ hdr[op.t].first # 0
  BY DEF LinkPage, Running, StoreInv, OpOK, HeadersOK
<1>2. hdr' = [hdr EXCEPT ![op.t].last = op.target.id] /\ op' = [op EXCEPT !.at = "row"]
  BY DEF LinkPage
<1>3. /\ hdr' \in [Table -> Header] /\ \A u \in Table \ {op.t} : hdr'[u] = hdr[u]
      /\ Good(hdr'[op.t])
  BY <1>1, <1>2 DEF StoreInv, HeadersOK, Header, Good
<1>4. HeadersOK'
  BY <1>1, <1>3 DEF StoreInv, HeadersOK
<1>5. op'.at = "row" /\ op'.t = op.t /\ DOMAIN op' = OpFields
  BY <1>1, <1>2, Zenon DEF OpFields
<1>6. FilesOK'
  <2>1. CASE file' = file
    BY <2>1 DEF StoreInv, FilesOK
  <2>2. ASSUME NEW pg, file' = [file EXCEPT ![op.t] = WriteAt(@, pg)] PROVE FilesOK'
    BY <1>1, <2>2, FilesAfterWrite
  <2> QED BY <2>1, <2>2, Zenon DEF LinkPage
<1> QED BY <1>1, <1>3, <1>4, <1>5, <1>6 DEF StoreInv, OpOK, Good

\* Writing a row changes only the row count of the header.
LEMMA WriteRowOK == ASSUME StoreInv, WriteRow PROVE StoreInv'
<1>1. DOMAIN op = OpFields /\ op.t \in Table /\ Good(hdr[op.t]) /\ hdr[op.t] \in Header
  BY DEF WriteRow, Running, StoreInv, OpOK, HeadersOK
<1>2. hdr' = [hdr EXCEPT ![op.t].rows = @ + 1]
  BY DEF WriteRow
<1>3. /\ hdr' \in [Table -> Header] /\ \A u \in Table \ {op.t} : hdr'[u] = hdr[u]
      /\ Good(hdr'[op.t])
  BY <1>1, <1>2 DEF StoreInv, HeadersOK, Header, Good
<1>4. HeadersOK'
  BY <1>1, <1>3 DEF StoreInv, HeadersOK
<1>5. FilesOK'
  <2>1. PICK pg : file' = [file EXCEPT ![op.t] = WriteAt(@, pg)]
    BY Zenon DEF WriteRow
  <2> QED BY <1>1, <2>1, FilesAfterWrite
<1>6. \/ op'.at = "done" /\ DOMAIN op' = OpFields
      \/ op'.at = "find" /\ op'.t = op.t /\ DOMAIN op' = OpFields
  <2>1. Return(FALSE) \/ op' = [op EXCEPT !.at = "find", !.todo = Tail(@)]
    BY Zenon DEF WriteRow
  <2>2. CASE op' = [op EXCEPT !.at = "find", !.todo = Tail(@)]
    BY <1>1, <2>2, Zenon DEF OpFields
  <2> QED BY <2>1, <2>2, ReturnIsDone
<1> QED BY <1>1, <1>3, <1>4, <1>5, <1>6 DEF StoreInv, OpOK, Good

\* A read opens the handle and relies on it no further.
LEMMA GetRowsOK == ASSUME StoreInv, NEW t \in Table, GetRows(t) PROVE StoreInv'
<1>1. HeadersOK'
  BY OpenedOK DEF GetRows
<1>2. op'.at = "scan" /\ op'.kind = "get" /\ DOMAIN op' = OpFields
  BY Zenon DEF GetRows, NewOp, OpFields
<1> QED BY <1>1, <1>2 DEF StoreInv, OpOK, FilesOK, GetRows, disk

\* An update or deletion scans only a table whose handle is open.
LEMMA RewriteOK ==
    ASSUME StoreInv, NEW kind, NEW t \in Table, NEW k, Rewrite(kind, t, k) PROVE StoreInv'
<1>1. UNCHANGED <<file, hdr>>
  BY DEF Rewrite, disk
<1>2. op' = [NewOp(kind, t, IF IsOpen(t) THEN "scan" ELSE "done") EXCEPT
                !.page = hdr[t].first, !.key = k, !.val = 1]
  BY DEF Rewrite
<1>3. op'.at = (IF IsOpen(t) THEN "scan" ELSE "done") /\ op'.t = t /\ DOMAIN op' = OpFields
  BY <1>2, Zenon DEF NewOp, OpFields
<1>4. IsOpen(t) => Good(hdr[t])
  BY DEF StoreInv, HeadersOK, IsOpen
<1> QED BY <1>1, <1>3, <1>4 DEF StoreInv, HeadersOK, FilesOK, OpOK, Good

\* A scan moves from page to page and leaves the header alone.
LEMMA ScanPageOK == ASSUME StoreInv, ScanPage PROVE StoreInv'
<1>1. UNCHANGED <<file, hdr>> /\ op.at = "scan" /\ DOMAIN op = OpFields
  BY DEF ScanPage, Running, disk, StoreInv, OpOK
<1>2. op' = [op EXCEPT !.seen = @ \o ReadPage(op.t, op.page).rows,
                       !.page = ReadPage(op.t, op.page).right]
  BY DEF ScanPage
<1>3. op'.at = "scan" /\ op'.kind = op.kind /\ op'.t = op.t /\ DOMAIN op' = OpFields
  BY <1>1, <1>2, Zenon DEF OpFields
<1> QED BY <1>1, <1>3 DEF StoreInv, HeadersOK, FilesOK, OpOK, Good

\* A rewrite clears the table through the handle that it scanned.
LEMMA ScanEndsOK == ASSUME StoreInv, ScanEnds PROVE StoreInv'
<1>1. UNCHANGED <<file, hdr>> /\ op.at = "scan" /\ DOMAIN op = OpFields
  BY DEF ScanEnds, Running, disk, StoreInv, OpOK
<1>2. CASE Return(FALSE)
  BY <1>1, <1>2, ReturnIsDone, QuietStep
<1>3. CASE op.kind # "get" /\ op' = [op EXCEPT !.at = "clear", !.todo = Rewritten]
  <2>1. op'.at = "clear" /\ op'.t = op.t /\ DOMAIN op' = OpFields
    BY <1>1, <1>3, Zenon DEF OpFields
  <2> QED BY <1>1, <1>3, <2>1 DEF StoreInv, HeadersOK, FilesOK, OpOK, Good
<1> QED BY <1>2, <1>3 DEF ScanEnds

\* TruncateTable clears a table whose handle is open.
LEMMA TruncateTableOK == ASSUME StoreInv, NEW t \in Table, TruncateTable(t) PROVE StoreInv'
<1>1. UNCHANGED <<file, hdr>> /\ Good(hdr[t])
  BY DEF TruncateTable, IsOpen, StoreInv, HeadersOK, disk
<1>2. op'.at = "clear" /\ op'.t = t /\ DOMAIN op' = OpFields
  BY DEF TruncateTable, NewOp, OpFields
<1> QED BY <1>1, <1>2 DEF StoreInv, HeadersOK, FilesOK, OpOK, Good

\* After the header was reset, the operation returns or inserts the rows again.
LEMMA ClearedOp ==
    ASSUME StoreInv, op.at = "clear", ClearTable \/ ClearFails
    PROVE  /\ DOMAIN op' = OpFields
           /\ op'.at = "done" \/ (op'.at = "find" /\ op'.t = op.t)
<1>1. Return(FALSE) \/ Return(TRUE) \/ op' = [op EXCEPT !.at = "find"]
  BY Zenon DEF ClearTable, ClearFails, ReturnError
<1>2. CASE op' = [op EXCEPT !.at = "find"]
  <2>1. DOMAIN op = OpFields
    BY DEF StoreInv, OpOK
  <2> QED BY <1>2, <2>1, Zenon DEF OpFields
<1> QED BY <1>1, <1>2, ReturnIsDone

\* Clear resets the header; when the truncation fails the page count stays, which is
\* above the last page 0.
LEMMA ClearOK == ASSUME StoreInv, ClearTable \/ ClearFails PROVE StoreInv'
<1>1. op.at = "clear" /\ op.t \in Table /\ Good(hdr[op.t]) /\ hdr[op.t] \in Header
  BY DEF ClearTable, ClearFails, Running, StoreInv, OpOK, HeadersOK
<1>2. PICK h \in Header : Good(h) /\ hdr' = [hdr EXCEPT ![op.t] = h]
  <2>1. CASE ClearTable
    BY <2>1, SpecialHeaders DEF ClearTable
  <2>2. CASE ClearFails
    <3>1. /\ [NewHeader EXCEPT !.count = hdr[op.t].count] \in Header
          /\ Good([NewHeader EXCEPT !.count = hdr[op.t].count])
      BY <1>1 DEF NewHeader, Header, Good
    <3> QED BY <2>2, <3>1 DEF ClearFails
  <2> QED BY <2>1, <2>2
<1>3. HeadersOK' /\ Good(hdr'[op.t])
  BY <1>1, <1>2, HeaderSet
<1>4. FilesOK'
  <2>1. CASE ClearTable
    BY <1>1, <2>1, FilesAfterTruncate DEF ClearTable
  <2>2. CASE ClearFails
    BY <2>2 DEF ClearFails, disk, StoreInv, FilesOK
  <2> QED BY <2>1, <2>2
<1> QED BY <1>1, <1>3, <1>4, ClearedOp DEF StoreInv, OpOK, Good

\* FlushAll and Close visit open handles only.
LEMMA StartFlushOK == ASSUME StoreInv, NEW kind, StartFlush(kind) PROVE StoreInv'
<1>1. UNCHANGED <<file, hdr>>
  BY DEF StartFlush, disk
<1>2. op'.at = "flush" /\ op'.left = {t \in Table : IsOpen(t)} /\ DOMAIN op' = OpFields
  BY Zenon DEF StartFlush, NewOp, OpFields
<1>3. \A t \in {u \in Table : IsOpen(u)} : t \in Table /\ Good(hdr[t])
  BY DEF StoreInv, HeadersOK, IsOpen
<1> QED BY <1>1, <1>2, <1>3 DEF StoreInv, HeadersOK, FilesOK, OpOK, Good

\* A table is visited: its handle stays as it is or is closed.
LEMMA VisitedOK ==
    ASSUME StoreInv, op.at = "flush", NEW t \in op.left, FilesOK',
           hdr' = hdr \/ hdr' = [hdr EXCEPT ![t] = Closed],
           op' = [op EXCEPT !.left = @ \ {t}]
    PROVE  StoreInv'
<1>1. DOMAIN op = OpFields /\ t \in Table /\ \A u \in op.left : u \in Table /\ Good(hdr[u])
  BY DEF StoreInv, OpOK
<1>2. op'.at = "flush" /\ op'.left = op.left \ {t} /\ DOMAIN op' = OpFields
  BY <1>1, Zenon DEF OpFields
<1>3. HeadersOK' /\ \A u \in Table \ {t} : hdr'[u] = hdr[u]
  <2>1. CASE hdr' = hdr
    BY <2>1 DEF StoreInv, HeadersOK
  <2>2. CASE hdr' = [hdr EXCEPT ![t] = Closed]
    BY <1>1, <2>2, SpecialHeaders, HeaderSet
  <2> QED BY <2>1, <2>2
<1> QED BY <1>1, <1>2, <1>3 DEF StoreInv, OpOK, Good

\* A header is written, or cannot be.
LEMMA FlushTableOK ==
    ASSUME StoreInv, NEW t \in Table, FlushTable(t) \/ FlushTableFails(t) PROVE StoreInv'
<1>1. op.at = "flush" /\ t \in op.left /\ Good(hdr[t])
  BY DEF FlushTable, FlushTableFails, Running, StoreInv, OpOK
<1>2. CASE FlushTable(t)
  <2>1. FilesOK'
    BY <1>1, <1>2, FilesAfterFlush DEF FlushTable
  <2> QED BY <1>1, <1>2, <2>1, VisitedOK DEF FlushTable
<1>3. CASE FlushTableFails(t)
  <2>1. file' = file /\ FilesOK'
    BY <1>3 DEF FlushTableFails, disk, StoreInv, FilesOK
  <2>2. CASE op.kind = "close"
    BY <1>1, <1>3, <2>1, <2>2, VisitedOK DEF FlushTableFails, LoseHandle
  <2>3. CASE op.kind # "close"
    BY <1>3, <2>1, <2>3, ReturnIsDone, QuietStep DEF FlushTableFails
  <2> QED BY <2>2, <2>3
<1> QED BY <1>2, <1>3

\* CloseTableFile writes a header of an open handle, or loses it.
LEMMA CloseTableFileOK ==
    ASSUME StoreInv, NEW t \in Table, CloseTableFile(t) \/ CloseTableFileFails(t)
    PROVE  StoreInv'
<1>1. Good(hdr[t]) /\ op' = op /\ op.at = "start" /\ hdr' = [hdr EXCEPT ![t] = Closed]
  BY DEF CloseTableFile, CloseTableFileFails, LoseHandle, Running, IsOpen, StoreInv, HeadersOK
<1>2. HeadersOK'
  BY <1>1, SpecialHeaders, HeaderSet
<1>3. FilesOK'
  <2>1. CASE CloseTableFile(t)
    BY <1>1, <2>1, FilesAfterFlush DEF CloseTableFile
  <2>2. CASE CloseTableFileFails(t)
    BY <2>2 DEF CloseTableFileFails, disk, StoreInv, FilesOK
  <2> QED BY <2>1, <2>2
<1> QED BY <1>1, <1>2, <1>3 DEF StoreInv, OpOK

\* A crash loses all handles; the files stay as they are.
LEMMA CrashOK == ASSUME StoreInv, Crash PROVE StoreInv'
<1>1. HeadersOK'
  BY SpecialHeaders DEF Crash, HeadersOK
<1>2. FilesOK'
  BY DEF Crash, disk, StoreInv, FilesOK
<1>3. OpOK'
  BY DEF Crash, Idle, OpOK
<1> QED BY <1>1, <1>2, <1>3 DEF StoreInv

\* The steps that touch neither headers nor files and end the operation, or leave
\* it alone.
LEMMA QuietOK ==
    ASSUME StoreInv,
           \/ FindPageFails \/ WriteRowFails \/ ScanPageFails \/ FlushEnds
           \/ CloseEnds \/ Checkpoint \/ Finish \/ Open
           \/ \E t \in Table : TruncateUnopened(t)
           \/ \E kind \in {"updateSQL", "deleteSQL"}, t \in Table, k \in Keys :
                 RewriteWithCallback(kind, t, k)
    PROVE  StoreInv'
<1>1. CASE FindPageFails \/ WriteRowFails \/ ScanPageFails \/ FlushEnds
  <2>1. UNCHANGED <<file, hdr>> /\ (Return(TRUE) \/ Return(FALSE))
    BY <1>1 DEF FindPageFails, WriteRowFails, ScanPageFails, FlushEnds, ReturnError, disk
  <2> QED BY <2>1, ReturnIsDone, QuietStep
<1>2. CASE CloseEnds \/ Checkpoint \/ Finish \/ Open
  <2>1. UNCHANGED <<file, hdr>> /\ (op' = op \/ op'.at = "start")
    BY <1>2 DEF CloseEnds, Checkpoint, Finish, Open, Idle, disk
  <2> QED BY <2>1, QuietStep
<1>3. ASSUME NEW t \in Table, TruncateUnopened(t) PROVE StoreInv'
  <2>1. op'.at = "done" /\ DOMAIN op' = OpFields
    BY <1>3, Zenon DEF TruncateUnopened, NewOp, OpFields
  <2> QED BY <1>3, <2>1, QuietStep DEF TruncateUnopened
<1>4. ASSUME NEW kind, NEW t \in Table, NEW k, RewriteWithCallback(kind, t, k)
      PROVE  StoreInv'
  <2>1. op'.at = "done" /\ DOMAIN op' = OpFields
    BY <1>4, Zenon DEF RewriteWithCallback, NewOp, OpFields
  <2> QED BY <1>4, <2>1, QuietStep DEF RewriteWithCallback, disk
<1> QED BY <1>1, <1>2, <1>3, <1>4, Zenon

\* Every step keeps the headers, the files and the handles in order.
LEMMA NextOK == ASSUME StoreInv, Next PROVE StoreInv'
<1>1. ASSUME NEW t \in Table,
             \/ InsertRow(t) \/ InsertTooLarge(t) \/ GetRows(t) \/ GetTableFile(t)
             \/ TruncateTable(t) \/ CloseTableFile(t) \/ CloseTableFileFails(t)
             \/ FlushTable(t) \/ FlushTableFails(t) \/ TruncateUnopened(t)
      PROVE  StoreInv'
  BY <1>1, Zenon, InsertRowOK, OpenStepOK, GetRowsOK, TruncateTableOK, CloseTableFileOK,
     FlushTableOK, QuietOK
<1>2. ASSUME NEW t \in Table, NEW k \in Keys, UpdateRows(t, k) \/ DeleteRows(t, k)
      PROVE  StoreInv'
  BY <1>2, Zenon, RewriteOK DEF UpdateRows, DeleteRows
<1>3. ASSUME NEW t \in Table, NEW k \in Keys,
             UpdateRowsWithCallback(t, k) \/ DeleteRowsWithCallback(t, k)
      PROVE  StoreInv'
  <2>1. PICK kind \in {"updateSQL", "deleteSQL"} : RewriteWithCallback(kind, t, k)
    BY <1>3, Zenon DEF UpdateRowsWithCallback, DeleteRowsWithCallback
  <2> QED BY <2>1, Zenon, QuietOK
<1>4. CASE \/ FindPage \/ AllocatePage \/ AllocateFails \/ WriteRow \/ ScanPage \/ ScanEnds
           \/ \E ok \in BOOLEAN : LinkPage(ok)
  BY <1>4, Zenon, FindPageOK, AllocatePageOK, AllocateFailsOK, WriteRowOK, ScanPageOK,
     ScanEndsOK, LinkPageOK
<1>5. CASE ClearTable \/ ClearFails \/ FlushAll \/ Close \/ Crash
  BY <1>5, Zenon, ClearOK, StartFlushOK, CrashOK DEF FlushAll, Close
<1>6. CASE \/ FindPageFails \/ WriteRowFails \/ ScanPageFails \/ FlushEnds
           \/ CloseEnds \/ Checkpoint \/ Finish \/ Open
  BY <1>6, Zenon, QuietOK
<1> QED BY <1>1, <1>2, <1>3, <1>4, <1>5, <1>6, Zenon DEF Next

\* Headers, files and handles are always in order.
THEOREM StoreInvariant == Spec => []StoreInv
<1>1. StoreInv /\ [Next]_vars => StoreInv'
  <2>1. ASSUME StoreInv, UNCHANGED vars PROVE StoreInv'
    BY <2>1, QuietStep DEF vars
  <2> QED BY <2>1, NextOK
<1> QED BY InitOK, <1>1, PTL DEF Spec

\* Whatever writes fail and wherever the process dies, no header in memory or on
\* disk ever lets allocatePageNoLock hand out a page number that the chain of the
\* table already uses, and a table has a first page just when it has a last one.
THEOREM HeadersSound == Spec => []LastBelowCount
<1>1. StoreInv => LastBelowCount
  BY DEF StoreInv, HeadersOK, FilesOK, LastBelowCount, Good
<1> QED BY StoreInvariant, <1>1, PTL

----------------------------------------------------------------------------
(* The chain of pages, on disk and in the cache.                            *)

\* A page whose right sibling, if it has one, has a higher number.
PageOK(pg) ==
    /\ DOMAIN pg = {"id", "rows", "right"}
    /\ pg.id \in Nat /\ pg.right \in Nat /\ Points(pg)

\* A sequence of such pages.
Pages(s) == \E S : s \in Seq(S) /\ \A pg \in S : PageOK(pg)

\* The data pages of a file: each at the offset of its number, or a hole.
Chain(s) == Pages(s) /\ \A i \in 1..Len(s) : s[i].id \in {0, i}

\* Which pages the cache has by which number is left open: it may be the page of another
\* table.  What is linked to the last page has a higher number than that.
ChainInv ==
    /\ \A t \in Table : Chain(file[t].pages)
    /\ Pages(cache)
    /\ op.at = "scan" => op.t \in Table
    /\ op.at = "link" => hdr[op.t].last < op.target.id
    /\ op.at \in {"link", "row"} => PageOK(op.target)

\* The elements of a sequence of pages.
LEMMA PagesElement ==
    ASSUME NEW s, Pages(s)
    PROVE  Len(s) \in Nat /\ \A i \in 1..Len(s) : PageOK(s[i])
<1>1. PICK S : s \in Seq(S) /\ \A pg \in S : PageOK(pg)
  BY DEF Pages
<1> QED BY <1>1

\* New pages, and what lies between them.
LEMMA NewPageOK == \A p \in Nat : PageOK(NewPage(p)) /\ NewPage(p).id = p /\ PageOK(Hole) /\ Hole.id = 0
  BY DEF NewPage, Hole, PageOK, Points

\* Pages of a set.
LEMMA PagesOf ==
    ASSUME NEW s, NEW S, s \in Seq(S), \A pg \in S : PageOK(pg)
    PROVE  Pages(s)
  BY DEF Pages

\* A table without pages, and an empty cache.
LEMMA NoPages == Pages(<< >>) /\ Chain(<< >>)
<1> DEFINE S == {Hole}
           none == << >>
<1>1. none \in Seq(S) /\ Len(none) = 0
  OBVIOUS
<1>2. \A pg \in S : PageOK(pg)
  BY NewPageOK
<1>3. Pages(none)
  <2> HIDE DEF S, none
  <2> QED BY <1>1, <1>2, PagesOf
<1> QED BY <1>1, <1>3 DEF Chain

\* A page gets rows, or a right sibling with a higher number.
LEMMA PageChanged ==
    ASSUME NEW pg, PageOK(pg)
    PROVE  /\ \A r : PageOK([pg EXCEPT !.rows = r])
           /\ \A n \in Nat : n > pg.id => PageOK([pg EXCEPT !.right = n]) /\ [pg EXCEPT !.right = n].id = pg.id
<1>1. ASSUME NEW r PROVE PageOK([pg EXCEPT !.rows = r])
  <2>1. /\ DOMAIN [pg EXCEPT !.rows = r] = {"id", "rows", "right"}
        /\ [pg EXCEPT !.rows = r].id = pg.id /\ [pg EXCEPT !.rows = r].right = pg.right
    BY Zenon DEF PageOK
  <2> QED BY <2>1 DEF PageOK, Points
<1>2. ASSUME NEW n \in Nat, n > pg.id
      PROVE  PageOK([pg EXCEPT !.right = n]) /\ [pg EXCEPT !.right = n].id = pg.id
  <2>1. /\ DOMAIN [pg EXCEPT !.right = n] = {"id", "rows", "right"}
        /\ [pg EXCEPT !.right = n].id = pg.id /\ [pg EXCEPT !.right = n].right = n
    BY Zenon DEF PageOK
  <2> QED BY <1>2, <2>1 DEF PageOK, Points
<1> QED BY <1>1, <1>2

\* WriteAt puts a page at its number and fills the gap before it with holes.
LEMMA WriteAtChain ==
    ASSUME NEW f, DOMAIN f = {"hdr", "pages"}, Chain(f.pages), NEW pg, PageOK(pg)
    PROVE  Chain(WriteAt(f, pg).pages)
<1>1. CASE pg.id = 0
  <2>1. WriteAt(f, pg) = [f EXCEPT !.hdr = BadHeader]
    BY <1>1 DEF WriteAt
  <2>2. WriteAt(f, pg).pages = f.pages
    BY <2>1, Zenon
  <2> QED BY <2>2
<1>2. CASE pg.id # 0
  <2> DEFINE n == IF pg.id > Len(f.pages) THEN pg.id ELSE Len(f.pages)
             p == [i \in 1..n |->
                     IF i = pg.id THEN pg ELSE IF i <= Len(f.pages) THEN f.pages[i] ELSE Hole]
  <2>1. WriteAt(f, pg) = [f EXCEPT !.pages = p]
    BY <1>2 DEF WriteAt
  <2>2. WriteAt(f, pg).pages = p
    <3> HIDE DEF p
    <3> QED BY <2>1, Zenon
  <2>3. PICK S : f.pages \in Seq(S) /\ \A q \in S : PageOK(q)
    BY DEF Chain, Pages
  <2>4. n \in Nat /\ Len(f.pages) \in Nat
    BY <2>3 DEF PageOK
  <2> HIDE DEF n
  <2>5. \A i \in 1..n : p[i] \in S \cup {pg, Hole} /\ p[i].id \in {0, i}
    <3>1. \A i \in 1..Len(f.pages) : f.pages[i] \in S /\ f.pages[i].id \in {0, i}
      BY <2>3 DEF Chain
    <3>2. Hole.id = 0
      BY NewPageOK
    <3> QED BY <2>4, <3>1, <3>2
  <2>6. p \in Seq(S \cup {pg, Hole}) /\ Len(p) = n
    BY <2>4, <2>5
  <2> HIDE DEF p
  <2>7. \A q \in S \cup {pg, Hole} : PageOK(q)
    BY <2>3, NewPageOK
  <2> QED BY <2>2, <2>5, <2>6, <2>7 DEF Chain, Pages
<1> QED BY <1>1, <1>2

\* Where the cache has a page.
LEMMA CachedAtOK ==
    ASSUME NEW p, InCache(p)
    PROVE  CachedAt(p) \in 1..Len(cache) /\ CachedPage(p) = cache[CachedAt(p)] /\ CachedPage(p).id = p
  BY DEF InCache, CachedAt, CachedPage

\* PageCache.Put adds the page and may drop others.
LEMMA CachePutPages ==
    ASSUME Pages(cache), NEW pg, PageOK(pg)
    PROVE  Pages(CachePut(pg))
<1>1. PICK S : cache \in Seq(S) /\ \A q \in S : PageOK(q)
  BY DEF Pages
<1> DEFINE others == IF InCache(pg.id) THEN RemoveAt(cache, CachedAt(pg.id)) ELSE cache
           kept == IF Len(others) >= MaxPages THEN MaxPages - 1 ELSE Len(others)
<1>2. others \in Seq(S)
  <2>1. CASE InCache(pg.id)
    <3>1. CachedAt(pg.id) \in 1..Len(cache)
      BY <2>1, CachedAtOK
    <3> DEFINE i == CachedAt(pg.id)
    <3> HIDE DEF i
    <3>2. SubSeq(cache, 1, i - 1) \in Seq(S) /\ SubSeq(cache, i + 1, Len(cache)) \in Seq(S)
      BY <1>1, <3>1 DEF i
    <3>3. RemoveAt(cache, i) \in Seq(S)
      BY <3>2 DEF RemoveAt
    <3> QED BY <2>1, <3>3 DEF i
  <2>2. CASE ~InCache(pg.id)
    BY <1>1, <2>2
  <2> QED BY <2>1, <2>2
<1> HIDE DEF others
<1>3. kept \in 0..Len(others)
  BY <1>2, BoundsAssumption
<1>4. CachePut(pg) = <<pg>> \o SubSeq(others, 1, kept)
  BY DEF CachePut, others
<1> HIDE DEF kept
<1>5. SubSeq(others, 1, kept) \in Seq(S)
  BY <1>2, <1>3
<1>6. <<pg>> \o SubSeq(others, 1, kept) \in Seq(S \cup {pg})
  <2> DEFINE rest == SubSeq(others, 1, kept)
  <2> HIDE DEF rest
  <2>1. rest \in Seq(S \cup {pg}) /\ <<pg>> \in Seq(S \cup {pg})
    BY <1>5 DEF rest
  <2>2. <<pg>> \o rest \in Seq(S \cup {pg})
    BY <2>1
  <2> QED BY <2>2 DEF rest
<1> QED BY <1>1, <1>4, <1>6 DEF Pages

\* A page that changes in place.
LEMMA InPlacePages ==
    ASSUME Pages(cache), NEW pg, PageOK(pg)
    PROVE  Pages(CacheInPlace(pg))
<1>1. PICK S : cache \in Seq(S) /\ \A q \in S : PageOK(q)
  BY DEF Pages
<1>2. CacheInPlace(pg) \in Seq(S \cup {pg})
  BY <1>1 DEF CacheInPlace
<1> QED BY <1>1, <1>2 DEF Pages

\* What a read gives has the number that was asked for, or is a hole.
LEMMA ReadPageOK ==
    ASSUME ChainInv, NEW t \in Table, NEW p, CanRead(t, p)
    PROVE  PageOK(ReadPage(t, p)) /\ ReadPage(t, p).id \in {0, p}
<1>1. CASE InCache(p)
  BY <1>1, CachedAtOK, PagesElement DEF ChainInv, ReadPage
<1>2. CASE ~InCache(p)
  <2>1. p \in 1..Len(file[t].pages) /\ ReadPage(t, p) = file[t].pages[p]
    BY <1>2 DEF CanRead, ReadPage
  <2> QED BY <2>1, PagesElement DEF ChainInv, Chain
<1> QED BY <1>1, <1>2

\* A page is written to a file.
LEMMA ChainsAfterWrite ==
    ASSUME StoreInv, ChainInv, NEW t \in Table, NEW pg, PageOK(pg),
           file' = [file EXCEPT ![t] = WriteAt(@, pg)]
    PROVE  \A u \in Table : Chain(file'[u].pages)
<1>1. DOMAIN file = Table /\ DOMAIN file[t] = {"hdr", "pages"} /\ \A u \in Table : Chain(file[u].pages)
  BY DEF StoreInv, FilesOK, ChainInv
<1>2. Chain(WriteAt(file[t], pg).pages)
  BY <1>1, WriteAtChain
<1>3. file'[t] = WriteAt(file[t], pg) /\ \A u \in Table \ {t} : file'[u] = file[u]
  BY <1>1, Zenon
<1> QED BY <1>1, <1>2, <1>3

\* A step that writes no page: it may load pages into the cache or drop them, and the
\* operation goes on to no step that links a page or writes a row, or is where it was.
LEMMA ChainKept ==
    ASSUME ChainInv, \A t \in Table : file'[t].pages = file[t].pages \/ file'[t].pages = << >>,
           Pages(cache'),
           \/ op'.at \notin {"link", "row", "scan"}
           \/ op'.at = "scan" /\ op'.t \in Table
           \/ op' = op /\ hdr' = hdr
    PROVE  ChainInv'
<1>1. \A t \in Table : Chain(file'[t].pages)
  BY NoPages DEF ChainInv
<1>2. op'.at = "scan" => op'.t \in Table
  BY DEF ChainInv
<1>3. op'.at = "link" => hdr'[op'.t].last < op'.target.id
  BY DEF ChainInv
<1>4. op'.at \in {"link", "row"} => PageOK(op'.target)
  BY DEF ChainInv
<1> QED BY <1>1, <1>2, <1>3, <1>4 DEF ChainInv

\* The tail of the chain is looked at: what it gives to insert into is a page.
LEMMA FindPageChain == ASSUME StoreInv, ChainInv, FindPage PROVE ChainInv'
<1>1. op.at = "find" /\ op.t \in Table /\ DOMAIN op = OpFields /\ file' = file
  BY DEF FindPage, Running, disk, StoreInv, OpOK
<1> DEFINE last == hdr[op.t].last
           pg == ReadPage(op.t, last)
<1>2. CASE cache' = cache /\ op' = [op EXCEPT !.at = "alloc", !.id = mem.nextID]
  <2>1. op'.at = "alloc"
    BY <1>1, <1>2, Zenon DEF OpFields
  <2> QED BY <1>1, <1>2, <2>1, ChainKept DEF ChainInv
<1>3. CASE /\ CanRead(op.t, last) /\ cache' = CachePut(pg)
           /\ op' = [op EXCEPT !.at = IF Fits(pg) THEN "row" ELSE "alloc",
                               !.id = mem.nextID, !.target = pg]
  <2>1. PageOK(pg)
    BY <1>1, <1>3, ReadPageOK
  <2> HIDE DEF pg
  <2>2. op'.at \in {"row", "alloc"} /\ op'.target = pg
    BY <1>1, <1>3, Zenon DEF OpFields
  <2>3. Pages(cache')
    BY <1>3, <2>1, CachePutPages DEF ChainInv
  <2> QED BY <1>1, <2>1, <2>2, <2>3 DEF ChainInv
<1> QED BY <1>2, <1>3, Zenon DEF FindPage

\* The new page has a higher number than the last.
LEMMA AllocatePageChain == ASSUME StoreInv, ChainInv, AllocatePage PROVE ChainInv'
<1> DEFINE h == hdr[op.t]
           pg == NewPage(h.count)
<1>1. op.at = "alloc" /\ op.t \in Table /\ DOMAIN op = OpFields /\ Good(h) /\ h \in Header
  BY DEF AllocatePage, Running, StoreInv, OpOK, HeadersOK
<1>2. PageOK(pg) /\ pg.id = h.count
  BY <1>1, NewPageOK DEF Header
<1>3. /\ file' = [file EXCEPT ![op.t] = WriteAt(@, pg)] /\ cache' = CachePut(pg)
      /\ op' = [op EXCEPT !.at = IF h.last = 0 THEN "row" ELSE "link", !.target = pg]
  BY DEF AllocatePage
<1>4. h.last # 0 => hdr'[op.t].last = h.last
  <2>1. hdr' = [hdr EXCEPT ![op.t].count = @ + 1, ![op.t].first = IF @ = 0 THEN pg.id ELSE @,
                           ![op.t].last = IF @ = 0 THEN pg.id ELSE @]
    BY DEF AllocatePage
  <2> HIDE DEF pg
  <2> QED BY <1>1, <2>1 DEF StoreInv, HeadersOK, Header
<1> HIDE DEF pg
<1>5. op'.at = (IF h.last = 0 THEN "row" ELSE "link") /\ op'.t = op.t /\ op'.target = pg
  <2> HIDE DEF h
  <2> QED BY <1>1, <1>3, Zenon DEF OpFields
<1>6. Pages(cache')
  BY <1>2, <1>3, CachePutPages DEF ChainInv
<1>7. \A t \in Table : Chain(file'[t].pages)
  BY <1>1, <1>2, <1>3, ChainsAfterWrite
<1>8. op'.at = "link" => hdr'[op'.t].last < op'.target.id
  BY <1>1, <1>2, <1>4, <1>5 DEF Good
<1>9. op'.at # "scan"
  BY <1>5
<1>10. PageOK(op'.target)
  BY <1>2, <1>5
<1> QED BY <1>6, <1>7, <1>8, <1>9, <1>10 DEF ChainInv

\* Whatever page is read as the last one, of this table or another, or a hole, its number
\* is at most that of the last page, and the link leads above it.
LEMMA LinkPageChain == ASSUME StoreInv, ChainInv, NEW ok \in BOOLEAN, LinkPage(ok) PROVE ChainInv'
<1> DEFINE last == hdr[op.t].last
           old == ReadPage(op.t, last)
           pg == [old EXCEPT !.right = op.target.id]
<1>1. /\ op.at = "link" /\ op.t \in Table /\ DOMAIN op = OpFields /\ last \in Nat
      /\ op.target.id \in Nat /\ last < op.target.id /\ PageOK(op.target)
  <2>1. op.at = "link" /\ op.t \in Table /\ DOMAIN op = OpFields /\ op.target.id \in Nat
    BY DEF LinkPage, Running, StoreInv, OpOK
  <2>2. last \in Nat
    BY <2>1 DEF StoreInv, HeadersOK, Header
  <2>3. last < op.target.id /\ PageOK(op.target)
    BY <2>1 DEF ChainInv
  <2> QED BY <2>1, <2>2, <2>3
<1>2. op' = [op EXCEPT !.at = "row"]
  BY DEF LinkPage
<1>3. op'.at = "row" /\ op'.target = op.target
  BY <1>1, <1>2, Zenon DEF OpFields
<1>4. CASE CanRead(op.t, last)
  <2>1. PageOK(old) /\ old.id \in {0, last}
    BY <1>1, <1>4, ReadPageOK
  <2> HIDE DEF old
  <2>2. PageOK(pg)
    <3>1. op.target.id > old.id
      BY <1>1, <2>1
    <3> QED BY <1>1, <2>1, <3>1, PageChanged
  <2>3. /\ cache' = CachePut(pg)
        /\ file' = [file EXCEPT ![op.t] = WriteAt(@, pg)] \/ file' = file
    BY <1>4, Zenon DEF LinkPage, old
  <2> HIDE DEF pg
  <2>4. Pages(cache')
    BY <2>2, <2>3, CachePutPages DEF ChainInv
  <2>5. \A t \in Table : Chain(file'[t].pages)
    <3>1. CASE file' = file
      BY <3>1 DEF ChainInv
    <3>2. CASE file' = [file EXCEPT ![op.t] = WriteAt(@, pg)]
      BY <1>1, <2>2, <3>2, ChainsAfterWrite
    <3> QED BY <2>3, <3>1, <3>2
  <2> QED BY <1>1, <1>3, <2>4, <2>5 DEF ChainInv
<1>5. CASE ~CanRead(op.t, last)
  <2>1. cache' = cache /\ file' = file
    BY <1>5 DEF LinkPage
  <2> QED BY <1>1, <1>3, <2>1 DEF ChainInv
<1> QED BY <1>4, <1>5

\* A row goes into a page, which leads where it did.
LEMMA WriteRowChain == ASSUME StoreInv, ChainInv, WriteRow \/ WriteRowFails PROVE ChainInv'
<1>1. op.at = "row" /\ op.t \in Table /\ DOMAIN op = OpFields /\ PageOK(op.target)
  BY DEF WriteRow, WriteRowFails, Running, StoreInv, OpOK, ChainInv
<1> DEFINE row == Head(op.todo)
           pg == [op.target EXCEPT !.rows = Append(@, [id |-> op.id, key |-> row.key, val |-> row.val])]
<1>2. PageOK(pg)
  BY <1>1, PageChanged
<1>3. CASE WriteRow
  <2>1. /\ file' = [file EXCEPT ![op.t] = WriteAt(@, pg)] /\ cache' = CachePut(pg)
        /\ Return(FALSE) \/ op' = [op EXCEPT !.at = "find", !.todo = Tail(@)]
    BY <1>3, Zenon DEF WriteRow
  <2> HIDE DEF pg
  <2>2. op'.at \in {"done", "find"}
    <3>1. CASE op' = [op EXCEPT !.at = "find", !.todo = Tail(@)]
      BY <1>1, <3>1, Zenon DEF OpFields
    <3> QED BY <2>1, <3>1, ReturnIsDone
  <2>3. Pages(cache')
    BY <1>2, <2>1, CachePutPages DEF ChainInv
  <2>4. \A t \in Table : Chain(file'[t].pages)
    BY <1>1, <1>2, <2>1, ChainsAfterWrite
  <2> QED BY <2>2, <2>3, <2>4 DEF ChainInv
<1>4. CASE WriteRowFails
  <2>1. cache' = CacheInPlace(pg) /\ Return(TRUE) /\ file' = file
    BY <1>4 DEF WriteRowFails, ReturnError, disk
  <2> HIDE DEF pg
  <2>2. Pages(cache')
    BY <1>2, <2>1, InPlacePages DEF ChainInv
  <2>3. op'.at = "done"
    BY <2>1, ReturnIsDone
  <2> QED BY <2>1, <2>2, <2>3, ChainKept
<1> QED BY <1>3, <1>4

\* A scan loads pages.
LEMMA ScanPageChain == ASSUME StoreInv, ChainInv, ScanPage PROVE ChainInv'
<1>1. /\ op.at = "scan" /\ op.t \in Table /\ DOMAIN op = OpFields /\ file' = file
      /\ CanRead(op.t, op.page) /\ cache' = CachePut(ReadPage(op.t, op.page))
      /\ op' = [op EXCEPT !.seen = @ \o ReadPage(op.t, op.page).rows,
                          !.page = ReadPage(op.t, op.page).right]
  BY DEF ScanPage, Running, disk, StoreInv, OpOK, ChainInv
<1>2. op'.at = "scan" /\ op'.t = op.t
  BY <1>1, Zenon DEF OpFields
<1>3. Pages(cache')
  BY <1>1, ReadPageOK, CachePutPages DEF ChainInv
<1> QED BY <1>1, <1>2, <1>3, ChainKept

\* The steps that open handles, begin operations, and write headers.
LEMMA TableChain ==
    ASSUME StoreInv, ChainInv, NEW t \in Table,
           \/ InsertRow(t) \/ InsertTooLarge(t) \/ GetRows(t) \/ GetTableFile(t)
           \/ TruncateTable(t) \/ TruncateUnopened(t)
           \/ FlushTable(t) \/ FlushTableFails(t) \/ CloseTableFile(t) \/ CloseTableFileFails(t)
    PROVE  ChainInv'
<1>1. Pages(cache')
  BY DEF InsertRow, InsertTooLarge, GetRows, GetTableFile, TruncateTable, TruncateUnopened,
         FlushTable, FlushTableFails, CloseTableFile, CloseTableFileFails, ChainInv
<1>2. \A u \in Table : file'[u].pages = file[u].pages
  <2>1. CASE file' = file
    BY <2>1
  <2>2. CASE file' = [file EXCEPT ![t].hdr = hdr[t]]
    <3>1. DOMAIN file = Table /\ DOMAIN file[t] = {"hdr", "pages"}
      BY DEF StoreInv, FilesOK
    <3>2. file'[t] = [file[t] EXCEPT !.hdr = hdr[t]] /\ \A u \in Table \ {t} : file'[u] = file[u]
      BY <2>2, <3>1, Zenon
    <3>3. [file[t] EXCEPT !.hdr = hdr[t]].pages = file[t].pages
      BY <3>1, Zenon
    <3> QED BY <3>2, <3>3
  <2> QED
    BY <2>1, <2>2 DEF InsertRow, InsertTooLarge, GetRows, GetTableFile, TruncateTable, TruncateUnopened,
         FlushTable, FlushTableFails, CloseTableFile, CloseTableFileFails, disk
<1>3. \/ op'.at \notin {"link", "row", "scan"}
      \/ op'.at = "scan" /\ op'.t \in Table
  <2>1. CASE InsertRow(t)
    BY <2>1, Zenon DEF InsertRow, NewOp
  <2>2. CASE InsertTooLarge(t) \/ GetTableFile(t) \/ CloseTableFile(t) \/ CloseTableFileFails(t)
    BY <2>2 DEF InsertTooLarge, GetTableFile, CloseTableFile, CloseTableFileFails, Running
  <2>3. CASE GetRows(t)
    BY <2>3, Zenon DEF GetRows, NewOp
  <2>4. CASE TruncateTable(t) \/ TruncateUnopened(t)
    <3>1. op' = NewOp("truncate", t, "clear") \/ op' = NewOp("truncate", t, "done")
      BY <2>4 DEF TruncateTable, TruncateUnopened
    <3> QED BY <3>1 DEF NewOp
  <2>5. CASE FlushTable(t) \/ FlushTableFails(t)
    <3>1. op.at = "flush" /\ DOMAIN op = OpFields
      BY <2>5 DEF FlushTable, FlushTableFails, Running, StoreInv, OpOK
    <3>2. CASE op' = [op EXCEPT !.left = @ \ {t}]
      BY <3>1, <3>2, Zenon DEF OpFields
    <3>3. CASE Return(TRUE)
      BY <3>3, ReturnIsDone
    <3> QED BY <2>5, <3>2, <3>3 DEF FlushTable, FlushTableFails
  <2> QED BY <2>1, <2>2, <2>3, <2>4, <2>5
<1> QED BY <1>1, <1>2, <1>3, ChainKept

\* An update or deletion begins with a scan, if it does anything.
LEMMA RewriteChain ==
    ASSUME ChainInv, NEW kind, NEW t \in Table, NEW k,
           Rewrite(kind, t, k) \/ RewriteWithCallback(kind, t, k)
    PROVE  ChainInv'
<1>1. file' = file /\ cache' = cache
  BY DEF Rewrite, RewriteWithCallback, disk
<1>2. op'.at = "done" \/ (op'.at = "scan" /\ op'.t \in Table)
  <2>1. CASE Rewrite(kind, t, k)
    <3>1. op' = [NewOp(kind, t, IF IsOpen(t) THEN "scan" ELSE "done") EXCEPT
                    !.page = hdr[t].first, !.key = k, !.val = 1]
      BY <2>1 DEF Rewrite
    <3>2. op'.at = (IF IsOpen(t) THEN "scan" ELSE "done") /\ op'.t = t
      BY <3>1, Zenon DEF NewOp
    <3> QED BY <3>2
  <2>2. CASE RewriteWithCallback(kind, t, k)
    BY <2>2, Zenon DEF RewriteWithCallback, NewOp
  <2> QED BY <2>1, <2>2
<1> QED BY <1>1, <1>2, ChainKept DEF ChainInv

\* Clear empties the cache, and the file unless that fails.
LEMMA ClearChain == ASSUME StoreInv, ChainInv, ClearTable \/ ClearFails PROVE ChainInv'
<1>1. op.at = "clear" /\ op.t \in Table /\ cache' = << >>
  BY DEF ClearTable, ClearFails, Running, StoreInv, OpOK
<1>2. op'.at \in {"done", "find"}
  BY <1>1, ClearedOp
<1>3. \A u \in Table : file'[u].pages = file[u].pages \/ file'[u].pages = << >>
  <2>1. CASE ClearTable
    <3>1. DOMAIN file = Table /\ DOMAIN file[op.t] = {"hdr", "pages"} /\ file' = [file EXCEPT ![op.t].pages = << >>]
      BY <1>1, <2>1 DEF StoreInv, FilesOK, ClearTable
    <3>2. /\ file'[op.t] = [file[op.t] EXCEPT !.pages = << >>]
          /\ \A u \in Table \ {op.t} : file'[u] = file[u]
      BY <1>1, <3>1, Zenon
    <3>3. [file[op.t] EXCEPT !.pages = << >>].pages = << >>
      BY <3>1, Zenon
    <3> QED BY <3>2, <3>3
  <2>2. CASE ClearFails
    BY <2>2 DEF ClearFails, disk
  <2> QED BY <2>1, <2>2
<1> QED BY <1>1, <1>2, <1>3, NoPages, ChainKept

\* The steps that touch no page and lead to none that does.
LEMMA OtherChain ==
    ASSUME StoreInv, ChainInv,
           \/ FindPageFails \/ AllocateFails \/ ScanPageFails \/ ScanEnds \/ FlushAll \/ Close
           \/ FlushEnds \/ CloseEnds \/ Checkpoint \/ Finish \/ Open \/ Crash
    PROVE  ChainInv'
<1>1. file' = file
  BY DEF FindPageFails, AllocateFails, ScanPageFails, ScanEnds, FlushAll, Close, StartFlush, FlushEnds,
         CloseEnds, Checkpoint, Finish, Open, Crash, disk
<1>2. cache' = cache \/ cache' = << >>
  BY DEF FindPageFails, AllocateFails, ScanPageFails, ScanEnds, FlushAll, Close, StartFlush, FlushEnds,
         CloseEnds, Checkpoint, Finish, Open, Crash
<1>3. Pages(cache')
  BY <1>2, NoPages DEF ChainInv
<1>4. CASE FindPageFails \/ AllocateFails \/ ScanPageFails \/ FlushEnds
  <2>1. Return(TRUE) \/ Return(FALSE)
    BY <1>4 DEF FindPageFails, AllocateFails, ScanPageFails, FlushEnds, ReturnError
  <2> QED BY <1>1, <1>3, <2>1, ReturnIsDone, ChainKept
<1>5. CASE ScanEnds
  <2>1. op.at = "scan" /\ DOMAIN op = OpFields
    BY <1>5 DEF ScanEnds, Running, StoreInv, OpOK
  <2>2. Return(FALSE) \/ op' = [op EXCEPT !.at = "clear", !.todo = Rewritten]
    BY <1>5, Zenon DEF ScanEnds
  <2>3. CASE op' = [op EXCEPT !.at = "clear", !.todo = Rewritten]
    <3>1. op'.at = "clear"
      BY <2>1, <2>3, Zenon DEF OpFields
    <3> QED BY <1>1, <1>3, <3>1, ChainKept
  <2> QED BY <1>1, <1>3, <2>2, <2>3, ReturnIsDone, ChainKept
<1>6. CASE FlushAll \/ Close
  <2>1. op'.at = "flush"
    BY <1>6, Zenon DEF FlushAll, Close, StartFlush, NewOp
  <2> QED BY <1>1, <1>3, <2>1, ChainKept
<1>7. CASE CloseEnds \/ Checkpoint \/ Finish \/ Open \/ Crash
  <2>1. op'.at = "start" \/ (op' = op /\ hdr' = hdr)
    BY <1>7 DEF CloseEnds, Checkpoint, Finish, Open, Crash, Idle
  <2> QED BY <1>1, <1>3, <2>1, ChainKept
<1> QED BY <1>4, <1>5, <1>6, <1>7

\* The chain of pages stays in order.
THEOREM ChainInvariant == Spec => []ChainInv
<1>1. Init => ChainInv
  <2> SUFFICES ASSUME Init PROVE ChainInv
    OBVIOUS
  <2>1. cache = << >> /\ op.at = "start"
    BY DEF Init, Idle
  <2>2. \A t \in Table : file[t].pages = << >>
    BY DEF Init
  <2> QED BY <2>1, <2>2, NoPages DEF ChainInv
<1>2. StoreInv /\ ChainInv /\ [Next]_vars => ChainInv'
  <2> SUFFICES ASSUME StoreInv, ChainInv, [Next]_vars PROVE ChainInv'
    OBVIOUS
  <2>1. ASSUME NEW t \in Table,
               \/ InsertRow(t) \/ InsertTooLarge(t) \/ GetRows(t) \/ GetTableFile(t)
               \/ TruncateTable(t) \/ CloseTableFile(t) \/ CloseTableFileFails(t)
               \/ FlushTable(t) \/ FlushTableFails(t) \/ TruncateUnopened(t)
        PROVE  ChainInv'
    BY <2>1, TableChain
  <2>2. ASSUME NEW t \in Table, NEW k \in Keys,
               \/ UpdateRows(t, k) \/ DeleteRows(t, k)
               \/ UpdateRowsWithCallback(t, k) \/ DeleteRowsWithCallback(t, k)
        PROVE  ChainInv'
    BY <2>2, Zenon, RewriteChain DEF UpdateRows, DeleteRows, UpdateRowsWithCallback, DeleteRowsWithCallback
  <2>3. CASE \/ FindPage \/ AllocatePage \/ WriteRow \/ WriteRowFails \/ ScanPage \/ ClearTable \/ ClearFails
             \/ \E ok \in BOOLEAN : LinkPage(ok)
    BY <2>3, Zenon, FindPageChain, AllocatePageChain, WriteRowChain, ScanPageChain, ClearChain, LinkPageChain
  <2>4. CASE \/ FindPageFails \/ AllocateFails \/ ScanPageFails \/ ScanEnds \/ FlushAll \/ Close
             \/ FlushEnds \/ CloseEnds \/ Checkpoint \/ Finish \/ Open \/ Crash
    BY <2>4, Zenon, OtherChain
  <2>5. CASE UNCHANGED vars
    BY <2>5, ChainKept DEF vars, ChainInv
  <2> QED BY <2>1, <2>2, <2>3, <2>4, <2>5, Zenon DEF Next
<1> QED BY <1>1, <1>2, StoreInvariant, PTL DEF Spec

\* No crash, failed write, or page that the shared cache gives for another table's closes
\* the chain of a table into a ring in which GetAllRows would never return.
THEOREM ChainsIncrease == Spec => []ChainIncreases
<1>1. ChainInv => ChainIncreases
  <2> SUFFICES ASSUME ChainInv PROVE ChainIncreases
    OBVIOUS
  <2>1. ASSUME NEW t \in Table, NEW i \in 1..Len(file[t].pages)
        PROVE  file[t].pages[i].id \in {0, i} /\ Points(file[t].pages[i])
    BY PagesElement DEF ChainInv, Chain, PageOK
  <2>2. ASSUME NEW i \in 1..Len(cache) PROVE Points(cache[i])
    BY PagesElement DEF ChainInv, PageOK
  <2> QED BY <2>1, <2>2 DEF ChainIncreases
<1> QED BY <1>1, ChainInvariant, PTL

----------------------------------------------------------------------------
(* The page cache within the store.                                         *)

\* PageCache.Put takes the page of the same number out before it adds one at the front, and
\* evicts the last page of a full cache.
LEMMA CachePutBounded ==
    ASSUME Pages(cache), CacheBounded, NEW pg
    PROVE  /\ Len(CachePut(pg)) <= MaxPages
           /\ \A i, j \in 1..Len(CachePut(pg)) : CachePut(pg)[i].id = CachePut(pg)[j].id => i = j
<1>1. PICK S : cache \in Seq(S)
  BY DEF Pages
<1> DEFINE others == IF InCache(pg.id) THEN RemoveAt(cache, CachedAt(pg.id)) ELSE cache
           kept == IF Len(others) >= MaxPages THEN MaxPages - 1 ELSE Len(others)
<1>2. /\ others \in Seq(S)
      /\ \A i \in 1..Len(others) : others[i].id # pg.id
      /\ \A i, j \in 1..Len(others) : others[i].id = others[j].id => i = j
  <2>1. CASE InCache(pg.id)
    <3> DEFINE k == CachedAt(pg.id)
               n == Len(cache)
               rest == RemoveAt(cache, k)
    <3>1. k \in 1..n /\ cache[k].id = pg.id
      BY <2>1, CachedAtOK
    <3> HIDE DEF k
    <3>2. /\ SubSeq(cache, 1, k - 1) \in Seq(S) /\ Len(SubSeq(cache, 1, k - 1)) = k - 1
          /\ \A i \in 1..(k - 1) : SubSeq(cache, 1, k - 1)[i] = cache[i]
          /\ SubSeq(cache, k + 1, n) \in Seq(S) /\ Len(SubSeq(cache, k + 1, n)) = n - k
          /\ \A i \in 1..(n - k) : SubSeq(cache, k + 1, n)[i] = cache[k + i]
      BY <1>1, <3>1
    <3> DEFINE a == SubSeq(cache, 1, k - 1)
               b == SubSeq(cache, k + 1, n)
    <3>3. rest = a \o b
      BY DEF RemoveAt
    <3> HIDE DEF a, b, rest
    <3>4. /\ a \in Seq(S) /\ Len(a) = k - 1 /\ \A i \in 1..(k - 1) : a[i] = cache[i]
          /\ b \in Seq(S) /\ Len(b) = n - k /\ \A i \in 1..(n - k) : b[i] = cache[k + i]
      BY <3>2 DEF a, b
    <3> DEFINE g(i) == IF i < k THEN i ELSE i + 1
    <3>5. n \in Nat /\ rest \in Seq(S) /\ Len(rest) = n - 1
      <4>1. n \in Nat
        BY <1>1
      <4>2. a \o b \in Seq(S) /\ Len(a \o b) = Len(a) + Len(b)
        BY <3>4
      <4>3. (k - 1) + (n - k) = n - 1
        BY <3>1, <4>1
      <4> QED BY <3>3, <3>4, <4>1, <4>2, <4>3
    <3>6. \A i \in 1..(n - 1) : g(i) \in 1..n /\ g(i) # k /\ rest[i] = cache[g(i)]
      <4> SUFFICES ASSUME NEW i \in 1..(n - 1) PROVE g(i) \in 1..n /\ g(i) # k /\ rest[i] = cache[g(i)]
        OBVIOUS
      <4> HIDE DEF n
      <4>1. CASE i < k
        BY <3>1, <3>3, <3>4, <3>5, <4>1
      <4>2. CASE ~(i < k)
        <5>1. i - Len(a) \in 1..Len(b) /\ k + (i - Len(a)) = i + 1
          BY <3>1, <3>4, <3>5, <4>2
        <5>2. rest[i] = b[i - Len(a)]
          BY <3>1, <3>3, <3>4, <3>5, <4>2
        <5>3. b[i - Len(a)] = cache[i + 1]
          BY <3>4, <5>1
        <5> QED BY <3>1, <3>5, <4>2, <5>2, <5>3
      <4> QED BY <4>1, <4>2
    <3>7. \A i, j \in 1..(n - 1) : g(i) = g(j) => i = j
      BY <3>1, <3>5
    <3>8. \A i, j \in 1..n : cache[i].id = cache[j].id => i = j
      BY DEF CacheBounded
    <3> HIDE DEF g, n
    <3>9. \A i \in 1..(n - 1) : rest[i].id # pg.id
      BY <3>1, <3>6, <3>8
    <3>10. \A i, j \in 1..(n - 1) : rest[i].id = rest[j].id => i = j
      BY <3>6, <3>7, <3>8
    <3>11. others = rest
      BY <2>1 DEF rest, k
    <3> HIDE DEF others
    <3> QED BY <3>5, <3>9, <3>10, <3>11
  <2>2. CASE ~InCache(pg.id)
    BY <1>1, <2>2 DEF InCache, CacheBounded
  <2> QED BY <2>1, <2>2
<1> HIDE DEF others
<1>3. kept \in 0..Len(others) /\ kept + 1 <= MaxPages
  BY <1>2, BoundsAssumption
<1>4. CachePut(pg) = <<pg>> \o SubSeq(others, 1, kept)
  BY DEF CachePut, others
<1> HIDE DEF kept
<1> DEFINE tail == SubSeq(others, 1, kept)
<1>5. tail \in Seq(S) /\ Len(tail) = kept /\ \A i \in 1..kept : tail[i] = others[i]
  BY <1>2, <1>3
<1> HIDE DEF tail
<1>6. /\ Len(<<pg>> \o tail) = kept + 1 /\ (<<pg>> \o tail)[1] = pg
      /\ \A i \in 1..(kept + 1) : i # 1 => i - 1 \in 1..kept /\ (<<pg>> \o tail)[i] = others[i - 1]
  <2> DEFINE T == S \cup {pg}
             one == <<pg>>
  <2> HIDE DEF one, T
  <2>1. one \in Seq(T) /\ Len(one) = 1 /\ one[1] = pg
    BY DEF one, T
  <2>2. tail \in Seq(T) /\ Len(tail) = kept
    BY <1>5 DEF T
  <2>3. /\ one \o tail \in Seq(T) /\ Len(one \o tail) = Len(one) + Len(tail)
        /\ \A i \in 1..(Len(one) + Len(tail)) :
              (one \o tail)[i] = IF i <= Len(one) THEN one[i] ELSE tail[i - Len(one)]
    BY <2>1, <2>2, ConcatProperties
  <2>4. (one \o tail)[1] = pg
    BY <1>3, <2>1, <2>2, <2>3
  <2>5. ASSUME NEW i \in 1..(kept + 1), i # 1
        PROVE  i - 1 \in 1..kept /\ (one \o tail)[i] = others[i - 1]
    <3>1. i - 1 \in 1..kept /\ i > Len(one) /\ i <= Len(one) + Len(tail)
      BY <1>3, <1>5, <2>1, <2>5
    <3>2. (one \o tail)[i] = tail[i - 1]
      BY <1>3, <2>1, <2>2, <2>3, <3>1
    <3> QED BY <1>5, <3>1, <3>2
  <2> QED BY <1>3, <2>1, <2>2, <2>3, <2>4, <2>5 DEF one
<1> DEFINE new == <<pg>> \o tail
<1> HIDE DEF new
<1>7. ASSUME NEW i \in 1..(kept + 1), NEW j \in 1..(kept + 1), new[i].id = new[j].id PROVE i = j
  <2>1. CASE i = 1 /\ j # 1
    BY <1>2, <1>3, <1>6, <1>7, <2>1 DEF new
  <2>2. CASE i # 1 /\ j = 1
    BY <1>2, <1>3, <1>6, <1>7, <2>2 DEF new
  <2>3. CASE i # 1 /\ j # 1
    <3>1. i - 1 \in 1..Len(others) /\ j - 1 \in 1..Len(others) /\ others[i - 1].id = others[j - 1].id
      BY <1>2, <1>3, <1>6, <1>7, <2>3 DEF new
    <3>2. i - 1 = j - 1
      BY <1>2, <3>1
    <3> QED BY <3>2
  <2> QED BY <2>1, <2>2, <2>3
<1> QED BY <1>3, <1>4, <1>6, <1>7 DEF new, tail

\* Every step leaves the cache alone, empties it, puts a page, or changes one in place.
LEMMA CacheSteps ==
    ASSUME [Next]_vars
    PROVE  \/ cache' \in {cache, << >>}
           \/ \E pg : cache' = CachePut(pg)
           \/ \E pg : cache' = CacheInPlace(pg)
<1>1. CASE UNCHANGED vars
  BY <1>1 DEF vars
<1>2. ASSUME NEW t \in Table,
             \/ InsertRow(t) \/ InsertTooLarge(t) \/ GetRows(t) \/ GetTableFile(t)
             \/ TruncateTable(t) \/ CloseTableFile(t) \/ CloseTableFileFails(t)
             \/ FlushTable(t) \/ FlushTableFails(t) \/ TruncateUnopened(t)
      PROVE  cache' = cache
  BY <1>2 DEF InsertRow, InsertTooLarge, GetRows, GetTableFile, TruncateTable, TruncateUnopened,
         FlushTable, FlushTableFails, CloseTableFile, CloseTableFileFails
<1>3. ASSUME NEW t \in Table, NEW k \in Keys,
             \/ UpdateRows(t, k) \/ DeleteRows(t, k)
             \/ UpdateRowsWithCallback(t, k) \/ DeleteRowsWithCallback(t, k)
      PROVE  cache' = cache
  BY <1>3 DEF UpdateRows, DeleteRows, UpdateRowsWithCallback, DeleteRowsWithCallback, Rewrite,
              RewriteWithCallback
<1>4. CASE FindPage \/ AllocatePage \/ WriteRow \/ ScanPage \/ \E ok \in BOOLEAN : LinkPage(ok)
  BY <1>4, Zenon DEF FindPage, AllocatePage, WriteRow, ScanPage, LinkPage
<1>5. CASE WriteRowFails
  BY <1>5, Zenon DEF WriteRowFails
<1>6. CASE \/ FindPageFails \/ AllocateFails \/ ScanPageFails \/ ScanEnds \/ FlushAll \/ Close
           \/ FlushEnds \/ CloseEnds \/ Checkpoint \/ Finish \/ Open \/ Crash \/ ClearTable \/ ClearFails
  BY <1>6 DEF FindPageFails, AllocateFails, ScanPageFails, ScanEnds, FlushAll, Close, StartFlush, FlushEnds,
         CloseEnds, Checkpoint, Finish, Open, Crash, ClearTable, ClearFails
<1> QED BY <1>1, <1>2, <1>3, <1>4, <1>5, <1>6, Zenon DEF Next

\* The cache that all tables share never holds more than MaxPages pages, and each page id
\* once, whatever tables, failed writes and clears take part.
THEOREM CacheWithinLimit == Spec => []CacheBounded
<1>1. Init => CacheBounded
  <2> SUFFICES ASSUME Init PROVE CacheBounded
    OBVIOUS
  <2>1. cache = << >>
    BY DEF Init
  <2>2. Len(cache) = 0
    BY <2>1
  <2> QED BY <2>2, BoundsAssumption DEF CacheBounded
<1>2. ChainInv /\ CacheBounded /\ [Next]_vars => CacheBounded'
  <2> SUFFICES ASSUME ChainInv, CacheBounded, [Next]_vars PROVE CacheBounded'
    OBVIOUS
  <2>0. Pages(cache)
    BY DEF ChainInv
  <2>1. CASE cache' = cache
    BY <2>1 DEF CacheBounded
  <2>2. CASE cache' = << >>
    <3>1. Len(cache') = 0
      BY <2>2
    <3> QED BY <3>1, BoundsAssumption DEF CacheBounded
  <2>3. ASSUME NEW pg, cache' = CachePut(pg) PROVE CacheBounded'
    BY <2>0, <2>3, CachePutBounded DEF CacheBounded
  <2>4. ASSUME NEW pg, cache' = CacheInPlace(pg) PROVE CacheBounded'
    <3>1. Len(cache) \in Nat
      BY <2>0, PagesElement
    <3>2. cache' = [i \in 1..Len(cache) |-> IF cache[i].id = pg.id THEN pg ELSE cache[i]]
      BY <2>4 DEF CacheInPlace
    <3>3. Len(cache') = Len(cache) /\ \A i \in 1..Len(cache) : cache'[i].id = cache[i].id
      BY <3>1, <3>2
    <3> QED BY <3>3 DEF CacheBounded
  <2> QED BY <2>1, <2>2, <2>3, <2>4, CacheSteps
<1> QED BY <1>1, <1>2, ChainInvariant, PTL DEF Spec

----------------------------------------------------------------------------
(* Sequences of rows.                                                       *)

\* Induction over the numbers, for a set of them.
LEMMA NatSetInduction ==
    ASSUME NEW T, 0 \in T, \A n \in Nat : n \in T => n + 1 \in T
    PROVE  \A n \in Nat : n \in T
<1> SUFFICES ASSUME Nat \ T # {} PROVE FALSE
  OBVIOUS
<1> DEFINE R == {ss \in Nat \X Nat : ss[1] < ss[2]}
<1>1. IsWellFoundedOn(R, Nat)
  BY NatLessThanWellFounded, Zenon DEF OpToRel
<1> HIDE DEF R
<1>2. PICK x \in Nat \ T : \A y \in Nat \ T : <<y, x>> \notin R
  BY <1>1, WFMin
<1>3. x # 0 /\ x - 1 \in Nat
  BY <1>2
<1>4. x - 1 \notin T
  BY <1>2, <1>3
<1>5. <<x - 1, x>> \in R
  BY <1>2, <1>3 DEF R
<1> QED BY <1>2, <1>3, <1>4, <1>5

\* The function that Without takes its result from: what is kept of the first i rows.
IsKept(g, n, rows, k) ==
    g = [i \in 0..n |->
            IF i = 0 THEN << >>
            ELSE IF rows[i].key = k THEN g[i - 1] ELSE Append(g[i - 1], rows[i])]

\* There is such a function for every number of rows.
LEMMA KeptExists ==
    ASSUME NEW rows, NEW k
    PROVE  \A n \in Nat : \E g : IsKept(g, n, rows, k)
<1> DEFINE T == {n \in Nat : \E g : IsKept(g, n, rows, k)}
<1>1. 0 \in T
  <2> DEFINE g == [i \in 0..0 |-> << >>]
  <2>1. IsKept(g, 0, rows, k)
    BY DEF IsKept
  <2> QED BY <2>1
<1>2. ASSUME NEW n \in Nat, n \in T PROVE n + 1 \in T
  <2>1. PICK g : IsKept(g, n, rows, k)
    BY <1>2
  <2> DEFINE v == IF rows[n + 1].key = k THEN g[n] ELSE Append(g[n], rows[n + 1])
             h == [i \in 0..(n + 1) |-> IF i = n + 1 THEN v ELSE g[i]]
  <2> HIDE DEF v
  <2>2. /\ \A i \in 0..n : h[i] = g[i]
        /\ h[n + 1] = v
    OBVIOUS
  <2>3. \A i \in 0..n : g[i] = IF i = 0 THEN << >>
                               ELSE IF rows[i].key = k THEN g[i - 1] ELSE Append(g[i - 1], rows[i])
    BY <2>1 DEF IsKept
  <2>4. \A i \in 0..(n + 1) :
            h[i] = IF i = 0 THEN << >>
                   ELSE IF rows[i].key = k THEN h[i - 1] ELSE Append(h[i - 1], rows[i])
    <3> SUFFICES ASSUME NEW i \in 0..(n + 1)
                 PROVE  h[i] = IF i = 0 THEN << >>
                               ELSE IF rows[i].key = k THEN h[i - 1] ELSE Append(h[i - 1], rows[i])
      OBVIOUS
    <3> HIDE DEF h
    <3>1. CASE i = n + 1
      <4>1. i # 0 /\ i - 1 = n /\ h[n] = g[n]
        BY <2>2, <3>1
      <4> QED BY <2>2, <3>1, <4>1 DEF v
    <3>2. CASE i # n + 1 /\ i # 0
      <4>1. i \in 0..n /\ i - 1 \in 0..n
        BY <3>2
      <4> QED BY <2>2, <2>3, <3>2, <4>1
    <3>3. CASE i = 0
      BY <2>2, <2>3, <3>3
    <3> QED BY <3>1, <3>2, <3>3
  <2>5. h = [i \in 0..(n + 1) |->
                IF i = 0 THEN << >>
                ELSE IF rows[i].key = k THEN h[i - 1] ELSE Append(h[i - 1], rows[i])]
    <3> DEFINE w(i) == IF i = 0 THEN << >>
                ELSE IF rows[i].key = k THEN h[i - 1] ELSE Append(h[i - 1], rows[i])
    <3>1. h = [i \in 0..(n + 1) |-> h[i]]
      OBVIOUS
    <3> HIDE DEF h
    <3>2. \A i \in 0..(n + 1) : h[i] = w(i)
      BY <2>4
    <3> HIDE DEF w
    <3>3. h = [i \in 0..(n + 1) |-> w(i)]
      BY <3>1, <3>2
    <3> QED BY <3>3 DEF w
  <2>6. IsKept(h, n + 1, rows, k)
    <3> HIDE DEF h
    <3> QED BY <2>5 DEF IsKept
  <2> QED BY <2>6
<1> HIDE DEF T
<1>3. \A n \in Nat : n \in T
  BY <1>1, <1>2, NatSetInduction
<1> QED BY <1>3 DEF T

\* Without gives a sequence of the rows that do not have the key: all of them, and no other.
LEMMA WithoutRows ==
    ASSUME NEW S, NEW rows \in Seq(S), NEW k
    PROVE  /\ Without(rows, k) \in Seq(S)
           /\ SeqRange(Without(rows, k)) = {r \in SeqRange(rows) : r.key # k}
<1> DEFINE n == Len(rows)
           g == CHOOSE h : IsKept(h, n, rows, k)
           P(i) == /\ g[i] \in Seq(S)
                   /\ \A r : r \in SeqRange(g[i]) <=> r.key # k /\ \E j \in 1..i : r = rows[j]
           T == {i \in Nat : i <= n => P(i)}
<1>1. n \in Nat
  OBVIOUS
<1>2. Without(rows, k) = g[n]
  BY Zenon DEF Without, IsKept
<1>3. IsKept(g, n, rows, k)
  BY <1>1, KeptExists
<1> HIDE DEF g, n
<1>4. \A i \in 0..n : g[i] = IF i = 0 THEN << >>
                             ELSE IF rows[i].key = k THEN g[i - 1] ELSE Append(g[i - 1], rows[i])
  BY <1>3 DEF IsKept
<1>5. 0 \in T
  <2>0. 0 \in 0..n
    BY <1>1
  <2>1. g[0] = << >>
    BY <1>4, <2>0, Zenon
  <2> DEFINE none == << >>
  <2>2. none \in Seq(S) /\ Len(none) = 0
    OBVIOUS
  <2> HIDE DEF none
  <2>3. SeqRange(none) = {}
    BY <2>2 DEF SeqRange
  <2>4. g[0] = none /\ \A r : ~\E j \in 1..0 : r = rows[j]
    BY <2>1 DEF none
  <2> QED BY <2>2, <2>3, <2>4
<1>6. ASSUME NEW i \in Nat, i \in T PROVE i + 1 \in T
  <2> SUFFICES ASSUME i + 1 <= n PROVE P(i + 1)
    <3> HIDE DEF P
    <3> QED OBVIOUS
  <2>1. P(i) /\ i + 1 \in 0..n /\ i + 1 # 0 /\ (i + 1) - 1 = i /\ i + 1 \in 1..n
    BY <1>1, <1>6
  <2>2. g[i + 1] = IF rows[i + 1].key = k THEN g[i] ELSE Append(g[i], rows[i + 1])
    BY <1>4, <2>1
  <2>3. rows[i + 1] \in S
    BY <2>1 DEF n
  <2>4. \A r : (\E j \in 1..(i + 1) : r = rows[j]) <=> r = rows[i + 1] \/ \E j \in 1..i : r = rows[j]
    OBVIOUS
  <2>5. CASE rows[i + 1].key = k
    BY <2>1, <2>2, <2>4, <2>5
  <2>6. CASE rows[i + 1].key # k
    <3> DEFINE s == g[i]
               e == rows[i + 1]
    <3> HIDE DEF s, e
    <3>1. s \in Seq(S) /\ e \in S
      BY <2>1, <2>3 DEF s, e
    <3>2. Append(s, e) \in Seq(S) /\ \A r : r \in SeqRange(Append(s, e)) <=> r \in SeqRange(s) \/ r = e
      BY <3>1 DEF SeqRange
    <3>3. g[i + 1] = Append(s, e)
      BY <2>2, <2>6 DEF s, e
    <3>4. \A r : r \in SeqRange(s) <=> r.key # k /\ \E j \in 1..i : r = rows[j]
      BY <2>1 DEF s
    <3>5. e.key # k /\ \A r : (\E j \in 1..(i + 1) : r = rows[j]) <=> r = e \/ \E j \in 1..i : r = rows[j]
      BY <2>4, <2>6 DEF e
    <3> QED BY <3>2, <3>3, <3>4, <3>5
  <2> QED BY <2>5, <2>6
<1> HIDE DEF T
<1>7. n \in T
  BY <1>1, <1>5, <1>6, NatSetInduction
<1>8. P(n)
  BY <1>1, <1>7 DEF T
<1>9. \A r : r \in SeqRange(rows) <=> \E j \in 1..n : r = rows[j]
  BY DEF SeqRange, n
<1> QED BY <1>2, <1>8, <1>9

----------------------------------------------------------------------------
(* Types.                                                                   *)

Tagged == [id : Nat, key : Nat, val : {0, 1}]
File == [hdr : Header, pages : Seq(Page)]
Counters == [nextID : Nat, seq : [Table -> Nat]]

Kinds == {"insert", "get", "update", "delete", "updateSQL", "deleteSQL", "truncate",
          "flush", "close"}
Steps == {"find", "alloc", "link", "row", "scan", "clear", "flush", "done"}

Operation ==
    [kind : Kinds, t : Table \cup {AllTables}, at : Steps, err : BOOLEAN, todo : Rows,
     seen : Seq(Tagged), page : Nat, id : Nat, target : Page, key : Nat, val : {0, 1},
     left : SUBSET Table]

Inserting == op.at \in {"find", "alloc", "link", "row"}

\* Which operations get where, and on what: only inserts and the rewriting of updates and
\* deletions insert rows, and they have one to insert.
OpTyped ==
    /\ op = Idle \/ op \in Operation
    /\ Inserting => op.t \in Table /\ op.todo # << >> /\ op.kind \in {"insert", "update", "delete"}
    /\ op.at = "scan" => op.t \in Table /\ op.kind \in {"get", "update", "delete"}
    /\ op.at = "clear" => op.t \in Table /\ op.kind \in {"update", "delete", "truncate"}

TypeInv ==
    /\ file \in [Table -> File] /\ hdr \in [Table -> Header] /\ cache \in Seq(Page)
    /\ mem \in Counters /\ meta \in Counters
    /\ acked \in [Table -> Rows] /\ durable \in [Table -> Rows]
    /\ up \in BOOLEAN /\ exact \in [Table -> BOOLEAN]
    /\ stale \in [Table -> {"no", "cleared", "torn"}]
    /\ crashes \in 0..MaxCrashes /\ faults \in 0..MaxFaults
    /\ OpTyped

\* New pages, headers and operations.
LEMMA NewTyped ==
    /\ NewHeader \in Header /\ Closed \in Header /\ BadHeader \in Header
    /\ Hole \in Page /\ \A p \in Nat : NewPage(p) \in Page
<1>1. NewHeader \in Header /\ Closed \in Header /\ BadHeader \in Header
  BY DEF NewHeader, Closed, BadHeader, Header
<1>2. \A p \in Nat : NewPage(p) \in Page
  BY DEF NewPage, Page
<1> QED BY <1>1, <1>2 DEF Hole

\* A new operation is one.
LEMMA NewOpTyped ==
    ASSUME NEW kind \in Kinds, NEW t \in Table \cup {AllTables}, NEW at \in Steps
    PROVE  /\ NewOp(kind, t, at) \in Operation
           /\ NewOp(kind, t, at).kind = kind /\ NewOp(kind, t, at).t = t
           /\ NewOp(kind, t, at).at = at /\ NewOp(kind, t, at).left = {}
<1>1. << >> \in Rows /\ << >> \in Seq(Tagged)
  BY DEF Rows
<1>2. Hole \in Page
  BY NewTyped
<1>3. /\ FALSE \in BOOLEAN /\ 0 \in Nat /\ 0 \in {0, 1} /\ {} \in SUBSET Table
  OBVIOUS
<1> HIDE DEF Kinds
<1> QED BY <1>1, <1>2, <1>3, Zenon DEF NewOp, Operation

\* The fields of an operation that goes on.
LEMMA OpFieldsTyped ==
    ASSUME NEW o \in Operation
    PROVE  /\ DOMAIN o = OpFields
           /\ o.kind \in Kinds /\ o.t \in Table \cup {AllTables} /\ o.at \in Steps
           /\ o.err \in BOOLEAN /\ o.todo \in Rows /\ o.seen \in Seq(Tagged) /\ o.page \in Nat
           /\ o.id \in Nat /\ o.target \in Page /\ o.key \in Nat /\ o.val \in {0, 1}
           /\ o.left \in SUBSET Table
<1>1. DOMAIN o = OpFields
  BY Zenon DEF Operation, OpFields
<1>2. /\ o.kind \in Kinds /\ o.t \in Table \cup {AllTables} /\ o.at \in Steps
      /\ o.err \in BOOLEAN /\ o.todo \in Rows /\ o.seen \in Seq(Tagged) /\ o.page \in Nat
  BY Zenon DEF Operation
<1>3. /\ o.id \in Nat /\ o.target \in Page /\ o.key \in Nat /\ o.val \in {0, 1}
      /\ o.left \in SUBSET Table
  BY Zenon DEF Operation
<1> QED BY <1>1, <1>2, <1>3, Zenon

\* An operation goes on to its next step.
LEMMA OpMoves ==
    ASSUME op \in Operation, NEW at1 \in Steps,
           op' = [op EXCEPT !.at = at1]
    PROVE  /\ op' \in Operation
           /\ op'.kind = op.kind /\ op'.t = op.t /\ op'.at = at1
           /\ op'.err = op.err /\ op'.todo = op.todo /\ op'.seen = op.seen
           /\ op'.page = op.page /\ op'.id = op.id /\ op'.target = op.target
           /\ op'.key = op.key /\ op'.val = op.val /\ op'.left = op.left
<1>1. DOMAIN op = OpFields
  BY OpFieldsTyped
<1>2. /\ op'.kind = op.kind /\ op'.t = op.t /\ op'.at = at1
      /\ op'.err = op.err /\ op'.todo = op.todo /\ op'.seen = op.seen
      /\ op'.page = op.page /\ op'.id = op.id /\ op'.target = op.target
      /\ op'.key = op.key /\ op'.val = op.val /\ op'.left = op.left
  BY <1>1, Zenon DEF OpFields
<1>3. op' \in Operation
  BY Zenon DEF Operation
<1> QED BY <1>2, <1>3, Zenon

\* It takes an id,
LEMMA OpFinds ==
    ASSUME op \in Operation, NEW at1 \in Steps, NEW id1 \in Nat,
           op' = [op EXCEPT !.at = at1, !.id = id1]
    PROVE  /\ op' \in Operation
           /\ op'.kind = op.kind /\ op'.t = op.t /\ op'.at = at1
           /\ op'.err = op.err /\ op'.todo = op.todo /\ op'.seen = op.seen
           /\ op'.page = op.page /\ op'.id = id1 /\ op'.target = op.target
           /\ op'.key = op.key /\ op'.val = op.val /\ op'.left = op.left
<1>1. DOMAIN op = OpFields
  BY OpFieldsTyped
<1>2. /\ op'.kind = op.kind /\ op'.t = op.t /\ op'.at = at1
      /\ op'.err = op.err /\ op'.todo = op.todo /\ op'.seen = op.seen
      /\ op'.page = op.page /\ op'.id = id1 /\ op'.target = op.target
      /\ op'.key = op.key /\ op'.val = op.val /\ op'.left = op.left
  BY <1>1, Zenon DEF OpFields
<1>3. op' \in Operation
  BY Zenon DEF Operation
<1> QED BY <1>2, <1>3, Zenon

\* and finds a page to insert into,
LEMMA OpFindsPage ==
    ASSUME op \in Operation, NEW at1 \in Steps, NEW id1 \in Nat, NEW target1 \in Page,
           op' = [op EXCEPT !.at = at1, !.id = id1, !.target = target1]
    PROVE  /\ op' \in Operation
           /\ op'.kind = op.kind /\ op'.t = op.t /\ op'.at = at1
           /\ op'.err = op.err /\ op'.todo = op.todo /\ op'.seen = op.seen
           /\ op'.page = op.page /\ op'.id = id1 /\ op'.target = target1
           /\ op'.key = op.key /\ op'.val = op.val /\ op'.left = op.left
<1>1. DOMAIN op = OpFields
  BY OpFieldsTyped
<1>2. /\ op'.kind = op.kind /\ op'.t = op.t /\ op'.at = at1
      /\ op'.err = op.err /\ op'.todo = op.todo /\ op'.seen = op.seen
      /\ op'.page = op.page /\ op'.id = id1 /\ op'.target = target1
      /\ op'.key = op.key /\ op'.val = op.val /\ op'.left = op.left
  BY <1>1, Zenon DEF OpFields
<1>3. op' \in Operation
  BY Zenon DEF Operation
<1> QED BY <1>2, <1>3, Zenon

\* or allocates one;
LEMMA OpGetsPage ==
    ASSUME op \in Operation, NEW at1 \in Steps, NEW target1 \in Page,
           op' = [op EXCEPT !.at = at1, !.target = target1]
    PROVE  /\ op' \in Operation
           /\ op'.kind = op.kind /\ op'.t = op.t /\ op'.at = at1
           /\ op'.err = op.err /\ op'.todo = op.todo /\ op'.seen = op.seen
           /\ op'.page = op.page /\ op'.id = op.id /\ op'.target = target1
           /\ op'.key = op.key /\ op'.val = op.val /\ op'.left = op.left
<1>1. DOMAIN op = OpFields
  BY OpFieldsTyped
<1>2. /\ op'.kind = op.kind /\ op'.t = op.t /\ op'.at = at1
      /\ op'.err = op.err /\ op'.todo = op.todo /\ op'.seen = op.seen
      /\ op'.page = op.page /\ op'.id = op.id /\ op'.target = target1
      /\ op'.key = op.key /\ op'.val = op.val /\ op'.left = op.left
  BY <1>1, Zenon DEF OpFields
<1>3. op' \in Operation
  BY Zenon DEF Operation
<1> QED BY <1>2, <1>3, Zenon

\* its rows to insert change;
LEMMA OpGetsTodo ==
    ASSUME op \in Operation, NEW at1 \in Steps, NEW todo1 \in Rows,
           op' = [op EXCEPT !.at = at1, !.todo = todo1]
    PROVE  /\ op' \in Operation
           /\ op'.kind = op.kind /\ op'.t = op.t /\ op'.at = at1
           /\ op'.err = op.err /\ op'.todo = todo1 /\ op'.seen = op.seen
           /\ op'.page = op.page /\ op'.id = op.id /\ op'.target = op.target
           /\ op'.key = op.key /\ op'.val = op.val /\ op'.left = op.left
<1>1. DOMAIN op = OpFields
  BY OpFieldsTyped
<1>2. /\ op'.kind = op.kind /\ op'.t = op.t /\ op'.at = at1
      /\ op'.err = op.err /\ op'.todo = todo1 /\ op'.seen = op.seen
      /\ op'.page = op.page /\ op'.id = op.id /\ op'.target = op.target
      /\ op'.key = op.key /\ op'.val = op.val /\ op'.left = op.left
  BY <1>1, Zenon DEF OpFields
<1>3. op' \in Operation
  BY Zenon DEF Operation
<1> QED BY <1>2, <1>3, Zenon

\* it reads rows and goes to the next page;
LEMMA OpReads ==
    ASSUME op \in Operation, NEW seen1 \in Seq(Tagged), NEW page1 \in Nat,
           op' = [op EXCEPT !.seen = seen1, !.page = page1]
    PROVE  /\ op' \in Operation
           /\ op'.kind = op.kind /\ op'.t = op.t /\ op'.at = op.at
           /\ op'.err = op.err /\ op'.todo = op.todo /\ op'.seen = seen1
           /\ op'.page = page1 /\ op'.id = op.id /\ op'.target = op.target
           /\ op'.key = op.key /\ op'.val = op.val /\ op'.left = op.left
<1>1. DOMAIN op = OpFields
  BY OpFieldsTyped
<1>2. /\ op'.kind = op.kind /\ op'.t = op.t /\ op'.at = op.at
      /\ op'.err = op.err /\ op'.todo = op.todo /\ op'.seen = seen1
      /\ op'.page = page1 /\ op'.id = op.id /\ op'.target = op.target
      /\ op'.key = op.key /\ op'.val = op.val /\ op'.left = op.left
  BY <1>1, Zenon DEF OpFields
<1>3. op' \in Operation
  BY Zenon DEF Operation
<1> QED BY <1>2, <1>3, Zenon

\* it is done with a table.
LEMMA OpVisits ==
    ASSUME op \in Operation, NEW left1 \in SUBSET Table,
           op' = [op EXCEPT !.left = left1]
    PROVE  /\ op' \in Operation
           /\ op'.kind = op.kind /\ op'.t = op.t /\ op'.at = op.at
           /\ op'.err = op.err /\ op'.todo = op.todo /\ op'.seen = op.seen
           /\ op'.page = op.page /\ op'.id = op.id /\ op'.target = op.target
           /\ op'.key = op.key /\ op'.val = op.val /\ op'.left = left1
<1>1. DOMAIN op = OpFields
  BY OpFieldsTyped
<1>2. /\ op'.kind = op.kind /\ op'.t = op.t /\ op'.at = op.at
      /\ op'.err = op.err /\ op'.todo = op.todo /\ op'.seen = op.seen
      /\ op'.page = op.page /\ op'.id = op.id /\ op'.target = op.target
      /\ op'.key = op.key /\ op'.val = op.val /\ op'.left = left1
  BY <1>1, Zenon DEF OpFields
<1>3. op' \in Operation
  BY Zenon DEF Operation
<1> QED BY <1>2, <1>3, Zenon

\* An operation begins:
LEMMA OpBegins ==
    ASSUME NEW kind1 \in Kinds, NEW t1 \in Table \cup {AllTables}, NEW at1 \in Steps,
           op' = NewOp(kind1, t1, at1)
    PROVE  /\ op' \in Operation
           /\ op'.kind = kind1 /\ op'.t = t1 /\ op'.at = at1
           /\ op'.err = FALSE /\ op'.todo = << >> /\ op'.seen = << >>
           /\ op'.page = 0 /\ op'.id = 0 /\ op'.target = Hole
           /\ op'.key = 0 /\ op'.val = 0 /\ op'.left = {}
<1>1. NewOp(kind1, t1, at1) \in Operation
  BY NewOpTyped
<1>2. /\ op'.kind = kind1 /\ op'.t = t1 /\ op'.at = at1
      /\ op'.err = FALSE /\ op'.todo = << >> /\ op'.seen = << >>
      /\ op'.page = 0 /\ op'.id = 0 /\ op'.target = Hole
      /\ op'.key = 0 /\ op'.val = 0 /\ op'.left = {}
  BY Zenon DEF NewOp
<1>3. op' \in Operation
  BY <1>1, Zenon DEF Operation
<1> QED BY <1>2, <1>3, Zenon

\* an insert, with its row;
LEMMA OpInserts ==
    ASSUME NEW kind1 \in Kinds, NEW t1 \in Table \cup {AllTables}, NEW at1 \in Steps,
           NEW todo1 \in Rows, NEW key1 \in Nat,
           op' = [NewOp(kind1, t1, at1) EXCEPT !.todo = todo1, !.key = key1]
    PROVE  /\ op' \in Operation
           /\ op'.kind = kind1 /\ op'.t = t1 /\ op'.at = at1
           /\ op'.err = FALSE /\ op'.todo = todo1 /\ op'.seen = << >>
           /\ op'.page = 0 /\ op'.id = 0 /\ op'.target = Hole
           /\ op'.key = key1 /\ op'.val = 0 /\ op'.left = {}
<1>1. NewOp(kind1, t1, at1) \in Operation
  BY NewOpTyped
<1>2. /\ op'.kind = kind1 /\ op'.t = t1 /\ op'.at = at1
      /\ op'.err = FALSE /\ op'.todo = todo1 /\ op'.seen = << >>
      /\ op'.page = 0 /\ op'.id = 0 /\ op'.target = Hole
      /\ op'.key = key1 /\ op'.val = 0 /\ op'.left = {}
  BY Zenon DEF NewOp
<1>3. op' \in Operation
  BY <1>1, Zenon DEF Operation
<1> QED BY <1>2, <1>3, Zenon

\* a read, with its first page;
LEMMA OpScans ==
    ASSUME NEW kind1 \in Kinds, NEW t1 \in Table \cup {AllTables}, NEW at1 \in Steps,
           NEW page1 \in Nat,
           op' = [NewOp(kind1, t1, at1) EXCEPT !.page = page1]
    PROVE  /\ op' \in Operation
           /\ op'.kind = kind1 /\ op'.t = t1 /\ op'.at = at1
           /\ op'.err = FALSE /\ op'.todo = << >> /\ op'.seen = << >>
           /\ op'.page = page1 /\ op'.id = 0 /\ op'.target = Hole
           /\ op'.key = 0 /\ op'.val = 0 /\ op'.left = {}
<1>1. NewOp(kind1, t1, at1) \in Operation
  BY NewOpTyped
<1>2. /\ op'.kind = kind1 /\ op'.t = t1 /\ op'.at = at1
      /\ op'.err = FALSE /\ op'.todo = << >> /\ op'.seen = << >>
      /\ op'.page = page1 /\ op'.id = 0 /\ op'.target = Hole
      /\ op'.key = 0 /\ op'.val = 0 /\ op'.left = {}
  BY Zenon DEF NewOp
<1>3. op' \in Operation
  BY <1>1, Zenon DEF Operation
<1> QED BY <1>2, <1>3, Zenon

\* an update or deletion that finds nothing to do;
LEMMA OpSkips ==
    ASSUME NEW kind1 \in Kinds, NEW t1 \in Table \cup {AllTables}, NEW at1 \in Steps,
           NEW key1 \in Nat, NEW val1 \in {0, 1},
           op' = [NewOp(kind1, t1, at1) EXCEPT !.key = key1, !.val = val1]
    PROVE  /\ op' \in Operation
           /\ op'.kind = kind1 /\ op'.t = t1 /\ op'.at = at1
           /\ op'.err = FALSE /\ op'.todo = << >> /\ op'.seen = << >>
           /\ op'.page = 0 /\ op'.id = 0 /\ op'.target = Hole
           /\ op'.key = key1 /\ op'.val = val1 /\ op'.left = {}
<1>1. NewOp(kind1, t1, at1) \in Operation
  BY NewOpTyped
<1>2. /\ op'.kind = kind1 /\ op'.t = t1 /\ op'.at = at1
      /\ op'.err = FALSE /\ op'.todo = << >> /\ op'.seen = << >>
      /\ op'.page = 0 /\ op'.id = 0 /\ op'.target = Hole
      /\ op'.key = key1 /\ op'.val = val1 /\ op'.left = {}
  BY Zenon DEF NewOp
<1>3. op' \in Operation
  BY <1>1, Zenon DEF Operation
<1> QED BY <1>2, <1>3, Zenon

\* a flush, with the tables to visit.
LEMMA OpFlushes ==
    ASSUME NEW kind1 \in Kinds, NEW t1 \in Table \cup {AllTables}, NEW at1 \in Steps,
           NEW left1 \in SUBSET Table,
           op' = [NewOp(kind1, t1, at1) EXCEPT !.left = left1]
    PROVE  /\ op' \in Operation
           /\ op'.kind = kind1 /\ op'.t = t1 /\ op'.at = at1
           /\ op'.err = FALSE /\ op'.todo = << >> /\ op'.seen = << >>
           /\ op'.page = 0 /\ op'.id = 0 /\ op'.target = Hole
           /\ op'.key = 0 /\ op'.val = 0 /\ op'.left = left1
<1>1. NewOp(kind1, t1, at1) \in Operation
  BY NewOpTyped
<1>2. /\ op'.kind = kind1 /\ op'.t = t1 /\ op'.at = at1
      /\ op'.err = FALSE /\ op'.todo = << >> /\ op'.seen = << >>
      /\ op'.page = 0 /\ op'.id = 0 /\ op'.target = Hole
      /\ op'.key = 0 /\ op'.val = 0 /\ op'.left = left1
  BY Zenon DEF NewOp
<1>3. op' \in Operation
  BY <1>1, Zenon DEF Operation
<1> QED BY <1>2, <1>3, Zenon

\* An operation that returns is done, and has the rows it read if that is what it is for.
LEMMA ReturnTyped ==
    ASSUME op \in Operation, NEW e \in BOOLEAN, Return(e)
    PROVE  /\ op' \in Operation /\ op'.at = "done" /\ op'.kind = op.kind /\ op'.t = op.t
           /\ op'.err = e /\ op'.seen = IF op.kind = "get" THEN op.seen ELSE << >>
<1> DEFINE s == IF op.kind = "get" THEN op.seen ELSE << >>
<1>1. /\ op.kind \in Kinds /\ op.t \in Table \cup {AllTables} /\ op.key \in Nat /\ op.val \in {0, 1}
      /\ op.seen \in Seq(Tagged)
  BY OpFieldsTyped
<1>2. s \in Seq(Tagged)
  <2>1. << >> \in Seq(Tagged)
    OBVIOUS
  <2> QED BY <1>1, <2>1, Zenon
<1>3. op' = [NewOp(op.kind, op.t, "done") EXCEPT !.err = e, !.key = op.key, !.val = op.val, !.seen = s]
  BY Zenon DEF Return
<1> HIDE DEF s
<1>4. "done" \in Steps
  BY DEF Steps
<1>5. NewOp(op.kind, op.t, "done") \in Operation
  BY <1>1, <1>4, NewOpTyped
<1>6. op'.at = "done" /\ op'.kind = op.kind /\ op'.t = op.t /\ op'.err = e /\ op'.seen = s
  BY <1>3, Zenon DEF NewOp
<1>7. op' \in Operation
  BY <1>1, <1>2, <1>3, <1>5, Zenon DEF Operation
<1> QED BY <1>6, <1>7, Zenon DEF s

\* A page that is written.
LEMMA WriteAtTyped ==
    ASSUME NEW f \in File, NEW pg \in Page
    PROVE  /\ WriteAt(f, pg) \in File
           /\ pg.id = 0 => WriteAt(f, pg).pages = f.pages /\ WriteAt(f, pg).hdr = BadHeader
           /\ pg.id # 0 => /\ WriteAt(f, pg).hdr = f.hdr
                           /\ Len(WriteAt(f, pg).pages) = IF pg.id > Len(f.pages) THEN pg.id ELSE Len(f.pages)
                           /\ \A i \in 1..Len(WriteAt(f, pg).pages) : WriteAt(f, pg).pages[i] =
                                 IF i = pg.id THEN pg ELSE IF i <= Len(f.pages) THEN f.pages[i] ELSE Hole
<1>1. f.hdr \in Header /\ f.pages \in Seq(Page) /\ DOMAIN f = {"hdr", "pages"} /\ Len(f.pages) \in Nat
  BY DEF File
<1>2. pg.id \in Nat /\ Hole \in Page /\ BadHeader \in Header
  BY NewTyped DEF Page
<1>3. CASE pg.id = 0
  <2>1. WriteAt(f, pg) = [f EXCEPT !.hdr = BadHeader]
    BY <1>3 DEF WriteAt
  <2>2. WriteAt(f, pg).pages = f.pages /\ WriteAt(f, pg).hdr = BadHeader
    BY <1>1, <2>1, Zenon
  <2>3. WriteAt(f, pg) \in File
    BY <1>2, <2>1, Zenon DEF File
  <2> QED BY <1>3, <2>2, <2>3
<1>4. CASE pg.id # 0
  <2> DEFINE n == IF pg.id > Len(f.pages) THEN pg.id ELSE Len(f.pages)
             p == [i \in 1..n |->
                     IF i = pg.id THEN pg ELSE IF i <= Len(f.pages) THEN f.pages[i] ELSE Hole]
  <2>1. WriteAt(f, pg) = [f EXCEPT !.pages = p]
    BY <1>4 DEF WriteAt
  <2>2. n \in Nat
    BY <1>1, <1>2
  <2> HIDE DEF n
  <2>3. \A i \in 1..n : p[i] \in Page
    BY <1>1, <1>2, <2>2
  <2>4. p \in Seq(Page) /\ Len(p) = n
    BY <2>2, <2>3
  <2>5. \A i \in 1..n : p[i] = IF i = pg.id THEN pg ELSE IF i <= Len(f.pages) THEN f.pages[i] ELSE Hole
    OBVIOUS
  <2> HIDE DEF p
  <2>6. WriteAt(f, pg).pages = p /\ WriteAt(f, pg).hdr = f.hdr
    BY <1>1, <2>1, Zenon
  <2>7. WriteAt(f, pg) \in File
    BY <2>1, <2>4, Zenon DEF File
  <2> QED BY <1>4, <2>4, <2>5, <2>6, <2>7 DEF n
<1> QED BY <1>3, <1>4

\* Pages of a kind stay in the cache, and the page that was put is the first.
LEMMA CachePutSeq ==
    ASSUME NEW S, cache \in Seq(S), NEW pg \in S
    PROVE  CachePut(pg) \in Seq(S) /\ Len(CachePut(pg)) > 0 /\ CachePut(pg)[1] = pg
<1> DEFINE others == IF InCache(pg.id) THEN RemoveAt(cache, CachedAt(pg.id)) ELSE cache
           kept == IF Len(others) >= MaxPages THEN MaxPages - 1 ELSE Len(others)
<1>2. others \in Seq(S)
  <2>1. CASE InCache(pg.id)
    <3>1. CachedAt(pg.id) \in 1..Len(cache)
      BY <2>1, CachedAtOK
    <3> DEFINE i == CachedAt(pg.id)
    <3> HIDE DEF i
    <3>2. SubSeq(cache, 1, i - 1) \in Seq(S) /\ SubSeq(cache, i + 1, Len(cache)) \in Seq(S)
      BY <3>1 DEF i
    <3>3. RemoveAt(cache, i) \in Seq(S)
      BY <3>2 DEF RemoveAt
    <3> QED BY <2>1, <3>3 DEF i
  <2> QED BY <2>1
<1> HIDE DEF others
<1>3. kept \in 0..Len(others)
  BY <1>2, BoundsAssumption
<1>4. CachePut(pg) = <<pg>> \o SubSeq(others, 1, kept)
  BY DEF CachePut, others
<1> HIDE DEF kept
<1> DEFINE tail == SubSeq(others, 1, kept)
<1>5. tail \in Seq(S)
  BY <1>2, <1>3
<1> HIDE DEF tail
<1>6. <<pg>> \o tail \in Seq(S) /\ Len(<<pg>> \o tail) > 0 /\ (<<pg>> \o tail)[1] = pg
  BY <1>5
<1> QED BY <1>4, <1>6 DEF tail

\* The cache with one more page holds pages.
LEMMA CachePutTyped ==
    ASSUME cache \in Seq(Page), NEW pg \in Page
    PROVE  CachePut(pg) \in Seq(Page)
  BY CachePutSeq

\* What a read gives is a page.
LEMMA ReadPageTyped ==
    ASSUME TypeInv, NEW t \in Table, NEW p, CanRead(t, p)
    PROVE  ReadPage(t, p) \in Page
<1>1. file[t].pages \in Seq(Page) /\ cache \in Seq(Page)
  BY DEF TypeInv, File
<1>2. CASE InCache(p)
  BY <1>1, <1>2, CachedAtOK DEF ReadPage
<1>3. CASE ~InCache(p)
  BY <1>1, <1>3 DEF ReadPage, CanRead
<1> QED BY <1>2, <1>3

\* The rows of a page, without their ids.
LEMMA UntaggedTyped ==
    ASSUME NEW rows \in Seq(Tagged)
    PROVE  /\ Untagged(rows) \in Rows /\ Len(Untagged(rows)) = Len(rows)
           /\ \A i \in 1..Len(rows) : Untagged(rows)[i] = [key |-> rows[i].key, val |-> rows[i].val]
<1>1. \A r \in Tagged : [key |-> r.key, val |-> r.val] \in [key : Nat, val : {0, 1}]
  BY DEF Tagged
<1> HIDE DEF Tagged
<1>2. Len(rows) \in Nat /\ \A i \in 1..Len(rows) : rows[i] \in Tagged
  OBVIOUS
<1>3. \A i \in 1..Len(rows) : [key |-> rows[i].key, val |-> rows[i].val] \in [key : Nat, val : {0, 1}]
  BY <1>1, <1>2
<1> QED BY <1>2, <1>3 DEF Untagged, Rows

\* What an insert, an update and a deletion make of rows.
LEMMA OutcomeCases ==
    ASSUME NEW rows
    PROVE  /\ op.kind = "insert" => Outcome(rows) = Append(rows, [key |-> op.key, val |-> op.val])
           /\ op.kind = "update" => Outcome(rows) =
                 [i \in 1..Len(rows) |-> IF rows[i].key = op.key THEN [rows[i] EXCEPT !.val = op.val]
                                         ELSE rows[i]]
           /\ op.kind = "delete" => Outcome(rows) = Without(rows, op.key)
<1> DEFINE A == Append(rows, [key |-> op.key, val |-> op.val])
           B == [i \in 1..Len(rows) |-> IF rows[i].key = op.key THEN [rows[i] EXCEPT !.val = op.val]
                                         ELSE rows[i]]
           C == Without(rows, op.key)
<1>1. Outcome(rows) = CASE op.kind = "insert" -> A [] op.kind = "update" -> B [] op.kind = "delete" -> C
  BY DEF Outcome
<1> HIDE DEF A, B, C
<1>2. /\ op.kind = "insert" => Outcome(rows) = A
      /\ op.kind = "update" => Outcome(rows) = B
      /\ op.kind = "delete" => Outcome(rows) = C
  BY <1>1
<1> QED BY <1>2 DEF A, B, C

\* What an operation makes of rows are rows.
LEMMA OutcomeTyped ==
    ASSUME op \in Operation, op.kind \in {"insert", "update", "delete"}, NEW rows \in Rows
    PROVE  Outcome(rows) \in Rows
<1>1. op.key \in Nat /\ op.val \in {0, 1}
  BY OpFieldsTyped
<1> DEFINE R == [key : Nat, val : {0, 1}]
           row == [key |-> op.key, val |-> op.val]
<1>2. rows \in Seq(R) /\ row \in R
  BY <1>1 DEF Rows
<1>3. CASE op.kind = "insert"
  <2>1. Outcome(rows) = Append(rows, row)
    BY <1>3, OutcomeCases
  <2> HIDE DEF R, row
  <2>2. Append(rows, row) \in Seq(R)
    BY <1>2
  <2> QED BY <2>1, <2>2 DEF Rows, R
<1>4. CASE op.kind = "update"
  <2> DEFINE up1 == [i \in 1..Len(rows) |-> IF rows[i].key = op.key THEN [rows[i] EXCEPT !.val = op.val]
                                            ELSE rows[i]]
  <2>1. Outcome(rows) = up1
    BY <1>4, OutcomeCases
  <2>2. \A r \in R : [r EXCEPT !.val = op.val] \in R
    BY <1>1
  <2> HIDE DEF R
  <2>3. Len(rows) \in Nat /\ \A i \in 1..Len(rows) : rows[i] \in R
    BY <1>2
  <2>4. \A i \in 1..Len(rows) : up1[i] \in R
    BY <2>2, <2>3
  <2>5. up1 \in Seq(R)
    BY <2>3, <2>4
  <2> QED BY <2>1, <2>5 DEF Rows, R
<1>5. CASE op.kind = "delete"
  <2>1. Outcome(rows) = Without(rows, op.key)
    BY <1>5, OutcomeCases
  <2> QED BY <1>2, <2>1, WithoutRows DEF Rows
<1> QED BY <1>3, <1>4, <1>5

\* A row becomes the same whatever other rows are there: more rows have more outcomes.
LEMMA OutcomeMonotone ==
    ASSUME op \in Operation, op.kind \in {"insert", "update", "delete"},
           NEW a \in Rows, NEW b \in Rows, SeqRange(a) \subseteq SeqRange(b)
    PROVE  SeqRange(Outcome(a)) \subseteq SeqRange(Outcome(b))
<1> DEFINE R == [key : Nat, val : {0, 1}]
           row == [key |-> op.key, val |-> op.val]
<1>1. a \in Seq(R) /\ b \in Seq(R) /\ row \in R
  BY OpFieldsTyped DEF Rows
<1> HIDE DEF R
<1>2. CASE op.kind = "insert"
  <2>1. Outcome(a) = Append(a, row) /\ Outcome(b) = Append(b, row)
    BY <1>2, OutcomeCases
  <2> HIDE DEF row
  <2>2. /\ SeqRange(Append(a, row)) = SeqRange(a) \cup {row}
        /\ SeqRange(Append(b, row)) = SeqRange(b) \cup {row}
    BY <1>1 DEF SeqRange
  <2> QED BY <2>1, <2>2
<1>3. CASE op.kind = "update"
  <2> DEFINE w(r) == IF r.key = op.key THEN [r EXCEPT !.val = op.val] ELSE r
             ua == [i \in 1..Len(a) |-> w(a[i])]
             ub == [i \in 1..Len(b) |-> w(b[i])]
  <2>1. Outcome(a) = ua /\ Outcome(b) = ub
    BY <1>3, OutcomeCases
  <2> HIDE DEF w
  <2>2. Len(a) \in Nat /\ Len(b) \in Nat
    BY <1>1
  <2>3. Len(ua) = Len(a) /\ Len(ub) = Len(b)
    BY <2>2
  <2>4. SeqRange(ua) = {w(r) : r \in SeqRange(a)} /\ SeqRange(ub) = {w(r) : r \in SeqRange(b)}
    BY <2>2, <2>3 DEF SeqRange
  <2> QED BY <2>1, <2>4
<1>4. CASE op.kind = "delete"
  <2>1. Outcome(a) = Without(a, op.key) /\ Outcome(b) = Without(b, op.key)
    BY <1>4, OutcomeCases
  <2>2. /\ SeqRange(Without(a, op.key)) = {r \in SeqRange(a) : r.key # op.key}
        /\ SeqRange(Without(b, op.key)) = {r \in SeqRange(b) : r.key # op.key}
    BY <1>1, WithoutRows
  <2> QED BY <2>1, <2>2
<1> QED BY <1>2, <1>3, <1>4

\* Opening a handle.
LEMMA OpenedTyped ==
    ASSUME TypeInv, NEW t \in Table
    PROVE  Opened(t) \in [Table -> Header] /\ Opened(t)[t] = (IF IsOpen(t) THEN hdr[t] ELSE file[t].hdr)
<1>1. file[t].hdr \in Header /\ hdr \in [Table -> Header]
  BY DEF TypeInv, File
<1> QED BY <1>1 DEF Opened

\* The counters go up.
LEMMA CountersTyped ==
    ASSUME NEW c \in Counters
    PROVE  /\ c.nextID \in Nat /\ c.seq \in [Table -> Nat]
           /\ \A n \in Nat : [c EXCEPT !.nextID = n] \in Counters
           /\ \A t \in Table, n \in Nat : [c EXCEPT !.seq[t] = n] \in Counters
           /\ \A t \in Table, n \in Nat : [nextID |-> n, seq |-> [c.seq EXCEPT ![t] = @ + 1]] \in Counters
  BY DEF Counters

----------------------------------------------------------------------------
(* What each step does to the operation in progress, and that it keeps the types. *)

\* An operation that is in progress.
LEMMA OpInProgress ==
    ASSUME TypeInv, op.at # "start"
    PROVE  /\ op \in Operation
           /\ op.kind \in Kinds /\ op.t \in Table \cup {AllTables} /\ op.at \in Steps
           /\ op.err \in BOOLEAN /\ op.todo \in Rows /\ op.seen \in Seq(Tagged) /\ op.page \in Nat
           /\ op.id \in Nat /\ op.target \in Page /\ op.key \in Nat /\ op.val \in {0, 1}
           /\ op.left \in SUBSET Table
<1>1. op \in Operation
  BY DEF TypeInv, OpTyped, Idle
<1> QED BY <1>1, OpFieldsTyped, Zenon

\* Storage.InsertRow takes a key and an id and has one row to insert.
LEMMA InsertRowStep ==
    ASSUME TypeInv, NEW t \in Table, InsertRow(t)
    PROVE  /\ op.at = "start" /\ op'.at = "find" /\ op'.kind = "insert" /\ op'.t = t
           /\ op'.todo = <<[key |-> op'.key, val |-> op'.val]>>
           /\ hdr' = Opened(t) /\ mem'.nextID = mem.nextID + 1
           /\ UNCHANGED <<file, meta, up, cache, acked, exact, durable, stale, crashes, faults>>
           /\ TypeInv'
<1> DEFINE k == mem.seq[t] + 1
           one == <<[key |-> k, val |-> 0]>>
<1>1. /\ op.at = "start" /\ hdr' = Opened(t)
      /\ mem' = [nextID |-> mem.nextID + 1, seq |-> [mem.seq EXCEPT ![t] = @ + 1]]
      /\ op' = [NewOp("insert", t, "find") EXCEPT !.todo = one, !.key = k]
      /\ UNCHANGED <<file, meta, up, cache, acked, exact, durable, stale, crashes, faults>>
  BY DEF InsertRow, Running, disk, history
<1>2. mem.nextID \in Nat /\ mem.seq \in [Table -> Nat] /\ k \in Nat /\ mem \in Counters
  BY CountersTyped DEF TypeInv
<1>3. mem' \in Counters /\ mem'.nextID = mem.nextID + 1
  BY <1>1, <1>2, CountersTyped
<1> HIDE DEF k
<1>4. one \in Rows /\ one # << >>
  BY <1>2 DEF Rows
<1>5. "insert" \in Kinds /\ "find" \in Steps /\ t \in Table \cup {AllTables}
  BY DEF Kinds, Steps
<1>6. op' \in Operation /\ op'.kind = "insert" /\ op'.t = t /\ op'.at = "find" /\ op'.todo = one /\ op'.key = k /\ op'.val = 0
  <2> HIDE DEF one
  <2> QED BY <1>1, <1>2, <1>4, <1>5, OpInserts
<1>7. hdr' \in [Table -> Header]
  BY <1>1, OpenedTyped
<1>8. OpTyped'
  <2> HIDE DEF one
  <2> QED BY <1>4, <1>6 DEF OpTyped, Inserting
<1>9. TypeInv'
  BY <1>1, <1>3, <1>7, <1>8 DEF TypeInv
<1> QED BY <1>1, <1>3, <1>6, <1>9

\* A row that is too large costs ids and a key, and nothing else.
LEMMA InsertTooLargeStep ==
    ASSUME TypeInv, NEW t \in Table, InsertTooLarge(t)
    PROVE  /\ op.at = "start" /\ hdr' = Opened(t) /\ mem'.nextID = mem.nextID + 2
           /\ UNCHANGED <<file, meta, up, cache, op, acked, exact, durable, stale, crashes, faults>>
           /\ TypeInv'
<1>1. /\ op.at = "start" /\ hdr' = Opened(t)
      /\ mem' = [nextID |-> mem.nextID + 2, seq |-> [mem.seq EXCEPT ![t] = @ + 1]]
      /\ UNCHANGED <<file, meta, up, cache, op, acked, exact, durable, stale, crashes, faults>>
  BY DEF InsertTooLarge, Running, disk, history
<1>2. mem.nextID + 2 \in Nat /\ mem \in Counters
  BY CountersTyped DEF TypeInv
<1>3. mem' \in Counters /\ mem'.nextID = mem.nextID + 2
  BY <1>1, <1>2, CountersTyped
<1>4. hdr' \in [Table -> Header]
  BY <1>1, OpenedTyped
<1>5. OpTyped'
  BY <1>1 DEF TypeInv, OpTyped, Inserting
<1>6. TypeInv'
  BY <1>1, <1>3, <1>4, <1>5 DEF TypeInv
<1> QED BY <1>1, <1>3, <1>6

\* TableFile.InsertRow goes on with the last page or with a new one.
LEMMA FindPageStep ==
    ASSUME TypeInv, FindPage
    PROVE  /\ op.at = "find" /\ op.t \in Table /\ op'.at \in {"alloc", "row"} /\ op'.id = mem.nextID
           /\ mem'.nextID = mem.nextID + 1
           /\ op'.kind = op.kind /\ op'.t = op.t /\ op'.todo = op.todo
           /\ op'.key = op.key /\ op'.val = op.val
           /\ \/ hdr[op.t].last = 0 /\ op'.at = "alloc" /\ cache' = cache
              \/ /\ hdr[op.t].last # 0 /\ CanRead(op.t, hdr[op.t].last)
                 /\ cache' = CachePut(ReadPage(op.t, hdr[op.t].last))
                 /\ op'.target = ReadPage(op.t, hdr[op.t].last)
                 /\ op'.at = "row" => Fits(ReadPage(op.t, hdr[op.t].last))
           /\ UNCHANGED <<file, meta, up, hdr, acked, exact, durable, stale, crashes, faults>>
           /\ TypeInv'
<1> DEFINE t == op.t
           last == hdr[t].last
           pg == ReadPage(t, last)
<1>1. /\ op.at = "find" /\ mem' = [mem EXCEPT !.nextID = mem.nextID + 1]
      /\ UNCHANGED <<file, meta, up, hdr, acked, exact, durable, stale, crashes, faults>>
  BY DEF FindPage, Running, disk, history
<1>2. /\ op \in Operation /\ t \in Table /\ op.todo # << >> /\ op.kind \in {"insert", "update", "delete"}
  BY <1>1, OpInProgress DEF TypeInv, OpTyped, Inserting
<1>3. mem.nextID \in Nat /\ mem.nextID + 1 \in Nat /\ mem \in Counters /\ DOMAIN mem = {"nextID", "seq"}
  BY CountersTyped DEF TypeInv, Counters
<1>4. mem' \in Counters /\ mem'.nextID = mem.nextID + 1
  <2>1. mem' \in Counters
    BY <1>1, <1>3, CountersTyped
  <2>2. mem'.nextID = mem.nextID + 1
    BY <1>1, <1>3, Zenon
  <2> QED BY <2>1, <2>2
<1>5. \/ /\ last = 0 /\ cache' = cache
         /\ op' = [op EXCEPT !.at = "alloc", !.id = mem.nextID]
      \/ /\ last # 0 /\ CanRead(t, last) /\ cache' = CachePut(pg)
         /\ op' = [op EXCEPT !.at = IF Fits(pg) THEN "row" ELSE "alloc", !.id = mem.nextID, !.target = pg]
  BY Zenon DEF FindPage
<1>6. CASE last = 0 /\ cache' = cache /\ op' = [op EXCEPT !.at = "alloc", !.id = mem.nextID]
  <2>1. "alloc" \in Steps
    BY DEF Steps
  <2>2. /\ op' \in Operation /\ op'.at = "alloc" /\ op'.id = mem.nextID /\ op'.kind = op.kind
        /\ op'.t = op.t /\ op'.todo = op.todo /\ op'.key = op.key /\ op'.val = op.val
    BY <1>2, <1>3, <1>6, <2>1, OpFinds
  <2>3. OpTyped'
    BY <1>2, <2>2 DEF OpTyped, Inserting
  <2>4. TypeInv'
    BY <1>1, <1>4, <1>6, <2>3 DEF TypeInv
  <2> QED BY <1>1, <1>2, <1>4, <1>6, <2>2, <2>4
<1>7. CASE /\ last # 0 /\ CanRead(t, last) /\ cache' = CachePut(pg)
           /\ op' = [op EXCEPT !.at = IF Fits(pg) THEN "row" ELSE "alloc", !.id = mem.nextID, !.target = pg]
  <2>1. pg \in Page
    BY <1>2, <1>7, ReadPageTyped
  <2>2. cache' \in Seq(Page)
    BY <1>7, <2>1, CachePutTyped DEF TypeInv
  <2> DEFINE a == IF Fits(pg) THEN "row" ELSE "alloc"
  <2>3. a \in Steps /\ a \in {"row", "alloc"} /\ (a = "row" => Fits(pg))
    BY DEF Steps
  <2> HIDE DEF a
  <2>4. op' = [op EXCEPT !.at = a, !.id = mem.nextID, !.target = pg]
    BY <1>7 DEF a
  <2> HIDE DEF pg
  <2>5. /\ op' \in Operation /\ op'.at = a /\ op'.id = mem.nextID /\ op'.kind = op.kind /\ op'.target = pg
        /\ op'.t = op.t /\ op'.todo = op.todo /\ op'.key = op.key /\ op'.val = op.val
    BY <1>2, <1>3, <2>1, <2>3, <2>4, OpFindsPage
  <2>6. OpTyped'
    BY <1>2, <2>3, <2>5 DEF OpTyped, Inserting
  <2>7. TypeInv'
    BY <1>1, <1>4, <2>2, <2>6 DEF TypeInv
  <2> QED BY <1>1, <1>2, <1>4, <1>7, <2>3, <2>5, <2>7 DEF pg
<1> QED BY <1>5, <1>6, <1>7

\* A failed operation keeps the types.
LEMMA ErrorTyped ==
    ASSUME TypeInv, op.at # "start", op.t \in Table, ReturnError
    PROVE  /\ op' \in Operation /\ op'.at = "done" /\ op'.kind = op.kind /\ op'.t = op.t
           /\ acked' \in [Table -> Rows] /\ exact' \in [Table -> BOOLEAN]
           /\ exact'[op.t] = FALSE /\ OpTyped'
<1>1. op \in Operation
  BY OpInProgress
<1>2. /\ Return(TRUE) /\ exact' = [exact EXCEPT ![op.t] = FALSE]
      /\ acked' = IF op.kind = "insert" THEN acked ELSE [acked EXCEPT ![op.t] = << >>]
  BY DEF ReturnError
<1>3. op' \in Operation /\ op'.at = "done" /\ op'.kind = op.kind /\ op'.t = op.t
  BY <1>1, <1>2, ReturnTyped
<1>4. exact' \in [Table -> BOOLEAN] /\ exact'[op.t] = FALSE
  <2>1. exact \in [Table -> BOOLEAN]
    BY DEF TypeInv
  <2> QED BY <1>2, <2>1, Zenon
<1>5. acked' \in [Table -> Rows]
  <2>1. << >> \in Rows /\ acked \in [Table -> Rows]
    BY DEF Rows, TypeInv
  <2> QED BY <1>2, <2>1
<1>6. OpTyped'
  BY <1>3 DEF OpTyped, Inserting
<1> QED BY <1>3, <1>4, <1>5, <1>6

\* An insertion whose last page cannot be read fails.
LEMMA FindPageFailsStep ==
    ASSUME TypeInv, FindPageFails
    PROVE  /\ op.at = "find" /\ op.t \in Table /\ hdr[op.t].last # 0 /\ ~CanRead(op.t, hdr[op.t].last)
           /\ op'.at = "done" /\ op'.kind = op.kind /\ op'.t = op.t /\ op.kind # "get"
           /\ mem'.nextID = mem.nextID + 1 /\ exact'[op.t] = FALSE
           /\ UNCHANGED <<file, meta, up, hdr, cache, durable, stale, crashes, faults>>
           /\ TypeInv'
<1>1. /\ op.at = "find" /\ mem' = [mem EXCEPT !.nextID = mem.nextID + 1] /\ ReturnError
      /\ hdr[op.t].last # 0 /\ ~CanRead(op.t, hdr[op.t].last)
      /\ UNCHANGED <<file, meta, up, hdr, cache, durable, stale, crashes, faults>>
  BY DEF FindPageFails, Running, disk
<1>2. op.t \in Table /\ op.kind # "get"
  BY <1>1 DEF TypeInv, OpTyped, Inserting
<1>3. mem.nextID \in Nat /\ mem.nextID + 1 \in Nat /\ mem \in Counters /\ DOMAIN mem = {"nextID", "seq"}
  BY CountersTyped DEF TypeInv, Counters
<1>4. mem' \in Counters
  BY <1>1, <1>3, CountersTyped
<1>5. mem'.nextID = mem.nextID + 1
  BY <1>1, <1>3, Zenon
<1>6. /\ op' \in Operation /\ op'.at = "done" /\ op'.kind = op.kind /\ op'.t = op.t
      /\ acked' \in [Table -> Rows] /\ exact' \in [Table -> BOOLEAN]
      /\ exact'[op.t] = FALSE /\ OpTyped'
  BY <1>1, <1>2, ErrorTyped
<1>7. TypeInv'
  BY <1>1, <1>4, <1>6 DEF TypeInv
<1> QED BY <1>1, <1>2, <1>5, <1>6, <1>7

\* allocatePageNoLock writes a new page and counts it.
LEMMA AllocatePageStep ==
    ASSUME StoreInv, TypeInv, AllocatePage
    PROVE  LET t == op.t
               h == hdr[t]
               pg == NewPage(h.count)
           IN  /\ op.at = "alloc" /\ t \in Table /\ op'.at = (IF h.last = 0 THEN "row" ELSE "link")
               /\ op'.target = pg /\ op'.id = op.id /\ op'.todo = op.todo
               /\ op'.kind = op.kind /\ op'.t = t /\ op'.key = op.key /\ op'.val = op.val
               /\ file'[t] = WriteAt(file[t], pg) /\ cache' = CachePut(pg)
               /\ hdr'[t].count = h.count + 1 /\ hdr'[t].rows = h.rows
               /\ hdr'[t].first = (IF h.first = 0 THEN h.count ELSE h.first)
               /\ hdr'[t].last = (IF h.last = 0 THEN h.count ELSE h.last)
               /\ UNCHANGED <<meta, up, mem, acked, exact, durable, stale, crashes, faults>>
               /\ TypeInv'
<1> DEFINE t == op.t
           h == hdr[t]
           pg == NewPage(h.count)
<1>1. /\ op.at = "alloc" /\ file' = [file EXCEPT ![t] = WriteAt(@, pg)] /\ cache' = CachePut(pg)
      /\ op' = [op EXCEPT !.at = IF h.last = 0 THEN "row" ELSE "link", !.target = pg]
      /\ UNCHANGED <<meta, up, mem, acked, exact, durable, stale, crashes, faults>>
  BY DEF AllocatePage, Running, history
<1>2. hdr' = [hdr EXCEPT ![t].count = @ + 1, ![t].first = IF @ = 0 THEN pg.id ELSE @,
                         ![t].last = IF @ = 0 THEN pg.id ELSE @]
  BY DEF AllocatePage
<1>3. /\ op \in Operation /\ t \in Table /\ op.todo # << >> /\ op.kind \in {"insert", "update", "delete"}
  BY <1>1, OpInProgress DEF TypeInv, OpTyped, Inserting
<1>4. hdr \in [Table -> Header] /\ file \in [Table -> File] /\ cache \in Seq(Page)
  BY DEF TypeInv
<1>5. h \in Header
  BY <1>3, <1>4
<1>6. h.count \in Nat /\ h.first \in Nat /\ h.last \in Nat /\ h.rows \in Nat
  BY <1>5 DEF Header
<1>7. pg \in Page /\ pg.id = h.count
  BY <1>6, NewTyped, NewPageOK
<1> HIDE DEF pg
<1>8. /\ hdr' \in [Table -> Header] /\ hdr'[t].count = h.count + 1 /\ hdr'[t].rows = h.rows
      /\ hdr'[t].first = (IF h.first = 0 THEN h.count ELSE h.first)
      /\ hdr'[t].last = (IF h.last = 0 THEN h.count ELSE h.last)
  <2>1. hdr' = [hdr EXCEPT ![t].count = @ + 1, ![t].first = IF @ = 0 THEN h.count ELSE @,
                           ![t].last = IF @ = 0 THEN h.count ELSE @]
    BY <1>2, <1>7
  <2>2. hdr'[t].count = h.count + 1 /\ hdr'[t].rows = h.rows
    BY <1>3, <1>4, <2>1 DEF Header
  <2>3. hdr'[t].first = (IF h.first = 0 THEN h.count ELSE h.first)
    BY <1>3, <1>4, <2>1 DEF Header
  <2>4. hdr'[t].last = (IF h.last = 0 THEN h.count ELSE h.last)
    BY <1>3, <1>4, <2>1 DEF Header
  <2>5. hdr' \in [Table -> Header]
    BY AllocatePageOK DEF StoreInv, HeadersOK
  <2> QED BY <2>2, <2>3, <2>4, <2>5
<1> DEFINE a == IF h.last = 0 THEN "row" ELSE "link"
<1>9. a \in Steps /\ a \in {"row", "link"}
  BY DEF Steps
<1> HIDE DEF a
<1>10. op' = [op EXCEPT !.at = a, !.target = pg]
  BY <1>1 DEF a
<1>11. /\ op' \in Operation /\ op'.at = a /\ op'.target = pg /\ op'.id = op.id /\ op'.todo = op.todo
       /\ op'.kind = op.kind /\ op'.t = t /\ op'.key = op.key /\ op'.val = op.val
  BY <1>3, <1>7, <1>9, <1>10, OpGetsPage
<1>12. OpTyped'
  BY <1>3, <1>9, <1>11 DEF OpTyped, Inserting
<1>13. cache' \in Seq(Page)
  BY <1>1, <1>4, <1>7, CachePutTyped
<1>14. file'[t] = WriteAt(file[t], pg) /\ file' \in [Table -> File]
  <2>1. WriteAt(file[t], pg) \in File
    BY <1>3, <1>4, <1>7, WriteAtTyped
  <2> QED BY <1>1, <1>3, <1>4, <2>1
<1>15. TypeInv'
  BY <1>1, <1>8, <1>12, <1>13, <1>14 DEF TypeInv
<1> QED BY <1>1, <1>3, <1>8, <1>11, <1>14, <1>15 DEF pg, a

\* LinkPage when the last page can be read and the write succeeds.
LEMMA LinkPageStep ==
    ASSUME TypeInv, NEW ok \in BOOLEAN, LinkPage(ok)
    PROVE  LET t == op.t
               h == hdr[t]
               pg == [ReadPage(t, h.last) EXCEPT !.right = op.target.id]
           IN  /\ op.at = "link" /\ t \in Table /\ op'.at = "row"
               /\ op'.target = op.target /\ op'.id = op.id /\ op'.todo = op.todo
               /\ op'.kind = op.kind /\ op'.t = t /\ op'.key = op.key /\ op'.val = op.val
               /\ IF CanRead(t, h.last)
                    THEN /\ cache' = CachePut(pg) /\ pg \in Page
                         /\ file' = IF ok THEN [file EXCEPT ![t] = WriteAt(@, pg)] ELSE file
                    ELSE UNCHANGED <<cache, file>>
               /\ hdr' = [hdr EXCEPT ![t].last = op.target.id]
               /\ ok \/ faults < MaxFaults
               /\ UNCHANGED <<meta, up, mem, acked, exact, durable, stale, crashes>>
               /\ TypeInv'
<1> DEFINE t == op.t
           h == hdr[t]
           old == ReadPage(t, h.last)
           pg == [old EXCEPT !.right = op.target.id]
<1>1. /\ op.at = "link" /\ op' = [op EXCEPT !.at = "row"]
      /\ hdr' = [hdr EXCEPT ![t].last = op.target.id]
      /\ ok \/ faults < MaxFaults
      /\ faults' = IF ok THEN faults ELSE faults + 1
      /\ UNCHANGED <<meta, up, mem, acked, exact, durable, stale, crashes>>
  BY DEF LinkPage, Running, history
<1>2. IF CanRead(t, h.last)
        THEN cache' = CachePut(pg) /\ file' = IF ok THEN [file EXCEPT ![t] = WriteAt(@, pg)] ELSE file
        ELSE UNCHANGED <<cache, file>>
  BY DEF LinkPage
<1>3. /\ op \in Operation /\ t \in Table /\ op.todo # << >> /\ op.kind \in {"insert", "update", "delete"}
  BY <1>1, OpInProgress DEF TypeInv, OpTyped, Inserting
<1>4. hdr \in [Table -> Header] /\ file \in [Table -> File] /\ cache \in Seq(Page)
  BY DEF TypeInv
<1>5. op.target.id \in Nat
  BY <1>3, OpFieldsTyped DEF Page
<1>6. "row" \in Steps
  BY DEF Steps
<1>7. /\ op' \in Operation /\ op'.at = "row" /\ op'.target = op.target /\ op'.id = op.id /\ op'.todo = op.todo
      /\ op'.kind = op.kind /\ op'.t = t /\ op'.key = op.key /\ op'.val = op.val
  BY <1>1, <1>3, <1>6, OpMoves
<1>8. OpTyped'
  BY <1>3, <1>7 DEF OpTyped, Inserting
<1>9. hdr' \in [Table -> Header]
  BY <1>1, <1>4, <1>5 DEF Header
<1>10. faults' \in 0..MaxFaults
  <2>1. faults \in 0..MaxFaults /\ MaxFaults \in Nat
    BY BoundsAssumption DEF TypeInv
  <2>2. CASE ok
    BY <1>1, <2>1, <2>2
  <2>3. CASE ~ok
    <3>1. faults < MaxFaults /\ faults' = faults + 1
      BY <1>1, <2>3
    <3> QED BY <2>1, <3>1
  <2> QED BY <2>2, <2>3
<1>11. CanRead(t, h.last) => pg \in Page
  <2> SUFFICES ASSUME CanRead(t, h.last) PROVE pg \in Page
    OBVIOUS
  <2>1. old \in Page
    BY <1>3, ReadPageTyped
  <2> HIDE DEF old
  <2> QED BY <1>5, <2>1 DEF Page
<1> HIDE DEF pg
<1>12. cache' \in Seq(Page) /\ file' \in [Table -> File]
  <2>1. CASE CanRead(t, h.last)
    <3>1. pg \in Page /\ cache' = CachePut(pg)
          /\ file' = IF ok THEN [file EXCEPT ![t] = WriteAt(@, pg)] ELSE file
      BY <1>2, <1>11, <2>1
    <3>2. cache' \in Seq(Page)
      BY <1>4, <3>1, CachePutTyped
    <3>3. WriteAt(file[t], pg) \in File
      BY <1>3, <1>4, <3>1, WriteAtTyped
    <3> QED BY <1>3, <1>4, <3>1, <3>2, <3>3
  <2>2. CASE ~CanRead(t, h.last)
    BY <1>2, <1>4, <2>2
  <2> QED BY <2>1, <2>2
<1>13. TypeInv'
  BY <1>1, <1>8, <1>9, <1>10, <1>12 DEF TypeInv
<1>14. /\ op.at = "link" /\ t \in Table /\ op'.at = "row"
       /\ op'.target = op.target /\ op'.id = op.id /\ op'.todo = op.todo
       /\ op'.kind = op.kind /\ op'.t = t /\ op'.key = op.key /\ op'.val = op.val
       /\ hdr' = [hdr EXCEPT ![t].last = op.target.id]
       /\ ok \/ faults < MaxFaults
       /\ UNCHANGED <<meta, up, mem, acked, exact, durable, stale, crashes>>
  BY <1>1, <1>3, <1>7
<1>15. IF CanRead(t, h.last)
         THEN /\ cache' = CachePut(pg) /\ pg \in Page
              /\ file' = IF ok THEN [file EXCEPT ![t] = WriteAt(@, pg)] ELSE file
         ELSE UNCHANGED <<cache, file>>
  BY <1>2, <1>11
<1> QED BY <1>13, <1>14, <1>15, Zenon DEF pg

\* The head and the tail of a sequence.
LEMMA HeadTail ==
    ASSUME NEW R, NEW s \in Seq(R), s # << >>
    PROVE  /\ Len(s) \in Nat \ {0} /\ Head(s) \in R /\ Head(s) = s[1] /\ Tail(s) \in Seq(R)
           /\ Len(Tail(s)) = Len(s) - 1 /\ \A i \in 1..(Len(s) - 1) : Tail(s)[i] = s[i + 1]
           /\ Len(s) > 1 => Tail(s) # << >>
<1>1. /\ Len(s) \in Nat \ {0} /\ Head(s) \in R /\ Head(s) = s[1] /\ Tail(s) \in Seq(R)
      /\ Len(Tail(s)) = Len(s) - 1 /\ \A i \in 1..(Len(s) - 1) : Tail(s)[i] = s[i + 1]
  OBVIOUS
<1>2. Len(s) > 1 => Tail(s) # << >>
  <2> DEFINE r == Tail(s)
  <2> HIDE DEF r
  <2>1. Len(s) > 1 => Len(r) # 0
    BY <1>1 DEF r
  <2>2. r # << >> \/ Len(r) = 0
    OBVIOUS
  <2> QED BY <2>1, <2>2 DEF r
<1> QED BY <1>1, <1>2

\* A header that changes in one field.
LEMMA HeaderChanged ==
    ASSUME hdr \in [Table -> Header], NEW t \in Table, NEW n \in Nat
    PROVE  /\ [hdr EXCEPT ![t].rows = n] \in [Table -> Header]
           /\ [hdr EXCEPT ![t].count = n] \in [Table -> Header]
           /\ [hdr EXCEPT ![t].last = n] \in [Table -> Header]
  BY DEF Header

\* The page with the next row to insert.
RowToWrite == [id |-> op.id, key |-> Head(op.todo).key, val |-> Head(op.todo).val]
PageToWrite == [op.target EXCEPT !.rows = Append(op.target.rows, RowToWrite)]

\* The row that is written is the first of those to insert, behind those of the page.
LEMMA PageToWriteTyped ==
    ASSUME TypeInv, op.at = "row"
    PROVE  /\ op \in Operation /\ op.t \in Table /\ op.todo \in Rows /\ op.todo # << >>
           /\ op.kind \in {"insert", "update", "delete"}
           /\ Head(op.todo) \in [key : Nat, val : {0, 1}]
           /\ RowToWrite \in Tagged /\ PageToWrite \in Page /\ op.target \in Page
           /\ PageToWrite.id = op.target.id /\ PageToWrite.right = op.target.right
           /\ PageToWrite.rows = Append(op.target.rows, RowToWrite)
<1>1. /\ op \in Operation /\ op.t \in Table /\ op.todo \in Rows /\ op.todo # << >> /\ op.id \in Nat
      /\ op.kind \in {"insert", "update", "delete"} /\ op.target \in Page
  BY OpInProgress DEF TypeInv, OpTyped, Inserting
<1>2. Head(op.todo) \in [key : Nat, val : {0, 1}]
  BY <1>1, HeadTail DEF Rows
<1> DEFINE row == Head(op.todo)
           new == [id |-> op.id, key |-> row.key, val |-> row.val]
<1>3. new \in Tagged
  <2> HIDE DEF row
  <2> QED BY <1>1, <1>2 DEF Tagged, row
<1> HIDE DEF new
<1>4. op.target.rows \in Seq(Tagged) /\ DOMAIN op.target = {"id", "rows", "right"}
  BY <1>1 DEF Page, Tagged
<1>5. Append(op.target.rows, new) \in Seq(Tagged)
  BY <1>3, <1>4
<1> DEFINE rows == Append(op.target.rows, new)
           pg == [op.target EXCEPT !.rows = rows]
<1> HIDE DEF rows
<1>6. pg \in Page /\ pg.id = op.target.id /\ pg.right = op.target.right /\ pg.rows = rows
  <2>1. rows \in Seq(Tagged)
    BY <1>5 DEF rows
  <2> QED BY <1>1, <1>4, <2>1 DEF Page, Tagged
<1>7. RowToWrite = new /\ PageToWrite = pg
  BY DEF RowToWrite, PageToWrite, new, rows
<1> QED BY <1>1, <1>2, <1>3, <1>6, <1>7 DEF rows

\* With the row written, the next one follows or the operation is over.
LEMMA WriteRowStep ==
    ASSUME TypeInv, WriteRow
    PROVE  LET t == op.t
               h == hdr[t]
           IN  /\ op.at = "row" /\ t \in Table
               /\ file'[t] = WriteAt(file[t], PageToWrite) /\ cache' = CachePut(PageToWrite)
               /\ hdr' = [hdr EXCEPT ![t].rows = h.rows + 1]
               /\ \/ /\ Len(op.todo) > 1 /\ op'.at = "find" /\ op'.todo = Tail(op.todo)
                     /\ op'.kind = op.kind /\ op'.t = t /\ op'.key = op.key /\ op'.val = op.val
                     /\ acked' = acked
                  \/ /\ Len(op.todo) = 1 /\ op'.at = "done" /\ op'.kind = op.kind /\ op'.kind # "get"
                     /\ op'.t = t /\ acked'[t] = Outcome(acked[t])
               /\ UNCHANGED <<meta, up, mem, exact, durable, stale, crashes, faults>>
               /\ TypeInv'
<1> DEFINE t == op.t
           h == hdr[t]
<1>1. /\ op.at = "row" /\ file' = [file EXCEPT ![t] = WriteAt(@, PageToWrite)]
      /\ cache' = CachePut(PageToWrite) /\ hdr' = [hdr EXCEPT ![t].rows = h.rows + 1]
      /\ UNCHANGED <<meta, up, mem, exact, durable, stale, crashes, faults>>
  BY DEF WriteRow, Running, PageToWrite, RowToWrite
<1>2. IF Len(op.todo) > 1
        THEN op' = [op EXCEPT !.at = "find", !.todo = Tail(op.todo)] /\ acked' = acked
        ELSE Return(FALSE) /\ acked' = [acked EXCEPT ![t] = Outcome(acked[t])]
  BY DEF WriteRow
<1>3. /\ op \in Operation /\ t \in Table /\ op.todo \in Rows /\ op.todo # << >>
      /\ op.kind \in {"insert", "update", "delete"} /\ PageToWrite \in Page
  BY <1>1, PageToWriteTyped
<1>4. hdr \in [Table -> Header] /\ file \in [Table -> File] /\ cache \in Seq(Page) /\ acked \in [Table -> Rows]
  BY DEF TypeInv
<1>5. file'[t] = WriteAt(file[t], PageToWrite) /\ file' \in [Table -> File]
  <2>1. WriteAt(file[t], PageToWrite) \in File
    BY <1>3, <1>4, WriteAtTyped
  <2> QED BY <1>1, <1>3, <1>4, <2>1
<1>6. cache' \in Seq(Page)
  BY <1>1, <1>3, <1>4, CachePutTyped
<1>7. hdr' \in [Table -> Header]
  <2>1. h.rows + 1 \in Nat
    BY <1>3, <1>4 DEF Header
  <2> QED BY <1>1, <1>3, <1>4, <2>1, HeaderChanged
<1>8. CASE Len(op.todo) > 1
  <2>1. Tail(op.todo) \in Rows /\ Tail(op.todo) # << >>
    BY <1>3, <1>8, HeadTail DEF Rows
  <2> DEFINE d == Tail(op.todo)
  <2> HIDE DEF d
  <2>2. "find" \in Steps /\ d \in Rows /\ d # << >> /\ op' = [op EXCEPT !.at = "find", !.todo = d]
    BY <1>2, <1>8, <2>1 DEF Steps, d
  <2>3. /\ op' \in Operation /\ op'.at = "find" /\ op'.todo = d /\ op'.kind = op.kind /\ op'.t = t
        /\ op'.key = op.key /\ op'.val = op.val
    BY <1>3, <2>2, OpGetsTodo
  <2>4. OpTyped'
    BY <1>3, <2>2, <2>3 DEF OpTyped, Inserting
  <2>5. acked' = acked
    BY <1>2, <1>8
  <2>6. TypeInv'
    BY <1>1, <1>5, <1>6, <1>7, <2>4, <2>5 DEF TypeInv
  <2> QED BY <1>1, <1>3, <1>5, <1>8, <2>3, <2>5, <2>6 DEF d
<1>9. CASE ~(Len(op.todo) > 1)
  <2>1. Len(op.todo) = 1
    <3>1. Len(op.todo) \in Nat \ {0}
      BY <1>3, HeadTail DEF Rows
    <3> DEFINE n == Len(op.todo)
    <3> HIDE DEF n
    <3>2. n \in Nat \ {0} /\ ~(n > 1)
      BY <1>9, <3>1 DEF n
    <3>3. n = 1
      BY <3>2
    <3> QED BY <3>3 DEF n
  <2>2. Return(FALSE) /\ acked' = [acked EXCEPT ![t] = Outcome(acked[t])]
    BY <1>2, <1>9
  <2>3. op' \in Operation /\ op'.at = "done" /\ op'.kind = op.kind /\ op'.t = t
    BY <1>3, <2>2, ReturnTyped
  <2>4. OpTyped'
    BY <2>3 DEF OpTyped, Inserting
  <2>5. acked' \in [Table -> Rows] /\ acked'[t] = Outcome(acked[t])
    <3>1. Outcome(acked[t]) \in Rows
      BY <1>3, <1>4, OutcomeTyped
    <3> QED BY <1>3, <1>4, <2>2, <3>1
  <2>6. TypeInv'
    BY <1>1, <1>5, <1>6, <1>7, <2>4, <2>5 DEF TypeInv
  <2> QED BY <1>1, <1>3, <1>5, <2>1, <2>3, <2>5, <2>6
<1> QED BY <1>8, <1>9

\* The failing steps of an insertion.
LEMMA InsertFailsTyped ==
    ASSUME TypeInv, AllocateFails \/ WriteRowFails
    PROVE  faults < MaxFaults /\ TypeInv'
<1>1. /\ op.at \in {"alloc", "row"} /\ faults < MaxFaults /\ faults' = faults + 1 /\ ReturnError
      /\ UNCHANGED <<file, meta, up, mem, durable, stale, crashes>>
  BY DEF AllocateFails, WriteRowFails, Running, disk
<1>2. op.t \in Table
  BY <1>1 DEF TypeInv, OpTyped, Inserting
<1>3. acked' \in [Table -> Rows] /\ exact' \in [Table -> BOOLEAN] /\ OpTyped'
  BY <1>1, <1>2, ErrorTyped
<1>4. faults' \in 0..MaxFaults
  BY <1>1, BoundsAssumption DEF TypeInv
<1>5. hdr' \in [Table -> Header] /\ cache' \in Seq(Page)
  <2>1. CASE AllocateFails
    <3>1. hdr' = [hdr EXCEPT ![op.t].count = hdr[op.t].count + 1] /\ cache' = cache
      BY <2>1 DEF AllocateFails
    <3>2. hdr \in [Table -> Header] /\ cache \in Seq(Page)
      BY DEF TypeInv
    <3>3. hdr[op.t].count + 1 \in Nat
      BY <1>2, <3>2 DEF Header
    <3> QED BY <1>2, <3>1, <3>2, <3>3, HeaderChanged
  <2>2. CASE WriteRowFails
    <3>1. op.at = "row" /\ hdr' = hdr
      BY <2>2 DEF WriteRowFails, Running
    <3>2. cache' = CacheInPlace(PageToWrite)
      BY <2>2 DEF WriteRowFails, PageToWrite, RowToWrite
    <3>3. PageToWrite \in Page
      BY <3>1, PageToWriteTyped
    <3>4. cache \in Seq(Page)
      BY DEF TypeInv
    <3>5. CacheInPlace(PageToWrite) \in Seq(Page)
      BY <3>3, <3>4 DEF CacheInPlace
    <3> QED BY <3>1, <3>2, <3>5 DEF TypeInv
  <2> QED BY <2>1, <2>2
<1> QED BY <1>1, <1>3, <1>4, <1>5 DEF TypeInv

\* GetRows starts a scan at the first page.
LEMMA GetRowsStep ==
    ASSUME TypeInv, NEW t \in Table, GetRows(t)
    PROVE  /\ op.at = "start" /\ op'.at = "scan" /\ op'.kind = "get" /\ op'.t = t
           /\ op'.seen = << >> /\ op'.page = Opened(t)[t].first /\ hdr' = Opened(t)
           /\ UNCHANGED <<file, meta, up, mem, cache, acked, exact, durable, stale, crashes, faults>>
           /\ TypeInv'
<1>1. /\ op.at = "start" /\ hdr' = Opened(t)
      /\ op' = [NewOp("get", t, "scan") EXCEPT !.page = Opened(t)[t].first]
      /\ UNCHANGED <<file, meta, up, mem, cache, acked, exact, durable, stale, crashes, faults>>
  BY DEF GetRows, Running, disk, history
<1>2. hdr' \in [Table -> Header]
  BY <1>1, OpenedTyped
<1>3. Opened(t)[t].first \in Nat
  BY <1>1, <1>2 DEF Header
<1>4. "get" \in Kinds /\ "scan" \in Steps /\ t \in Table \cup {AllTables}
  BY DEF Kinds, Steps
<1>5. /\ op' \in Operation /\ op'.at = "scan" /\ op'.kind = "get" /\ op'.t = t
      /\ op'.seen = << >> /\ op'.page = Opened(t)[t].first
  <2> DEFINE p == Opened(t)[t].first
  <2>1. p \in Nat /\ op' = [NewOp("get", t, "scan") EXCEPT !.page = p]
    BY <1>1, <1>3
  <2> HIDE DEF p
  <2>2. /\ op' \in Operation /\ op'.at = "scan" /\ op'.kind = "get" /\ op'.t = t
        /\ op'.seen = << >> /\ op'.page = p
    BY <1>4, <2>1, OpScans
  <2> QED BY <2>2 DEF p
<1>6. OpTyped'
  BY <1>5 DEF OpTyped, Inserting
<1>7. TypeInv'
  BY <1>1, <1>2, <1>6 DEF TypeInv
<1> QED BY <1>1, <1>5, <1>7

\* UpdateRows and DeleteRows start a scan at the first page or return at once.
LEMMA RewriteStep ==
    ASSUME TypeInv, NEW kind \in {"update", "delete"}, NEW t \in Table, NEW k \in Nat, Rewrite(kind, t, k)
    PROVE  /\ op.at = "start" /\ op'.kind = kind /\ op'.t = t /\ op'.seen = << >>
           /\ \/ IsOpen(t) /\ op'.at = "scan" /\ op'.page = hdr[t].first
              \/ op'.at = "done"
           /\ UNCHANGED <<file, meta, up, mem, hdr, cache, acked, exact, durable, stale, crashes, faults>>
           /\ TypeInv'
<1> DEFINE a == IF IsOpen(t) THEN "scan" ELSE "done"
<1>1. /\ op.at = "start"
      /\ op' = [NewOp(kind, t, a) EXCEPT !.page = hdr[t].first, !.key = k, !.val = 1]
      /\ UNCHANGED <<file, meta, up, mem, hdr, cache, acked, exact, durable, stale, crashes, faults>>
  BY DEF Rewrite, Running, disk, history
<1>2. hdr[t].first \in Nat
  BY DEF TypeInv, Header
<1>3. kind \in Kinds /\ a \in Steps /\ t \in Table \cup {AllTables} /\ 1 \in {0, 1}
  BY DEF Kinds, Steps
<1>4. a \in {"scan", "done"} /\ (a = "scan" => IsOpen(t))
  OBVIOUS
<1> HIDE DEF a
<1>5. /\ op' \in Operation /\ op'.at = a /\ op'.kind = kind /\ op'.t = t
      /\ op'.seen = << >> /\ op'.page = hdr[t].first
  <2> DEFINE p == hdr[t].first
             v == 1
  <2>1. p \in Nat /\ v \in {0, 1} /\ op' = [NewOp(kind, t, a) EXCEPT !.page = p, !.key = k, !.val = v]
    BY <1>1, <1>2
  <2> HIDE DEF p, v
  <2>2. /\ op' \in Operation /\ op'.at = a /\ op'.kind = kind /\ op'.t = t
        /\ op'.seen = << >> /\ op'.page = p
    <3>1. NewOp(kind, t, a) \in Operation
      BY <1>3, NewOpTyped
    <3>2. op' \in Operation
      BY <2>1, <3>1, Zenon DEF Operation
    <3>3. op'.at = a /\ op'.kind = kind /\ op'.t = t /\ op'.seen = << >> /\ op'.page = p
      BY <2>1, Zenon DEF NewOp
    <3> QED BY <3>2, <3>3
  <2> QED BY <2>2 DEF p
<1>6. OpTyped'
  BY <1>4, <1>5 DEF OpTyped, Inserting
<1>7. TypeInv'
  BY <1>1, <1>6 DEF TypeInv
<1> QED BY <1>1, <1>4, <1>5, <1>7

\* UpdateRowsWithCallback and DeleteRowsWithCallback return at once.
LEMMA CallbackStep ==
    ASSUME TypeInv, NEW kind \in {"updateSQL", "deleteSQL"}, NEW t \in Table, NEW k \in Nat,
           RewriteWithCallback(kind, t, k)
    PROVE  /\ op.at = "start" /\ op'.kind = kind /\ op'.at = "done"
           /\ UNCHANGED <<file, meta, up, mem, hdr, cache, acked, exact, durable, stale, crashes, faults>>
           /\ TypeInv'
<1>1. /\ op.at = "start" /\ op' = [NewOp(kind, t, "done") EXCEPT !.key = k, !.val = 1]
      /\ UNCHANGED <<file, meta, up, mem, hdr, cache, acked, exact, durable, stale, crashes, faults>>
  BY DEF RewriteWithCallback, Running, disk, history
<1>2. kind \in Kinds /\ "done" \in Steps /\ t \in Table \cup {AllTables} /\ 1 \in {0, 1}
  BY DEF Kinds, Steps
<1>3. op' \in Operation /\ op'.at = "done" /\ op'.kind = kind
  BY <1>1, <1>2, OpSkips
<1>4. OpTyped'
  BY <1>3 DEF OpTyped, Inserting
<1>5. TypeInv'
  BY <1>1, <1>4 DEF TypeInv
<1> QED BY <1>1, <1>3, <1>5

\* A scan goes on to the next page with the rows of this one.
LEMMA ScanPageStep ==
    ASSUME TypeInv, ScanPage
    PROVE  LET pg == ReadPage(op.t, op.page)
           IN  /\ op.at = "scan" /\ op.t \in Table /\ op.page # 0 /\ CanRead(op.t, op.page)
               /\ op.page \in Nat /\ op.seen \in Seq(Tagged) /\ pg \in Page
               /\ op'.at = "scan" /\ op'.kind = op.kind /\ op'.t = op.t
               /\ op'.key = op.key /\ op'.val = op.val
               /\ op'.seen = op.seen \o pg.rows /\ op'.page = pg.right /\ cache' = CachePut(pg)
               /\ UNCHANGED <<file, meta, up, mem, hdr, acked, exact, durable, stale, crashes, faults>>
               /\ TypeInv'
<1> DEFINE pg == ReadPage(op.t, op.page)
<1>1. /\ op.at = "scan" /\ op.page # 0 /\ CanRead(op.t, op.page) /\ cache' = CachePut(pg)
      /\ op' = [op EXCEPT !.seen = op.seen \o pg.rows, !.page = pg.right]
      /\ UNCHANGED <<file, meta, up, mem, hdr, acked, exact, durable, stale, crashes, faults>>
  BY DEF ScanPage, Running, disk, history
<1>2. /\ op \in Operation /\ op.t \in Table /\ op.kind \in {"get", "update", "delete"}
      /\ op.page \in Nat /\ op.seen \in Seq(Tagged)
  BY <1>1, OpInProgress DEF TypeInv, OpTyped
<1>3. pg \in Page
  BY <1>1, <1>2, ReadPageTyped
<1> HIDE DEF pg
<1>4. pg.right \in Nat /\ pg.rows \in Seq(Tagged)
  BY <1>3 DEF Page, Tagged
<1> DEFINE s == op.seen \o pg.rows
<1>5. s \in Seq(Tagged)
  BY <1>2, <1>4
<1> HIDE DEF s
<1>6. op' = [op EXCEPT !.seen = s, !.page = pg.right]
  BY <1>1 DEF s
<1>7. /\ op' \in Operation /\ op'.at = op.at /\ op'.kind = op.kind /\ op'.t = op.t
      /\ op'.key = op.key /\ op'.val = op.val /\ op'.seen = s /\ op'.page = pg.right
  BY <1>2, <1>4, <1>5, <1>6, OpReads
<1>8. OpTyped'
  BY <1>1, <1>2, <1>7 DEF OpTyped, Inserting
<1>9. cache' \in Seq(Page)
  BY <1>1, <1>3, CachePutTyped DEF TypeInv
<1>10. TypeInv'
  BY <1>1, <1>8, <1>9 DEF TypeInv
<1> QED BY <1>1, <1>2, <1>3, <1>7, <1>10 DEF pg, s

\* A scan that cannot read its page returns.
LEMMA ScanPageFailsStep ==
    ASSUME TypeInv, ScanPageFails
    PROVE  /\ op.at = "scan" /\ op.t \in Table /\ op.page # 0 /\ ~CanRead(op.t, op.page) /\ op.page \in Nat
           /\ op.kind \in {"get", "update", "delete"} /\ op.seen \in Seq(Tagged)
           /\ op'.at = "done" /\ op'.kind = op.kind /\ op'.t = op.t
           /\ op'.seen = IF op.kind = "get" THEN op.seen ELSE << >>
           /\ UNCHANGED <<file, meta, up, mem, hdr, cache, acked, exact, durable, stale, crashes, faults>>
           /\ TypeInv'
<1>1. /\ op.at = "scan" /\ op.page # 0 /\ ~CanRead(op.t, op.page) /\ Return(TRUE)
      /\ UNCHANGED <<file, meta, up, mem, hdr, cache, acked, exact, durable, stale, crashes, faults>>
  BY DEF ScanPageFails, Running, disk, history
<1>2. /\ op \in Operation /\ op.t \in Table /\ op.kind \in {"get", "update", "delete"}
      /\ op.page \in Nat /\ op.seen \in Seq(Tagged)
  BY <1>1, OpInProgress DEF TypeInv, OpTyped
<1>3. /\ op' \in Operation /\ op'.at = "done" /\ op'.kind = op.kind /\ op'.t = op.t
      /\ op'.seen = IF op.kind = "get" THEN op.seen ELSE << >>
  BY <1>1, <1>2, ReturnTyped
<1>4. OpTyped'
  BY <1>3 DEF OpTyped, Inserting
<1>5. TypeInv'
  BY <1>1, <1>4 DEF TypeInv
<1> QED BY <1>1, <1>2, <1>3, <1>5

\* At the end a scan returns, or has what to insert again.
LEMMA ScanEndsStep ==
    ASSUME TypeInv, ScanEnds
    PROVE  /\ op.at = "scan" /\ op.t \in Table /\ op.page = 0
           /\ op.kind \in {"get", "update", "delete"} /\ op.seen \in Seq(Tagged)
           /\ op'.kind = op.kind /\ op'.t = op.t
           /\ \/ /\ op'.at = "done" /\ op'.err = FALSE
                 /\ op'.seen = IF op.kind = "get" THEN op.seen ELSE << >>
              \/ /\ op.kind # "get" /\ op'.at = "clear" /\ op'.todo = Outcome(Untagged(op.seen))
                 /\ op'.key = op.key /\ op'.val = op.val
           /\ UNCHANGED <<file, meta, up, mem, hdr, cache, acked, exact, durable, stale, crashes, faults>>
           /\ TypeInv'
<1>1. /\ op.at = "scan" /\ op.page = 0
      /\ UNCHANGED <<file, meta, up, mem, hdr, cache, acked, exact, durable, stale, crashes, faults>>
  BY DEF ScanEnds, Running, disk, history
<1>2. \/ Return(FALSE)
      \/ op.kind # "get" /\ op' = [op EXCEPT !.at = "clear", !.todo = Rewritten]
  BY Zenon DEF ScanEnds
<1>3. /\ op \in Operation /\ op.t \in Table /\ op.kind \in {"get", "update", "delete"}
      /\ op.seen \in Seq(Tagged)
  BY <1>1, OpInProgress DEF TypeInv, OpTyped
<1>4. CASE Return(FALSE)
  <2>1. /\ op' \in Operation /\ op'.at = "done" /\ op'.kind = op.kind /\ op'.t = op.t /\ op'.err = FALSE
        /\ op'.seen = IF op.kind = "get" THEN op.seen ELSE << >>
    BY <1>3, <1>4, ReturnTyped
  <2>2. OpTyped'
    BY <2>1 DEF OpTyped, Inserting
  <2>3. TypeInv'
    BY <1>1, <2>2 DEF TypeInv
  <2> QED BY <1>1, <1>3, <2>1, <2>3
<1>5. CASE op.kind # "get" /\ op' = [op EXCEPT !.at = "clear", !.todo = Rewritten]
  <2>1. Untagged(op.seen) \in Rows
    BY <1>3, UntaggedTyped
  <2>2. Rewritten \in Rows /\ Rewritten = Outcome(Untagged(op.seen))
    BY <1>3, <1>5, <2>1, OutcomeTyped DEF Rewritten
  <2>3. "clear" \in Steps
    BY DEF Steps
  <2>4. /\ op' \in Operation /\ op'.at = "clear" /\ op'.todo = Rewritten
        /\ op'.kind = op.kind /\ op'.t = op.t /\ op'.key = op.key /\ op'.val = op.val
    BY <1>3, <1>5, <2>2, <2>3, OpGetsTodo
  <2>5. OpTyped'
    BY <1>3, <1>5, <2>4 DEF OpTyped, Inserting
  <2>6. TypeInv'
    BY <1>1, <2>5 DEF TypeInv
  <2> QED BY <1>1, <1>3, <1>5, <2>2, <2>4, <2>6
<1> QED BY <1>2, <1>4, <1>5

\* TruncateTable goes on to clear an open table.
LEMMA TruncateTableStep ==
    ASSUME TypeInv, NEW t \in Table, TruncateTable(t)
    PROVE  /\ op.at = "start" /\ IsOpen(t) /\ op'.kind = "truncate" /\ op'.at = "clear" /\ op'.t = t
           /\ UNCHANGED <<file, meta, up, mem, hdr, cache, acked, exact, durable, stale, crashes, faults>>
           /\ TypeInv'
<1>1. /\ op.at = "start" /\ IsOpen(t) /\ op' = NewOp("truncate", t, "clear")
      /\ UNCHANGED <<file, meta, up, mem, hdr, cache, acked, exact, durable, stale, crashes, faults>>
  BY DEF TruncateTable, Running, disk, history
<1>2. "truncate" \in Kinds /\ "clear" \in Steps /\ t \in Table \cup {AllTables}
  BY DEF Kinds, Steps
<1>3. op' \in Operation /\ op'.at = "clear" /\ op'.kind = "truncate" /\ op'.t = t
  BY <1>1, <1>2, OpBegins
<1>4. OpTyped'
  BY <1>3 DEF OpTyped, Inserting
<1>5. TypeInv'
  BY <1>1, <1>4 DEF TypeInv
<1> QED BY <1>1, <1>3, <1>5

\* TruncateTable leaves a table that is not open as it is.
LEMMA TruncateUnopenedStep ==
    ASSUME TypeInv, NEW t \in Table, TruncateUnopened(t)
    PROVE  /\ op.at = "start" /\ ~IsOpen(t) /\ op'.kind = "truncate" /\ op'.at = "done" /\ op'.t = t
           /\ mem'.nextID = mem.nextID /\ exact' = [exact EXCEPT ![t] = FALSE] /\ up
           /\ UNCHANGED <<file, up, hdr, cache, acked, durable, stale, crashes, faults>>
           /\ TypeInv'
<1>1. /\ op.at = "start" /\ ~IsOpen(t) /\ op' = NewOp("truncate", t, "done") /\ up
      /\ mem' = [mem EXCEPT !.seq[t] = 0] /\ meta' = mem' /\ exact' = [exact EXCEPT ![t] = FALSE]
      /\ UNCHANGED <<file, up, hdr, cache, acked, durable, stale, crashes, faults>>
  BY DEF TruncateUnopened, Running
<1>2. "truncate" \in Kinds /\ "done" \in Steps /\ t \in Table \cup {AllTables}
  BY DEF Kinds, Steps
<1>3. op' \in Operation /\ op'.at = "done" /\ op'.kind = "truncate" /\ op'.t = t
  BY <1>1, <1>2, OpBegins
<1>4. OpTyped'
  BY <1>3 DEF OpTyped, Inserting
<1>5. mem \in Counters /\ DOMAIN mem = {"nextID", "seq"}
  BY DEF TypeInv, Counters
<1>6. mem' \in Counters /\ meta' \in Counters
  BY <1>1, <1>5, CountersTyped
<1>7. mem'.nextID = mem.nextID
  BY <1>1, <1>5, Zenon
<1>8. exact' \in [Table -> BOOLEAN]
  <2>1. exact \in [Table -> BOOLEAN]
    BY DEF TypeInv
  <2> QED BY <1>1, <2>1, Zenon
<1>9. TypeInv'
  BY <1>1, <1>4, <1>6, <1>8 DEF TypeInv
<1> QED BY <1>1, <1>3, <1>7, <1>9

\* What is promised of a table that is rewritten are rows.
LEMMA PromisedTyped == ASSUME TypeInv, NEW t \in Table PROVE Promised(t) \in Rows
<1>1. << >> \in Rows /\ acked[t] \in Rows
  BY DEF TypeInv, Rows
<1> QED BY <1>1 DEF Promised

\* The rest of an update or deletion after the table was cleared, or not.
LEMMA ClearedStep ==
    ASSUME TypeInv, op.at = "clear", op.kind # "truncate",
           IF op.todo = << >>
             THEN Return(FALSE) /\ acked' = [acked EXCEPT ![op.t] = Outcome(Promised(op.t))]
             ELSE /\ op' = [op EXCEPT !.at = "find"]
                  /\ acked' = [acked EXCEPT ![op.t] = Promised(op.t)]
    PROVE  /\ \/ /\ op.todo = << >> /\ op'.at = "done" /\ op'.kind = op.kind
                 /\ acked'[op.t] = Outcome(Promised(op.t))
              \/ /\ op.todo # << >> /\ op'.at = "find" /\ op'.todo = op.todo
                 /\ op'.kind = op.kind /\ op'.t = op.t /\ op'.key = op.key /\ op'.val = op.val
                 /\ acked'[op.t] = Promised(op.t)
           /\ acked' \in [Table -> Rows] /\ OpTyped'
<1>1. /\ op \in Operation /\ op.t \in Table /\ op.kind \in {"update", "delete"}
  BY OpInProgress DEF TypeInv, OpTyped
<1>2. Promised(op.t) \in Rows /\ acked \in [Table -> Rows]
  BY <1>1, PromisedTyped DEF TypeInv
<1>3. CASE op.todo = << >>
  <2>1. Return(FALSE) /\ acked' = [acked EXCEPT ![op.t] = Outcome(Promised(op.t))]
    BY <1>3
  <2>2. op' \in Operation /\ op'.at = "done" /\ op'.kind = op.kind
    BY <1>1, <2>1, ReturnTyped
  <2>3. OpTyped'
    BY <2>2 DEF OpTyped, Inserting
  <2>4. Outcome(Promised(op.t)) \in Rows
    BY <1>1, <1>2, OutcomeTyped
  <2>5. acked' \in [Table -> Rows] /\ acked'[op.t] = Outcome(Promised(op.t))
    BY <1>1, <1>2, <2>1, <2>4
  <2> QED BY <1>3, <2>2, <2>3, <2>5
<1>4. CASE op.todo # << >>
  <2>1. op' = [op EXCEPT !.at = "find"] /\ acked' = [acked EXCEPT ![op.t] = Promised(op.t)]
    BY <1>4
  <2>2. "find" \in Steps
    BY DEF Steps
  <2>3. /\ op' \in Operation /\ op'.at = "find" /\ op'.todo = op.todo
        /\ op'.kind = op.kind /\ op'.t = op.t /\ op'.key = op.key /\ op'.val = op.val
    BY <1>1, <2>1, <2>2, OpMoves
  <2>4. OpTyped'
    BY <1>1, <1>4, <2>3 DEF OpTyped, Inserting
  <2>5. acked' \in [Table -> Rows] /\ acked'[op.t] = Promised(op.t)
    BY <1>1, <1>2, <2>1
  <2> QED BY <1>4, <2>3, <2>4, <2>5
<1> QED BY <1>3, <1>4

\* TableFile.Clear, and what follows it.
LEMMA ClearTableStep ==
    ASSUME TypeInv, ClearTable
    PROVE  LET t == op.t
           IN  /\ op.at = "clear" /\ t \in Table /\ op.kind \in {"update", "delete", "truncate"}
               /\ file'[t].pages = << >> /\ file'[t].hdr = file[t].hdr
               /\ hdr'[t] = NewHeader /\ cache' = << >> /\ durable'[t] = << >> /\ stale'[t] = "cleared"
               /\ \/ /\ op.kind = "truncate" /\ op'.at = "done" /\ op'.kind = "truncate"
                     /\ acked'[t] = << >> /\ exact'[t] = TRUE
                  \/ /\ op.kind # "truncate" /\ op.todo = << >> /\ op'.at = "done" /\ op'.kind = op.kind
                     /\ acked'[t] = Outcome(Promised(t)) /\ exact' = exact
                  \/ /\ op.kind # "truncate" /\ op.todo # << >> /\ op'.at = "find" /\ op'.todo = op.todo
                     /\ op'.kind = op.kind /\ op'.t = t /\ op'.key = op.key /\ op'.val = op.val
                     /\ acked'[t] = Promised(t) /\ exact' = exact
               /\ mem'.nextID = mem.nextID
               /\ UNCHANGED <<meta, up, crashes, faults>>
               /\ TypeInv'
<1> DEFINE t == op.t
<1>1. /\ op.at = "clear" /\ hdr' = [hdr EXCEPT ![t] = NewHeader] /\ cache' = << >>
      /\ file' = [file EXCEPT ![t].pages = << >>]
      /\ durable' = [durable EXCEPT ![t] = << >>] /\ stale' = [stale EXCEPT ![t] = "cleared"]
      /\ UNCHANGED <<meta, up, crashes, faults>>
  BY DEF ClearTable, Running
<1>2. op \in Operation /\ t \in Table /\ op.kind \in {"update", "delete", "truncate"}
  BY <1>1, OpInProgress DEF TypeInv, OpTyped
<1>3. /\ file \in [Table -> File] /\ hdr \in [Table -> Header] /\ durable \in [Table -> Rows]
      /\ acked \in [Table -> Rows] /\ stale \in [Table -> {"no", "cleared", "torn"}]
      /\ exact \in [Table -> BOOLEAN] /\ mem \in Counters
  BY DEF TypeInv
<1>4. file' \in [Table -> File] /\ file'[t].pages = << >> /\ file'[t].hdr = file[t].hdr
  <2>1. file[t] \in File /\ DOMAIN file[t] = {"hdr", "pages"} /\ file' = [file EXCEPT ![t] = [file[t] EXCEPT !.pages = << >>]]
    BY <1>1, <1>2, <1>3 DEF File
  <2> DEFINE g == [file[t] EXCEPT !.pages = << >>]
  <2>2. g.pages = << >> /\ g.hdr = file[t].hdr
    BY <2>1, Zenon
  <2>3. << >> \in Seq(Page)
    OBVIOUS
  <2>4. g \in File
    BY <2>1, <2>3, Zenon DEF File
  <2> HIDE DEF g
  <2>5. file'[t] = g /\ file' \in [Table -> File]
    BY <1>2, <1>3, <2>1, <2>4 DEF g
  <2> QED BY <2>2, <2>5
<1>5. hdr' \in [Table -> Header] /\ hdr'[t] = NewHeader
  BY <1>1, <1>2, <1>3, NewTyped
<1>6. durable' \in [Table -> Rows] /\ durable'[t] = << >>
  <2>1. << >> \in Rows
    BY DEF Rows
  <2> QED BY <1>1, <1>2, <1>3, <2>1
<1>7. stale' \in [Table -> {"no", "cleared", "torn"}] /\ stale'[t] = "cleared"
  BY <1>1, <1>2, <1>3
<1>8. cache' \in Seq(Page)
  BY <1>1
<1>9. CASE op.kind = "truncate"
  <2>1. /\ mem' = [mem EXCEPT !.seq[t] = 0] /\ Return(FALSE)
        /\ acked' = [acked EXCEPT ![t] = << >>] /\ exact' = [exact EXCEPT ![t] = TRUE]
    BY <1>9 DEF ClearTable
  <2>2. op' \in Operation /\ op'.at = "done" /\ op'.kind = "truncate"
    BY <1>2, <1>9, <2>1, ReturnTyped
  <2>3. OpTyped'
    BY <2>2 DEF OpTyped, Inserting
  <2>4. acked' \in [Table -> Rows] /\ acked'[t] = << >>
    <3>1. << >> \in Rows
      BY DEF Rows
    <3> QED BY <1>2, <1>3, <2>1, <3>1
  <2>5. exact' \in [Table -> BOOLEAN] /\ exact'[t] = TRUE
    BY <1>2, <1>3, <2>1, Zenon
  <2>6. DOMAIN mem = {"nextID", "seq"}
    BY <1>3 DEF Counters
  <2>7. mem'.nextID = mem.nextID
    BY <2>1, <2>6, Zenon
  <2>8. mem' \in Counters
    BY <1>2, <1>3, <2>1, CountersTyped
  <2>9. TypeInv'
    BY <1>1, <1>4, <1>5, <1>6, <1>7, <1>8, <2>3, <2>4, <2>5, <2>8 DEF TypeInv
  <2> QED BY <1>1, <1>2, <1>4, <1>5, <1>6, <1>7, <1>9, <2>2, <2>4, <2>5, <2>7, <2>9
<1>10. CASE op.kind # "truncate"
  <2>1. /\ IF op.todo = << >>
             THEN Return(FALSE) /\ acked' = [acked EXCEPT ![op.t] = Outcome(Promised(op.t))]
             ELSE /\ op' = [op EXCEPT !.at = "find"]
                  /\ acked' = [acked EXCEPT ![op.t] = Promised(op.t)]
        /\ UNCHANGED <<mem, exact>>
    BY <1>10 DEF ClearTable
  <2>2. /\ \/ /\ op.todo = << >> /\ op'.at = "done" /\ op'.kind = op.kind
              /\ acked'[op.t] = Outcome(Promised(op.t))
           \/ /\ op.todo # << >> /\ op'.at = "find" /\ op'.todo = op.todo
              /\ op'.kind = op.kind /\ op'.t = op.t /\ op'.key = op.key /\ op'.val = op.val
              /\ acked'[op.t] = Promised(op.t)
        /\ acked' \in [Table -> Rows] /\ OpTyped'
    BY <1>1, <1>10, <2>1, ClearedStep
  <2>3. TypeInv'
    BY <1>1, <1>3, <1>4, <1>5, <1>6, <1>7, <1>8, <2>1, <2>2 DEF TypeInv
  <2> QED BY <1>1, <1>2, <1>4, <1>5, <1>6, <1>7, <1>10, <2>1, <2>2, <2>3
<1> QED BY <1>9, <1>10

\* A Clear that fails keeps the types.
LEMMA ClearFailsTyped ==
    ASSUME TypeInv, ClearFails
    PROVE  faults < MaxFaults /\ TypeInv'
<1> DEFINE t == op.t
           h == [NewHeader EXCEPT !.count = hdr[t].count]
<1>1. /\ op.at = "clear" /\ hdr' = [hdr EXCEPT ![t] = h] /\ cache' = << >>
      /\ faults < MaxFaults /\ faults' = faults + 1
      /\ UNCHANGED <<file, meta, up, mem, durable, stale, crashes>>
  BY DEF ClearFails, Running, disk
<1>2. op \in Operation /\ t \in Table /\ op.kind \in {"update", "delete", "truncate"}
  BY <1>1, OpInProgress DEF TypeInv, OpTyped
<1>3. hdr' \in [Table -> Header]
  <2>1. hdr \in [Table -> Header] /\ hdr[t].count \in Nat
    BY <1>2 DEF TypeInv, Header
  <2>2. h \in Header
    BY <2>1 DEF NewHeader, Header
  <2> HIDE DEF h
  <2> QED BY <1>1, <1>2, <2>1, <2>2
<1>4. faults' \in 0..MaxFaults
  BY <1>1, BoundsAssumption DEF TypeInv
<1>5. cache' \in Seq(Page)
  BY <1>1
<1>6. CASE op.kind = "truncate"
  <2>1. ReturnError
    BY <1>6 DEF ClearFails
  <2>2. acked' \in [Table -> Rows] /\ exact' \in [Table -> BOOLEAN] /\ OpTyped'
    BY <1>1, <1>2, <2>1, ErrorTyped
  <2> QED BY <1>1, <1>3, <1>4, <1>5, <2>2 DEF TypeInv
<1>7. CASE op.kind # "truncate"
  <2>1. /\ IF op.todo = << >>
             THEN Return(FALSE) /\ acked' = [acked EXCEPT ![op.t] = Outcome(Promised(op.t))]
             ELSE /\ op' = [op EXCEPT !.at = "find"]
                  /\ acked' = [acked EXCEPT ![op.t] = Promised(op.t)]
        /\ UNCHANGED exact
    BY <1>7 DEF ClearFails
  <2>2. acked' \in [Table -> Rows] /\ OpTyped'
    BY <1>1, <1>7, <2>1, ClearedStep
  <2> QED BY <1>1, <1>3, <1>4, <1>5, <2>1, <2>2 DEF TypeInv
<1> QED BY <1>1, <1>6, <1>7

\* FlushAll, Close and CloseTableFile write the header of a table.
LEMMA HeaderWrittenStep ==
    ASSUME TypeInv, NEW t \in Table, FlushTable(t) \/ CloseTableFile(t)
    PROVE  /\ \/ op.at = "flush" /\ t \in op.left /\ op'.at = "flush"
              \/ op.at = "start" /\ IsOpen(t) /\ op' = op
           /\ file'[t].pages = file[t].pages /\ file'[t].hdr = hdr[t] /\ hdr'[t] \in {hdr[t], Closed}
           /\ durable'[t] = acked[t] /\ stale'[t] = (IF stale[t] = "cleared" THEN "no" ELSE stale[t])
           /\ UNCHANGED <<meta, up, mem, cache, acked, exact, crashes, faults>>
           /\ TypeInv'
<1>1. /\ file' = [file EXCEPT ![t].hdr = hdr[t]] /\ durable' = [durable EXCEPT ![t] = acked[t]]
      /\ stale' = [stale EXCEPT ![t] = IF @ = "cleared" THEN "no" ELSE @]
      /\ UNCHANGED <<meta, up, mem, cache, acked, exact, crashes, faults>>
  BY DEF FlushTable, CloseTableFile
<1>2. hdr' = hdr \/ hdr' = [hdr EXCEPT ![t] = Closed]
  BY DEF FlushTable, CloseTableFile
<1>3. /\ file \in [Table -> File] /\ hdr \in [Table -> Header] /\ durable \in [Table -> Rows]
      /\ acked \in [Table -> Rows] /\ stale \in [Table -> {"no", "cleared", "torn"}]
  BY DEF TypeInv
<1>4. file' \in [Table -> File] /\ file'[t].pages = file[t].pages /\ file'[t].hdr = hdr[t]
  <2>1. /\ file[t] \in File /\ DOMAIN file[t] = {"hdr", "pages"}
        /\ file' = [file EXCEPT ![t] = [file[t] EXCEPT !.hdr = hdr[t]]]
    BY <1>1, <1>3 DEF File
  <2> DEFINE g == [file[t] EXCEPT !.hdr = hdr[t]]
  <2>2. g.pages = file[t].pages /\ g.hdr = hdr[t]
    BY <2>1, Zenon
  <2>3. hdr[t] \in Header
    BY <1>3
  <2>4. g \in File
    BY <2>1, <2>3, Zenon DEF File
  <2> HIDE DEF g
  <2>5. file'[t] = g /\ file' \in [Table -> File]
    BY <1>3, <2>1, <2>4 DEF g
  <2> QED BY <2>2, <2>5
<1>5. hdr' \in [Table -> Header] /\ hdr'[t] \in {hdr[t], Closed}
  BY <1>2, <1>3, NewTyped
<1>6. durable' \in [Table -> Rows] /\ durable'[t] = acked[t]
  BY <1>1, <1>3
<1>7. /\ stale' \in [Table -> {"no", "cleared", "torn"}]
      /\ stale'[t] = (IF stale[t] = "cleared" THEN "no" ELSE stale[t])
  BY <1>1, <1>3
<1>8. CASE FlushTable(t)
  <2>1. op.at = "flush" /\ t \in op.left /\ op' = [op EXCEPT !.left = op.left \ {t}]
    BY <1>8 DEF FlushTable, Running
  <2>2. op \in Operation /\ op.left \ {t} \in SUBSET Table
    BY <2>1, OpInProgress
  <2>3. op' \in Operation /\ op'.at = "flush"
    BY <2>1, <2>2, OpVisits
  <2>4. OpTyped'
    BY <2>3 DEF OpTyped, Inserting
  <2>5. TypeInv'
    BY <1>1, <1>4, <1>5, <1>6, <1>7, <2>4 DEF TypeInv
  <2> QED BY <1>1, <1>4, <1>5, <1>6, <1>7, <2>1, <2>3, <2>5
<1>9. CASE CloseTableFile(t)
  <2>1. op.at = "start" /\ IsOpen(t) /\ op' = op
    BY <1>9 DEF CloseTableFile, Running
  <2>2. OpTyped'
    BY <2>1 DEF TypeInv, OpTyped, Inserting
  <2>3. TypeInv'
    BY <1>1, <1>4, <1>5, <1>6, <1>7, <2>2 DEF TypeInv
  <2> QED BY <1>1, <1>4, <1>5, <1>6, <1>7, <2>1, <2>3
<1> QED BY <1>8, <1>9

\* A header that cannot be written.
LEMMA HeaderLostTyped ==
    ASSUME TypeInv, NEW t \in Table, FlushTableFails(t) \/ CloseTableFileFails(t)
    PROVE  faults < MaxFaults /\ TypeInv'
<1>1. /\ faults < MaxFaults /\ faults' = faults + 1
      /\ UNCHANGED <<file, meta, up, mem, cache, crashes, durable>>
  BY DEF FlushTableFails, CloseTableFileFails, LoseHandle, disk, history
<1>2. /\ file \in [Table -> File] /\ hdr \in [Table -> Header] /\ durable \in [Table -> Rows]
      /\ acked \in [Table -> Rows] /\ stale \in [Table -> {"no", "cleared", "torn"}]
      /\ exact \in [Table -> BOOLEAN]
  BY DEF TypeInv
<1>3. faults' \in 0..MaxFaults
  BY <1>1, BoundsAssumption DEF TypeInv
<1>4. /\ hdr' \in [Table -> Header] /\ acked' \in [Table -> Rows] /\ exact' \in [Table -> BOOLEAN]
      /\ stale' \in [Table -> {"no", "cleared", "torn"}]
  <2>1. CASE LoseHandle(t)
    <3>1. /\ hdr' = [hdr EXCEPT ![t] = Closed] /\ acked' = [acked EXCEPT ![t] = durable[t]]
          /\ exact' = [exact EXCEPT ![t] = FALSE]
          /\ stale' = [stale EXCEPT ![t] = IF @ = "no" THEN "no" ELSE "torn"]
      BY <2>1 DEF LoseHandle
    <3>2. hdr' \in [Table -> Header] /\ acked' \in [Table -> Rows]
      BY <1>2, <3>1, NewTyped
    <3>3. exact' \in [Table -> BOOLEAN]
      BY <1>2, <3>1, Zenon
    <3>4. stale' \in [Table -> {"no", "cleared", "torn"}]
      BY <1>2, <3>1
    <3> QED BY <3>2, <3>3, <3>4
  <2>2. CASE UNCHANGED <<hdr, acked, exact, stale>>
    BY <1>2, <2>2
  <2> QED BY <2>1, <2>2 DEF FlushTableFails, CloseTableFileFails, history
<1>5. OpTyped'
  <2>1. CASE FlushTableFails(t)
    <3>1. /\ op.at = "flush"
          /\ op' = [op EXCEPT !.left = op.left \ {t}] \/ Return(TRUE)
      BY <2>1 DEF FlushTableFails, Running
    <3>2. op \in Operation /\ op.left \ {t} \in SUBSET Table
      BY <3>1, OpInProgress
    <3>3. op' \in Operation /\ op'.at \in {"flush", "done"}
      <4>1. CASE op' = [op EXCEPT !.left = op.left \ {t}]
        BY <3>1, <3>2, <4>1, OpVisits
      <4>2. CASE Return(TRUE)
        BY <3>2, <4>2, ReturnTyped
      <4> QED BY <3>1, <4>1, <4>2
    <3> QED BY <3>3 DEF OpTyped, Inserting
  <2>2. CASE CloseTableFileFails(t)
    BY <2>2 DEF CloseTableFileFails, TypeInv, OpTyped, Inserting
  <2> QED BY <2>1, <2>2
<1> QED BY <1>1, <1>3, <1>4, <1>5 DEF TypeInv

\* FlushAll and Close start with the tables that are open.
LEMMA StartFlushStep ==
    ASSUME TypeInv, NEW kind \in {"flush", "close"}, StartFlush(kind)
    PROVE  /\ op.at = "start" /\ op'.at = "flush"
           /\ UNCHANGED <<file, meta, up, mem, hdr, cache, acked, exact, durable, stale, crashes, faults>>
           /\ TypeInv'
<1> DEFINE l == {t \in Table : IsOpen(t)}
<1>1. /\ op.at = "start" /\ op' = [NewOp(kind, AllTables, "flush") EXCEPT !.left = l]
      /\ UNCHANGED <<file, meta, up, mem, hdr, cache, acked, exact, durable, stale, crashes, faults>>
  BY DEF StartFlush, Running, disk, history
<1>2. l \in SUBSET Table
  OBVIOUS
<1> HIDE DEF l
<1>3. kind \in Kinds /\ "flush" \in Steps /\ AllTables \in Table \cup {AllTables}
  BY DEF Kinds, Steps
<1>4. op' \in Operation /\ op'.at = "flush"
  BY <1>1, <1>2, <1>3, OpFlushes
<1>5. OpTyped'
  BY <1>4 DEF OpTyped, Inserting
<1>6. TypeInv'
  BY <1>1, <1>5 DEF TypeInv
<1> QED BY <1>1, <1>4, <1>6

\* The steps that neither write nor insert.
LEMMA QuietSteps ==
    ASSUME TypeInv, FlushEnds \/ Finish \/ Checkpoint
    PROVE  /\ op.at \in {"flush", "done", "start"}
           /\ \/ op'.at = "done" /\ op'.kind = op.kind /\ op.kind = "flush"
              \/ op'.at = "start"
           /\ mem' = mem /\ (meta' = meta \/ (meta' = mem /\ up))
           /\ UNCHANGED <<file, up, hdr, cache, acked, exact, durable, stale, crashes, faults>>
           /\ TypeInv'
<1>1. /\ (mem' = mem /\ meta' = meta) \/ (meta' = mem /\ up)
      /\ UNCHANGED <<file, up, hdr, cache, acked, exact, durable, stale, crashes, faults>>
  BY DEF FlushEnds, Finish, Checkpoint, Running, disk, history
<1>2. CASE FlushEnds
  <2>1. op.at = "flush" /\ op.kind = "flush" /\ Return(FALSE)
    BY <1>2 DEF FlushEnds, Running
  <2>2. op \in Operation
    BY <2>1, OpInProgress
  <2>3. op' \in Operation /\ op'.at = "done" /\ op'.kind = op.kind
    BY <2>1, <2>2, ReturnTyped
  <2>4. OpTyped'
    BY <2>3 DEF OpTyped, Inserting
  <2>5. mem' = mem /\ (meta' = meta \/ (meta' = mem /\ up))
    BY <1>2 DEF FlushEnds, disk
  <2>6. TypeInv'
    BY <1>1, <2>4, <2>5 DEF TypeInv
  <2> QED BY <1>1, <2>1, <2>3, <2>5, <2>6
<1>3. CASE Finish \/ Checkpoint
  <2>1. op.at \in {"start", "done"} /\ op'.at = "start" /\ (op' = Idle \/ op' = op)
    BY <1>3 DEF Finish, Checkpoint, Running, Idle
  <2>2. OpTyped'
    BY <2>1 DEF TypeInv, OpTyped, Inserting, Idle
  <2>3. mem' = mem /\ (meta' = meta \/ (meta' = mem /\ up))
    BY <1>3 DEF Finish, Checkpoint, disk, Running
  <2>4. TypeInv'
    BY <1>1, <2>2, <2>3 DEF TypeInv
  <2> QED BY <1>1, <2>1, <2>3, <2>4
<1> QED BY <1>2, <1>3

\* GetTableFile opens the handle.
LEMMA GetTableFileStep ==
    ASSUME TypeInv, NEW t \in Table, GetTableFile(t)
    PROVE  /\ op.at = "start" /\ hdr' = Opened(t)
           /\ UNCHANGED <<file, meta, up, mem, cache, op, acked, exact, durable, stale, crashes, faults>>
           /\ TypeInv'
<1>1. /\ op.at = "start" /\ hdr' = Opened(t)
      /\ UNCHANGED <<file, meta, up, mem, cache, op, acked, exact, durable, stale, crashes, faults>>
  BY DEF GetTableFile, Running, disk, history
<1>2. hdr' \in [Table -> Header]
  BY <1>1, OpenedTyped
<1>3. OpTyped'
  BY <1>1 DEF TypeInv, OpTyped, Inserting
<1>4. TypeInv'
  BY <1>1, <1>2, <1>3 DEF TypeInv
<1> QED BY <1>1, <1>4

\* The database is closed, or opened.
LEMMA RestartStep ==
    ASSUME TypeInv, CloseEnds \/ Open
    PROVE  /\ \/ op.at = "flush" /\ op'.at = "start" /\ cache' = << >> /\ up' = FALSE
                 /\ meta' = mem /\ mem' = mem
              \/ up = FALSE /\ up' = TRUE /\ op' = op /\ cache' = cache /\ meta' = meta /\ mem' = meta
           /\ UNCHANGED <<file, hdr, acked, exact, durable, stale, crashes, faults>>
           /\ TypeInv'
<1>1. UNCHANGED <<file, hdr, acked, exact, durable, stale, crashes, faults>>
  BY DEF CloseEnds, Open, disk, history
<1>2. CASE CloseEnds
  <2>1. op.at = "flush" /\ op' = Idle /\ cache' = << >> /\ up' = FALSE /\ meta' = mem /\ mem' = mem
    BY <1>2 DEF CloseEnds, Running
  <2>2. OpTyped' /\ op'.at = "start"
    BY <2>1 DEF OpTyped, Inserting, Idle
  <2>3. cache' \in Seq(Page)
    BY <2>1
  <2>4. TypeInv'
    BY <1>1, <2>1, <2>2, <2>3 DEF TypeInv
  <2> QED BY <1>1, <2>1, <2>2, <2>4
<1>3. CASE Open
  <2>1. /\ ~up /\ up' = TRUE /\ op' = op /\ cache' = cache /\ meta' = meta /\ mem' = meta
    BY <1>3 DEF Open, disk
  <2>2. OpTyped'
    BY <2>1 DEF TypeInv, OpTyped, Inserting
  <2>3. TypeInv'
    BY <1>1, <2>1, <2>2 DEF TypeInv
  <2>4. up = FALSE
    BY <2>1 DEF TypeInv
  <2> QED BY <1>1, <2>1, <2>3, <2>4
<1> QED BY <1>2, <1>3

\* A crash leaves the files, and what was durable.
LEMMA CrashStep ==
    ASSUME TypeInv, Crash
    PROVE  /\ op'.at = "start" /\ cache' = << >> /\ up' = FALSE /\ crashes' = crashes + 1 /\ crashes' # 0
           /\ \A t \in Table : /\ hdr'[t] = Closed /\ exact'[t] = FALSE
                               /\ stale'[t] = (IF stale[t] = "no" THEN "no" ELSE "torn")
           /\ acked' = durable
           /\ UNCHANGED <<file, meta, mem, durable, faults>>
           /\ TypeInv'
<1>1. /\ op' = Idle /\ cache' = << >> /\ up' = FALSE /\ crashes' = crashes + 1 /\ acked' = durable
      /\ hdr' = [t \in Table |-> Closed] /\ exact' = [t \in Table |-> FALSE]
      /\ stale' = [t \in Table |-> IF stale[t] = "no" THEN "no" ELSE "torn"]
      /\ UNCHANGED <<file, meta, mem, durable, faults>> /\ crashes < MaxCrashes
  BY DEF Crash, disk
<1>2. OpTyped' /\ op'.at = "start"
  BY <1>1 DEF OpTyped, Inserting, Idle
<1>3. crashes' \in 0..MaxCrashes /\ crashes' # 0
  BY <1>1, BoundsAssumption DEF TypeInv
<1>4. cache' \in Seq(Page)
  BY <1>1
<1>5. hdr' \in [Table -> Header] /\ \A t \in Table : hdr'[t] = Closed
  BY <1>1, NewTyped
<1>6. exact' \in [Table -> BOOLEAN] /\ \A t \in Table : exact'[t] = FALSE
  BY <1>1
<1>7. /\ stale' \in [Table -> {"no", "cleared", "torn"}]
      /\ \A t \in Table : stale'[t] = (IF stale[t] = "no" THEN "no" ELSE "torn")
  BY <1>1 DEF TypeInv
<1>8. TypeInv'
  BY <1>1, <1>2, <1>3, <1>4, <1>5, <1>6, <1>7 DEF TypeInv
<1> QED BY <1>1, <1>2, <1>3, <1>5, <1>6, <1>7, <1>8

\* Every value stays what it is: pages pages, headers headers, rows rows, whatever fails.
THEOREM TypeInvariant == Spec => []TypeInv
<1>1. Init => TypeInv
  <2> SUFFICES ASSUME Init PROVE TypeInv
    OBVIOUS
  <2> DEFINE f0 == [hdr |-> NewHeader, pages |-> << >>]
  <2>1. f0 \in File /\ << >> \in Rows /\ << >> \in Seq(Page)
    BY NewTyped DEF File, Rows
  <2>2. /\ file = [t \in Table |-> f0] /\ hdr = [t \in Table |-> NewHeader] /\ cache = << >>
        /\ acked = [t \in Table |-> << >>] /\ durable = [t \in Table |-> << >>]
    BY DEF Init
  <2> HIDE DEF f0
  <2>3. /\ file \in [Table -> File] /\ hdr \in [Table -> Header] /\ cache \in Seq(Page)
        /\ acked \in [Table -> Rows] /\ durable \in [Table -> Rows]
    BY <2>1, <2>2, NewTyped
  <2>4. meta = [nextID |-> 1, seq |-> [t \in Table |-> 0]] /\ mem = meta
    BY DEF Init
  <2>5. mem \in Counters /\ meta \in Counters
    BY <2>4 DEF Counters
  <2>6. up = TRUE /\ exact = [t \in Table |-> TRUE] /\ stale = [t \in Table |-> "no"] /\ crashes = 0 /\ faults = 0
    BY DEF Init
  <2>7. /\ up \in BOOLEAN /\ exact \in [Table -> BOOLEAN] /\ stale \in [Table -> {"no", "cleared", "torn"}]
        /\ crashes \in 0..MaxCrashes /\ faults \in 0..MaxFaults
    BY <2>6, BoundsAssumption
  <2>8. OpTyped
    BY DEF Init, OpTyped, Inserting, Idle
  <2> QED BY <2>3, <2>5, <2>7, <2>8 DEF TypeInv
<1>2. StoreInv /\ TypeInv /\ [Next]_vars => TypeInv'
  <2> SUFFICES ASSUME StoreInv, TypeInv, [Next]_vars PROVE TypeInv'
    OBVIOUS
  <2>1. ASSUME NEW t \in Table,
               \/ InsertRow(t) \/ InsertTooLarge(t) \/ GetRows(t) \/ GetTableFile(t)
               \/ TruncateTable(t) \/ TruncateUnopened(t)
        PROVE  TypeInv'
    BY <2>1, Zenon, InsertRowStep, InsertTooLargeStep, GetRowsStep, GetTableFileStep, TruncateTableStep,
       TruncateUnopenedStep
  <2>2. ASSUME NEW t \in Table,
               FlushTable(t) \/ FlushTableFails(t) \/ CloseTableFile(t) \/ CloseTableFileFails(t)
        PROVE  TypeInv'
    BY <2>2, Zenon, HeaderWrittenStep, HeaderLostTyped
  <2>3. ASSUME NEW t \in Table, NEW k \in Keys,
               \/ UpdateRows(t, k) \/ DeleteRows(t, k)
               \/ UpdateRowsWithCallback(t, k) \/ DeleteRowsWithCallback(t, k)
        PROVE  TypeInv'
    <3>1. k \in Nat
      BY BoundsAssumption DEF Keys
    <3> QED BY <2>3, <3>1, Zenon, RewriteStep, CallbackStep
            DEF UpdateRows, DeleteRows, UpdateRowsWithCallback, DeleteRowsWithCallback
  <2>4. CASE \/ FindPage \/ FindPageFails \/ AllocatePage \/ AllocateFails \/ WriteRow \/ WriteRowFails
             \/ \E ok \in BOOLEAN : LinkPage(ok)
    BY <2>4, Zenon, FindPageStep, FindPageFailsStep, AllocatePageStep, WriteRowStep, InsertFailsTyped,
       LinkPageStep
  <2>5. CASE ScanPage \/ ScanPageFails \/ ScanEnds \/ ClearTable \/ ClearFails
    BY <2>5, Zenon, ScanPageStep, ScanPageFailsStep, ScanEndsStep, ClearTableStep, ClearFailsTyped
  <2>6. CASE FlushAll \/ Close \/ FlushEnds \/ CloseEnds \/ Checkpoint \/ Finish \/ Open \/ Crash
    BY <2>6, Zenon, StartFlushStep, QuietSteps, RestartStep, CrashStep DEF FlushAll, Close
  <2>7. CASE UNCHANGED vars
    BY <2>7 DEF vars, TypeInv, OpTyped, Inserting
  <2> QED BY <2>1, <2>2, <2>3, <2>4, <2>5, <2>6, <2>7, Zenon DEF Next
<1> QED BY <1>1, <1>2, StoreInvariant, PTL DEF Spec

\* Every variable has its type, for any tables, bounds, crashes and failed writes.
THEOREM TypesHold == Spec => []TypeOK
<1>1. TypeInv => TypeOK
  BY CountersTyped DEF TypeInv, TypeOK, File
<1> QED BY <1>1, TypeInvariant, PTL

----------------------------------------------------------------------------
(* One table, and no write fails.  Then the cache holds what the file holds. *)

OneTable == \A t, u \in Table : t = u
NoFaults == MaxFaults = 0

\* The file has the page at the offset of its number.
Stores(f, pg) == pg.id \in 1..Len(f.pages) /\ f.pages[pg.id] = pg

Agrees(c, f) == \A i \in 1..Len(c) : c[i].id # 0 => Stores(f, c[i])

\* In the middle of an operation too, every cached page and the page that is about to be
\* linked or to get a row is on disk.
CoherentInv ==
    /\ \A t \in Table : Agrees(cache, file[t])
    /\ op.at \in {"link", "row"} => Stores(file[op.t], op.target)

\* A page is written at its number; the others stay.
LEMMA WriteStores ==
    ASSUME NEW f \in File, NEW pg \in Page
    PROVE  /\ pg.id # 0 => Stores(WriteAt(f, pg), pg)
           /\ \A q \in Page : q.id # pg.id /\ Stores(f, q) => Stores(WriteAt(f, pg), q)
<1> DEFINE g == WriteAt(f, pg)
<1>1. f.pages \in Seq(Page) /\ Len(f.pages) \in Nat /\ pg.id \in Nat
  BY DEF File, Page
<1>2. CASE pg.id = 0
  <2>1. g.pages = f.pages
    BY <1>2, WriteAtTyped
  <2> QED BY <1>2, <2>1 DEF Stores
<1>3. CASE pg.id # 0
  <2> DEFINE n == Len(g.pages)
  <2>1. n = (IF pg.id > Len(f.pages) THEN pg.id ELSE Len(f.pages))
    BY <1>3, WriteAtTyped
  <2>2. \A i \in 1..n : g.pages[i] = IF i = pg.id THEN pg ELSE IF i <= Len(f.pages) THEN f.pages[i] ELSE Hole
    BY <1>3, WriteAtTyped
  <2> HIDE DEF g
  <2>3. n \in Nat /\ pg.id \in 1..n /\ \A i \in 1..Len(f.pages) : i \in 1..n
    BY <1>1, <1>3, <2>1
  <2> HIDE DEF n
  <2>4. pg.id \in 1..n /\ g.pages[pg.id] = pg
    BY <2>2, <2>3
  <2>5. ASSUME NEW q \in Page, q.id # pg.id, Stores(f, q)
        PROVE  q.id \in 1..n /\ g.pages[q.id] = q
    <3>1. q.id \in 1..Len(f.pages) /\ f.pages[q.id] = q
      BY <2>5 DEF Stores
    <3> QED BY <1>1, <2>2, <2>3, <2>5, <3>1
  <2> QED BY <1>3, <2>4, <2>5 DEF Stores, n, g
<1> QED BY <1>2, <1>3

\* A page that is on disk is put into the cache, and the others are on disk still.
LEMMA PutAgrees ==
    ASSUME Pages(cache), cache \in Seq(Page), CacheBounded, NEW f, NEW g, NEW pg \in Page, Agrees(cache, f),
           \A q \in Page : q.id # pg.id /\ Stores(f, q) => Stores(g, q),
           pg.id # 0 => Stores(g, pg)
    PROVE  Agrees(CachePut(pg), g)
<1> DEFINE old == {cache[j] : j \in 1..Len(cache)}
           new == CachePut(pg)
<1>1. cache \in Seq(old \cup {pg})
  OBVIOUS
<1>2. pg \in old \cup {pg}
  OBVIOUS
<1>3. \A q \in old : q \in Page /\ (q.id # 0 => Stores(f, q))
  BY DEF Agrees
<1> HIDE DEF old
<1>4. new \in Seq(old \cup {pg}) /\ Len(new) > 0 /\ new[1] = pg
  BY <1>1, <1>2, CachePutSeq
<1>5. \A i, j \in 1..Len(new) : new[i].id = new[j].id => i = j
  BY CachePutBounded
<1> HIDE DEF new
<1>6. ASSUME NEW i \in 1..Len(new), new[i].id # 0 PROVE Stores(g, new[i])
  <2>1. Len(new) \in Nat /\ 1 \in 1..Len(new) /\ new[i] \in old \cup {pg}
    BY <1>4
  <2>2. CASE new[i] = pg
    BY <1>6, <2>2
  <2>3. CASE new[i] # pg
    <3>1. i # 1 /\ new[i] \in old
      BY <1>4, <2>1, <2>3
    <3>2. new[i].id # pg.id
      BY <1>4, <1>5, <2>1, <3>1
    <3> QED BY <1>3, <1>6, <3>1, <3>2
  <2> QED BY <2>2, <2>3
<1> QED BY <1>6 DEF Agrees, new

\* What is read, from the cache or the file, is what the file has there.
LEMMA CoherentRead ==
    ASSUME TypeInv, ChainInv, CoherentInv, NEW t \in Table, NEW p \in Nat \ {0}
    PROVE  /\ CanRead(t, p) <=> p \in 1..Len(file[t].pages)
           /\ CanRead(t, p) => /\ ReadPage(t, p) = file[t].pages[p] /\ ReadPage(t, p) \in Page
                               /\ ReadPage(t, p).id \in {0, p}
                               /\ ReadPage(t, p).id # 0 => Stores(file[t], ReadPage(t, p))
<1>1. ASSUME InCache(p) PROVE p \in 1..Len(file[t].pages) /\ CachedPage(p) = file[t].pages[p]
  <2>1. CachedAt(p) \in 1..Len(cache) /\ CachedPage(p) = cache[CachedAt(p)] /\ CachedPage(p).id = p
    BY <1>1, CachedAtOK
  <2>2. Stores(file[t], CachedPage(p))
    BY <2>1 DEF CoherentInv, Agrees
  <2> QED BY <2>1, <2>2 DEF Stores
<1>2. CanRead(t, p) <=> p \in 1..Len(file[t].pages)
  BY <1>1 DEF CanRead
<1>3. ASSUME CanRead(t, p)
      PROVE  /\ ReadPage(t, p) = file[t].pages[p] /\ ReadPage(t, p) \in Page
             /\ ReadPage(t, p).id \in {0, p}
             /\ ReadPage(t, p).id # 0 => Stores(file[t], ReadPage(t, p))
  <2>1. ReadPage(t, p) = file[t].pages[p]
    BY <1>1 DEF ReadPage
  <2>2. ReadPage(t, p) \in Page /\ ReadPage(t, p).id \in {0, p}
    BY <1>3, ReadPageTyped, ReadPageOK
  <2>3. p \in 1..Len(file[t].pages)
    BY <1>2, <1>3
  <2> QED BY <2>1, <2>2, <2>3 DEF Stores
<1> QED BY <1>2, <1>3

\* A step that writes no page and puts none into the cache.
LEMMA CoherentKept ==
    ASSUME TypeInv, CoherentInv, \A u \in Table : file'[u].pages = file[u].pages,
           cache' = cache \/ cache' = << >>,
           \/ op'.at \notin {"link", "row"}
           \/ op' = op
    PROVE  CoherentInv'
<1>1. \A u \in Table : Agrees(cache', file'[u])
  <2>1. CASE cache' = << >>
    BY <2>1 DEF Agrees
  <2>2. CASE cache' = cache
    BY <2>2 DEF Agrees, Stores, CoherentInv
  <2> QED BY <2>1, <2>2
<1>2. op'.at \in {"link", "row"} => Stores(file'[op'.t], op'.target)
  <2> SUFFICES ASSUME op'.at \in {"link", "row"} PROVE Stores(file'[op'.t], op'.target)
    OBVIOUS
  <2>1. op' = op /\ op.at \in {"link", "row"}
    OBVIOUS
  <2>2. op.t \in Table
    BY <2>1 DEF TypeInv, OpTyped, Inserting
  <2> QED BY <2>1, <2>2 DEF CoherentInv, Stores
<1> QED BY <1>1, <1>2 DEF CoherentInv

\* A step that reads a page and writes none.
LEMMA CoherentAfterRead ==
    ASSUME OneTable, TypeInv, ChainInv, CacheBounded, CoherentInv, NEW t \in Table, NEW p \in Nat \ {0},
           CanRead(t, p), cache' = CachePut(ReadPage(t, p)), file' = file
    PROVE  /\ \A u \in Table : Agrees(cache', file'[u])
           /\ ReadPage(t, p).id # 0 => Stores(file'[t], ReadPage(t, p))
<1> DEFINE pg == ReadPage(t, p)
<1>1. pg \in Page /\ (pg.id # 0 => Stores(file[t], pg))
  BY CoherentRead
<1> HIDE DEF pg
<1>2. Pages(cache) /\ cache \in Seq(Page) /\ Agrees(cache, file[t])
  BY DEF ChainInv, TypeInv, CoherentInv
<1>3. Agrees(CachePut(pg), file[t])
  BY <1>1, <1>2, PutAgrees
<1>4. cache' = CachePut(pg)
  BY DEF pg
<1> QED BY <1>1, <1>3, <1>4 DEF OneTable, pg

\* A step that writes a page and puts it into the cache.
LEMMA CoherentAfterWrite ==
    ASSUME OneTable, TypeInv, ChainInv, CacheBounded, CoherentInv, NEW t \in Table, NEW pg \in Page,
           pg.id # 0, cache' = CachePut(pg), file'[t] = WriteAt(file[t], pg)
    PROVE  /\ \A u \in Table : Agrees(cache', file'[u])
           /\ Stores(file'[t], pg)
           /\ \A q \in Page : q.id # pg.id /\ Stores(file[t], q) => Stores(file'[t], q)
<1> DEFINE f == file[t]
           g == WriteAt(f, pg)
<1>1. f \in File
  BY DEF TypeInv
<1> HIDE DEF f
<1>2. /\ pg.id # 0 => Stores(g, pg)
      /\ \A q \in Page : q.id # pg.id /\ Stores(f, q) => Stores(g, q)
  BY <1>1, WriteStores
<1> HIDE DEF g
<1>3. Pages(cache) /\ cache \in Seq(Page) /\ Agrees(cache, f)
  BY DEF ChainInv, TypeInv, CoherentInv, f
<1>4. Agrees(CachePut(pg), g)
  BY <1>2, <1>3, PutAgrees
<1>5. file'[t] = g
  BY DEF f, g
<1> QED BY <1>2, <1>4, <1>5 DEF OneTable, f

\* FindPage only reads: the cache agrees with the file afterwards.
LEMMA FindPageCoherent ==
    ASSUME OneTable, TypeInv, ChainInv, CacheBounded, CoherentInv, FindPage PROVE CoherentInv'
<1> DEFINE t == op.t
           p == hdr[t].last
<1>1. /\ t \in Table /\ op'.t = t /\ file' = file /\ hdr[t] \in Header
      /\ \/ op'.at = "alloc" /\ cache' = cache
         \/ /\ p # 0 /\ CanRead(t, p) /\ cache' = CachePut(ReadPage(t, p)) /\ op'.target = ReadPage(t, p)
            /\ op'.at = "row" => Fits(ReadPage(t, p))
            /\ op'.at \in {"alloc", "row"}
  BY FindPageStep DEF TypeInv
<1>2. p \in Nat
  BY <1>1 DEF Header
<1> HIDE DEF t, p
<1>3. CASE op'.at = "alloc" /\ cache' = cache
  BY <1>1, <1>3, CoherentKept
<1>4. CASE /\ p # 0 /\ CanRead(t, p) /\ cache' = CachePut(ReadPage(t, p)) /\ op'.target = ReadPage(t, p)
           /\ op'.at = "row" => Fits(ReadPage(t, p))
           /\ op'.at \in {"alloc", "row"}
  <2>1. p \in Nat \ {0}
    BY <1>2, <1>4
  <2>2. /\ \A u \in Table : Agrees(cache', file'[u])
        /\ ReadPage(t, p).id # 0 => Stores(file'[t], ReadPage(t, p))
    BY <1>1, <1>4, <2>1, CoherentAfterRead
  <2>3. op'.at = "row" => Stores(file'[op'.t], op'.target)
    BY <1>1, <1>4, <2>2 DEF Fits
  <2> QED BY <1>4, <2>2, <2>3 DEF CoherentInv
<1> QED BY <1>1, <1>3, <1>4

\* The new page is written to the file and the cache.
LEMMA AllocatePageCoherent ==
    ASSUME OneTable, StoreInv, TypeInv, ChainInv, CacheBounded, CoherentInv, AllocatePage PROVE CoherentInv'
<1> DEFINE t == op.t
           n == hdr[t].count
           pg == NewPage(n)
<1>1. /\ op.at = "alloc" /\ t \in Table /\ op'.target = pg /\ op'.t = t
      /\ file'[t] = WriteAt(file[t], pg) /\ cache' = CachePut(pg)
  BY AllocatePageStep
<1>2. n \in Nat \ {0}
  BY <1>1 DEF StoreInv, OpOK, HeadersOK, Good, Header
<1> HIDE DEF t, n
<1>3. pg \in Page /\ pg.id # 0
  BY <1>2, NewTyped, NewPageOK
<1> HIDE DEF pg
<1>4. (\A u \in Table : Agrees(cache', file'[u])) /\ Stores(file'[t], pg)
  BY <1>1, <1>3, CoherentAfterWrite
<1> QED BY <1>1, <1>4 DEF CoherentInv

\* The page with the row is written to the file and the cache.
LEMMA WriteRowCoherent ==
    ASSUME OneTable, TypeInv, ChainInv, CacheBounded, CoherentInv, WriteRow PROVE CoherentInv'
<1> DEFINE t == op.t
           pg == PageToWrite
<1>1. /\ op.at = "row" /\ t \in Table /\ op'.at \in {"find", "done"}
      /\ file'[t] = WriteAt(file[t], pg) /\ cache' = CachePut(pg)
  BY WriteRowStep
<1>2. pg \in Page /\ pg.id = op.target.id
  BY <1>1, PageToWriteTyped
<1>3. pg.id # 0
  BY <1>1, <1>2 DEF CoherentInv, Stores
<1> HIDE DEF t, pg
<1>4. \A u \in Table : Agrees(cache', file'[u])
  BY <1>1, <1>2, <1>3, CoherentAfterWrite
<1> QED BY <1>1, <1>4 DEF CoherentInv

\* The page that is linked to keeps its number, which is not that of the new page.
LEMMA LinkPageCoherent ==
    ASSUME OneTable, NoFaults, StoreInv, TypeInv, ChainInv, CacheBounded, CoherentInv,
           NEW ok \in BOOLEAN, LinkPage(ok)
    PROVE  CoherentInv'
<1> DEFINE t == op.t
           p == hdr[t].last
           old == ReadPage(t, p)
           pg == [old EXCEPT !.right = op.target.id]
<1>1. /\ op.at = "link" /\ t \in Table /\ op'.at = "row" /\ op'.target = op.target /\ op'.t = t
      /\ IF CanRead(t, p)
           THEN /\ cache' = CachePut(pg) /\ pg \in Page
                /\ file' = IF ok THEN [file EXCEPT ![t] = WriteAt(@, pg)] ELSE file
           ELSE UNCHANGED <<cache, file>>
      /\ ok \/ faults < MaxFaults
  BY LinkPageStep
<1>2. ok
  BY <1>1 DEF NoFaults, TypeInv
<1>3. p \in Nat \ {0} /\ p < op.target.id
  BY <1>1 DEF StoreInv, OpOK, HeadersOK, Good, Header, ChainInv
<1>4. Stores(file[t], op.target) /\ op.target \in Page
  BY <1>1, OpInProgress DEF CoherentInv
<1>5. CASE ~CanRead(t, p)
  <2>1. cache' = cache /\ file' = file
    BY <1>1, <1>5
  <2>2. Stores(file'[op'.t], op'.target)
    BY <1>1, <1>4, <2>1
  <2> QED BY <2>1, <2>2 DEF CoherentInv
<1>6. CASE CanRead(t, p)
  <2>1. cache' = CachePut(pg) /\ pg \in Page /\ file' = [file EXCEPT ![t] = WriteAt(@, pg)]
    BY <1>1, <1>2, <1>6
  <2>2. file'[t] = WriteAt(file[t], pg)
    BY <1>1, <2>1 DEF TypeInv
  <2>3. old \in Page /\ old.id \in {0, p} /\ pg.id = old.id
    BY <1>1, <1>3, <1>6, CoherentRead DEF Page
  <2>4. pg.id # op.target.id /\ op.target.id # 0
    BY <1>3, <2>3, <1>4 DEF Page
  <2>5. CASE pg.id # 0
    <3> HIDE DEF t, p, pg
    <3>1. /\ \A u \in Table : Agrees(cache', file'[u])
          /\ \A q \in Page : q.id # pg.id /\ Stores(file[t], q) => Stores(file'[t], q)
      BY <1>1, <2>1, <2>2, <2>5, CoherentAfterWrite
    <3>2. Stores(file'[op'.t], op'.target)
      BY <1>1, <1>4, <2>4, <3>1
    <3> QED BY <3>1, <3>2 DEF CoherentInv
  <2>6. CASE pg.id = 0
    <3> DEFINE f == file[t]
               g == WriteAt(f, pg)
    <3>1. f \in File /\ f.pages \in Seq(Page)
      BY <1>1 DEF TypeInv, File
    <3> HIDE DEF t, p, pg, f
    <3>2. g.pages = f.pages
      BY <2>1, <2>6, <3>1, WriteAtTyped
    <3> HIDE DEF g
    <3>3. Pages(cache) /\ cache \in Seq(Page) /\ Agrees(cache, f)
      BY <1>1 DEF ChainInv, TypeInv, CoherentInv, f
    <3>4. \A q : Stores(f, q) => Stores(g, q)
      BY <3>2 DEF Stores
    <3>5. Agrees(CachePut(pg), g)
      BY <2>1, <2>6, <3>3, <3>4, PutAgrees
    <3>6. file'[t] = g
      BY <2>2 DEF f, g
    <3>7. \A u \in Table : Agrees(cache', file'[u])
      BY <1>1, <2>1, <3>5, <3>6 DEF OneTable
    <3>8. Stores(file'[op'.t], op'.target)
      BY <1>1, <1>4, <3>4, <3>6 DEF f
    <3> QED BY <3>7, <3>8 DEF CoherentInv
  <2> QED BY <2>5, <2>6
<1> QED BY <1>5, <1>6

\* A scan only reads.
LEMMA ScanPageCoherent ==
    ASSUME OneTable, TypeInv, ChainInv, CacheBounded, CoherentInv, ScanPage PROVE CoherentInv'
<1> DEFINE t == op.t
           p == op.page
<1>1. /\ t \in Table /\ p # 0 /\ p \in Nat /\ CanRead(t, p) /\ op'.at = "scan"
      /\ cache' = CachePut(ReadPage(t, p)) /\ file' = file
  BY ScanPageStep
<1> HIDE DEF t, p
<1>2. p \in Nat \ {0}
  BY <1>1
<1>3. \A u \in Table : Agrees(cache', file'[u])
  BY <1>1, <1>2, CoherentAfterRead
<1> QED BY <1>1, <1>3 DEF CoherentInv

\* A cleared table has no page, in the cache or on disk.
LEMMA ClearTableCoherent == ASSUME TypeInv, ClearTable PROVE CoherentInv'
<1>1. cache' = << >> /\ op'.at \in {"find", "done"}
  BY ClearTableStep
<1> QED BY <1>1 DEF CoherentInv, Agrees

\* The steps that open a handle or write a header change no page.
LEMMA TableCoherent ==
    ASSUME OneTable, NoFaults, TypeInv, CoherentInv, NEW t \in Table,
           \/ InsertRow(t) \/ InsertTooLarge(t) \/ GetRows(t) \/ GetTableFile(t)
           \/ TruncateTable(t) \/ TruncateUnopened(t)
           \/ FlushTable(t) \/ FlushTableFails(t) \/ CloseTableFile(t) \/ CloseTableFileFails(t)
    PROVE  CoherentInv'
<1>1. CASE \/ InsertRow(t) \/ InsertTooLarge(t) \/ GetRows(t) \/ GetTableFile(t)
           \/ TruncateTable(t) \/ TruncateUnopened(t)
  <2>1. cache' = cache /\ file' = file
    BY <1>1, InsertRowStep, InsertTooLargeStep, GetRowsStep, GetTableFileStep, TruncateTableStep,
       TruncateUnopenedStep, Zenon
  <2>2. \/ op'.at \notin {"link", "row"}
        \/ op' = op
    <3>1. CASE InsertRow(t)
      BY <3>1, InsertRowStep
    <3>2. CASE InsertTooLarge(t) \/ GetTableFile(t)
      BY <3>2, InsertTooLargeStep, GetTableFileStep
    <3>3. CASE GetRows(t)
      BY <3>3, GetRowsStep
    <3>4. CASE TruncateTable(t) \/ TruncateUnopened(t)
      BY <3>4, TruncateTableStep, TruncateUnopenedStep
    <3> QED BY <1>1, <3>1, <3>2, <3>3, <3>4
  <2> QED BY <2>1, <2>2, CoherentKept
<1>2. CASE FlushTable(t) \/ CloseTableFile(t)
  <2>1. /\ op'.at = "flush" \/ op' = op
        /\ file'[t].pages = file[t].pages /\ cache' = cache
    BY <1>2, HeaderWrittenStep
  <2>2. \A u \in Table : file'[u].pages = file[u].pages
    BY <2>1 DEF OneTable
  <2> QED BY <2>1, <2>2, CoherentKept
<1>3. CASE FlushTableFails(t) \/ CloseTableFileFails(t)
  BY <1>3, HeaderLostTyped DEF NoFaults, TypeInv
<1> QED BY <1>1, <1>2, <1>3

\* Nor do the other steps.
LEMMA OtherCoherent ==
    ASSUME NoFaults, TypeInv, CoherentInv,
           \/ FindPageFails \/ AllocateFails \/ WriteRowFails \/ ScanPageFails \/ ScanEnds \/ ClearFails
           \/ FlushAll \/ Close \/ FlushEnds \/ CloseEnds \/ Checkpoint \/ Finish \/ Open \/ Crash
    PROVE  CoherentInv'
<1>1. CASE AllocateFails \/ WriteRowFails \/ ClearFails
  BY <1>1, InsertFailsTyped, ClearFailsTyped DEF NoFaults, TypeInv
<1>2. CASE FindPageFails
  BY <1>2, FindPageFailsStep, CoherentKept
<1>3. CASE ScanPageFails \/ ScanEnds
  BY <1>3, ScanPageFailsStep, ScanEndsStep, CoherentKept
<1>4. CASE FlushAll \/ Close
  BY <1>4, StartFlushStep, CoherentKept DEF FlushAll, Close
<1>5. CASE FlushEnds \/ Finish \/ Checkpoint
  BY <1>5, QuietSteps, CoherentKept
<1>6. CASE CloseEnds \/ Open
  <2>1. /\ cache' = cache \/ cache' = << >>
        /\ op'.at = "start" \/ op' = op
        /\ file' = file
    BY <1>6, RestartStep
  <2> QED BY <2>1, CoherentKept
<1>7. CASE Crash
  BY <1>7, CrashStep, CoherentKept
<1> QED BY <1>1, <1>2, <1>3, <1>4, <1>5, <1>6, <1>7

\* The start of an update or deletion changes no page.
LEMMA RewriteCoherent ==
    ASSUME TypeInv, CoherentInv, NEW t \in Table, NEW k \in Keys,
           \/ UpdateRows(t, k) \/ DeleteRows(t, k)
           \/ UpdateRowsWithCallback(t, k) \/ DeleteRowsWithCallback(t, k)
    PROVE  CoherentInv'
<1>1. k \in Nat
  BY BoundsAssumption DEF Keys
<1>2. CASE UpdateRows(t, k) \/ DeleteRows(t, k)
  <2>1. file' = file /\ cache' = cache /\ op'.at \in {"scan", "done"}
    BY <1>1, <1>2, RewriteStep DEF UpdateRows, DeleteRows
  <2> QED BY <2>1, CoherentKept
<1>3. CASE UpdateRowsWithCallback(t, k) \/ DeleteRowsWithCallback(t, k)
  <2>1. file' = file /\ cache' = cache /\ op'.at = "done"
    BY <1>1, <1>3, CallbackStep DEF UpdateRowsWithCallback, DeleteRowsWithCallback
  <2> QED BY <2>1, CoherentKept
<1> QED BY <1>2, <1>3

\* The pages of one table in the cache are always those on disk, if no write fails.
THEOREM CoherentInvariant == ASSUME OneTable, NoFaults PROVE Spec => []CoherentInv
<1>1. Init => CoherentInv
  BY DEF Init, CoherentInv, Agrees, Idle
<1>2. StoreInv /\ TypeInv /\ ChainInv /\ CacheBounded /\ CoherentInv /\ [Next]_vars => CoherentInv'
  <2> SUFFICES ASSUME StoreInv, TypeInv, ChainInv, CacheBounded, CoherentInv, [Next]_vars
               PROVE  CoherentInv'
    OBVIOUS
  <2>1. ASSUME NEW t \in Table,
               \/ InsertRow(t) \/ InsertTooLarge(t) \/ GetRows(t) \/ GetTableFile(t)
               \/ TruncateTable(t) \/ TruncateUnopened(t)
               \/ FlushTable(t) \/ FlushTableFails(t) \/ CloseTableFile(t) \/ CloseTableFileFails(t)
        PROVE  CoherentInv'
    BY <2>1, TableCoherent
  <2>2. ASSUME NEW t \in Table, NEW k \in Keys,
               \/ UpdateRows(t, k) \/ DeleteRows(t, k)
               \/ UpdateRowsWithCallback(t, k) \/ DeleteRowsWithCallback(t, k)
        PROVE  CoherentInv'
    BY <2>2, RewriteCoherent
  <2>3. CASE FindPage \/ AllocatePage \/ WriteRow \/ ScanPage \/ ClearTable
    BY <2>3, FindPageCoherent, AllocatePageCoherent, WriteRowCoherent, ScanPageCoherent, ClearTableCoherent
  <2>4. CASE \E ok \in BOOLEAN : LinkPage(ok)
    BY <2>4, LinkPageCoherent
  <2>5. CASE \/ FindPageFails \/ AllocateFails \/ WriteRowFails \/ ScanPageFails \/ ScanEnds \/ ClearFails
             \/ FlushAll \/ Close \/ FlushEnds \/ CloseEnds \/ Checkpoint \/ Finish \/ Open \/ Crash
    BY <2>5, OtherCoherent
  <2>6. CASE UNCHANGED vars
    BY <2>6 DEF vars, CoherentInv
  <2> QED BY <2>1, <2>2, <2>3, <2>4, <2>5, <2>6, Zenon DEF Next
<1> QED BY <1>1, <1>2, StoreInvariant, TypeInvariant, ChainInvariant, CacheWithinLimit, PTL DEF Spec

\* Between operations the cache of one table is within its limit and agrees with the file:
\* write-through leaves nothing that only the cache knows, through crashes and restarts, if no
\* write fails.
THEOREM StoreIsSound == ASSUME OneTable, NoFaults PROVE Spec => []StoreSound
<1>1. CoherentInv => CacheCoherent
  BY DEF CoherentInv, CacheCoherent, Agrees, Stores
<1> QED BY <1>1, CoherentInvariant, TypesHold, CacheWithinLimit, PTL DEF StoreSound

----------------------------------------------------------------------------
(* Row ids are given out once.                                              *)

Below(s, n) == \A i \in 1..Len(s) : \A k \in 1..Len(s[i].rows) : s[i].rows[k].id < n

Distinct(s) ==
    \A i, j \in 1..Len(s) : \A k \in 1..Len(s[i].rows), l \in 1..Len(s[j].rows) :
        s[i].rows[k].id = s[j].rows[l].id => i = j /\ k = l

HasID == op.at \in {"alloc", "link", "row"}

\* The id that the next row written gets.
NextRowID == IF HasID THEN op.id ELSE mem.nextID

\* Row ids are below the one to be used next; a clean shutdown saves the counter.
IdInv ==
    crashes = 0 =>
        /\ ~up => mem.nextID = meta.nextID
        /\ HasID => op.id < mem.nextID
        /\ \A t \in Table : Below(file[t].pages, NextRowID) /\ Distinct(file[t].pages)

\* What a page is after another or the same one was written.
LEMMA WrittenPages ==
    ASSUME NEW f \in File, NEW pg \in Page, NEW i \in 1..Len(WriteAt(f, pg).pages)
    PROVE  \/ pg.id # 0 /\ i = pg.id /\ WriteAt(f, pg).pages[i] = pg
           \/ i \in 1..Len(f.pages) /\ WriteAt(f, pg).pages[i] = f.pages[i]
           \/ WriteAt(f, pg).pages[i].rows = << >>
<1> DEFINE g == WriteAt(f, pg)
<1>1. f.pages \in Seq(Page) /\ Len(f.pages) \in Nat /\ pg.id \in Nat
  BY DEF File, Page
<1>2. CASE pg.id = 0
  <2>1. g.pages = f.pages
    BY <1>2, WriteAtTyped
  <2> QED BY <2>1
<1>3. CASE pg.id # 0
  <2>1. Len(g.pages) = (IF pg.id > Len(f.pages) THEN pg.id ELSE Len(f.pages))
    BY <1>3, WriteAtTyped
  <2>2. g.pages[i] = IF i = pg.id THEN pg ELSE IF i <= Len(f.pages) THEN f.pages[i] ELSE Hole
    BY <1>3, WriteAtTyped
  <2>3. Hole.rows = << >>
    BY DEF Hole, NewPage
  <2> HIDE DEF g
  <2> QED BY <1>1, <1>3, <2>1, <2>2, <2>3 DEF g
<1> QED BY <1>2, <1>3

\* Row ids are numbers.
LEMMA IdsAreNumbers ==
    ASSUME NEW s \in Seq(Page), NEW i \in 1..Len(s), NEW k \in 1..Len(s[i].rows)
    PROVE  s[i].rows[k].id \in Nat
<1>1. s[i] \in Page
  OBVIOUS
<1>2. s[i].rows \in Seq(Tagged)
  BY <1>1 DEF Page, Tagged
<1> DEFINE r == s[i].rows
<1> HIDE DEF r
<1>3. r[k] \in Tagged
  BY <1>2 DEF r
<1> QED BY <1>3 DEF Tagged, r

\* Writing a page whose rows were on it before, but for a last one with the next id.
LEMMA WriteKeepsIds ==
    ASSUME NEW f \in File, NEW pg \in Page, NEW n \in Nat, NEW m \in Nat,
           Below(f.pages, n), Distinct(f.pages), n <= m,
           \A k \in 1..Len(pg.rows) :
               \/ /\ pg.id \in 1..Len(f.pages) /\ k \in 1..Len(f.pages[pg.id].rows)
                  /\ pg.rows[k].id = f.pages[pg.id].rows[k].id
               \/ k = Len(pg.rows) /\ pg.rows[k].id = n /\ n < m
    PROVE  Below(WriteAt(f, pg).pages, m) /\ Distinct(WriteAt(f, pg).pages)
<1> DEFINE g == WriteAt(f, pg).pages
           s == f.pages
           Old(i, k) == i \in 1..Len(s) /\ k \in 1..Len(s[i].rows) /\ g[i].rows[k].id = s[i].rows[k].id
           New(i, k) == i = pg.id /\ k = Len(pg.rows) /\ g[i].rows[k].id = n /\ n < m
<1>1. \A i \in 1..Len(s) : \A k \in 1..Len(s[i].rows) : s[i].rows[k].id \in Nat
  BY IdsAreNumbers DEF File
<1>2. ASSUME NEW i \in 1..Len(g), NEW k \in 1..Len(g[i].rows) PROVE Old(i, k) \/ New(i, k)
  <2>1. \/ pg.id # 0 /\ i = pg.id /\ g[i] = pg
        \/ i \in 1..Len(s) /\ g[i] = s[i]
        \/ g[i].rows = << >>
    BY WrittenPages
  <2> HIDE DEF g, s
  <2>2. g[i].rows # << >>
    BY <1>2
  <2>3. CASE i \in 1..Len(s) /\ g[i] = s[i]
    BY <1>2, <2>3
  <2>4. CASE i = pg.id /\ g[i] = pg
    <3>1. k \in 1..Len(pg.rows)
      BY <1>2, <2>4
    <3>2. \/ pg.id \in 1..Len(s) /\ k \in 1..Len(s[pg.id].rows) /\ pg.rows[k].id = s[pg.id].rows[k].id
          \/ k = Len(pg.rows) /\ pg.rows[k].id = n /\ n < m
      BY <3>1 DEF s
    <3> QED BY <2>4, <3>2
  <2> QED BY <2>1, <2>2, <2>3, <2>4
<1> HIDE DEF g
<1>3. Below(g, m)
  <2> SUFFICES ASSUME NEW i \in 1..Len(g), NEW k \in 1..Len(g[i].rows) PROVE g[i].rows[k].id < m
    BY DEF Below
  <2>1. CASE Old(i, k)
    BY <1>1, <2>1 DEF Below
  <2>2. CASE New(i, k)
    BY <2>2
  <2> QED BY <1>2, <2>1, <2>2
<1>4. Distinct(g)
  <2> SUFFICES ASSUME NEW i \in 1..Len(g), NEW j \in 1..Len(g), NEW k \in 1..Len(g[i].rows),
                      NEW l \in 1..Len(g[j].rows), g[i].rows[k].id = g[j].rows[l].id
               PROVE  i = j /\ k = l
    BY DEF Distinct
  <2>1. \A a, b : Old(a, b) => g[a].rows[b].id < n /\ g[a].rows[b].id \in Nat
    BY <1>1 DEF Below
  <2>2. CASE Old(i, k) /\ Old(j, l)
    <3>1. /\ i \in 1..Len(s) /\ j \in 1..Len(s) /\ k \in 1..Len(s[i].rows) /\ l \in 1..Len(s[j].rows)
          /\ s[i].rows[k].id = s[j].rows[l].id
      BY <2>2
    <3>2. Distinct(s)
      OBVIOUS
    <3> HIDE DEF s
    <3>3. \A a \in 1..Len(s[i].rows), b \in 1..Len(s[j].rows) :
              s[i].rows[a].id = s[j].rows[b].id => i = j /\ a = b
      BY <3>1, <3>2 DEF Distinct
    <3> QED BY <3>1, <3>3
  <2>3. CASE New(i, k) /\ New(j, l)
    BY <2>3
  <2>4. CASE Old(i, k) /\ New(j, l)
    <3>1. g[i].rows[k].id < n /\ g[j].rows[l].id = n
      BY <2>1, <2>4
    <3> QED BY <3>1
  <2>5. CASE New(i, k) /\ Old(j, l)
    <3>1. g[j].rows[l].id < n /\ g[i].rows[k].id = n
      BY <2>1, <2>5
    <3> QED BY <3>1
  <2>6. (Old(i, k) \/ New(i, k)) /\ (Old(j, l) \/ New(j, l))
    BY <1>2
  <2> HIDE DEF Old, New
  <2> QED BY <2>2, <2>3, <2>4, <2>5, <2>6
<1> QED BY <1>3, <1>4 DEF g

\* A step that writes no row.
LEMMA IdsKept ==
    ASSUME TypeInv, TypeInv', IdInv, crashes' = crashes,
           \A t \in Table : file'[t].pages = file[t].pages \/ file'[t].pages = << >>,
           ~HasID', mem'.nextID >= mem.nextID,
           ~up' => mem'.nextID = meta'.nextID
    PROVE  IdInv'
<1> SUFFICES ASSUME crashes = 0
             PROVE  \A t \in Table : Below(file'[t].pages, mem'.nextID) /\ Distinct(file'[t].pages)
  BY DEF IdInv, NextRowID
<1>1. mem.nextID \in Nat /\ mem'.nextID \in Nat
  BY CountersTyped DEF TypeInv, Counters
<1>2. NextRowID <= mem.nextID /\ NextRowID \in Nat
  <2>1. CASE HasID
    <3>1. op.id \in Nat
      BY <2>1, OpInProgress DEF HasID
    <3> QED BY <1>1, <2>1, <3>1 DEF IdInv, NextRowID
  <2>2. CASE ~HasID
    BY <1>1, <2>2 DEF NextRowID
  <2> QED BY <2>1, <2>2
<1> TAKE t \in Table
<1>3. file[t].pages \in Seq(Page)
  BY DEF TypeInv, File
<1>4. Below(file[t].pages, NextRowID) /\ Distinct(file[t].pages)
  BY DEF IdInv
<1>5. CASE file'[t].pages = << >>
  BY <1>5 DEF Below, Distinct
<1>6. CASE file'[t].pages = file[t].pages
  <2> DEFINE s == file[t].pages
  <2>1. \A i \in 1..Len(s) : \A k \in 1..Len(s[i].rows) : s[i].rows[k].id \in Nat
    BY <1>3, IdsAreNumbers
  <2>2. Below(s, mem'.nextID)
    <3> HIDE DEF s
    <3> QED BY <1>1, <1>2, <1>4, <2>1 DEF Below, s
  <2> QED BY <1>4, <1>6, <2>2
<1> QED BY <1>5, <1>6

\* The page that is linked to keeps its rows.
LEMMA LinkPageIds ==
    ASSUME OneTable, NoFaults, StoreInv, TypeInv, ChainInv, CoherentInv, IdInv,
           NEW ok \in BOOLEAN, LinkPage(ok)
    PROVE  IdInv'
<1> DEFINE t == op.t
           p == hdr[t].last
           old == ReadPage(t, p)
           pg == [old EXCEPT !.right = op.target.id]
<1>1. /\ op.at = "link" /\ t \in Table /\ op'.at = "row" /\ op'.id = op.id
      /\ IF CanRead(t, p)
           THEN /\ cache' = CachePut(pg) /\ pg \in Page
                /\ file' = IF ok THEN [file EXCEPT ![t] = WriteAt(@, pg)] ELSE file
           ELSE UNCHANGED <<cache, file>>
      /\ UNCHANGED <<meta, up, mem, crashes>>
      /\ TypeInv'
  BY LinkPageStep
<1> SUFFICES ASSUME crashes = 0
             PROVE  \A u \in Table : Below(file'[u].pages, op.id) /\ Distinct(file'[u].pages)
  BY <1>1 DEF IdInv, NextRowID, HasID
<1>2. p \in Nat \ {0}
  BY <1>1 DEF StoreInv, OpOK, HeadersOK, Good, Header
<1>3. \A u \in Table : Below(file[u].pages, op.id) /\ Distinct(file[u].pages)
  BY <1>1 DEF IdInv, NextRowID, HasID
<1>4. CASE ~CanRead(t, p) \/ ~ok
  <2>1. file' = file
    BY <1>1, <1>4
  <2> QED BY <1>3, <2>1
<1>5. CASE CanRead(t, p) /\ ok
  <2>1. pg \in Page /\ file' = [file EXCEPT ![t] = WriteAt(@, pg)]
    BY <1>1, <1>5
  <2> DEFINE f == file[t]
  <2>2. f \in File /\ file'[t] = WriteAt(f, pg) /\ op.id \in Nat
    BY <1>1, <2>1, OpInProgress DEF TypeInv
  <2>3. old \in Page /\ old.id \in {0, p} /\ old = f.pages[p] /\ p \in 1..Len(f.pages)
    BY <1>1, <1>2, <1>5, CoherentRead
  <2>4. pg.id = old.id /\ pg.rows = old.rows
    BY <2>3 DEF Page
  <2>5. CASE pg.id = 0
    <3> HIDE DEF pg, f
    <3>1. WriteAt(f, pg).pages = f.pages
      BY <2>1, <2>2, <2>5, WriteAtTyped
    <3>2. file'[t].pages = file[t].pages
      BY <2>2, <3>1 DEF f
    <3> QED BY <1>1, <1>3, <3>2 DEF OneTable
  <2>6. CASE pg.id # 0
    <3>1. pg.id = p /\ pg.id \in 1..Len(f.pages) /\ pg.rows = f.pages[pg.id].rows
      BY <2>3, <2>4, <2>6
    <3>2. Below(f.pages, op.id) /\ Distinct(f.pages)
      BY <1>1, <1>3
    <3> HIDE DEF pg, f
    <3> DEFINE n == op.id
    <3> HIDE DEF n
    <3>3. n \in Nat /\ n <= n /\ Below(f.pages, n)
      BY <2>2, <3>2 DEF n
    <3>4. \A k \in 1..Len(pg.rows) : /\ pg.id \in 1..Len(f.pages) /\ k \in 1..Len(f.pages[pg.id].rows)
                                     /\ pg.rows[k].id = f.pages[pg.id].rows[k].id
      BY <3>1
    <3>5. Below(WriteAt(f, pg).pages, n) /\ Distinct(WriteAt(f, pg).pages)
      BY <2>1, <2>2, <3>2, <3>3, <3>4, WriteKeepsIds
    <3>6. Below(file'[t].pages, op.id) /\ Distinct(file'[t].pages)
      BY <2>2, <3>5 DEF n
    <3> QED BY <1>1, <3>6 DEF OneTable
  <2> QED BY <2>5, <2>6
<1> QED BY <1>4, <1>5

\* A new page has no rows.
LEMMA AllocatePageIds ==
    ASSUME OneTable, StoreInv, TypeInv, IdInv, AllocatePage PROVE IdInv'
<1> DEFINE t == op.t
           f == file[t]
           pg == NewPage(hdr[t].count)
           n == op.id
<1>1. /\ op.at = "alloc" /\ t \in Table /\ op'.at \in {"row", "link"} /\ op'.id = op.id
      /\ file'[t] = WriteAt(f, pg)
      /\ UNCHANGED <<meta, up, mem, crashes>>
  BY AllocatePageStep
<1> SUFFICES ASSUME crashes = 0
             PROVE  \A u \in Table : Below(file'[u].pages, op.id) /\ Distinct(file'[u].pages)
  BY <1>1 DEF IdInv, NextRowID, HasID
<1>2. f \in File /\ n \in Nat /\ n <= n /\ hdr[t] \in Header
  BY <1>1, OpInProgress DEF TypeInv
<1>3. pg \in Page /\ Len(pg.rows) = 0
  BY <1>2, NewTyped DEF Header, NewPage
<1>4. Below(f.pages, n) /\ Distinct(f.pages)
  BY <1>1 DEF IdInv, NextRowID, HasID
<1> HIDE DEF pg, f, n
<1>5. Below(WriteAt(f, pg).pages, n) /\ Distinct(WriteAt(f, pg).pages)
  BY <1>2, <1>3, <1>4, WriteKeepsIds
<1>6. Below(file'[t].pages, op.id) /\ Distinct(file'[t].pages)
  BY <1>1, <1>5 DEF n
<1> QED BY <1>1, <1>6 DEF OneTable

\* The row that is written has the next id, and the counter is past it.
LEMMA WriteRowIds ==
    ASSUME OneTable, TypeInv, CoherentInv, IdInv, WriteRow PROVE IdInv'
<1> DEFINE t == op.t
           f == file[t]
           pg == PageToWrite
           n == op.id
           m == mem.nextID
<1>1. /\ op.at = "row" /\ t \in Table /\ op'.at \in {"find", "done"}
      /\ file'[t] = WriteAt(f, pg)
      /\ UNCHANGED <<meta, up, mem, crashes>>
  BY WriteRowStep
<1> SUFFICES ASSUME crashes = 0
             PROVE  \A u \in Table : Below(file'[u].pages, mem.nextID) /\ Distinct(file'[u].pages)
  BY <1>1 DEF IdInv, NextRowID, HasID
<1>2. f \in File /\ n \in Nat /\ m \in Nat
  BY <1>1, OpInProgress, CountersTyped DEF TypeInv
<1>3. n < m
  BY <1>1 DEF IdInv, HasID
<1>4. Below(f.pages, n) /\ Distinct(f.pages)
  BY <1>1 DEF IdInv, NextRowID, HasID
<1>5. /\ pg \in Page /\ pg.id = op.target.id /\ op.target \in Page
      /\ pg.rows = Append(op.target.rows, RowToWrite) /\ RowToWrite \in Tagged
  BY <1>1, PageToWriteTyped
<1>6. op.target.id \in 1..Len(f.pages) /\ f.pages[op.target.id] = op.target
  BY <1>1 DEF CoherentInv, Stores
<1>7. RowToWrite.id = n
  BY DEF RowToWrite
<1> DEFINE old == op.target.rows
<1>8. old \in Seq(Tagged)
  BY <1>5 DEF Page, Tagged
<1>9. f.pages[pg.id].rows = old /\ pg.id \in 1..Len(f.pages) /\ pg.rows = Append(old, RowToWrite)
  BY <1>5, <1>6
<1> HIDE DEF pg, f, n, m, old
<1>10. \A k \in 1..Len(pg.rows) :
               \/ /\ pg.id \in 1..Len(f.pages) /\ k \in 1..Len(f.pages[pg.id].rows)
                  /\ pg.rows[k].id = f.pages[pg.id].rows[k].id
               \/ k = Len(pg.rows) /\ pg.rows[k].id = n /\ n < m
  <2> TAKE k \in 1..Len(pg.rows)
  <2>1. k \in 1..(Len(old) + 1) /\ Len(pg.rows) = Len(old) + 1 /\ Len(old) \in Nat
    BY <1>5, <1>8, <1>9
  <2>2. CASE k = Len(old) + 1
    <3>1. pg.rows[k] = RowToWrite
      BY <1>5, <1>8, <1>9, <2>2
    <3> QED BY <1>3, <1>7, <2>1, <2>2, <3>1
  <2>3. CASE k # Len(old) + 1
    <3>1. k \in 1..Len(old)
      BY <2>1, <2>3
    <3>2. pg.rows[k] = old[k]
      BY <1>5, <1>8, <1>9, <3>1
    <3> QED BY <1>9, <3>1, <3>2
  <2> QED BY <2>2, <2>3
<1>11. n <= m
  BY <1>2, <1>3
<1>12. Below(WriteAt(f, pg).pages, m) /\ Distinct(WriteAt(f, pg).pages)
  BY <1>2, <1>4, <1>5, <1>10, <1>11, WriteKeepsIds
<1>13. Below(file'[t].pages, mem.nextID) /\ Distinct(file'[t].pages)
  BY <1>1, <1>12 DEF m
<1> QED BY <1>1, <1>13 DEF OneTable

\* FindPage takes the next id for the row.
LEMMA FindPageIds == ASSUME TypeInv, IdInv, FindPage PROVE IdInv'
<1>1. /\ op.at = "find" /\ op'.at \in {"alloc", "row"} /\ op'.id = mem.nextID
      /\ mem'.nextID = mem.nextID + 1
      /\ UNCHANGED <<file, meta, up, crashes>>
  BY FindPageStep
<1>2. mem.nextID \in Nat
  BY CountersTyped DEF TypeInv
<1>3. up
  BY DEF FindPage, Running
<1>4. NextRowID' = NextRowID /\ HasID'
  BY <1>1 DEF NextRowID, HasID
<1> QED BY <1>1, <1>2, <1>3, <1>4 DEF IdInv

\* The steps that open a handle, write a header or clear a table give no row an id.
LEMMA TableIds ==
    ASSUME OneTable, NoFaults, TypeInv, IdInv, NEW t \in Table,
           \/ InsertRow(t) \/ InsertTooLarge(t) \/ GetRows(t) \/ GetTableFile(t)
           \/ TruncateTable(t) \/ TruncateUnopened(t)
           \/ FlushTable(t) \/ FlushTableFails(t) \/ CloseTableFile(t) \/ CloseTableFileFails(t)
    PROVE  IdInv'
<1>1. mem.nextID \in Nat
  BY CountersTyped DEF TypeInv
<1>2. CASE InsertRow(t)
  <2>1. up /\ up' = up
    BY <1>2, InsertRowStep DEF InsertRow, Running
  <2> QED BY <1>1, <1>2, <2>1, InsertRowStep, IdsKept DEF HasID
<1>3. CASE InsertTooLarge(t)
  <2>1. up /\ up' = up
    BY <1>3, InsertTooLargeStep DEF InsertTooLarge, Running
  <2> QED BY <1>1, <1>3, <2>1, InsertTooLargeStep, IdsKept DEF HasID
<1>4. CASE GetRows(t) \/ GetTableFile(t) \/ TruncateTable(t)
  <2>1. /\ UNCHANGED <<file, meta, up, mem, crashes>> /\ TypeInv' /\ ~HasID'
    BY <1>4, GetRowsStep, GetTableFileStep, TruncateTableStep DEF HasID
  <2>2. up
    BY <1>4 DEF GetRows, GetTableFile, TruncateTable, Running
  <2> QED BY <1>1, <2>1, <2>2, IdsKept
<1>5. CASE TruncateUnopened(t)
  BY <1>1, <1>5, TruncateUnopenedStep, IdsKept DEF HasID
<1>6. CASE FlushTable(t) \/ CloseTableFile(t)
  <2>1. /\ op'.at = "flush" \/ (op.at = "start" /\ op' = op)
        /\ file'[t].pages = file[t].pages /\ UNCHANGED <<meta, up, mem, crashes>> /\ TypeInv'
    BY <1>6, HeaderWrittenStep
  <2>2. \A u \in Table : file'[u].pages = file[u].pages
    BY <2>1 DEF OneTable
  <2>3. up
    BY <1>6 DEF FlushTable, CloseTableFile, Running
  <2>4. ~HasID'
    BY <2>1 DEF HasID
  <2> QED BY <1>1, <2>1, <2>2, <2>3, <2>4, IdsKept
<1>7. CASE FlushTableFails(t) \/ CloseTableFileFails(t)
  BY <1>7, HeaderLostTyped DEF NoFaults, TypeInv
<1> QED BY <1>2, <1>3, <1>4, <1>5, <1>6, <1>7

\* Nor does the start of an update or deletion.
LEMMA RewriteIds ==
    ASSUME TypeInv, IdInv, NEW t \in Table, NEW k \in Keys,
           \/ UpdateRows(t, k) \/ DeleteRows(t, k)
           \/ UpdateRowsWithCallback(t, k) \/ DeleteRowsWithCallback(t, k)
    PROVE  IdInv'
<1>1. k \in Nat /\ mem.nextID \in Nat
  BY BoundsAssumption, CountersTyped DEF Keys, TypeInv
<1>2. UNCHANGED <<file, meta, up, mem, crashes>> /\ TypeInv' /\ ~HasID'
  <2>1. CASE UpdateRows(t, k) \/ DeleteRows(t, k)
    BY <1>1, <2>1, RewriteStep DEF UpdateRows, DeleteRows, HasID
  <2>2. CASE UpdateRowsWithCallback(t, k) \/ DeleteRowsWithCallback(t, k)
    BY <1>1, <2>2, CallbackStep DEF UpdateRowsWithCallback, DeleteRowsWithCallback, HasID
  <2> QED BY <2>1, <2>2
<1>3. up
  BY DEF UpdateRows, DeleteRows, UpdateRowsWithCallback, DeleteRowsWithCallback, Rewrite,
         RewriteWithCallback, Running
<1> QED BY <1>1, <1>2, <1>3, IdsKept

\* Nor do the other steps; a clean restart keeps the counter.
LEMMA OtherIds ==
    ASSUME OneTable, NoFaults, TypeInv, IdInv,
           \/ FindPageFails \/ AllocateFails \/ WriteRowFails \/ ScanPage \/ ScanPageFails \/ ScanEnds
           \/ ClearTable \/ ClearFails
           \/ FlushAll \/ Close \/ FlushEnds \/ CloseEnds \/ Checkpoint \/ Finish \/ Open \/ Crash
    PROVE  IdInv'
<1>1. mem.nextID \in Nat
  BY CountersTyped DEF TypeInv
<1>2. CASE AllocateFails \/ WriteRowFails \/ ClearFails
  BY <1>2, InsertFailsTyped, ClearFailsTyped DEF NoFaults, TypeInv
<1>3. CASE FindPageFails
  <2>1. up /\ up' = up
    BY <1>3, FindPageFailsStep DEF FindPageFails, Running
  <2> QED BY <1>1, <1>3, <2>1, FindPageFailsStep, IdsKept DEF HasID
<1>4. CASE ScanPage \/ ScanPageFails \/ ScanEnds
  <2>1. /\ UNCHANGED <<file, meta, up, mem, crashes>> /\ TypeInv' /\ ~HasID'
    BY <1>4, ScanPageStep, ScanPageFailsStep, ScanEndsStep DEF HasID
  <2>2. up
    BY <1>4 DEF ScanPage, ScanPageFails, ScanEnds, Running
  <2> QED BY <1>1, <2>1, <2>2, IdsKept
<1>5. CASE ClearTable
  <2>1. /\ op.t \in Table /\ file'[op.t].pages = << >> /\ op'.at \in {"done", "find"}
        /\ mem'.nextID = mem.nextID /\ UNCHANGED <<meta, up, crashes>> /\ TypeInv'
    BY <1>5, ClearTableStep
  <2>2. \A u \in Table : file'[u].pages = << >>
    BY <2>1 DEF OneTable
  <2>3. up
    BY <1>5 DEF ClearTable, Running
  <2> QED BY <1>1, <2>1, <2>2, <2>3, IdsKept DEF HasID
<1>6. CASE FlushAll \/ Close
  <2>1. up
    BY <1>6 DEF FlushAll, Close, StartFlush, Running
  <2>2. op'.at = "flush" /\ UNCHANGED <<file, meta, up, mem, crashes>> /\ TypeInv'
    BY <1>6, StartFlushStep DEF FlushAll, Close
  <2>3. ~HasID'
    BY <2>2 DEF HasID
  <2> QED BY <1>1, <2>1, <2>2, <2>3, IdsKept
<1>7. CASE FlushEnds \/ Finish \/ Checkpoint
  <2>1. up
    BY <1>7 DEF FlushEnds, Finish, Checkpoint, Running
  <2>2. /\ op'.at \in {"done", "start"} /\ mem' = mem
        /\ UNCHANGED <<file, up, crashes>> /\ TypeInv'
    BY <1>7, QuietSteps
  <2> QED BY <1>1, <2>1, <2>2, IdsKept DEF HasID
<1>8. CASE CloseEnds
  <2>1. op'.at = "start" /\ meta' = mem /\ UNCHANGED <<file, mem, crashes>> /\ TypeInv'
    BY <1>8, RestartStep DEF CloseEnds, Idle
  <2> QED BY <1>1, <2>1, IdsKept DEF HasID
<1>9. CASE Open
  <2>1. /\ up = FALSE /\ up' = TRUE /\ op' = op /\ meta' = meta /\ mem' = meta
        /\ UNCHANGED <<file, crashes>>
    BY <1>9, RestartStep DEF Open
  <2>2. crashes = 0 => mem'.nextID = mem.nextID
    BY <2>1 DEF IdInv
  <2>3. crashes = 0 => NextRowID' = NextRowID
    BY <2>1, <2>2 DEF NextRowID, HasID
  <2>4. HasID' = HasID
    BY <2>1 DEF HasID
  <2> QED BY <2>1, <2>2, <2>3, <2>4 DEF IdInv
<1>10. CASE Crash
  BY <1>10, CrashStep DEF IdInv
<1> QED BY <1>2, <1>3, <1>4, <1>5, <1>6, <1>7, <1>8, <1>9, <1>10

\* Row ids stay below the next one and are distinct, of one table if no write fails.
THEOREM IdInvariant == ASSUME OneTable, NoFaults PROVE Spec => []IdInv
<1>1. Init => IdInv
  <2> SUFFICES ASSUME Init PROVE IdInv
    OBVIOUS
  <2>1. op = Idle /\ mem = meta /\ \A t \in Table : file[t].pages = << >>
    BY DEF Init
  <2>2. ~HasID
    BY <2>1 DEF HasID, Idle
  <2>3. \A t \in Table : \A n : Below(file[t].pages, n) /\ Distinct(file[t].pages)
    BY <2>1 DEF Below, Distinct
  <2> QED BY <2>1, <2>2, <2>3 DEF IdInv
<1>2. StoreInv /\ TypeInv /\ ChainInv /\ CoherentInv /\ IdInv /\ [Next]_vars => IdInv'
  <2> SUFFICES ASSUME StoreInv, TypeInv, ChainInv, CoherentInv, IdInv, [Next]_vars
               PROVE  IdInv'
    OBVIOUS
  <2>1. ASSUME NEW t \in Table,
               \/ InsertRow(t) \/ InsertTooLarge(t) \/ GetRows(t) \/ GetTableFile(t)
               \/ TruncateTable(t) \/ TruncateUnopened(t)
               \/ FlushTable(t) \/ FlushTableFails(t) \/ CloseTableFile(t) \/ CloseTableFileFails(t)
        PROVE  IdInv'
    BY <2>1, TableIds
  <2>2. ASSUME NEW t \in Table, NEW k \in Keys,
               \/ UpdateRows(t, k) \/ DeleteRows(t, k)
               \/ UpdateRowsWithCallback(t, k) \/ DeleteRowsWithCallback(t, k)
        PROVE  IdInv'
    BY <2>2, RewriteIds
  <2>3. CASE FindPage \/ AllocatePage \/ WriteRow
    BY <2>3, FindPageIds, AllocatePageIds, WriteRowIds
  <2>4. CASE \E ok \in BOOLEAN : LinkPage(ok)
    BY <2>4, LinkPageIds
  <2>5. CASE \/ FindPageFails \/ AllocateFails \/ WriteRowFails \/ ScanPage \/ ScanPageFails \/ ScanEnds
             \/ ClearTable \/ ClearFails
             \/ FlushAll \/ Close \/ FlushEnds \/ CloseEnds \/ Checkpoint \/ Finish \/ Open \/ Crash
    BY <2>5, OtherIds
  <2>6. CASE UNCHANGED vars
    BY <2>6 DEF vars, IdInv, NextRowID, HasID
  <2> QED BY <2>1, <2>2, <2>3, <2>4, <2>5, <2>6, Zenon DEF Next
<1> QED BY <1>1, <1>2, StoreInvariant, TypeInvariant, ChainInvariant, CoherentInvariant, PTL DEF Spec

\* No two rows of a table have the same row id while no crash has taken the counter back.
LEMMA IdsAreUnique == IdInv => RowIDsUnique
  BY DEF IdInv, RowIDsUnique, Distinct

----------------------------------------------------------------------------
(* The pages of a table are linked from the first to the last.             *)

\* The header in use: that of the handle or, of a table that is not open, that on disk.
Current(t) == IF IsOpen(t) THEN hdr[t] ELSE file[t].hdr

Linked(h, s) ==
    /\ h.first = (IF h.last = 0 THEN 0 ELSE 1)
    /\ h.last <= Len(s)
    /\ \A i \in 1..h.last : s[i].id = i /\ (i < h.last => s[i].right = i + 1)

\* The header in use leads from page 1 to the last page, unless the table is torn; the header
\* on disk does so too, to a page that may be an earlier one, unless the table was cleared since.
LinkOK(t) ==
    /\ stale[t] # "torn" =>
          /\ Linked(Current(t), file[t].pages)
          /\ Current(t).count = Current(t).last + (IF op.at = "link" THEN 2 ELSE 1)
          /\ op.at = "row" => op.target.id = Current(t).last
          /\ op.at = "link" => Current(t).last # 0 /\ op.target = NewPage(Current(t).last + 1)
    /\ stale[t] = "no" =>
          /\ Linked(file[t].hdr, file[t].pages)
          /\ file[t].hdr.count = file[t].hdr.last + 1
          /\ file[t].hdr.last <= Current(t).last

LinkInv == \A t \in Table : LinkOK(t)

\* The first n pages are the same but for the right sibling of the last of them and for rows
\* that were added.
Grows(n, s, r) ==
    /\ n <= Len(r)
    /\ \A i \in 1..n : /\ r[i].id = s[i].id /\ (i < n => r[i].right = s[i].right)
                       /\ SeqRange(s[i].rows) \subseteq SeqRange(r[i].rows)

\* The header in use is one.
LEMMA CurrentTyped == ASSUME TypeInv, NEW t \in Table PROVE Current(t) \in Header /\ file[t].hdr \in Header
  BY DEF TypeInv, File, Current

\* The fields of a header are numbers.
LEMMA HeaderFields ==
    ASSUME NEW h \in Header
    PROVE  h.count \in Nat /\ h.first \in Nat /\ h.last \in Nat /\ h.rows \in Nat
  BY DEF Header

\* While an operation inserts rows the handle is open.
LEMMA InsertingOpen ==
    ASSUME StoreInv, TypeInv, Inserting PROVE op.t \in Table /\ Current(op.t) = hdr[op.t] /\ hdr[op.t] \in Header
<1>1. op.t \in Table /\ Good(hdr[op.t])
  BY DEF StoreInv, OpOK, Inserting
<1>2. hdr[op.t] # Closed
  BY <1>1, SpecialHeaders
<1> QED BY <1>1, <1>2 DEF Current, IsOpen, TypeInv

\* A header that counts pages is not that of a closed handle.
LEMMA CountsPages == \A h : h.count # 0 => h # Closed
  BY DEF Closed

\* Opening the handle does not change the header in use.
LEMMA OpenedCurrent ==
    ASSUME TypeInv, NEW t \in Table, hdr' = Opened(t), file' = file
    PROVE  Current(t)' = Current(t)
<1>1. hdr'[t] = (IF IsOpen(t) THEN hdr[t] ELSE file[t].hdr)
  BY OpenedTyped
<1>2. Current(t)' = IF hdr'[t] # Closed THEN hdr'[t] ELSE file'[t].hdr
  BY DEF Current, IsOpen
<1> QED BY <1>1, <1>2 DEF Current, IsOpen

\* Pages that grow stay linked.
LEMMA GrowsLinked ==
    ASSUME NEW h \in Header, NEW s, NEW r, NEW n \in Nat, h.last <= n, Linked(h, s), Grows(n, s, r),
           Len(r) \in Nat
    PROVE  Linked(h, r)
<1>1. h.last \in Nat
  BY HeaderFields
<1>2. \A i \in 1..h.last : /\ i \in 1..n /\ (i < h.last => i < n)
  BY <1>1
<1>3. \A i \in 1..h.last : r[i].id = i /\ (i < h.last => r[i].right = i + 1)
  BY <1>2 DEF Linked, Grows
<1> QED BY <1>1, <1>3 DEF Linked, Grows

\* What a write at most one page past the end does.
LEMMA WriteGrows ==
    ASSUME NEW f \in File, NEW pg \in Page, pg.id \in 1..(Len(f.pages) + 1)
    PROVE  /\ WriteAt(f, pg).hdr = f.hdr /\ Len(WriteAt(f, pg).pages) \in Nat
           /\ Len(f.pages) <= Len(WriteAt(f, pg).pages) /\ pg.id \in 1..Len(WriteAt(f, pg).pages)
           /\ WriteAt(f, pg).pages[pg.id] = pg
           /\ \A i \in 1..Len(f.pages) : i # pg.id => WriteAt(f, pg).pages[i] = f.pages[i]
<1>1. f.pages \in Seq(Page) /\ Len(f.pages) \in Nat /\ pg.id \in Nat /\ pg.id # 0
  BY DEF File, Page
<1> DEFINE g == WriteAt(f, pg)
<1>2. g.hdr = f.hdr /\ Len(g.pages) = (IF pg.id > Len(f.pages) THEN pg.id ELSE Len(f.pages))
  BY <1>1, WriteAtTyped
<1>3. \A i \in 1..Len(g.pages) : g.pages[i] =
          IF i = pg.id THEN pg ELSE IF i <= Len(f.pages) THEN f.pages[i] ELSE Hole
  BY <1>1, WriteAtTyped
<1> HIDE DEF g
<1>4. /\ Len(g.pages) \in Nat /\ Len(f.pages) <= Len(g.pages) /\ pg.id \in 1..Len(g.pages)
  BY <1>1, <1>2
<1>5. g.pages[pg.id] = pg
  BY <1>3, <1>4
<1>6. \A i \in 1..Len(f.pages) : i # pg.id => g.pages[i] = f.pages[i]
  BY <1>1, <1>3, <1>4
<1> QED BY <1>2, <1>4, <1>5, <1>6 DEF g

\* AllocatePage on a table that is linked: the new page is behind the last one.
LEMMA AllocateLinked ==
    ASSUME StoreInv, TypeInv, LinkInv, AllocatePage, NEW t \in Table, t = op.t, stale[t] # "torn"
    PROVE  LET h == hdr[t]
               s == file[t].pages
               r == file'[t].pages
           IN  /\ Current(t) = h /\ h \in Header /\ Current(t)' = hdr'[t] /\ hdr'[t] \in Header
               /\ hdr'[t].count = h.last + 2 /\ hdr'[t].first = 1 /\ hdr'[t].rows = h.rows
               /\ hdr'[t].last = (IF h.last = 0 THEN 1 ELSE h.last)
               /\ h.last <= Len(s) /\ Len(r) \in Nat /\ h.last + 1 <= Len(r)
               /\ r[h.last + 1] = NewPage(h.last + 1) /\ \A i \in 1..h.last : r[i] = s[i]
               /\ file'[t].hdr = file[t].hdr
<1> DEFINE h == hdr[t]
           f == file[t]
           pg == NewPage(h.count)
<1>1. /\ op.at = "alloc" /\ t \in Table
      /\ file'[t] = WriteAt(file[t], pg) /\ TypeInv'
  BY AllocatePageStep
<1>2. /\ hdr'[t].count = h.count + 1 /\ hdr'[t].rows = h.rows
      /\ hdr'[t].first = (IF h.first = 0 THEN h.count ELSE h.first)
      /\ hdr'[t].last = (IF h.last = 0 THEN h.count ELSE h.last)
  BY AllocatePageStep
<1>3. Current(t) = h /\ h \in Header
  BY <1>1, InsertingOpen DEF Inserting
<1>4. Linked(h, f.pages) /\ h.count = h.last + 1
  BY <1>1, <1>3 DEF LinkInv, LinkOK
<1>5. f \in File /\ f.pages \in Seq(Page) /\ hdr'[t] \in Header
  BY <1>1 DEF TypeInv, File
<1> HIDE DEF h, f
<1>6. h.count \in Nat /\ h.first \in Nat /\ h.last \in Nat
  BY <1>3, HeaderFields
<1>7. pg \in Page /\ pg.id = h.last + 1 /\ pg = NewPage(h.last + 1)
  BY <1>4, <1>6, NewTyped, NewPageOK
<1>8. h.last <= Len(f.pages) /\ Len(f.pages) \in Nat
  BY <1>4, <1>5 DEF Linked
<1>9. pg.id \in 1..(Len(f.pages) + 1)
  BY <1>6, <1>7, <1>8
<1> HIDE DEF pg
<1> DEFINE g == WriteAt(f, pg)
<1>10. /\ g.hdr = f.hdr /\ Len(g.pages) \in Nat
       /\ Len(f.pages) <= Len(g.pages) /\ pg.id \in 1..Len(g.pages) /\ g.pages[pg.id] = pg
       /\ \A i \in 1..Len(f.pages) : i # pg.id => g.pages[i] = f.pages[i]
  BY <1>5, <1>7, <1>9, WriteGrows
<1> HIDE DEF g
<1>11. \A i \in 1..h.last : g.pages[i] = f.pages[i]
  BY <1>6, <1>7, <1>8, <1>10
<1>12. h.last + 1 <= Len(g.pages) /\ g.pages[h.last + 1] = NewPage(h.last + 1)
  BY <1>6, <1>7, <1>10
<1>13. /\ hdr'[t].count = h.last + 2 /\ hdr'[t].first = 1
       /\ hdr'[t].last = (IF h.last = 0 THEN 1 ELSE h.last)
  BY <1>2, <1>4, <1>6 DEF Linked, h
<1>14. Current(t)' = hdr'[t]
  <2>1. hdr'[t] # Closed
    BY <1>6, <1>13, CountsPages
  <2> QED BY <2>1 DEF Current, IsOpen
<1>15. file'[t] = g
  BY <1>1 DEF g, f
<1> QED BY <1>2, <1>3, <1>5, <1>8, <1>10, <1>11, <1>12, <1>13, <1>14, <1>15 DEF h, f

\* LinkPage on a table that is linked: the last page points to the new one, behind it.
LEMMA LinkLinked ==
    ASSUME NoFaults, StoreInv, TypeInv, ChainInv, CoherentInv, LinkInv,
           NEW ok \in BOOLEAN, LinkPage(ok), NEW t \in Table, t = op.t, stale[t] # "torn"
    PROVE  LET h == hdr[t]
               s == file[t].pages
               r == file'[t].pages
           IN  /\ Current(t) = h /\ h \in Header /\ Current(t)' = hdr'[t] /\ hdr'[t] \in Header
               /\ h.last # 0 /\ hdr'[t].last = h.last + 1 /\ hdr'[t].first = 1
               /\ hdr'[t].count = h.last + 2 /\ hdr'[t].rows = h.rows
               /\ h.last <= Len(s) /\ Len(r) \in Nat /\ h.last + 1 <= Len(r) /\ s \in Seq(Page)
               /\ r[h.last + 1] = NewPage(h.last + 1)
               /\ r[h.last] = [s[h.last] EXCEPT !.right = h.last + 1]
               /\ \A i \in 1..h.last : i # h.last => r[i] = s[i]
               /\ file'[t].hdr = file[t].hdr /\ op.target.id = h.last + 1
<1> DEFINE h == hdr[t]
           f == file[t]
           old == ReadPage(t, h.last)
           pg == [old EXCEPT !.right = op.target.id]
<1>1. /\ op.at = "link" /\ t \in Table /\ op'.at = "row" /\ TypeInv'
      /\ IF CanRead(t, h.last)
           THEN /\ cache' = CachePut(pg) /\ pg \in Page
                /\ file' = IF ok THEN [file EXCEPT ![t] = WriteAt(@, pg)] ELSE file
           ELSE UNCHANGED <<cache, file>>
      /\ hdr' = [hdr EXCEPT ![t].last = op.target.id]
      /\ ok \/ faults < MaxFaults
  BY LinkPageStep
<1>2. ok
  BY <1>1 DEF NoFaults, TypeInv
<1>3. Current(t) = h /\ h \in Header /\ hdr'[t] \in Header
  BY <1>1, InsertingOpen DEF Inserting, TypeInv
<1>4. /\ Linked(h, f.pages) /\ h.count = h.last + 2 /\ h.last # 0 /\ op.target = NewPage(h.last + 1)
  BY <1>1, <1>3 DEF LinkInv, LinkOK
<1>5. h.count \in Nat /\ h.first \in Nat /\ h.last \in Nat /\ h.rows \in Nat
  BY <1>3, HeaderFields
<1>6. op.target.id = h.last + 1
  BY <1>4, <1>5, NewPageOK
<1>7. f \in File /\ f.pages \in Seq(Page) /\ Len(f.pages) \in Nat
  BY <1>1 DEF TypeInv, File
<1>8. h.last + 1 <= Len(f.pages) /\ f.pages[h.last + 1] = op.target
  BY <1>1, <1>5, <1>6 DEF CoherentInv, Stores
<1>9. h.last \in 1..Len(f.pages) /\ h.last \in Nat \ {0} /\ f.pages[h.last].id = h.last
  <2> HIDE DEF h, f
  <2>1. h.last \in Nat \ {0} /\ h.last \in 1..Len(f.pages) /\ h.last \in 1..h.last
    BY <1>4, <1>5, <1>7, <1>8
  <2> QED BY <1>4, <2>1 DEF Linked
<1>10. CanRead(t, h.last) /\ old = f.pages[h.last] /\ old \in Page
  BY <1>1, <1>9, CoherentRead
<1>11. pg \in Page /\ file'[t] = WriteAt(f, pg)
  BY <1>1, <1>2, <1>10 DEF TypeInv
<1>12. pg.id = h.last /\ pg = [f.pages[h.last] EXCEPT !.right = h.last + 1]
  BY <1>6, <1>9, <1>10 DEF Page
<1>13. /\ hdr'[t].last = h.last + 1 /\ hdr'[t].first = h.first /\ hdr'[t].rows = h.rows
       /\ hdr'[t].count = h.count
  <2>1. hdr \in [Table -> Header]
    BY DEF TypeInv
  <2> QED BY <1>1, <1>6, <2>1 DEF Header
<1> HIDE DEF h, f, pg, old
<1> DEFINE g == WriteAt(f, pg)
<1>14. pg.id \in 1..(Len(f.pages) + 1)
  BY <1>7, <1>9, <1>12
<1>15. /\ g.hdr = f.hdr /\ Len(g.pages) \in Nat
       /\ Len(f.pages) <= Len(g.pages) /\ pg.id \in 1..Len(g.pages) /\ g.pages[pg.id] = pg
       /\ \A i \in 1..Len(f.pages) : i # pg.id => g.pages[i] = f.pages[i]
  BY <1>7, <1>11, <1>14, WriteGrows
<1> HIDE DEF g
<1>16. \A i \in 1..h.last : i # h.last => g.pages[i] = f.pages[i]
  BY <1>7, <1>9, <1>12, <1>15
<1>17. h.last + 1 <= Len(g.pages) /\ g.pages[h.last + 1] = NewPage(h.last + 1)
  <2>1. h.last + 1 \in 1..Len(f.pages) /\ h.last + 1 # pg.id /\ h.last + 1 <= Len(g.pages)
    BY <1>5, <1>7, <1>8, <1>12, <1>15
  <2>2. g.pages[h.last + 1] = f.pages[h.last + 1]
    BY <1>15, <2>1
  <2> QED BY <1>4, <1>8, <2>1, <2>2
<1>18. hdr'[t].first = 1 /\ hdr'[t].count = h.last + 2
  BY <1>4, <1>13 DEF Linked
<1>19. Current(t)' = hdr'[t]
  <2>1. hdr'[t] # Closed
    BY <1>5, <1>18, CountsPages
  <2> QED BY <2>1 DEF Current, IsOpen
<1>20. file'[t] = g
  BY <1>11 DEF g
<1>21. g.pages[h.last] = [f.pages[h.last] EXCEPT !.right = h.last + 1]
  BY <1>12, <1>15
<1> QED BY <1>21, <1>3, <1>4, <1>6, <1>7, <1>9, <1>13, <1>15, <1>16, <1>17, <1>18, <1>19, <1>20 DEF h, f

\* WriteRow on a table that is linked: the row is added to the last page.
LEMMA WriteRowLinked ==
    ASSUME StoreInv, TypeInv, CoherentInv, LinkInv, WriteRow, NEW t \in Table, t = op.t, stale[t] # "torn"
    PROVE  LET h == hdr[t]
               s == file[t].pages
               r == file'[t].pages
           IN  /\ Current(t) = h /\ h \in Header /\ Current(t)' = hdr'[t] /\ hdr'[t] \in Header
               /\ h.last # 0 /\ hdr'[t].last = h.last /\ hdr'[t].first = h.first
               /\ hdr'[t].count = h.last + 1 /\ h.count = h.last + 1 /\ hdr'[t].rows = h.rows + 1
               /\ h.last <= Len(s) /\ Len(r) \in Nat /\ h.last <= Len(r)
               /\ s[h.last] = op.target /\ op.target \in Page
               /\ r[h.last].id = s[h.last].id /\ r[h.last].right = s[h.last].right
               /\ r[h.last].rows = Append(s[h.last].rows, RowToWrite)
               /\ \A i \in 1..h.last : i # h.last => r[i] = s[i]
               /\ file'[t].hdr = file[t].hdr
<1> DEFINE h == hdr[t]
           f == file[t]
           pg == PageToWrite
<1>1. /\ op.at = "row" /\ file'[t] = WriteAt(f, pg) /\ hdr' = [hdr EXCEPT ![t].rows = h.rows + 1] /\ TypeInv'
  BY WriteRowStep
<1>2. Current(t) = h /\ h \in Header /\ hdr'[t] \in Header
  BY <1>1, InsertingOpen DEF Inserting, TypeInv
<1>3. Linked(h, f.pages) /\ h.count = h.last + 1 /\ op.target.id = h.last
  BY <1>1, <1>2 DEF LinkInv, LinkOK
<1>4. h.count \in Nat /\ h.first \in Nat /\ h.last \in Nat /\ h.rows \in Nat
  BY <1>2, HeaderFields
<1>5. f \in File /\ f.pages \in Seq(Page) /\ Len(f.pages) \in Nat
  BY <1>1 DEF TypeInv, File
<1>6. h.last \in 1..Len(f.pages) /\ f.pages[h.last] = op.target
  BY <1>1, <1>3 DEF CoherentInv, Stores
<1>7. /\ pg \in Page /\ pg.id = h.last /\ pg.right = op.target.right /\ op.target \in Page
      /\ pg.rows = Append(op.target.rows, RowToWrite)
  BY <1>1, <1>3, PageToWriteTyped
<1>8. /\ hdr'[t].last = h.last /\ hdr'[t].first = h.first /\ hdr'[t].rows = h.rows + 1
      /\ hdr'[t].count = h.count
  <2>1. hdr \in [Table -> Header]
    BY DEF TypeInv
  <2> QED BY <1>1, <2>1 DEF Header
<1> HIDE DEF h, f, pg
<1> DEFINE g == WriteAt(f, pg)
<1>9. pg.id \in 1..(Len(f.pages) + 1)
  BY <1>5, <1>6, <1>7
<1>10. /\ g.hdr = f.hdr /\ Len(g.pages) \in Nat
       /\ Len(f.pages) <= Len(g.pages) /\ pg.id \in 1..Len(g.pages) /\ g.pages[pg.id] = pg
       /\ \A i \in 1..Len(f.pages) : i # pg.id => g.pages[i] = f.pages[i]
  BY <1>5, <1>7, <1>9, WriteGrows
<1> HIDE DEF g
<1>11. \A i \in 1..h.last : i # h.last => g.pages[i] = f.pages[i]
  BY <1>5, <1>6, <1>7, <1>10
<1>12. /\ g.pages[h.last].id = f.pages[h.last].id /\ g.pages[h.last].right = f.pages[h.last].right
       /\ g.pages[h.last].rows = Append(f.pages[h.last].rows, RowToWrite)
  BY <1>3, <1>6, <1>7, <1>10
<1>13. Current(t)' = hdr'[t]
  <2>1. hdr'[t] # Closed
    BY <1>3, <1>4, <1>8, CountsPages
  <2> QED BY <2>1 DEF Current, IsOpen
<1>14. file'[t] = g
  BY <1>1 DEF g
<1>15. h.last # 0 /\ h.last <= Len(f.pages) /\ h.last <= Len(g.pages)
  BY <1>5, <1>6, <1>7, <1>10
<1> QED BY <1>2, <1>3, <1>6, <1>7, <1>8, <1>10, <1>11, <1>12, <1>13, <1>14, <1>15 DEF h, f

\* FindPage on a table that is linked: the last page can be read, from the cache or the file.
LEMMA FindPageLinked ==
    ASSUME StoreInv, TypeInv, ChainInv, CoherentInv, LinkInv, NEW t \in Table, t = op.t, stale[t] # "torn",
           op.at = "find", hdr[t].last # 0
    PROVE  /\ CanRead(t, hdr[t].last) /\ ReadPage(t, hdr[t].last) = file[t].pages[hdr[t].last]
           /\ ReadPage(t, hdr[t].last).id = hdr[t].last
<1>1. Current(t) = hdr[t] /\ hdr[t] \in Header
  BY InsertingOpen DEF Inserting
<1>2. Linked(hdr[t], file[t].pages)
  BY <1>1 DEF LinkInv, LinkOK
<1> DEFINE p == hdr[t].last
<1>3. p \in Nat \ {0} /\ p <= Len(file[t].pages)
  BY <1>1, <1>2 DEF Linked, Header
<1>4. p \in 1..Len(file[t].pages) /\ file[t].pages[p].id = p
  <2>1. file[t].pages \in Seq(Page)
    BY DEF TypeInv, File
  <2> QED BY <1>2, <1>3, <2>1 DEF Linked
<1> HIDE DEF p
<1>5. CanRead(t, p) /\ ReadPage(t, p) = file[t].pages[p]
  BY <1>3, <1>4, CoherentRead
<1> QED BY <1>4, <1>5 DEF p

\* Steps that do not change what the header leads to.
LEMMA LinkKept ==
    ASSUME LinkInv, op.at # "link", op'.at \notin {"link", "row"},
           \A t \in Table : /\ Current(t)' = Current(t) /\ file'[t].pages = file[t].pages
                            /\ file'[t].hdr = file[t].hdr /\ stale'[t] = stale[t]
    PROVE  LinkInv'
  BY DEF LinkInv, LinkOK, Linked

\* Pages that grow leave the header on disk in order.
LEMMA OnDiskGrows ==
    ASSUME TypeInv, LinkInv, NEW t \in Table, stale[t] = "no", NEW n \in Nat, Current(t).last = n,
           Grows(n, file[t].pages, file'[t].pages), Len(file'[t].pages) \in Nat,
           file'[t].hdr = file[t].hdr
    PROVE  /\ Linked(file'[t].hdr, file'[t].pages) /\ file'[t].hdr.count = file'[t].hdr.last + 1
           /\ file'[t].hdr.last \in Nat /\ file'[t].hdr.last <= n
<1>1. file[t].hdr \in Header
  BY CurrentTyped
<1>2. /\ Linked(file[t].hdr, file[t].pages) /\ file[t].hdr.count = file[t].hdr.last + 1
      /\ file[t].hdr.last <= n
  BY DEF LinkInv, LinkOK
<1>3. file[t].hdr.last \in Nat
  BY <1>1, HeaderFields
<1> DEFINE h == file[t].hdr
           s == file[t].pages
           r == file'[t].pages
<1> HIDE DEF h, s, r
<1>4. h \in Header /\ Linked(h, s) /\ h.last <= n /\ Grows(n, s, r) /\ Len(r) \in Nat
  BY <1>1, <1>2 DEF h, s, r
<1>5. Linked(h, r)
  BY <1>4, GrowsLinked
<1> QED BY <1>2, <1>3, <1>5 DEF h, r

\* A row goes to the last page of a linked table.
LEMMA FindPageLink ==
    ASSUME OneTable, StoreInv, TypeInv, ChainInv, CoherentInv, LinkInv, FindPage PROVE LinkInv'
<1> SUFFICES ASSUME NEW t \in Table PROVE LinkOK(t)'
  BY DEF LinkInv
<1>1. /\ op.at = "find" /\ op.t \in Table /\ op'.at \in {"alloc", "row"}
      /\ \/ op'.at = "alloc"
         \/ /\ hdr[op.t].last # 0 /\ op'.target = ReadPage(op.t, hdr[op.t].last)
      /\ UNCHANGED <<file, hdr, stale>>
  BY FindPageStep
<1>2. t = op.t
  BY <1>1 DEF OneTable
<1>3. Current(t)' = Current(t) /\ Current(t) = hdr[t]
  BY <1>1, <1>2, InsertingOpen DEF Current, IsOpen, Inserting
<1>4. stale[t] # "torn" /\ op'.at = "row" => op'.target.id = Current(t)'.last
  BY <1>1, <1>2, <1>3, FindPageLinked
<1> QED BY <1>1, <1>3, <1>4 DEF LinkInv, LinkOK

\* The new page is behind the last one.
LEMMA AllocatePageLink ==
    ASSUME OneTable, StoreInv, TypeInv, LinkInv, AllocatePage PROVE LinkInv'
<1> SUFFICES ASSUME NEW t \in Table PROVE LinkOK(t)'
  BY DEF LinkInv
<1> DEFINE h == hdr[t]
           s == file[t].pages
           r == file'[t].pages
<1>1. /\ op.at = "alloc" /\ op.t \in Table /\ op'.at = (IF hdr[op.t].last = 0 THEN "row" ELSE "link")
      /\ op'.target = NewPage(hdr[op.t].count) /\ stale' = stale
  BY AllocatePageStep
<1>2. t = op.t
  BY <1>1 DEF OneTable
<1> SUFFICES ASSUME stale[t] # "torn" PROVE LinkOK(t)'
  BY <1>1 DEF LinkOK
<1>3. /\ Current(t) = h /\ h \in Header /\ Current(t)' = hdr'[t] /\ hdr'[t] \in Header
      /\ hdr'[t].count = h.last + 2 /\ hdr'[t].first = 1
      /\ hdr'[t].last = (IF h.last = 0 THEN 1 ELSE h.last)
      /\ h.last <= Len(s) /\ Len(r) \in Nat /\ h.last + 1 <= Len(r)
      /\ r[h.last + 1] = NewPage(h.last + 1) /\ \A i \in 1..h.last : r[i] = s[i]
      /\ file'[t].hdr = file[t].hdr
  BY <1>2, AllocateLinked
<1>4. Linked(h, s) /\ h.count = h.last + 1
  BY <1>1, <1>2, <1>3 DEF LinkInv, LinkOK
<1>5. /\ op'.at = (IF h.last = 0 THEN "row" ELSE "link") /\ op'.target = NewPage(h.last + 1)
  BY <1>1, <1>2, <1>4
<1>6. h.last \in Nat /\ \A p \in Nat : NewPage(p).id = p
  BY <1>3, HeaderFields, NewPageOK
<1>7. Grows(h.last, s, r)
  <2> HIDE DEF h, s, r
  <2>1. h.last <= Len(r) /\ \A i \in 1..h.last : r[i] = s[i]
    BY <1>3, <1>6
  <2> QED BY <2>1 DEF Grows
<1>8. stale[t] = "no" => /\ Linked(file'[t].hdr, r) /\ file'[t].hdr.count = file'[t].hdr.last + 1
                         /\ file'[t].hdr.last \in Nat /\ file'[t].hdr.last <= h.last
  <2> SUFFICES ASSUME stale[t] = "no"
               PROVE  /\ Linked(file'[t].hdr, r) /\ file'[t].hdr.count = file'[t].hdr.last + 1
                      /\ file'[t].hdr.last \in Nat /\ file'[t].hdr.last <= h.last
    OBVIOUS
  <2> DEFINE n == h.last
  <2> HIDE DEF n
  <2>1. n \in Nat /\ Current(t).last = n /\ Grows(n, file[t].pages, file'[t].pages)
    BY <1>3, <1>6, <1>7 DEF n
  <2>2. Len(file'[t].pages) \in Nat /\ file'[t].hdr = file[t].hdr
    BY <1>3
  <2> QED BY <2>1, <2>2, OnDiskGrows DEF n
<1> DEFINE k == hdr'[t]
<1>9. k.first = 1 /\ k.last = (IF h.last = 0 THEN 1 ELSE h.last) /\ k.count = h.last + 2
  BY <1>3
<1>10. \A i \in 1..h.last : r[i].id = i /\ (i < h.last => r[i].right = i + 1)
  BY <1>3, <1>4 DEF Linked
<1>11. r[h.last + 1].id = h.last + 1
  BY <1>3, <1>6
<1>12. Current(t)' = k
  BY <1>3
<1> HIDE DEF k, h, s, r
<1>13. Linked(k, r)
  <2>1. CASE h.last = 0
    BY <1>3, <1>9, <1>11, <2>1 DEF Linked
  <2>2. CASE h.last # 0
    BY <1>3, <1>6, <1>9, <1>10, <2>2 DEF Linked
  <2> QED BY <2>1, <2>2
<1>14. /\ k.count = k.last + (IF op'.at = "link" THEN 2 ELSE 1)
       /\ op'.at = "row" => op'.target.id = k.last
       /\ op'.at = "link" => k.last # 0 /\ op'.target = NewPage(k.last + 1)
  <2>1. CASE h.last = 0
    <3>1. op'.at = "row" /\ op'.target.id = 1 /\ k.last = 1 /\ k.count = 2
      BY <1>5, <1>6, <1>9, <2>1
    <3> QED BY <3>1
  <2>2. CASE h.last # 0
    <3>1. op'.at = "link" /\ op'.target = NewPage(h.last + 1) /\ k.last = h.last /\ k.count = h.last + 2
      BY <1>5, <1>9, <2>2
    <3> QED BY <1>6, <2>2, <3>1
  <2> QED BY <2>1, <2>2
<1>15. stale[t] = "no" => file'[t].hdr.last <= k.last
  BY <1>6, <1>8, <1>9
<1> QED BY <1>1, <1>8, <1>12, <1>13, <1>14, <1>15 DEF LinkOK, r

\* The new page becomes the last one.
LEMMA LinkPageLink ==
    ASSUME OneTable, NoFaults, StoreInv, TypeInv, ChainInv, CoherentInv, LinkInv,
           NEW ok \in BOOLEAN, LinkPage(ok)
    PROVE  LinkInv'
<1> SUFFICES ASSUME NEW t \in Table PROVE LinkOK(t)'
  BY DEF LinkInv
<1> DEFINE h == hdr[t]
           s == file[t].pages
           r == file'[t].pages
           k == hdr'[t]
<1>1. op.at = "link" /\ op.t \in Table /\ op'.at = "row" /\ op'.target = op.target /\ stale' = stale
  BY LinkPageStep
<1>2. t = op.t
  BY <1>1 DEF OneTable
<1> SUFFICES ASSUME stale[t] # "torn" PROVE LinkOK(t)'
  BY <1>1 DEF LinkOK
<1>3. /\ Current(t) = h /\ h \in Header /\ Current(t)' = k
      /\ h.last # 0 /\ k.last = h.last + 1 /\ k.first = 1 /\ k.count = h.last + 2
      /\ h.last <= Len(s) /\ Len(r) \in Nat /\ h.last + 1 <= Len(r) /\ s \in Seq(Page)
      /\ r[h.last + 1] = NewPage(h.last + 1)
      /\ r[h.last] = [s[h.last] EXCEPT !.right = h.last + 1]
      /\ \A i \in 1..h.last : i # h.last => r[i] = s[i]
      /\ file'[t].hdr = file[t].hdr /\ op.target.id = h.last + 1
  BY <1>2, LinkLinked
<1>4. Linked(h, s)
  BY <1>1, <1>2, <1>3 DEF LinkInv, LinkOK
<1>5. h.last \in Nat /\ NewPage(h.last + 1).id = h.last + 1
  BY <1>3, HeaderFields, NewPageOK
<1>6. h.last \in 1..Len(s) /\ s[h.last] \in Page
  BY <1>3, <1>5
<1>7. r[h.last].id = s[h.last].id /\ r[h.last].rows = s[h.last].rows /\ r[h.last].right = h.last + 1
  BY <1>3, <1>6 DEF Page
<1>8. Grows(h.last, s, r)
  <2>1. \A i \in 1..h.last : /\ r[i].id = s[i].id /\ r[i].rows = s[i].rows
                             /\ i < h.last => r[i].right = s[i].right
    <3> HIDE DEF h, s, r
    <3> TAKE i \in 1..h.last
    <3>1. CASE i = h.last
      BY <1>5, <1>7, <3>1
    <3>2. CASE i # h.last
      BY <1>3, <3>2
    <3> QED BY <3>1, <3>2
  <2> QED BY <1>3, <1>5, <2>1 DEF Grows
<1>9. stale[t] = "no" => /\ Linked(file'[t].hdr, r) /\ file'[t].hdr.count = file'[t].hdr.last + 1
                         /\ file'[t].hdr.last \in Nat /\ file'[t].hdr.last <= h.last
  <2> SUFFICES ASSUME stale[t] = "no"
               PROVE  /\ Linked(file'[t].hdr, r) /\ file'[t].hdr.count = file'[t].hdr.last + 1
                      /\ file'[t].hdr.last \in Nat /\ file'[t].hdr.last <= h.last
    OBVIOUS
  <2> DEFINE n == h.last
  <2> HIDE DEF n
  <2>1. n \in Nat /\ Current(t).last = n /\ Grows(n, file[t].pages, file'[t].pages)
    BY <1>3, <1>5, <1>8 DEF n
  <2>2. Len(file'[t].pages) \in Nat /\ file'[t].hdr = file[t].hdr
    BY <1>3
  <2> QED BY <2>1, <2>2, OnDiskGrows DEF n
<1> HIDE DEF h, s, r, k
<1>10. \A i \in 1..(h.last + 1) : r[i].id = i /\ (i < h.last + 1 => r[i].right = i + 1)
  <2> TAKE i \in 1..(h.last + 1)
  <2>1. CASE i = h.last + 1
    BY <1>3, <1>5, <2>1
  <2>2. CASE i = h.last
    BY <1>4, <1>5, <1>7, <2>2, <1>3 DEF Linked
  <2>3. CASE i < h.last
    BY <1>3, <1>4, <1>5, <2>3 DEF Linked
  <2> QED BY <1>5, <2>1, <2>2, <2>3
<1>11. Linked(k, r)
  BY <1>3, <1>5, <1>10 DEF Linked
<1>12. stale[t] = "no" => file'[t].hdr.last <= k.last
  BY <1>3, <1>5, <1>9
<1>13. k.count = k.last + 1 /\ op'.target.id = k.last
  BY <1>1, <1>3, <1>5
<1> QED BY <1>1, <1>3, <1>9, <1>11, <1>12, <1>13 DEF LinkOK, r

\* A row changes no link.
LEMMA WriteRowLink ==
    ASSUME OneTable, StoreInv, TypeInv, CoherentInv, LinkInv, WriteRow PROVE LinkInv'
<1> SUFFICES ASSUME NEW t \in Table PROVE LinkOK(t)'
  BY DEF LinkInv
<1> DEFINE h == hdr[t]
           s == file[t].pages
           r == file'[t].pages
           k == hdr'[t]
<1>1. op.at = "row" /\ op.t \in Table /\ op'.at \in {"find", "done"} /\ stale' = stale
  BY WriteRowStep
<1>2. t = op.t
  BY <1>1 DEF OneTable
<1> SUFFICES ASSUME stale[t] # "torn" PROVE LinkOK(t)'
  BY <1>1 DEF LinkOK
<1>3. /\ Current(t) = h /\ h \in Header /\ Current(t)' = k
      /\ h.last # 0 /\ k.last = h.last /\ k.first = h.first /\ k.count = h.last + 1
      /\ h.last <= Len(s) /\ Len(r) \in Nat /\ h.last <= Len(r)
      /\ s[h.last] = op.target /\ op.target \in Page
      /\ r[h.last].id = s[h.last].id /\ r[h.last].right = s[h.last].right
      /\ r[h.last].rows = Append(s[h.last].rows, RowToWrite)
      /\ \A i \in 1..h.last : i # h.last => r[i] = s[i]
      /\ file'[t].hdr = file[t].hdr
  BY <1>2, WriteRowLinked
<1>4. Linked(h, s)
  BY <1>1, <1>2, <1>3 DEF LinkInv, LinkOK
<1>5. h.last \in Nat
  BY <1>3, HeaderFields
<1>6. SeqRange(s[h.last].rows) \subseteq SeqRange(r[h.last].rows)
  <2>1. s[h.last].rows \in Seq(Tagged) /\ RowToWrite \in Tagged
    BY <1>1, <1>3, PageToWriteTyped DEF Page, Tagged
  <2> DEFINE q == s[h.last].rows
  <2> HIDE DEF q
  <2>2. SeqRange(q) \subseteq SeqRange(Append(q, RowToWrite))
    <3>1. q \in Seq(Tagged)
      BY <2>1 DEF q
    <3> QED BY <2>1, <3>1 DEF SeqRange
  <2> QED BY <1>3, <2>2 DEF q
<1>7. Grows(h.last, s, r)
  <2>1. \A i \in 1..h.last : /\ r[i].id = s[i].id /\ SeqRange(s[i].rows) \subseteq SeqRange(r[i].rows)
                             /\ i < h.last => r[i].right = s[i].right
    <3> HIDE DEF h, s, r
    <3> QED BY <1>3, <1>5, <1>6
  <2> QED BY <1>3, <1>5, <2>1 DEF Grows
<1>8. stale[t] = "no" => /\ Linked(file'[t].hdr, r) /\ file'[t].hdr.count = file'[t].hdr.last + 1
                         /\ file'[t].hdr.last \in Nat /\ file'[t].hdr.last <= h.last
  <2> SUFFICES ASSUME stale[t] = "no"
               PROVE  /\ Linked(file'[t].hdr, r) /\ file'[t].hdr.count = file'[t].hdr.last + 1
                      /\ file'[t].hdr.last \in Nat /\ file'[t].hdr.last <= h.last
    OBVIOUS
  <2> DEFINE n == h.last
  <2> HIDE DEF n
  <2>1. n \in Nat /\ Current(t).last = n /\ Grows(n, file[t].pages, file'[t].pages)
    BY <1>3, <1>5, <1>7 DEF n
  <2>2. Len(file'[t].pages) \in Nat /\ file'[t].hdr = file[t].hdr
    BY <1>3
  <2> QED BY <2>1, <2>2, OnDiskGrows DEF n
<1> HIDE DEF h, s, r, k
<1>9. Linked(h, r)
  BY <1>3, <1>4, <1>5, <1>7, GrowsLinked
<1>10. Linked(k, r) /\ k.count = k.last + 1
  BY <1>3, <1>9 DEF Linked
<1> QED BY <1>1, <1>3, <1>8, <1>10 DEF LinkOK, r

\* A step that changes neither files nor handles.
LEMMA CurrentKept ==
    ASSUME UNCHANGED <<file, hdr>>, NEW t \in Table PROVE Current(t)' = Current(t)
  BY DEF Current, IsOpen

\* Links are kept where neither pages nor headers change.
LEMMA LinkQuiet ==
    ASSUME LinkInv, UNCHANGED <<file, hdr, stale>>, op.at # "link", op'.at \notin {"link", "row"} PROVE LinkInv'
<1>1. \A t \in Table : Current(t)' = Current(t)
  BY CurrentKept
<1> QED BY <1>1, LinkKept

\* The steps that open a handle.
LEMMA OpenHandleLink ==
    ASSUME OneTable, TypeInv, LinkInv, NEW t \in Table,
           InsertRow(t) \/ InsertTooLarge(t) \/ GetRows(t) \/ GetTableFile(t)
    PROVE  LinkInv'
<1>1. /\ op.at = "start" /\ op'.at \in {"start", "find", "scan"} /\ hdr' = Opened(t)
      /\ file' = file /\ stale' = stale
  <2>1. CASE InsertRow(t)
    BY <2>1, InsertRowStep
  <2>2. CASE InsertTooLarge(t) \/ GetTableFile(t)
    BY <2>2, InsertTooLargeStep, GetTableFileStep
  <2>3. CASE GetRows(t)
    BY <2>3, GetRowsStep
  <2> QED BY <2>1, <2>2, <2>3
<1>2. Current(t)' = Current(t)
  BY <1>1, OpenedCurrent
<1>3. \A u \in Table : u = t
  BY DEF OneTable
<1>4. \A u \in Table : Current(u)' = Current(u)
  <2> TAKE u \in Table
  <2>1. u = t
    BY <1>3
  <2> QED BY <1>2, <2>1
<1> QED BY <1>1, <1>4, LinkKept

\* The header that is written is the one in use.
LEMMA HeaderWrittenLink ==
    ASSUME OneTable, StoreInv, TypeInv, LinkInv, NEW t \in Table, FlushTable(t) \/ CloseTableFile(t)
    PROVE  /\ LinkInv' /\ Current(t) = hdr[t] /\ Current(t)' = hdr[t]
<1>1. /\ \/ op.at = "flush" /\ t \in op.left /\ op'.at = "flush"
         \/ op.at = "start" /\ IsOpen(t) /\ op' = op
      /\ file'[t].pages = file[t].pages /\ file'[t].hdr = hdr[t] /\ hdr'[t] \in {hdr[t], Closed}
      /\ stale'[t] = (IF stale[t] = "cleared" THEN "no" ELSE stale[t])
  BY HeaderWrittenStep
<1>2. hdr[t] # Closed
  BY <1>1, SpecialHeaders DEF StoreInv, OpOK, IsOpen
<1>3. Current(t) = hdr[t]
  BY <1>2 DEF Current, IsOpen
<1>4. Current(t)' = hdr[t]
  BY <1>1, <1>2 DEF Current, IsOpen
<1>5. hdr[t].last \in Nat
  BY <1>3, CurrentTyped, HeaderFields
<1>6. op.at \notin {"link", "row"} /\ op'.at \notin {"link", "row"}
  BY <1>1
<1>7. LinkOK(t)'
  <2>1. CASE stale[t] = "torn"
    BY <1>1, <2>1 DEF LinkOK
  <2>2. CASE stale[t] # "torn"
    <3>1. Linked(hdr[t], file[t].pages) /\ hdr[t].count = hdr[t].last + 1
      BY <1>3, <1>6, <2>2 DEF LinkInv, LinkOK
    <3> QED BY <1>1, <1>4, <1>5, <1>6, <3>1 DEF LinkOK
  <2> QED BY <2>1, <2>2
<1>8. \A u \in Table : LinkOK(u)'
  <2> TAKE u \in Table
  <2>1. u = t
    BY DEF OneTable
  <2> QED BY <1>7, <2>1
<1> QED BY <1>3, <1>4, <1>8 DEF LinkInv

\* A cleared table has no pages.
LEMMA ClearTableLink ==
    ASSUME OneTable, TypeInv, ClearTable, NEW t \in Table
    PROVE  LinkInv' /\ t = op.t /\ Current(t)' = NewHeader /\ file'[t].pages = << >>
<1>1. /\ op.at = "clear" /\ op.t \in Table /\ op'.at \in {"done", "find"}
      /\ file'[op.t].pages = << >> /\ hdr'[op.t] = NewHeader /\ stale'[op.t] = "cleared"
  BY ClearTableStep
<1>2. t = op.t
  BY <1>1 DEF OneTable
<1>3. hdr'[t] = NewHeader /\ stale'[t] = "cleared" /\ file'[t].pages = << >>
  BY <1>1, <1>2
<1>4. NewHeader # Closed /\ NewHeader.count = 1 /\ NewHeader.last = 0 /\ NewHeader.first = 0
  BY DEF NewHeader, Closed
<1>5. Current(t)' = NewHeader
  BY <1>3, <1>4 DEF Current, IsOpen
<1>6. Linked(NewHeader, << >>)
  BY <1>4 DEF Linked
<1>7. LinkOK(t)'
  BY <1>1, <1>3, <1>4, <1>5, <1>6 DEF LinkOK
<1>8. \A u \in Table : LinkOK(u)'
  <2> TAKE u \in Table
  <2>1. u = t
    BY DEF OneTable
  <2> QED BY <1>7, <2>1
<1> QED BY <1>2, <1>3, <1>5, <1>8 DEF LinkInv

\* After a crash the header on disk is the one in use.
LEMMA CrashLink ==
    ASSUME TypeInv, LinkInv, Crash PROVE LinkInv' /\ \A t \in Table : Current(t)' = file[t].hdr
<1>1. /\ op'.at = "start" /\ file' = file
      /\ \A t \in Table : /\ hdr'[t] = Closed
                          /\ stale'[t] = (IF stale[t] = "no" THEN "no" ELSE "torn")
  BY CrashStep
<1>2. \A t \in Table : Current(t)' = file[t].hdr
  BY <1>1 DEF Current, IsOpen
<1>3. ASSUME NEW t \in Table PROVE LinkOK(t)'
  <2>1. file[t].hdr.last \in Nat
    BY CurrentTyped, HeaderFields
  <2>2. CASE stale[t] = "no"
    <3>1. Linked(file[t].hdr, file[t].pages) /\ file[t].hdr.count = file[t].hdr.last + 1
      BY <2>2 DEF LinkInv, LinkOK
    <3> QED BY <1>1, <1>2, <2>1, <3>1 DEF LinkOK
  <2>3. CASE stale[t] # "no"
    BY <1>1, <2>3 DEF LinkOK
  <2> QED BY <2>2, <2>3
<1> QED BY <1>2, <1>3 DEF LinkInv

\* An operation that has not begun or is over, or is not on its way to insert a row.
LEMMA QuietLink ==
    ASSUME TypeInv, LinkInv,
           \/ FindPageFails \/ ScanPage \/ ScanPageFails \/ ScanEnds \/ FlushAll \/ Close
           \/ FlushEnds \/ CloseEnds \/ Checkpoint \/ Finish \/ Open
           \/ \E t \in Table : TruncateTable(t) \/ TruncateUnopened(t)
           \/ \E t \in Table, k \in Keys :
                 \/ UpdateRows(t, k) \/ DeleteRows(t, k)
                 \/ UpdateRowsWithCallback(t, k) \/ DeleteRowsWithCallback(t, k)
    PROVE  LinkInv'
<1>1. CASE FindPageFails
  BY <1>1, FindPageFailsStep, LinkQuiet
<1>2. CASE ScanPage
  BY <1>2, ScanPageStep, LinkQuiet
<1>3. CASE ScanPageFails \/ ScanEnds
  BY <1>3, ScanPageFailsStep, ScanEndsStep, LinkQuiet
<1>4. CASE FlushAll \/ Close
  <2>1. op.at = "start" /\ op'.at = "flush" /\ UNCHANGED <<file, hdr, stale>>
    BY <1>4, StartFlushStep DEF FlushAll, Close
  <2> QED BY <2>1, LinkQuiet
<1>5. CASE FlushEnds \/ Finish \/ Checkpoint
  BY <1>5, QuietSteps, LinkQuiet
<1>6. CASE CloseEnds \/ Open
  <2>1. /\ (op.at = "flush" /\ op'.at = "start") \/ op' = op
        /\ UNCHANGED <<file, hdr, stale>>
    BY <1>6, RestartStep
  <2>2. CASE op' = op
    BY <2>1, <2>2 DEF LinkInv, LinkOK, Current, IsOpen
  <2> QED BY <2>1, <2>2, LinkQuiet
<1>7. ASSUME NEW t \in Table, TruncateTable(t) \/ TruncateUnopened(t) PROVE LinkInv'
  BY <1>7, TruncateTableStep, TruncateUnopenedStep, LinkQuiet
<1>8. ASSUME NEW t \in Table, NEW k \in Keys,
             \/ UpdateRows(t, k) \/ DeleteRows(t, k)
             \/ UpdateRowsWithCallback(t, k) \/ DeleteRowsWithCallback(t, k)
      PROVE LinkInv'
  <2>1. k \in Nat
    BY BoundsAssumption DEF Keys
  <2>2. CASE UpdateRows(t, k) \/ DeleteRows(t, k)
    <3>1. op.at = "start" /\ op'.at \in {"scan", "done"} /\ UNCHANGED <<file, hdr, stale>>
      BY <2>1, <2>2, RewriteStep DEF UpdateRows, DeleteRows
    <3> QED BY <3>1, LinkQuiet
  <2>3. CASE UpdateRowsWithCallback(t, k) \/ DeleteRowsWithCallback(t, k)
    <3>1. op.at = "start" /\ op'.at = "done" /\ UNCHANGED <<file, hdr, stale>>
      BY <2>1, <2>3, CallbackStep DEF UpdateRowsWithCallback, DeleteRowsWithCallback
    <3> QED BY <3>1, LinkQuiet
  <2> QED BY <1>8, <2>2, <2>3
<1> QED BY <1>1, <1>2, <1>3, <1>4, <1>5, <1>6, <1>7, <1>8

\* No write fails.
LEMMA NoFailingStep ==
    ASSUME NoFaults, TypeInv,
           \/ AllocateFails \/ WriteRowFails \/ ClearFails
           \/ \E t \in Table : FlushTableFails(t) \/ CloseTableFileFails(t)
    PROVE  FALSE
  BY InsertFailsTyped, ClearFailsTyped, HeaderLostTyped DEF NoFaults, TypeInv

\* The steps of a system in which no write fails.
LEMMA FaultFreeNext ==
    ASSUME NoFaults, TypeInv, [Next]_vars
    PROVE  \/ FindPage \/ AllocatePage \/ WriteRow \/ ClearTable \/ Crash
           \/ \E ok \in BOOLEAN : LinkPage(ok)
           \/ \E t \in Table : InsertRow(t) \/ InsertTooLarge(t) \/ GetRows(t) \/ GetTableFile(t)
           \/ \E t \in Table : FlushTable(t) \/ CloseTableFile(t)
           \/ \/ FindPageFails \/ ScanPage \/ ScanPageFails \/ ScanEnds \/ FlushAll \/ Close
              \/ FlushEnds \/ CloseEnds \/ Checkpoint \/ Finish \/ Open
              \/ \E t \in Table : TruncateTable(t) \/ TruncateUnopened(t)
              \/ \E t \in Table, k \in Keys :
                    \/ UpdateRows(t, k) \/ DeleteRows(t, k)
                    \/ UpdateRowsWithCallback(t, k) \/ DeleteRowsWithCallback(t, k)
           \/ UNCHANGED vars
  BY NoFailingStep, Zenon DEF Next

\* The pages of one table are always linked from the first to the last, if no write fails and no
\* crash came between a Clear and the next write of the header.
THEOREM LinkInvariant == ASSUME OneTable, NoFaults PROVE Spec => []LinkInv
<1>1. Init => LinkInv
  <2> SUFFICES ASSUME Init, NEW t \in Table PROVE LinkOK(t)
    BY DEF LinkInv
  <2>1. /\ op = Idle /\ hdr[t] = NewHeader /\ file[t].hdr = NewHeader /\ file[t].pages = << >>
    BY DEF Init
  <2>2. NewHeader.count = 1 /\ NewHeader.last = 0 /\ NewHeader.first = 0
    BY DEF NewHeader
  <2>3. Linked(NewHeader, << >>)
    BY <2>2 DEF Linked
  <2>4. Current(t) = NewHeader /\ op.at = "start"
    BY <2>1 DEF Current, Idle
  <2> QED BY <2>1, <2>2, <2>3, <2>4 DEF LinkOK
<1>2. StoreInv /\ TypeInv /\ ChainInv /\ CoherentInv /\ LinkInv /\ [Next]_vars => LinkInv'
  <2> SUFFICES ASSUME StoreInv, TypeInv, ChainInv, CoherentInv, LinkInv, [Next]_vars PROVE LinkInv'
    OBVIOUS
  <2>1. CASE FindPage \/ AllocatePage \/ WriteRow
    BY <2>1, FindPageLink, AllocatePageLink, WriteRowLink
  <2>2. CASE \E ok \in BOOLEAN : LinkPage(ok)
    BY <2>2, LinkPageLink
  <2>3. CASE \E t \in Table : InsertRow(t) \/ InsertTooLarge(t) \/ GetRows(t) \/ GetTableFile(t)
    BY <2>3, OpenHandleLink
  <2>4. CASE \E t \in Table : FlushTable(t) \/ CloseTableFile(t)
    BY <2>4, HeaderWrittenLink
  <2>5. CASE ClearTable
    <3>1. op.t \in Table
      BY <2>5, ClearTableStep
    <3> QED BY <2>5, <3>1, ClearTableLink
  <2>6. CASE Crash
    BY <2>6, CrashLink
  <2>7. CASE UNCHANGED vars
    BY <2>7 DEF vars, LinkInv, LinkOK, Current, IsOpen
  <2> QED BY <2>1, <2>2, <2>3, <2>4, <2>5, <2>6, <2>7, FaultFreeNext, QuietLink, Zenon
<1> QED BY <1>1, <1>2, StoreInvariant, TypeInvariant, ChainInvariant, CoherentInvariant, PTL DEF Spec

----------------------------------------------------------------------------
(* The rows that a table must hold are on its pages.                       *)

\* A row without its id.
Bare(r) == [key |-> r.key, val |-> r.val]

\* The rows on the first n pages.
OnPages(n, s) == UNION {{Bare(r) : r \in SeqRange(s[i].rows)} : i \in 1..n}

\* Outcome as a function of the operation's kind and arguments.
OutcomeOf(kind, key, val, rows) ==
    CASE kind = "insert" -> Append(rows, [key |-> key, val |-> val])
      [] kind = "update" -> [i \in 1..Len(rows) |->
                               IF rows[i].key = key THEN [rows[i] EXCEPT !.val = val] ELSE rows[i]]
      [] kind = "delete" -> Without(rows, key)

Due(t) == OutcomeOf(op.kind, op.key, op.val, acked[t])

\* Unless the table is torn, its rows are on the pages that the header in use leads to; while
\* rows are inserted, those to come are on the pages or still to be inserted; a scan has read the
\* rows of the pages it left behind.  What was durable is on the pages of the header on disk.
KeptOK(t) ==
    /\ stale[t] = "no" => SeqRange(durable[t]) \subseteq OnPages(file[t].hdr.last, file[t].pages)
    /\ stale[t] # "torn" =>
          /\ IF Inserting
               THEN SeqRange(Due(t)) \subseteq OnPages(Current(t).last, file[t].pages) \cup SeqRange(op.todo)
               ELSE SeqRange(acked[t]) \subseteq OnPages(Current(t).last, file[t].pages)
          /\ op.at = "scan" =>
                \A i \in 1..Current(t).last :
                    op.page = 0 \/ op.page > i => SeqRange(file[t].pages[i].rows) \subseteq SeqRange(op.seen)
          /\ op.at = "clear" /\ op.kind # "truncate" => SeqRange(Due(t)) \subseteq SeqRange(op.todo)
          /\ op.at = "done" /\ op.kind = "get" => SeqRange(acked[t]) \subseteq SeqRange(Untagged(op.seen))

KeptInv ==
    /\ op.at = "done" /\ op.kind = "get" => op.t \in Table
    /\ \A t \in Table : KeptOK(t)

\* Outcome is OutcomeOf for the operation in progress.
LEMMA OutcomeIs == \A rows : Outcome(rows) = OutcomeOf(op.kind, op.key, op.val, rows)
  BY DEF Outcome, OutcomeOf

\* A row is on the pages if it is on one of them.
LEMMA OnPagesElement ==
    ASSUME NEW n, NEW s, NEW x
    PROVE  x \in OnPages(n, s) <=> \E i \in 1..n : \E r \in SeqRange(s[i].rows) : x = Bare(r)
  BY DEF OnPages

\* The range of a sequence, when it is added to or taken from.
LEMMA RangeAppend ==
    ASSUME NEW R, NEW s \in Seq(R), NEW e \in R
    PROVE  SeqRange(Append(s, e)) = SeqRange(s) \cup {e}
  BY DEF SeqRange

\* The range of two sequences that are joined.
LEMMA RangeConcat ==
    ASSUME NEW R, NEW s \in Seq(R), NEW r \in Seq(R)
    PROVE  SeqRange(s) \subseteq SeqRange(s \o r) /\ SeqRange(r) \subseteq SeqRange(s \o r)
<1>1. Len(s) \in Nat /\ Len(r) \in Nat /\ Len(s \o r) = Len(s) + Len(r)
  OBVIOUS
<1>2. \A i \in 1..Len(s) : i \in 1..Len(s \o r) /\ (s \o r)[i] = s[i]
  OBVIOUS
<1>3. \A i \in 1..Len(r) : Len(s) + i \in 1..Len(s \o r) /\ (s \o r)[Len(s) + i] = r[i]
  OBVIOUS
<1> QED BY <1>2, <1>3 DEF SeqRange

\* The range of a sequence, from its head and its tail.
LEMMA RangeHeadTail ==
    ASSUME NEW R, NEW s \in Seq(R), s # << >>
    PROVE  /\ SeqRange(s) \subseteq {Head(s)} \cup SeqRange(Tail(s))
           /\ Len(s) = 1 => SeqRange(s) \subseteq {Head(s)}
<1>1. /\ Len(s) \in Nat \ {0} /\ Head(s) = s[1] /\ Tail(s) \in Seq(R)
      /\ Len(Tail(s)) = Len(s) - 1 /\ \A i \in 1..(Len(s) - 1) : Tail(s)[i] = s[i + 1]
  BY HeadTail
<1> DEFINE u == Tail(s)
           e == Head(s)
<1> HIDE DEF u, e
<1>2. Len(s) \in Nat \ {0} /\ e = s[1] /\ Len(u) = Len(s) - 1 /\ \A i \in 1..(Len(s) - 1) : u[i] = s[i + 1]
  BY <1>1 DEF u, e
<1>3. ASSUME NEW i \in 1..Len(s) PROVE s[i] = e \/ s[i] \in SeqRange(u)
  <2>1. CASE i = 1
    BY <1>2, <2>1
  <2>2. CASE i # 1
    <3>1. i - 1 \in 1..Len(u) /\ u[i - 1] = s[i]
      BY <1>2, <2>2
    <3> QED BY <3>1 DEF SeqRange
  <2> QED BY <2>1, <2>2
<1>4. Len(s) = 1 => \A i \in 1..Len(s) : s[i] = e
  BY <1>2
<1> QED BY <1>3, <1>4 DEF SeqRange, u, e

\* The range of rows without their ids.
LEMMA RangeUntagged ==
    ASSUME NEW rows \in Seq(Tagged)
    PROVE  SeqRange(Untagged(rows)) = {Bare(r) : r \in SeqRange(rows)}
<1>1. Len(Untagged(rows)) = Len(rows) /\ \A i \in 1..Len(rows) : Untagged(rows)[i] = Bare(rows[i])
  BY UntaggedTyped DEF Bare
<1> QED BY <1>1 DEF SeqRange

\* The rows on pages that grow stay there.
LEMMA OnPagesGrow ==
    ASSUME NEW s, NEW r, NEW n \in Nat, NEW m \in Nat, NEW k \in Nat, m <= n, n <= k, Grows(n, s, r)
    PROVE  OnPages(m, s) \subseteq OnPages(k, r)
<1> SUFFICES ASSUME NEW x \in OnPages(m, s) PROVE x \in OnPages(k, r)
  OBVIOUS
<1>1. PICK i \in 1..m : \E y \in SeqRange(s[i].rows) : x = Bare(y)
  BY OnPagesElement
<1>2. i \in 1..n /\ i \in 1..k
  OBVIOUS
<1>3. \E y \in SeqRange(r[i].rows) : x = Bare(y)
  BY <1>1, <1>2 DEF Grows
<1> QED BY <1>2, <1>3, OnPagesElement

\* Nothing comes of no rows, but an insert.
LEMMA OutcomeOfNone ==
    ASSUME NEW key, NEW val, NEW kind \in {"update", "delete"}
    PROVE  SeqRange(OutcomeOf(kind, key, val, << >>)) = {}
<1> DEFINE none == << >>
<1>1. none \in Seq({}) /\ Len(none) = 0 /\ SeqRange(none) = {}
  BY DEF SeqRange
<1> HIDE DEF none
<1>2. CASE kind = "update"
  <2> DEFINE u == [i \in 1..Len(none) |->
                               IF none[i].key = key THEN [none[i] EXCEPT !.val = val] ELSE none[i]]
  <2>1. u = [i \in 1..0 |-> i]
    BY <1>1
  <2>2. Len(u) = 0
    BY <2>1
  <2> HIDE DEF u
  <2>3. SeqRange(u) = {}
    BY <2>2 DEF SeqRange
  <2>4. OutcomeOf(kind, key, val, none) = u
    BY <1>2 DEF OutcomeOf, u
  <2> QED BY <2>3, <2>4 DEF none
<1>3. CASE kind = "delete"
  <2>1. OutcomeOf(kind, key, val, none) = Without(none, key)
    BY <1>3 DEF OutcomeOf
  <2>2. SeqRange(Without(none, key)) = {}
    BY <1>1, WithoutRows
  <2> QED BY <2>1, <2>2 DEF none
<1> QED BY <1>2, <1>3

\* A step that neither writes nor moves to where something more is kept.
LEMMA KeptQuiet ==
    ASSUME KeptInv, UNCHANGED <<acked, durable, stale>>, ~Inserting, op'.at \in {"start", "done", "flush"},
           op'.at = "done" => op'.kind # "get",
           \A t \in Table : Current(t)' = Current(t) /\ file'[t] = file[t]
    PROVE  KeptInv'
<1> SUFFICES ASSUME NEW t \in Table PROVE KeptOK(t)'
  BY DEF KeptInv
<1>1. KeptOK(t) /\ Current(t)' = Current(t) /\ file'[t] = file[t]
  BY DEF KeptInv
<1>2. ~Inserting' /\ op'.at # "scan" /\ op'.at # "clear"
  BY DEF Inserting
<1> QED BY <1>1, <1>2 DEF KeptOK

\* The row that is inserted is the one to come.
LEMMA InsertRowKept ==
    ASSUME OneTable, TypeInv, KeptInv, NEW t \in Table, InsertRow(t) PROVE KeptInv'
<1>1. /\ op.at = "start" /\ op'.at = "find" /\ op'.kind = "insert" /\ op'.t = t
      /\ op'.todo = <<Bare(op')>> /\ hdr' = Opened(t)
      /\ UNCHANGED <<file, acked, durable, stale>> /\ TypeInv'
  BY InsertRowStep DEF Bare
<1>2. Current(t)' = Current(t)
  BY <1>1, OpenedCurrent
<1>3. Inserting' /\ ~Inserting
  BY <1>1 DEF Inserting
<1>4. KeptOK(t)
  BY DEF KeptInv
<1> DEFINE row == Bare(op')
           a == acked[t]
<1>5. a \in Rows /\ row \in [key : Nat, val : {0, 1}]
  <2>1. op' \in Operation
    BY <1>1 DEF TypeInv, OpTyped, Idle
  <2>2. op'.key \in Nat /\ op'.val \in {0, 1}
    BY <2>1, OpFieldsTyped
  <2> QED BY <2>2 DEF TypeInv, Bare
<1>6. Due(t)' = Append(a, row)
  BY <1>1 DEF Due, OutcomeOf, Bare
<1> HIDE DEF row, a
<1>7. SeqRange(Append(a, row)) = SeqRange(a) \cup {row}
  <2> DEFINE R == [key : Nat, val : {0, 1}]
  <2>1. a \in Seq(R) /\ row \in R
    BY <1>5 DEF Rows
  <2> HIDE DEF R
  <2> QED BY <2>1, RangeAppend
<1>8. SeqRange(op'.todo) = {row}
  <2>1. op'.todo = <<row>>
    BY <1>1 DEF row
  <2> DEFINE one == <<row>>
  <2>2. Len(one) = 1 /\ one[1] = row
    OBVIOUS
  <2> HIDE DEF one
  <2>3. SeqRange(one) = {row}
    BY <2>2 DEF SeqRange
  <2> QED BY <2>1, <2>3 DEF one
<1>9. KeptOK(t)'
  BY <1>1, <1>2, <1>3, <1>4, <1>6, <1>7, <1>8 DEF KeptOK, a
<1>10. \A u \in Table : KeptOK(u)'
  <2> TAKE u \in Table
  <2>1. u = t
    BY DEF OneTable
  <2> QED BY <1>9, <2>1
<1> QED BY <1>1, <1>10 DEF KeptInv

\* A scan begins at the first page.
LEMMA ScanBegins ==
    ASSUME OneTable, TypeInv, LinkInv, KeptInv, NEW t \in Table, op.at = "start", op'.at = "scan",
           op'.page = Current(t).first, UNCHANGED <<file, acked, durable, stale>>, Current(t)' = Current(t)
    PROVE  KeptInv'
<1>1. ~Inserting /\ ~Inserting'
  BY DEF Inserting
<1>2. KeptOK(t)
  BY DEF KeptInv
<1>3. stale[t] # "torn" => \A i \in 1..Current(t).last : op'.page = 1
  BY DEF LinkInv, LinkOK, Linked
<1>4. stale[t] # "torn" => \A i \in 1..Current(t).last : ~(op'.page = 0 \/ op'.page > i)
  BY <1>3
<1>5. KeptOK(t)'
  BY <1>1, <1>2, <1>4 DEF KeptOK
<1>6. \A u \in Table : KeptOK(u)'
  <2> TAKE u \in Table
  <2>1. u = t
    BY DEF OneTable
  <2> QED BY <1>5, <2>1
<1> QED BY <1>6 DEF KeptInv

\* Opening a handle keeps the rows.
LEMMA OpenHandleKept ==
    ASSUME OneTable, TypeInv, LinkInv, KeptInv, NEW t \in Table,
           InsertTooLarge(t) \/ GetRows(t) \/ GetTableFile(t)
    PROVE  KeptInv'
<1>1. op.at = "start" /\ hdr' = Opened(t) /\ UNCHANGED <<file, acked, durable, stale>>
  BY InsertTooLargeStep, GetTableFileStep, GetRowsStep, Zenon
<1>2. Current(t)' = Current(t)
  BY <1>1, OpenedCurrent
<1>3. CASE InsertTooLarge(t) \/ GetTableFile(t)
  <2>1. op' = op
    BY <1>3, InsertTooLargeStep, GetTableFileStep
  <2>2. \A u \in Table : Current(u)' = Current(u) /\ file'[u] = file[u]
    <3> TAKE u \in Table
    <3>1. u = t
      BY DEF OneTable
    <3> QED BY <1>1, <1>2, <3>1
  <2>3. ~Inserting
    BY <1>1 DEF Inserting
  <2> QED BY <1>1, <2>1, <2>2, <2>3, KeptQuiet
<1>4. CASE GetRows(t)
  <2>1. op'.at = "scan" /\ op'.page = Opened(t)[t].first
    BY <1>4, GetRowsStep
  <2>2. op'.page = Current(t).first
    BY <2>1, OpenedTyped DEF Current
  <2> QED BY <1>1, <1>2, <2>1, <2>2, ScanBegins
<1> QED BY <1>3, <1>4

\* The start of an update or deletion keeps the rows.
LEMMA RewriteKept ==
    ASSUME OneTable, TypeInv, LinkInv, KeptInv, NEW t \in Table, NEW k \in Keys,
           \/ UpdateRows(t, k) \/ DeleteRows(t, k)
           \/ UpdateRowsWithCallback(t, k) \/ DeleteRowsWithCallback(t, k)
    PROVE  KeptInv'
<1>1. k \in Nat
  BY BoundsAssumption DEF Keys
<1>2. CASE UpdateRows(t, k) \/ DeleteRows(t, k)
  <2>1. /\ op.at = "start" /\ op'.kind \in {"update", "delete"}
        /\ \/ IsOpen(t) /\ op'.at = "scan" /\ op'.page = hdr[t].first
           \/ op'.at = "done"
        /\ UNCHANGED <<file, hdr, acked, durable, stale>>
    BY <1>1, <1>2, RewriteStep DEF UpdateRows, DeleteRows
  <2>2. \A u \in Table : Current(u)' = Current(u) /\ file'[u] = file[u]
    BY <2>1, CurrentKept
  <2>3. CASE op'.at = "done"
    <3>1. ~Inserting
      BY <2>1 DEF Inserting
    <3> QED BY <2>1, <2>2, <2>3, <3>1, KeptQuiet
  <2>4. CASE IsOpen(t) /\ op'.at = "scan" /\ op'.page = hdr[t].first
    <3>1. op'.page = Current(t).first
      BY <2>4 DEF Current
    <3> QED BY <2>1, <2>2, <2>4, <3>1, ScanBegins
  <2> QED BY <2>1, <2>3, <2>4
<1>3. CASE UpdateRowsWithCallback(t, k) \/ DeleteRowsWithCallback(t, k)
  <2>1. /\ op.at = "start" /\ op'.at = "done" /\ op'.kind \in {"updateSQL", "deleteSQL"}
        /\ UNCHANGED <<file, hdr, acked, durable, stale>>
    BY <1>1, <1>3, CallbackStep DEF UpdateRowsWithCallback, DeleteRowsWithCallback
  <2>2. \A u \in Table : Current(u)' = Current(u) /\ file'[u] = file[u]
    BY <2>1, CurrentKept
  <2>3. ~Inserting
    BY <2>1 DEF Inserting
  <2> QED BY <2>1, <2>2, <2>3, KeptQuiet
<1> QED BY <1>2, <1>3

\* A scan that reads a page of a linked table has read the pages before it.
LEMMA ScanPageKept ==
    ASSUME OneTable, TypeInv, ChainInv, CoherentInv, LinkInv, KeptInv, ScanPage PROVE KeptInv'
<1> DEFINE p == op.page
<1>1. /\ op.at = "scan" /\ op.t \in Table /\ p # 0 /\ CanRead(op.t, p)
      /\ p \in Nat /\ op.seen \in Seq(Tagged) /\ ReadPage(op.t, p) \in Page
      /\ op'.at = "scan" /\ op'.kind = op.kind /\ op'.t = op.t
      /\ op'.seen = op.seen \o ReadPage(op.t, p).rows /\ op'.page = ReadPage(op.t, p).right
      /\ UNCHANGED <<file, hdr, acked, durable, stale>>
  BY ScanPageStep
<1> SUFFICES ASSUME NEW t \in Table PROVE KeptOK(t)'
  BY <1>1 DEF KeptInv
<1> DEFINE pg == ReadPage(t, p)
           s == file[t].pages
           n == Current(t).last
<1>2. t = op.t
  BY <1>1 DEF OneTable
<1>3. Current(t)' = Current(t)
  BY <1>1, CurrentKept
<1>4. KeptOK(t) /\ ~Inserting /\ ~Inserting'
  BY <1>1 DEF KeptInv, Inserting
<1> SUFFICES ASSUME stale[t] # "torn"
             PROVE  \A i \in 1..n : op'.page = 0 \/ op'.page > i => SeqRange(s[i].rows) \subseteq SeqRange(op'.seen)
  BY <1>1, <1>3, <1>4 DEF KeptOK
<1>5. \A i \in 1..n : p > i => SeqRange(s[i].rows) \subseteq SeqRange(op.seen)
  BY <1>1, <1>4 DEF KeptOK
<1>6. pg = s[p] /\ pg \in Page /\ p \in 1..Len(s)
  BY <1>1, <1>2, CoherentRead
<1>7. Linked(Current(t), s) /\ n \in Nat
  BY CurrentTyped, HeaderFields DEF LinkInv, LinkOK
<1>8. pg.rows \in Seq(Tagged) /\ pg.right \in Nat
  BY <1>6 DEF Page, Tagged
<1>9. op'.seen = op.seen \o pg.rows /\ op'.page = pg.right
  BY <1>1, <1>2
<1>10. \A i \in 1..n : i < n => s[i].right = i + 1
  BY <1>7 DEF Linked
<1> HIDE DEF p, s, n, pg
<1>11. SeqRange(op.seen) \subseteq SeqRange(op'.seen) /\ SeqRange(pg.rows) \subseteq SeqRange(op'.seen)
  <2> DEFINE u == op.seen
             v == pg.rows
  <2>1. u \in Seq(Tagged) /\ v \in Seq(Tagged)
    BY <1>1, <1>8
  <2> HIDE DEF u, v
  <2>2. SeqRange(u) \subseteq SeqRange(u \o v) /\ SeqRange(v) \subseteq SeqRange(u \o v)
    BY <2>1, RangeConcat
  <2> QED BY <1>9, <2>2 DEF u, v
<1> TAKE i \in 1..n
<1> HAVE op'.page = 0 \/ op'.page > i
<1>12. CASE p > i
  BY <1>5, <1>11, <1>12
<1>13. CASE p = i
  BY <1>6, <1>11, <1>13
<1>14. CASE p < i
  <2>1. p \in 1..n /\ p < n
    BY <1>1, <1>7, <1>14
  <2>2. pg.right = p + 1
    BY <1>6, <1>10, <2>1
  <2> QED BY <1>1, <1>9, <1>14, <2>2
<1> QED BY <1>1, <1>7, <1>12, <1>13, <1>14

\* A scan that stops, at the end or at a page that cannot be read, has the rows of the table.
LEMMA ScanHasRows ==
    ASSUME TypeInv, ChainInv, CoherentInv, LinkInv, KeptInv, NEW t \in Table, t = op.t, stale[t] # "torn",
           op.at = "scan", op.page = 0 \/ ~CanRead(t, op.page)
    PROVE  SeqRange(acked[t]) \subseteq SeqRange(Untagged(op.seen))
<1> DEFINE s == file[t].pages
           n == Current(t).last
           p == op.page
<1>1. KeptOK(t) /\ ~Inserting
  BY DEF KeptInv, Inserting
<1>2. /\ SeqRange(acked[t]) \subseteq OnPages(n, s)
      /\ \A i \in 1..n : p = 0 \/ p > i => SeqRange(s[i].rows) \subseteq SeqRange(op.seen)
  BY <1>1 DEF KeptOK
<1>3. n \in Nat /\ n <= Len(s) /\ s \in Seq(Page) /\ Len(s) \in Nat
  BY CurrentTyped, HeaderFields DEF LinkInv, LinkOK, Linked, TypeInv, File
<1>4. p \in Nat /\ op.seen \in Seq(Tagged)
  BY OpInProgress
<1>5. p = 0 \/ p > Len(s)
  <2> SUFFICES ASSUME p # 0 PROVE p > Len(s)
    OBVIOUS
  <2>1. p \notin 1..Len(s)
    BY <1>4, CoherentRead
  <2> QED BY <1>3, <1>4, <2>1
<1>6. SeqRange(Untagged(op.seen)) = {Bare(r) : r \in SeqRange(op.seen)}
  BY <1>4, RangeUntagged
<1> HIDE DEF s, n, p
<1>7. \A i \in 1..n : SeqRange(s[i].rows) \subseteq SeqRange(op.seen)
  BY <1>2, <1>3, <1>4, <1>5
<1>8. ASSUME NEW x \in OnPages(n, s) PROVE x \in SeqRange(Untagged(op.seen))
  <2>1. PICK i \in 1..n : \E r \in SeqRange(s[i].rows) : x = Bare(r)
    BY OnPagesElement
  <2> QED BY <1>6, <1>7, <2>1
<1> QED BY <1>2, <1>8

\* A scan that cannot go on has read every page of a linked table.
LEMMA ScanPageFailsKept ==
    ASSUME OneTable, TypeInv, ChainInv, CoherentInv, LinkInv, KeptInv, ScanPageFails PROVE KeptInv'
<1>1. /\ op.at = "scan" /\ op.t \in Table /\ ~CanRead(op.t, op.page)
      /\ op'.at = "done" /\ op'.kind = op.kind /\ op'.t = op.t
      /\ op'.seen = IF op.kind = "get" THEN op.seen ELSE << >>
      /\ UNCHANGED <<file, hdr, acked, durable, stale>>
  BY ScanPageFailsStep
<1> SUFFICES ASSUME NEW t \in Table PROVE KeptOK(t)'
  BY <1>1 DEF KeptInv
<1>2. t = op.t
  BY <1>1 DEF OneTable
<1>3. Current(t)' = Current(t)
  BY <1>1, CurrentKept
<1>4. KeptOK(t) /\ ~Inserting /\ ~Inserting'
  BY <1>1 DEF KeptInv, Inserting
<1>5. stale[t] # "torn" /\ op.kind = "get" => SeqRange(acked[t]) \subseteq SeqRange(Untagged(op'.seen))
  BY <1>1, <1>2, ScanHasRows
<1> QED BY <1>1, <1>3, <1>4, <1>5 DEF KeptOK

\* The rows to insert again are what becomes of the rows of the table.
LEMMA ScanEndsKept ==
    ASSUME OneTable, TypeInv, ChainInv, CoherentInv, LinkInv, KeptInv, ScanEnds PROVE KeptInv'
<1>1. /\ op.at = "scan" /\ op.t \in Table /\ op.page = 0
      /\ op.kind \in {"get", "update", "delete"} /\ op.seen \in Seq(Tagged)
      /\ op'.kind = op.kind /\ op'.t = op.t
      /\ \/ /\ op'.at = "done" /\ op'.err = FALSE
            /\ op'.seen = IF op.kind = "get" THEN op.seen ELSE << >>
         \/ /\ op.kind # "get" /\ op'.at = "clear" /\ op'.todo = Outcome(Untagged(op.seen))
            /\ op'.key = op.key /\ op'.val = op.val
      /\ UNCHANGED <<file, hdr, acked, durable, stale>>
  BY ScanEndsStep
<1> SUFFICES ASSUME NEW t \in Table PROVE KeptOK(t)'
  BY <1>1 DEF KeptInv
<1>2. t = op.t
  BY <1>1 DEF OneTable
<1>3. Current(t)' = Current(t)
  BY <1>1, CurrentKept
<1>4. KeptOK(t) /\ ~Inserting /\ ~Inserting'
  BY <1>1 DEF KeptInv, Inserting
<1>5. stale[t] # "torn" => SeqRange(acked[t]) \subseteq SeqRange(Untagged(op.seen))
  BY <1>1, <1>2, ScanHasRows
<1>6. CASE op'.at = "done"
  <2>1. stale[t] # "torn" /\ op.kind = "get" => SeqRange(acked[t]) \subseteq SeqRange(Untagged(op'.seen))
    BY <1>1, <1>5, <1>6
  <2> QED BY <1>1, <1>3, <1>4, <1>6, <2>1 DEF KeptOK
<1>7. CASE /\ op.kind # "get" /\ op'.at = "clear" /\ op'.todo = Outcome(Untagged(op.seen))
           /\ op'.key = op.key /\ op'.val = op.val
  <2>1. op \in Operation /\ op.kind \in {"insert", "update", "delete"} /\ acked[t] \in Rows
    BY <1>1, <1>7, OpInProgress DEF TypeInv
  <2>2. Untagged(op.seen) \in Rows
    BY <1>1, UntaggedTyped
  <2>3. stale[t] # "torn" => SeqRange(Outcome(acked[t])) \subseteq SeqRange(Outcome(Untagged(op.seen)))
    BY <1>5, <2>1, <2>2, OutcomeMonotone
  <2>4. Due(t)' = Outcome(acked[t])
    BY <1>1, <1>7, OutcomeIs DEF Due
  <2> QED BY <1>1, <1>3, <1>4, <1>7, <2>3, <2>4 DEF KeptOK
<1> QED BY <1>1, <1>6, <1>7

\* When the table is cleared, the rows it must hold are those to be inserted.
LEMMA ClearTableKept ==
    ASSUME OneTable, TypeInv, KeptInv, ClearTable PROVE KeptInv'
<1>1. /\ op.at = "clear" /\ op.t \in Table /\ stale'[op.t] = "cleared" /\ op.kind \in {"update", "delete", "truncate"}
      /\ \/ /\ op.kind = "truncate" /\ op'.at = "done" /\ op'.kind = "truncate"
            /\ acked'[op.t] = << >> /\ exact'[op.t] = TRUE
         \/ /\ op.kind # "truncate" /\ op.todo = << >> /\ op'.at = "done" /\ op'.kind = op.kind
            /\ acked'[op.t] = Outcome(Promised(op.t)) /\ exact' = exact
         \/ /\ op.kind # "truncate" /\ op.todo # << >> /\ op'.at = "find" /\ op'.todo = op.todo
            /\ op'.kind = op.kind /\ op'.t = op.t /\ op'.key = op.key /\ op'.val = op.val
            /\ acked'[op.t] = Promised(op.t) /\ exact' = exact
  BY ClearTableStep
<1>0. op'.at # "done" \/ op'.kind # "get"
  BY <1>1
<1> SUFFICES ASSUME NEW t \in Table PROVE KeptOK(t)'
  BY <1>0 DEF KeptInv
<1>2. t = op.t
  BY <1>1 DEF OneTable
<1>3. KeptOK(t) /\ ~Inserting
  BY <1>1 DEF KeptInv, Inserting
<1> DEFINE none == << >>
<1>4. Len(none) = 0 /\ SeqRange(none) = {}
  BY DEF SeqRange
<1> HIDE DEF none
<1>5. stale'[t] = "cleared"
  BY <1>1, <1>2
<1>6. op.kind # "truncate" => SeqRange(Outcome(Promised(t))) \subseteq SeqRange(op.todo)
  <2> SUFFICES ASSUME op.kind # "truncate" PROVE SeqRange(Outcome(Promised(t))) \subseteq SeqRange(op.todo)
    OBVIOUS
  <2>1. CASE stale[t] = "torn"
    <3>1. Promised(t) = << >>
      BY <2>1 DEF Promised
    <3>2. Outcome(Promised(t)) = OutcomeOf(op.kind, op.key, op.val, << >>)
      BY <3>1, OutcomeIs
    <3>3. op.kind \in {"update", "delete"}
      BY <1>1
    <3> QED BY <3>2, <3>3, OutcomeOfNone
  <2>2. CASE stale[t] # "torn"
    <3>1. Outcome(Promised(t)) = Due(t)
      BY <2>2, OutcomeIs DEF Promised, Due
    <3> QED BY <1>1, <1>3, <2>2, <3>1 DEF KeptOK
  <2> QED BY <2>1, <2>2
<1>7. CASE op'.at = "done"
  <2>1. SeqRange(acked'[t]) = {}
    <3>1. CASE acked'[op.t] = << >>
      BY <1>2, <1>4, <3>1 DEF none
    <3>2. CASE op.kind # "truncate" /\ op.todo = << >> /\ acked'[op.t] = Outcome(Promised(op.t))
      <4>1. SeqRange(op.todo) = {}
        BY <1>4, <3>2 DEF none
      <4> QED BY <1>2, <1>6, <3>2, <4>1
    <3> QED BY <1>1, <1>7, <3>1, <3>2
  <2>2. ~Inserting' /\ op'.kind # "get"
    BY <1>1, <1>7 DEF Inserting
  <2> QED BY <1>5, <1>7, <2>1, <2>2 DEF KeptOK
<1>8. CASE op'.at = "find"
  <2>1. /\ op.kind # "truncate" /\ op'.todo = op.todo /\ op'.kind = op.kind
        /\ op'.key = op.key /\ op'.val = op.val /\ acked'[t] = Promised(t)
    BY <1>1, <1>2, <1>8
  <2>2. Due(t)' = Outcome(Promised(t))
    BY <2>1, OutcomeIs DEF Due
  <2>3. Inserting'
    BY <1>8 DEF Inserting
  <2> QED BY <1>5, <1>6, <1>8, <2>1, <2>2, <2>3 DEF KeptOK
<1> QED BY <1>1, <1>7, <1>8

\* Steps of an insertion that add pages: the rows stay where they are.
LEMMA KeptGrows ==
    ASSUME TypeInv, LinkInv, KeptInv, NEW t \in Table, Inserting, Inserting',
           NEW n \in Nat, NEW m \in Nat, n = Current(t).last, Current(t)'.last = m, n <= m,
           Grows(n, file[t].pages, file'[t].pages), Len(file'[t].pages) \in Nat, file'[t].hdr = file[t].hdr,
           op'.kind = op.kind, op'.key = op.key, op'.val = op.val, op'.todo = op.todo,
           UNCHANGED <<acked, durable, stale>>, stale[t] # "torn"
    PROVE  KeptOK(t)'
<1> DEFINE s == file[t].pages
           r == file'[t].pages
           k == file[t].hdr.last
<1>1. KeptOK(t) /\ k \in Nat
  BY CurrentTyped, HeaderFields DEF KeptInv
<1>2. stale[t] = "no" => k <= n
  BY DEF LinkInv, LinkOK
<1>3. Grows(n, s, r) /\ Len(r) \in Nat
  OBVIOUS
<1>4. Due(t)' = Due(t)
  BY DEF Due
<1>5. op.at # "scan" /\ op.at # "clear" /\ op.at # "done" /\ op'.at # "scan" /\ op'.at # "clear" /\ op'.at # "done"
  BY DEF Inserting
<1>6. /\ stale[t] = "no" => SeqRange(durable[t]) \subseteq OnPages(k, s)
      /\ SeqRange(Due(t)) \subseteq OnPages(n, s) \cup SeqRange(op.todo)
  BY <1>1 DEF KeptOK
<1> HIDE DEF s, r, k
<1>7. OnPages(n, s) \subseteq OnPages(m, r)
  BY <1>3, OnPagesGrow
<1>8. stale[t] = "no" => OnPages(k, s) \subseteq OnPages(k, r)
  <2> SUFFICES ASSUME stale[t] = "no" PROVE OnPages(k, s) \subseteq OnPages(k, r)
    OBVIOUS
  <2>1. Grows(k, s, r)
    BY <1>1, <1>2, <1>3 DEF Grows
  <2> QED BY <1>1, <2>1, OnPagesGrow
<1>9. /\ stale[t] = "no" => SeqRange(durable[t]) \subseteq OnPages(k, r)
      /\ SeqRange(Due(t)) \subseteq OnPages(m, r) \cup SeqRange(op.todo)
  BY <1>6, <1>7, <1>8
<1> QED BY <1>4, <1>5, <1>9 DEF KeptOK, r, k

\* FindPage changes no row; the last page of a linked table can always be read.
LEMMA FindPageKept ==
    ASSUME OneTable, StoreInv, TypeInv, ChainInv, CoherentInv, LinkInv, KeptInv, FindPage \/ FindPageFails
    PROVE  KeptInv'
<1>1. CASE FindPage
  <2>1. /\ op.at = "find" /\ op'.at \in {"alloc", "row"} /\ op'.kind = op.kind /\ op'.todo = op.todo
        /\ op'.key = op.key /\ op'.val = op.val
        /\ UNCHANGED <<file, hdr, acked, durable, stale>>
    BY <1>1, FindPageStep
  <2>2. Inserting /\ Inserting'
    BY <2>1 DEF Inserting
  <2>3. ASSUME NEW t \in Table PROVE KeptOK(t)'
    <3>1. Current(t)' = Current(t) /\ KeptOK(t)
      BY <2>1, CurrentKept DEF KeptInv
    <3>2. Due(t)' = Due(t)
      BY <2>1 DEF Due
    <3> QED BY <2>1, <2>2, <3>1, <3>2 DEF KeptOK
  <2> QED BY <2>1, <2>3 DEF KeptInv
<1>2. CASE FindPageFails
  <2>1. /\ op.at = "find" /\ op.t \in Table /\ hdr[op.t].last # 0 /\ ~CanRead(op.t, hdr[op.t].last)
        /\ op'.at = "done" /\ op'.kind = op.kind /\ op.kind # "get"
        /\ UNCHANGED <<file, hdr, durable, stale>>
    BY <1>2, FindPageFailsStep
  <2>2. ASSUME NEW t \in Table PROVE KeptOK(t)'
    <3>1. t = op.t
      BY <2>1 DEF OneTable
    <3>2. stale[t] = "torn"
      BY <2>1, <3>1, FindPageLinked
    <3> QED BY <2>1, <3>2 DEF KeptOK
  <2> QED BY <2>1, <2>2 DEF KeptInv
<1> QED BY <1>1, <1>2

\* A new page keeps the rows.
LEMMA AllocatePageKept ==
    ASSUME OneTable, StoreInv, TypeInv, LinkInv, KeptInv, AllocatePage PROVE KeptInv'
<1>1. /\ op.at = "alloc" /\ op.t \in Table /\ op'.at \in {"row", "link"} /\ op'.todo = op.todo
      /\ op'.kind = op.kind /\ op'.key = op.key /\ op'.val = op.val
      /\ UNCHANGED <<acked, durable, stale>>
  BY AllocatePageStep
<1>2. Inserting /\ Inserting'
  BY <1>1 DEF Inserting
<1> SUFFICES ASSUME NEW t \in Table PROVE KeptOK(t)'
  BY <1>1 DEF KeptInv
<1>3. t = op.t
  BY <1>1 DEF OneTable
<1>4. CASE stale[t] = "torn"
  BY <1>1, <1>4 DEF KeptOK
<1>5. CASE stale[t] # "torn"
  <2> DEFINE h == hdr[t]
             s == file[t].pages
             r == file'[t].pages
  <2>1. /\ Current(t) = h /\ h \in Header /\ Current(t)' = hdr'[t]
        /\ hdr'[t].last = (IF h.last = 0 THEN 1 ELSE h.last)
        /\ Len(r) \in Nat /\ h.last + 1 <= Len(r) /\ \A i \in 1..h.last : r[i] = s[i]
        /\ file'[t].hdr = file[t].hdr
    BY <1>3, <1>5, AllocateLinked
  <2>2. h.last \in Nat
    BY <2>1, HeaderFields
  <2> DEFINE n == h.last
             m == IF n = 0 THEN 1 ELSE n
  <2>3. n \in Nat /\ m \in Nat /\ n <= m /\ n = Current(t).last /\ Current(t)'.last = m
    BY <2>1, <2>2
  <2> HIDE DEF n, m
  <2>4. Grows(n, s, r)
    <3>1. n <= Len(r) /\ \A i \in 1..n : r[i] = s[i]
      BY <2>1, <2>2 DEF n
    <3> HIDE DEF h, s, r
    <3> QED BY <3>1 DEF Grows
  <2> QED BY <1>1, <1>2, <1>5, <2>1, <2>3, <2>4, KeptGrows
<1> QED BY <1>4, <1>5

\* Linking the new page keeps the rows.
LEMMA LinkPageKept ==
    ASSUME OneTable, NoFaults, StoreInv, TypeInv, ChainInv, CoherentInv, LinkInv, KeptInv,
           NEW ok \in BOOLEAN, LinkPage(ok)
    PROVE  KeptInv'
<1>1. /\ op.at = "link" /\ op.t \in Table /\ op'.at = "row" /\ op'.todo = op.todo
      /\ op'.kind = op.kind /\ op'.key = op.key /\ op'.val = op.val
      /\ UNCHANGED <<acked, durable, stale>>
  BY LinkPageStep
<1>2. Inserting /\ Inserting'
  BY <1>1 DEF Inserting
<1> SUFFICES ASSUME NEW t \in Table PROVE KeptOK(t)'
  BY <1>1 DEF KeptInv
<1>3. t = op.t
  BY <1>1 DEF OneTable
<1>4. CASE stale[t] = "torn"
  BY <1>1, <1>4 DEF KeptOK
<1>5. CASE stale[t] # "torn"
  <2> DEFINE h == hdr[t]
             s == file[t].pages
             r == file'[t].pages
  <2>1. /\ Current(t) = h /\ h \in Header /\ Current(t)' = hdr'[t]
        /\ h.last # 0 /\ hdr'[t].last = h.last + 1
        /\ h.last <= Len(s) /\ Len(r) \in Nat /\ h.last + 1 <= Len(r) /\ s \in Seq(Page)
        /\ r[h.last] = [s[h.last] EXCEPT !.right = h.last + 1]
        /\ \A i \in 1..h.last : i # h.last => r[i] = s[i]
        /\ file'[t].hdr = file[t].hdr
    BY <1>3, <1>5, LinkLinked
  <2>2. h.last \in Nat
    BY <2>1, HeaderFields
  <2>3. s[h.last] \in Page
    BY <2>1, <2>2
  <2>4. r[h.last].id = s[h.last].id /\ r[h.last].rows = s[h.last].rows
    BY <2>1, <2>3 DEF Page
  <2> DEFINE n == h.last
             m == n + 1
  <2>5. n \in Nat /\ m \in Nat /\ n <= m /\ n = Current(t).last /\ Current(t)'.last = m
    BY <2>1, <2>2
  <2>6. n <= Len(r) /\ \A i \in 1..n : i # n => r[i] = s[i]
    BY <2>1, <2>2
  <2>7. r[n].id = s[n].id /\ r[n].rows = s[n].rows
    BY <2>4
  <2> HIDE DEF n, m
  <2>8. Grows(n, s, r)
    <3> HIDE DEF h, s, r
    <3>1. ASSUME NEW i \in 1..n
          PROVE  /\ r[i].id = s[i].id /\ (i < n => r[i].right = s[i].right) /\ r[i].rows = s[i].rows
      <4>1. CASE i = n
        BY <2>5, <2>7, <4>1
      <4>2. CASE i # n
        BY <2>6, <4>2
      <4> QED BY <4>1, <4>2
    <3> QED BY <2>6, <3>1 DEF Grows
  <2> QED BY <1>1, <1>2, <1>5, <2>1, <2>5, <2>8, KeptGrows
<1> QED BY <1>4, <1>5

\* The row that is written is on the last page; the others stay.
LEMMA WriteRowKept ==
    ASSUME OneTable, StoreInv, TypeInv, CoherentInv, LinkInv, KeptInv, WriteRow PROVE KeptInv'
<1>1. /\ op.at = "row" /\ op.t \in Table
      /\ \/ /\ Len(op.todo) > 1 /\ op'.at = "find" /\ op'.todo = Tail(op.todo)
            /\ op'.kind = op.kind /\ op'.key = op.key /\ op'.val = op.val
            /\ acked' = acked
         \/ /\ Len(op.todo) = 1 /\ op'.at = "done" /\ op'.kind # "get"
            /\ acked'[op.t] = Outcome(acked[op.t])
      /\ UNCHANGED <<durable, stale>>
  BY WriteRowStep
<1>2. Inserting
  BY <1>1 DEF Inserting
<1> SUFFICES ASSUME NEW t \in Table PROVE KeptOK(t)'
  BY <1>1 DEF KeptInv
<1>3. t = op.t
  BY <1>1 DEF OneTable
<1> SUFFICES ASSUME stale[t] # "torn" PROVE KeptOK(t)'
  BY <1>1 DEF KeptOK
<1> DEFINE h == hdr[t]
           s == file[t].pages
           r == file'[t].pages
           n == h.last
           k == file[t].hdr.last
<1>4. /\ Current(t) = h /\ h \in Header /\ Current(t)' = hdr'[t]
      /\ n # 0 /\ hdr'[t].last = n
      /\ Len(r) \in Nat /\ n <= Len(r)
      /\ s[n] = op.target /\ op.target \in Page
      /\ r[n].id = s[n].id /\ r[n].right = s[n].right
      /\ r[n].rows = Append(s[n].rows, RowToWrite)
      /\ \A i \in 1..n : i # n => r[i] = s[i]
      /\ file'[t].hdr = file[t].hdr
  BY <1>3, WriteRowLinked
<1>5. n \in Nat /\ k \in Nat
  BY <1>4, CurrentTyped, HeaderFields
<1>6. s[n].rows \in Seq(Tagged) /\ RowToWrite \in Tagged
  BY <1>1, <1>4, PageToWriteTyped DEF Page, Tagged
<1>7. SeqRange(r[n].rows) = SeqRange(s[n].rows) \cup {RowToWrite}
  <2> DEFINE q == s[n].rows
  <2> HIDE DEF q
  <2>1. q \in Seq(Tagged)
    BY <1>6 DEF q
  <2>2. SeqRange(Append(q, RowToWrite)) = SeqRange(q) \cup {RowToWrite}
    BY <1>6, <2>1, RangeAppend
  <2> QED BY <1>4, <2>2 DEF q
<1>8. KeptOK(t) /\ (stale[t] = "no" => k <= n)
  BY <1>4 DEF KeptInv, LinkInv, LinkOK
<1>9. /\ stale[t] = "no" => SeqRange(durable[t]) \subseteq OnPages(k, s)
      /\ SeqRange(Due(t)) \subseteq OnPages(n, s) \cup SeqRange(op.todo)
  BY <1>2, <1>4, <1>8 DEF KeptOK
<1>10. Bare(RowToWrite) = Head(op.todo) /\ op.todo \in Rows /\ op.todo # << >>
  BY <1>1, PageToWriteTyped DEF Bare, RowToWrite
<1> HIDE DEF h, s, r, n, k
<1>11. Grows(n, s, r)
  <2>1. ASSUME NEW i \in 1..n
        PROVE  /\ r[i].id = s[i].id /\ (i < n => r[i].right = s[i].right)
               /\ SeqRange(s[i].rows) \subseteq SeqRange(r[i].rows)
    <3>1. CASE i = n
      BY <1>4, <1>7, <3>1
    <3>2. CASE i # n
      BY <1>4, <3>2
    <3> QED BY <3>1, <3>2
  <2> QED BY <1>4, <2>1 DEF Grows
<1>12. OnPages(n, s) \subseteq OnPages(n, r)
  BY <1>5, <1>11, OnPagesGrow
<1>13. stale[t] = "no" => OnPages(k, s) \subseteq OnPages(k, r)
  <2> SUFFICES ASSUME stale[t] = "no" PROVE OnPages(k, s) \subseteq OnPages(k, r)
    OBVIOUS
  <2>1. k \in Nat /\ n \in Nat /\ k <= n /\ n <= Len(r) /\ Len(r) \in Nat
    BY <1>4, <1>5, <1>8
  <2>2. k <= Len(r)
    BY <2>1
  <2>3. \A i \in 1..k : i \in 1..n /\ (i < k => i < n)
    BY <2>1
  <2>4. Grows(k, s, r)
    BY <1>11, <2>2, <2>3 DEF Grows
  <2> QED BY <2>1, <2>4, OnPagesGrow
<1>14. Head(op.todo) \in OnPages(n, r)
  <2>1. n \in 1..n /\ RowToWrite \in SeqRange(r[n].rows)
    BY <1>4, <1>5, <1>7
  <2> QED BY <1>10, <2>1, OnPagesElement
<1> DEFINE todo == op.todo
<1>15. /\ SeqRange(todo) \subseteq {Head(todo)} \cup SeqRange(Tail(todo))
       /\ Len(todo) = 1 => SeqRange(todo) \subseteq {Head(todo)}
  <2>1. todo \in Seq([key : Nat, val : {0, 1}]) /\ todo # << >>
    BY <1>10 DEF Rows
  <2> HIDE DEF todo
  <2> QED BY <2>1, RangeHeadTail
<1>16. Current(t)'.last = n /\ file'[t].hdr.last = k /\ file'[t].pages = r
  BY <1>4 DEF k, r
<1>17. stale[t] = "no" => SeqRange(durable[t]) \subseteq OnPages(k, r)
  BY <1>9, <1>13
<1>18. CASE Len(op.todo) > 1 /\ op'.at = "find"
  <2>1. Due(t)' = Due(t) /\ op'.todo = Tail(op.todo)
    BY <1>1, <1>18 DEF Due
  <2>2. SeqRange(Due(t)) \subseteq OnPages(n, r) \cup SeqRange(Tail(op.todo))
    BY <1>9, <1>12, <1>14, <1>15
  <2>3. Inserting'
    BY <1>18 DEF Inserting
  <2> QED BY <1>1, <1>16, <1>17, <1>18, <2>1, <2>2, <2>3 DEF KeptOK
<1>19. CASE Len(op.todo) = 1 /\ op'.at = "done"
  <2>1. acked'[t] = Due(t) /\ op'.kind # "get"
    BY <1>1, <1>3, <1>19, OutcomeIs DEF Due
  <2>2. SeqRange(Due(t)) \subseteq OnPages(n, r)
    BY <1>9, <1>12, <1>14, <1>15, <1>19
  <2>3. ~Inserting'
    BY <1>19 DEF Inserting
  <2> QED BY <1>1, <1>16, <1>17, <1>19, <2>1, <2>2, <2>3 DEF KeptOK
<1> QED BY <1>1, <1>18, <1>19

\* With the header on disk, what the table must hold is durable.
LEMMA HeaderWrittenKept ==
    ASSUME OneTable, StoreInv, TypeInv, LinkInv, KeptInv, NEW t \in Table, FlushTable(t) \/ CloseTableFile(t)
    PROVE  KeptInv'
<1>1. /\ \/ op.at = "flush" /\ op'.at = "flush"
         \/ op.at = "start" /\ op' = op
      /\ file'[t].pages = file[t].pages /\ file'[t].hdr = hdr[t]
      /\ durable'[t] = acked[t] /\ stale'[t] = (IF stale[t] = "cleared" THEN "no" ELSE stale[t])
      /\ acked' = acked
  BY HeaderWrittenStep
<1>2. Current(t) = hdr[t] /\ Current(t)' = hdr[t]
  BY HeaderWrittenLink
<1>3. ~Inserting /\ ~Inserting' /\ op'.at \notin {"scan", "clear", "done"}
  BY <1>1 DEF Inserting
<1>4. KeptOK(t)
  BY DEF KeptInv
<1>5. stale[t] # "torn" => SeqRange(acked[t]) \subseteq OnPages(hdr[t].last, file[t].pages)
  BY <1>2, <1>3, <1>4 DEF KeptOK
<1>6. KeptOK(t)'
  BY <1>1, <1>2, <1>3, <1>5 DEF KeptOK
<1>7. \A u \in Table : KeptOK(u)'
  <2> TAKE u \in Table
  <2>1. u = t
    BY DEF OneTable
  <2> QED BY <1>6, <2>1
<1> QED BY <1>3, <1>7 DEF KeptInv

\* After a crash the table must hold what was durable.
LEMMA CrashKept == ASSUME TypeInv, LinkInv, KeptInv, Crash PROVE KeptInv'
<1>1. /\ op'.at = "start" /\ acked' = durable /\ UNCHANGED <<file, durable>>
      /\ \A t \in Table : stale'[t] = (IF stale[t] = "no" THEN "no" ELSE "torn")
  BY CrashStep
<1>2. \A t \in Table : Current(t)' = file[t].hdr
  BY CrashLink
<1>3. ~Inserting'
  BY <1>1 DEF Inserting
<1>4. ASSUME NEW t \in Table PROVE KeptOK(t)'
  <2>1. KeptOK(t) /\ Current(t)' = file[t].hdr
    BY <1>2 DEF KeptInv
  <2> QED BY <1>1, <1>3, <2>1 DEF KeptOK
<1> QED BY <1>1, <1>4 DEF KeptInv

\* The steps that change no page keep the rows.
LEMMA QuietKept ==
    ASSUME TypeInv, KeptInv,
           \/ FlushAll \/ Close \/ FlushEnds \/ CloseEnds \/ Checkpoint \/ Finish \/ Open
           \/ \E t \in Table : TruncateTable(t) \/ TruncateUnopened(t)
    PROVE  KeptInv'
<1>1. CASE FlushAll \/ Close
  <2>1. op.at = "start" /\ op'.at = "flush" /\ UNCHANGED <<file, hdr, acked, durable, stale>>
    BY <1>1, StartFlushStep DEF FlushAll, Close
  <2>2. ~Inserting
    BY <2>1 DEF Inserting
  <2> QED BY <2>1, <2>2, CurrentKept, KeptQuiet
<1>2. CASE FlushEnds \/ Finish \/ Checkpoint
  <2>1. /\ op.at \in {"flush", "done", "start"}
        /\ (op'.at = "done" /\ op'.kind = "flush") \/ op'.at = "start"
        /\ UNCHANGED <<file, hdr, acked, durable, stale>>
    BY <1>2, QuietSteps
  <2>2. ~Inserting
    BY <2>1 DEF Inserting
  <2> QED BY <2>1, <2>2, CurrentKept, KeptQuiet
<1>3. CASE CloseEnds \/ Open
  <2>1. /\ (op.at = "flush" /\ op'.at = "start") \/ op' = op
        /\ UNCHANGED <<file, hdr, acked, durable, stale>>
    BY <1>3, RestartStep
  <2>2. \A t \in Table : Current(t)' = Current(t)
    BY <2>1, CurrentKept
  <2>3. CASE op' = op
    BY <2>1, <2>2, <2>3 DEF KeptInv, KeptOK, Due, Inserting
  <2>4. CASE op.at = "flush" /\ op'.at = "start"
    <3>1. ~Inserting
      BY <2>4 DEF Inserting
    <3> QED BY <2>1, <2>2, <2>4, <3>1, KeptQuiet
  <2> QED BY <2>1, <2>3, <2>4
<1>4. ASSUME NEW t \in Table, TruncateTable(t) PROVE KeptInv'
  <2>1. /\ op.at = "start" /\ op'.kind = "truncate" /\ op'.at = "clear"
        /\ UNCHANGED <<file, hdr, acked, durable, stale>>
    BY <1>4, TruncateTableStep
  <2>2. \A u \in Table : Current(u)' = Current(u)
    BY <2>1, CurrentKept
  <2>3. ~Inserting /\ ~Inserting'
    BY <2>1 DEF Inserting
  <2>4. ASSUME NEW u \in Table PROVE KeptOK(u)'
    <3>1. KeptOK(u) /\ Current(u)' = Current(u)
      BY <2>2 DEF KeptInv
    <3> QED BY <2>1, <2>3, <3>1 DEF KeptOK
  <2> QED BY <2>1, <2>4 DEF KeptInv
<1>5. ASSUME NEW t \in Table, TruncateUnopened(t) PROVE KeptInv'
  <2>1. /\ op.at = "start" /\ op'.kind = "truncate" /\ op'.at = "done"
        /\ UNCHANGED <<file, hdr, acked, durable, stale>>
    BY <1>5, TruncateUnopenedStep
  <2>2. ~Inserting
    BY <2>1 DEF Inserting
  <2> QED BY <2>1, <2>2, CurrentKept, KeptQuiet
<1> QED BY <1>1, <1>2, <1>3, <1>4, <1>5

\* The rows of one table are on its pages, if no write fails.
THEOREM KeptInvariant == ASSUME OneTable, NoFaults PROVE Spec => []KeptInv
<1>1. Init => KeptInv
  <2> SUFFICES ASSUME Init, NEW t \in Table PROVE KeptOK(t) /\ op.at = "start"
    BY DEF KeptInv, Init, Idle
  <2>1. op = Idle /\ acked[t] = << >> /\ durable[t] = << >>
    BY DEF Init
  <2>2. op.at = "start" /\ ~Inserting
    BY <2>1 DEF Idle, Inserting
  <2> DEFINE none == << >>
  <2>3. Len(none) = 0 /\ acked[t] = none /\ durable[t] = none
    BY <2>1
  <2> HIDE DEF none
  <2>4. SeqRange(acked[t]) = {} /\ SeqRange(durable[t]) = {}
    BY <2>3 DEF SeqRange
  <2> QED BY <2>2, <2>4 DEF KeptOK
<1>2. StoreInv /\ TypeInv /\ ChainInv /\ CoherentInv /\ LinkInv /\ KeptInv /\ [Next]_vars => KeptInv'
  <2> SUFFICES ASSUME StoreInv, TypeInv, ChainInv, CoherentInv, LinkInv, KeptInv, [Next]_vars PROVE KeptInv'
    OBVIOUS
  <2>1. CASE FindPage \/ FindPageFails \/ AllocatePage \/ WriteRow
    BY <2>1, FindPageKept, AllocatePageKept, WriteRowKept
  <2>2. CASE \E ok \in BOOLEAN : LinkPage(ok)
    BY <2>2, LinkPageKept
  <2>3. CASE \E t \in Table : InsertRow(t) \/ InsertTooLarge(t) \/ GetRows(t) \/ GetTableFile(t)
    BY <2>3, InsertRowKept, OpenHandleKept
  <2>4. CASE \E t \in Table : FlushTable(t) \/ CloseTableFile(t)
    BY <2>4, HeaderWrittenKept
  <2>5. CASE ScanPage \/ ScanPageFails \/ ScanEnds \/ ClearTable \/ Crash
    BY <2>5, ScanPageKept, ScanPageFailsKept, ScanEndsKept, ClearTableKept, CrashKept
  <2>6. CASE \E t \in Table, k \in Keys :
                \/ UpdateRows(t, k) \/ DeleteRows(t, k)
                \/ UpdateRowsWithCallback(t, k) \/ DeleteRowsWithCallback(t, k)
    BY <2>6, RewriteKept
  <2>7. CASE UNCHANGED vars
    BY <2>7 DEF vars, KeptInv, KeptOK, Due, Inserting, Current, IsOpen
  <2> QED BY <2>1, <2>2, <2>3, <2>4, <2>5, <2>6, <2>7, FaultFreeNext, QuietKept, Zenon
<1> QED BY <1>1, <1>2, StoreInvariant, TypeInvariant, ChainInvariant, CoherentInvariant, LinkInvariant, PTL
        DEF Spec

\* After any crashes and restarts, GetRows of one table returns every row that was flushed and every
\* row inserted since the restart, if no write fails and no crash came between a Clear and the next
\* write of the header.
THEOREM RowsSurviveCrashes == ASSUME OneTable, NoFaults PROVE Spec => []SurvivesCrash
<1>1. KeptInv => SurvivesCrash
  BY DEF KeptInv, KeptOK, SurvivesCrash, RowsSurvive, Running
<1> QED BY <1>1, KeptInvariant, PTL

----------------------------------------------------------------------------
(* A table holds exactly the rows it must hold, in their order.            *)

\* c[i] are the rows of the first i pages, in their order.
Joined(c, n, s) ==
    /\ c[0] = << >>
    /\ \A i \in 1..n : c[i] \in Seq(Tagged) /\ c[i] = c[i - 1] \o s[i].rows

\* Table t has n pages, with the rows c[n] in all: they are counted, and they are those the table
\* must hold or, while rows are inserted, with those to come they are what it must hold then.  A
\* scan has seen the rows of the pages it left behind, and no others.
Content(t, n, c) ==
    /\ n = Current(t).last /\ stale[t] # "torn" /\ (n # 0 => file[t].pages[n].right = 0)
    /\ Joined(c, n, file[t].pages) /\ Current(t).rows = Len(c[n])
    /\ IF Inserting THEN Untagged(c[n]) \o op.todo = Due(t) ELSE Untagged(c[n]) = acked[t]
    /\ op.at = "scan" => op.page <= n /\ op.seen = c[IF op.page = 0 THEN n ELSE op.page - 1]
    /\ op.at = "clear" /\ op.kind # "truncate" => op.todo = Due(t)
    /\ op.at = "done" /\ op.kind = "get" => op.err = FALSE /\ Untagged(op.seen) = acked[t]

\* So is every table of which no crash, failed operation or truncation of an unopened file has
\* lost track.
ExactOK(t) == exact[t] = TRUE => \E n \in Nat : \E c : Content(t, n, c)

ExactInv == \A t \in Table : ExactOK(t)

\* Adding a row to the end of two sequences that are joined.
LEMMA ConcatAppend ==
    ASSUME NEW R, NEW a \in Seq(R), NEW b \in Seq(R), NEW e \in R
    PROVE  a \o Append(b, e) = Append(a \o b, e)
<1> DEFINE x == a \o Append(b, e)
           y == Append(a \o b, e)
           ab == a \o b
           be == Append(b, e)
<1>1. be \in Seq(R) /\ Len(be) = Len(b) + 1 /\ be[Len(b) + 1] = e /\ \A i \in 1..Len(b) : be[i] = b[i]
  BY AppendProperties
<1>2. /\ ab \in Seq(R) /\ Len(ab) = Len(a) + Len(b)
      /\ \A i \in 1..(Len(a) + Len(b)) : ab[i] = IF i <= Len(a) THEN a[i] ELSE b[i - Len(a)]
  BY ConcatProperties
<1> HIDE DEF ab, be
<1>3. /\ a \o be \in Seq(R) /\ Len(a \o be) = Len(a) + Len(be)
      /\ \A i \in 1..(Len(a) + Len(be)) : (a \o be)[i] = IF i <= Len(a) THEN a[i] ELSE be[i - Len(a)]
  BY <1>1, ConcatProperties
<1>5. x = a \o be /\ y = Append(ab, e)
  BY DEF ab, be
<1> HIDE DEF x, y
<1>4. /\ Append(ab, e) \in Seq(R) /\ Len(Append(ab, e)) = Len(ab) + 1
      /\ Append(ab, e)[Len(ab) + 1] = e /\ \A i \in 1..Len(ab) : Append(ab, e)[i] = ab[i]
  <2>1. ab \in Seq(R)
    BY <1>2
  <2> QED BY <2>1, AppendProperties
<1>6. Len(a) \in Nat /\ Len(b) \in Nat
  OBVIOUS
<1>7. x \in Seq(R) /\ y \in Seq(R) /\ Len(x) = Len(a) + Len(b) + 1 /\ Len(y) = Len(x)
  BY <1>1, <1>2, <1>3, <1>4, <1>5, <1>6
<1>8. ASSUME NEW i \in 1..Len(x) PROVE x[i] = y[i]
  <2>1. i \in Nat /\ i <= Len(a) + Len(b) + 1 /\ 1 <= i
    BY <1>6, <1>7
  <2>2. x[i] = IF i <= Len(a) THEN a[i] ELSE be[i - Len(a)]
    BY <1>1, <1>3, <1>5, <1>6, <2>1
  <2>3. CASE i = Len(a) + Len(b) + 1
    <3>1. ~(i <= Len(a)) /\ i - Len(a) = Len(b) + 1 /\ i = Len(ab) + 1
      BY <1>2, <1>6, <2>3
    <3> QED BY <1>1, <1>4, <1>5, <2>2, <3>1
  <2>4. CASE i # Len(a) + Len(b) + 1
    <3>1. i \in 1..(Len(a) + Len(b)) /\ i \in 1..Len(ab)
      BY <1>2, <1>6, <2>1, <2>4
    <3>2. y[i] = IF i <= Len(a) THEN a[i] ELSE b[i - Len(a)]
      BY <1>2, <1>4, <1>5, <3>1
    <3>3. ~(i <= Len(a)) => i - Len(a) \in 1..Len(b)
      BY <1>6, <3>1
    <3> QED BY <1>1, <2>2, <3>2, <3>3
  <2> QED BY <2>3, <2>4
<1>9. x = y
  BY <1>7, <1>8, SeqEqual
<1> QED BY <1>9 DEF x, y

\* Moving the first of the rows to come to the end of the others.
LEMMA ShiftHead ==
    ASSUME NEW R, NEW x \in Seq(R), NEW todo \in Seq(R), todo # << >>
    PROVE  /\ Append(x, Head(todo)) \o Tail(todo) = x \o todo
           /\ Len(todo) = 1 => Append(x, Head(todo)) = x \o todo
<1> DEFINE e == Head(todo)
           u == Tail(todo)
           xe == Append(x, e)
           l == xe \o u
           r == x \o todo
<1>1. /\ Len(todo) \in Nat \ {0} /\ e \in R /\ e = todo[1] /\ u \in Seq(R)
      /\ Len(u) = Len(todo) - 1 /\ \A i \in 1..(Len(todo) - 1) : u[i] = todo[i + 1]
  BY HeadTail
<1> HIDE DEF e, u
<1>2. xe \in Seq(R) /\ Len(xe) = Len(x) + 1 /\ xe[Len(x) + 1] = e /\ \A i \in 1..Len(x) : xe[i] = x[i]
  BY <1>1, AppendProperties
<1> HIDE DEF xe
<1>3. /\ l \in Seq(R) /\ Len(l) = Len(xe) + Len(u)
      /\ \A i \in 1..(Len(xe) + Len(u)) : l[i] = IF i <= Len(xe) THEN xe[i] ELSE u[i - Len(xe)]
  BY <1>1, <1>2, ConcatProperties
<1>4. /\ r \in Seq(R) /\ Len(r) = Len(x) + Len(todo)
      /\ \A i \in 1..(Len(x) + Len(todo)) : r[i] = IF i <= Len(x) THEN x[i] ELSE todo[i - Len(x)]
  BY ConcatProperties
<1> HIDE DEF l, r
<1>5. Len(x) \in Nat
  OBVIOUS
<1>6. ASSUME NEW i \in 1..(Len(x) + Len(todo)), i <= Len(x) + 1 PROVE xe[i] = r[i]
  <2>1. CASE i = Len(x) + 1
    <3>1. ~(i <= Len(x)) /\ i - Len(x) = 1
      BY <1>5, <2>1
    <3> QED BY <1>1, <1>2, <1>4, <2>1, <3>1
  <2>2. CASE i # Len(x) + 1
    <3>1. i \in 1..Len(x) /\ i <= Len(x)
      BY <1>1, <1>5, <1>6, <2>2
    <3> QED BY <1>2, <1>4, <3>1
  <2> QED BY <2>1, <2>2
<1>7. Len(todo) = 1 => xe = r
  <2> SUFFICES ASSUME Len(todo) = 1 PROVE xe = r
    OBVIOUS
  <2>1. Len(xe) = Len(r) /\ \A i \in 1..Len(xe) : xe[i] = r[i]
    BY <1>2, <1>4, <1>5, <1>6
  <2> QED BY <1>2, <1>4, <2>1, SeqEqual
<1>8. l = r
  <2>1. Len(l) = Len(r) /\ Len(l) = Len(x) + Len(todo)
    BY <1>1, <1>2, <1>3, <1>4, <1>5
  <2>2. ASSUME NEW i \in 1..Len(l) PROVE l[i] = r[i]
    <3>1. i \in 1..(Len(x) + Len(todo)) /\ i \in 1..(Len(xe) + Len(u))
      BY <1>3, <2>1
    <3>2. CASE i <= Len(x) + 1
      BY <1>2, <1>3, <1>6, <3>1, <3>2
    <3>3. CASE ~(i <= Len(x) + 1)
      <4>1. l[i] = u[i - (Len(x) + 1)]
        BY <1>2, <1>3, <3>1, <3>3
      <4>2. i - (Len(x) + 1) \in 1..(Len(todo) - 1) /\ i - (Len(x) + 1) + 1 = i - Len(x) /\ ~(i <= Len(x))
        BY <1>1, <1>5, <3>1, <3>3
      <4>3. u[i - (Len(x) + 1)] = todo[i - Len(x)]
        BY <1>1, <4>2
      <4> QED BY <1>4, <3>1, <4>1, <4>2, <4>3
    <3> QED BY <3>2, <3>3
  <2> QED BY <1>3, <1>4, <2>1, <2>2, SeqEqual
<1> QED BY <1>7, <1>8 DEF e, u, xe, l, r

\* The last of the rows without their ids.
LEMMA UntaggedAppend ==
    ASSUME NEW x \in Seq(Tagged), NEW e \in Tagged
    PROVE  Untagged(Append(x, e)) = Append(Untagged(x), Bare(e))
<1> DEFINE R == [key : Nat, val : {0, 1}]
           xe == Append(x, e)
           b == Bare(e)
           v == Untagged(x)
           l == Untagged(xe)
<1>1. b \in R
  BY DEF Bare, Tagged
<1>2. xe \in Seq(Tagged) /\ Len(xe) = Len(x) + 1 /\ xe[Len(x) + 1] = e /\ \A i \in 1..Len(x) : xe[i] = x[i]
  <2> HIDE DEF Tagged
  <2> QED BY AppendProperties
<1>3. v \in Seq(R) /\ Len(v) = Len(x) /\ \A i \in 1..Len(x) : v[i] = Bare(x[i])
  BY UntaggedTyped DEF Rows, Bare
<1> HIDE DEF xe
<1>4. l \in Seq(R) /\ Len(l) = Len(xe) /\ \A i \in 1..Len(xe) : l[i] = Bare(xe[i])
  BY <1>2, UntaggedTyped DEF Rows, Bare
<1>5. Len(x) \in Nat
  OBVIOUS
<1> HIDE DEF R, b, v, l
<1> DEFINE r == Append(v, b)
<1>6. r \in Seq(R) /\ Len(r) = Len(v) + 1 /\ r[Len(v) + 1] = b /\ \A i \in 1..Len(v) : r[i] = v[i]
  BY <1>1, <1>3, AppendProperties
<1> HIDE DEF r
<1>7. Len(l) = Len(r) /\ Len(l) = Len(x) + 1
  BY <1>2, <1>3, <1>4, <1>6
<1>8. ASSUME NEW i \in 1..Len(l) PROVE l[i] = r[i]
  <2>1. CASE i = Len(x) + 1
    BY <1>2, <1>3, <1>4, <1>6, <1>7, <2>1 DEF b
  <2>2. CASE i # Len(x) + 1
    <3>1. i \in 1..Len(x)
      BY <1>5, <1>7, <2>2
    <3> QED BY <1>2, <1>3, <1>4, <1>6, <1>7, <3>1
  <2> QED BY <2>1, <2>2
<1>9. l = r
  BY <1>4, <1>6, <1>7, <1>8, SeqEqual
<1> QED BY <1>9 DEF l, r, xe, v, b

\* No rows, without their ids.
LEMMA UntaggedNone == Untagged(<< >>) = << >>
<1> DEFINE none == << >>
<1>1. none \in Seq(Tagged) /\ Len(none) = 0
  OBVIOUS
<1>2. none \in Rows
  BY DEF Rows
<1> HIDE DEF none
<1>3. Untagged(none) \in Rows /\ Len(Untagged(none)) = 0
  BY <1>1, UntaggedTyped
<1> DEFINE R == [key : Nat, val : {0, 1}]
           u == Untagged(none)
<1>4. u \in Seq(R) /\ none \in Seq(R) /\ Len(u) = 0
  BY <1>2, <1>3 DEF Rows
<1> HIDE DEF R, u
<1>5. u = none
  BY <1>1, <1>4, SeqEqual
<1> QED BY <1>5 DEF u, none

\* The rows of pages that stay, of pages with an empty one behind them, and of pages whose last
\* one gets a row.
LEMMA JoinedTyped ==
    ASSUME NEW c, NEW s, NEW n \in Nat, Joined(c, n, s) PROVE \A i \in 0..n : c[i] \in Seq(Tagged)
<1> TAKE i \in 0..n
<1>1. CASE i = 0
  <2>1. c[0] = << >> /\ << >> \in Seq(Tagged)
    BY EmptySeq DEF Joined
  <2> QED BY <1>1, <2>1
<1>2. CASE i # 0
  <2>1. i \in 1..n
    BY <1>2
  <2> QED BY <2>1 DEF Joined
<1> QED BY <1>1, <1>2

\* The rows of pages whose rows stay.
LEMMA JoinedSame ==
    ASSUME NEW c, NEW s, NEW r, NEW n, Joined(c, n, s), \A i \in 1..n : r[i].rows = s[i].rows
    PROVE  Joined(c, n, r)
  BY DEF Joined

\* A page without rows is put behind them.
LEMMA JoinedMore ==
    ASSUME NEW c, NEW s, NEW r, NEW n \in Nat, Joined(c, n, s), \A i \in 1..n : r[i].rows = s[i].rows,
           r[n + 1].rows = << >>
    PROVE  \E d : Joined(d, n + 1, r) /\ d[n + 1] = c[n]
<1> DEFINE d == [i \in 0..(n + 1) |-> IF i = n + 1 THEN c[n] ELSE c[i]]
<1>1. d[n + 1] = c[n] /\ \A i \in 0..n : d[i] = c[i]
  OBVIOUS
<1>2. c[n] \in Seq(Tagged)
  BY JoinedTyped
<1>3. c[n] \o << >> = c[n]
  <2> DEFINE x == c[n]
  <2> HIDE DEF x
  <2>1. x \in Seq(Tagged)
    BY <1>2 DEF x
  <2>2. x \o << >> = x
    BY <2>1, ConcatEmptySeq
  <2> QED BY <2>2 DEF x
<1> HIDE DEF d
<1>4. d[0] = << >>
  BY <1>1 DEF Joined
<1>5. ASSUME NEW i \in 1..(n + 1) PROVE d[i] \in Seq(Tagged) /\ d[i] = d[i - 1] \o r[i].rows
  <2>1. CASE i = n + 1
    <3>1. d[i - 1] = c[n] /\ r[i].rows = << >>
      BY <1>1, <2>1
    <3> QED BY <1>1, <1>2, <1>3, <2>1, <3>1
  <2>2. CASE i # n + 1
    <3>1. i \in 1..n /\ i - 1 \in 0..n /\ i \in 0..n
      BY <2>2
    <3>2. d[i] = c[i] /\ d[i - 1] = c[i - 1] /\ r[i].rows = s[i].rows
      BY <1>1, <3>1
    <3> QED BY <3>1, <3>2 DEF Joined
  <2> QED BY <2>1, <2>2
<1>6. Joined(d, n + 1, r)
  BY <1>4, <1>5 DEF Joined
<1> QED BY <1>1, <1>6

\* Row e is added to page n, the last one.
RowAdded(s, r, n, e) ==
    /\ \A i \in 1..n : i # n => r[i].rows = s[i].rows
    /\ s[n].rows \in Seq(Tagged) /\ r[n].rows = Append(s[n].rows, e)

\* The rows of the pages with one more behind them.
LEMMA JoinedRow ==
    ASSUME NEW c, NEW s, NEW r, NEW n \in Nat \ {0}, NEW e \in Tagged, Joined(c, n, s), RowAdded(s, r, n, e)
    PROVE  \E d : Joined(d, n, r) /\ d[n] = Append(c[n], e)
<1>0. /\ \A i \in 1..n : i # n => r[i].rows = s[i].rows
      /\ s[n].rows \in Seq(Tagged) /\ r[n].rows = Append(s[n].rows, e)
  BY DEF RowAdded
<1> DEFINE x == Append(c[n], e)
           d == [i \in 0..n |-> IF i = n THEN x ELSE c[i]]
           q == s[n].rows
           a == c[n - 1]
<1>1. d[n] = x /\ \A i \in 0..n : i # n => d[i] = c[i]
  OBVIOUS
<1>2. c[n] \in Seq(Tagged) /\ a \in Seq(Tagged) /\ q \in Seq(Tagged)
  BY <1>0, JoinedTyped
<1>3. c[n] = a \o q
  <2>1. n \in 1..n
    OBVIOUS
  <2> QED BY <2>1 DEF Joined
<1> HIDE DEF a, q, d, Tagged
<1>4. x = a \o Append(q, e)
  <2>1. a \o Append(q, e) = Append(a \o q, e)
    BY <1>2, ConcatAppend
  <2> QED BY <1>3, <2>1
<1>5. x \in Seq(Tagged)
  <2> DEFINE y == c[n]
  <2> HIDE DEF y
  <2>1. Append(y, e) \in Seq(Tagged)
    BY <1>2, AppendProperties DEF y
  <2> QED BY <2>1 DEF y
<1> HIDE DEF x
<1>6. d[0] = << >>
  <2>1. 0 \in 0..n /\ 0 # n
    OBVIOUS
  <2> QED BY <1>1, <2>1 DEF Joined
<1>7. ASSUME NEW i \in 1..n PROVE d[i] \in Seq(Tagged) /\ d[i] = d[i - 1] \o r[i].rows
  <2>1. CASE i = n
    <3>1. d[i - 1] = a
      <4>1. n - 1 \in 0..n /\ n - 1 # n
        OBVIOUS
      <4> QED BY <1>1, <2>1, <4>1 DEF a
    <3>2. r[i].rows = Append(q, e)
      BY <1>0, <2>1 DEF q
    <3> QED BY <1>1, <1>4, <1>5, <2>1, <3>1, <3>2
  <2>2. CASE i # n
    <3>1. i \in 1..n /\ i - 1 \in 0..n /\ i \in 0..n /\ i - 1 # n
      BY <2>2
    <3>2. d[i] = c[i] /\ d[i - 1] = c[i - 1] /\ r[i].rows = s[i].rows
      BY <1>0, <1>1, <2>2, <3>1
    <3> QED BY <3>1, <3>2 DEF Joined
  <2> QED BY <2>1, <2>2
<1>8. Joined(d, n, r)
  BY <1>6, <1>7 DEF Joined
<1> QED BY <1>1, <1>8 DEF x

\* A step that neither writes nor inserts nor scans.
LEMMA ExactQuiet ==
    ASSUME TypeInv, ExactInv, UNCHANGED acked, ~Inserting, op'.at \in {"start", "done", "flush"},
           op'.at = "done" => op'.kind # "get",
           \A t \in Table : /\ exact'[t] = TRUE => exact[t] = TRUE
                            /\ stale[t] # "torn" => stale'[t] # "torn"
                            /\ Current(t)' = Current(t) /\ file'[t].pages = file[t].pages
    PROVE  ExactInv'
<1> SUFFICES ASSUME NEW t \in Table, exact'[t] = TRUE PROVE ExactOK(t)'
  BY DEF ExactInv, ExactOK
<1>1. exact[t] = TRUE /\ Current(t)' = Current(t) /\ file'[t].pages = file[t].pages
  OBVIOUS
<1>2. ~Inserting' /\ op'.at # "scan" /\ op'.at # "clear"
  BY DEF Inserting
<1>3. PICK n \in Nat : \E c : Content(t, n, c)
  BY <1>1 DEF ExactInv, ExactOK
<1>4. PICK c : Content(t, n, c)
  BY <1>3
<1>5. Content(t, n, c)'
  BY <1>1, <1>2, <1>4 DEF Content
<1> QED BY <1>5 DEF ExactOK

\* The row to insert, behind the others.
LEMMA InsertRowExact ==
    ASSUME OneTable, TypeInv, ExactInv, NEW t \in Table, InsertRow(t) PROVE ExactInv'
<1>1. /\ op.at = "start" /\ op'.at = "find" /\ op'.kind = "insert" /\ op'.t = t
      /\ op'.todo = <<Bare(op')>> /\ hdr' = Opened(t)
      /\ UNCHANGED <<file, acked, exact, stale>> /\ TypeInv'
  BY InsertRowStep DEF Bare
<1>2. Current(t)' = Current(t)
  BY <1>1, OpenedCurrent
<1>3. Inserting' /\ ~Inserting
  BY <1>1 DEF Inserting
<1> DEFINE row == Bare(op')
           a == acked[t]
<1>5. a \in Rows /\ row \in [key : Nat, val : {0, 1}]
  <2>1. op' \in Operation
    BY <1>1 DEF TypeInv, OpTyped, Idle
  <2>2. op'.key \in Nat /\ op'.val \in {0, 1}
    BY <2>1, OpFieldsTyped
  <2> QED BY <2>2 DEF TypeInv, Bare
<1>6. Due(t)' = Append(a, row)
  BY <1>1 DEF Due, OutcomeOf, Bare
<1>7. op'.todo = <<row>>
  BY <1>1
<1> HIDE DEF row, a
<1>8. Append(a, row) = a \o <<row>>
  <2> DEFINE R == [key : Nat, val : {0, 1}]
  <2>1. a \in Seq(R) /\ row \in R
    BY <1>5 DEF Rows
  <2> HIDE DEF R
  <2> QED BY <2>1, AppendIsConcat
<1>9. ASSUME exact[t] = TRUE PROVE ExactOK(t)'
  <2>1. PICK n \in Nat : \E c : Content(t, n, c)
    BY <1>3, <1>9 DEF ExactInv, ExactOK
  <2>2. PICK c : Content(t, n, c)
    BY <2>1
  <2>3. Untagged(c[n]) \o op'.todo = Due(t)'
    BY <1>3, <1>6, <1>7, <1>8, <2>2 DEF a, Content
  <2>4. Content(t, n, c)'
    BY <1>1, <1>2, <1>3, <2>2, <2>3 DEF Content
  <2> QED BY <2>4 DEF ExactOK
<1>10. ExactOK(t)'
  BY <1>1, <1>9 DEF ExactOK
<1>11. \A u \in Table : ExactOK(u)'
  <2> TAKE u \in Table
  <2>1. u = t
    BY DEF OneTable
  <2> QED BY <1>10, <2>1
<1> QED BY <1>11 DEF ExactInv

\* A scan begins at the first page, or ends at once where there is none, and has seen nothing.
LEMMA ScanBeginsExact ==
    ASSUME OneTable, TypeInv, LinkInv, ExactInv, NEW t \in Table, op.at = "start", op'.at = "scan",
           op'.page = Current(t).first, op'.seen = << >>, UNCHANGED <<file, acked, exact, stale>>,
           Current(t)' = Current(t)
    PROVE  ExactInv'
<1>1. ~Inserting /\ ~Inserting'
  BY DEF Inserting
<1>2. ASSUME exact[t] = TRUE PROVE ExactOK(t)'
  <2>1. PICK n \in Nat : \E c : Content(t, n, c)
    BY <1>1, <1>2 DEF ExactInv, ExactOK
  <2>2. PICK c : Content(t, n, c)
    BY <2>1
  <2>3. op'.page = (IF n = 0 THEN 0 ELSE 1)
    BY <2>2 DEF Content, LinkInv, LinkOK, Linked
  <2>4. op'.page <= n /\ op'.seen = c[IF op'.page = 0 THEN n ELSE op'.page - 1]
    <3>1. c[0] = << >>
      BY <2>2 DEF Content, Joined
    <3>2. (IF op'.page = 0 THEN n ELSE op'.page - 1) = 0 /\ op'.page <= n
      BY <2>3
    <3> QED BY <3>1, <3>2
  <2>5. Content(t, n, c)'
    BY <1>1, <2>2, <2>4 DEF Content
  <2> QED BY <2>5 DEF ExactOK
<1>3. ExactOK(t)'
  BY <1>2 DEF ExactOK
<1>4. \A u \in Table : ExactOK(u)'
  <2> TAKE u \in Table
  <2>1. u = t
    BY DEF OneTable
  <2> QED BY <1>3, <2>1
<1> QED BY <1>4 DEF ExactInv

\* Opening a handle changes no row.
LEMMA OpenHandleExact ==
    ASSUME OneTable, TypeInv, LinkInv, ExactInv, NEW t \in Table,
           InsertTooLarge(t) \/ GetRows(t) \/ GetTableFile(t)
    PROVE  ExactInv'
<1>1. op.at = "start" /\ hdr' = Opened(t) /\ UNCHANGED <<file, acked, exact, stale>>
  BY InsertTooLargeStep, GetTableFileStep, GetRowsStep, Zenon
<1>2. Current(t)' = Current(t)
  BY <1>1, OpenedCurrent
<1>3. CASE InsertTooLarge(t) \/ GetTableFile(t)
  <2>1. op' = op
    BY <1>3, InsertTooLargeStep, GetTableFileStep
  <2>2. \A u \in Table : Current(u)' = Current(u) /\ file'[u] = file[u]
    <3> TAKE u \in Table
    <3>1. u = t
      BY DEF OneTable
    <3> QED BY <1>1, <1>2, <3>1
  <2>3. ~Inserting
    BY <1>1 DEF Inserting
  <2> QED BY <1>1, <2>1, <2>2, <2>3, ExactQuiet
<1>4. CASE GetRows(t)
  <2>1. op'.at = "scan" /\ op'.page = Opened(t)[t].first /\ op'.seen = << >>
    BY <1>4, GetRowsStep
  <2>2. op'.page = Current(t).first
    BY <2>1, OpenedTyped DEF Current
  <2> QED BY <1>1, <1>2, <2>1, <2>2, ScanBeginsExact
<1> QED BY <1>3, <1>4

\* The start of an update or deletion changes no row.
LEMMA RewriteExact ==
    ASSUME OneTable, TypeInv, LinkInv, ExactInv, NEW t \in Table, NEW k \in Keys,
           \/ UpdateRows(t, k) \/ DeleteRows(t, k)
           \/ UpdateRowsWithCallback(t, k) \/ DeleteRowsWithCallback(t, k)
    PROVE  ExactInv'
<1>1. k \in Nat
  BY BoundsAssumption DEF Keys
<1>2. CASE UpdateRows(t, k) \/ DeleteRows(t, k)
  <2>1. /\ op.at = "start" /\ op'.kind \in {"update", "delete"} /\ op'.seen = << >>
        /\ \/ IsOpen(t) /\ op'.at = "scan" /\ op'.page = hdr[t].first
           \/ op'.at = "done"
        /\ UNCHANGED <<file, hdr, acked, exact, stale>>
    BY <1>1, <1>2, RewriteStep DEF UpdateRows, DeleteRows
  <2>2. \A u \in Table : Current(u)' = Current(u) /\ file'[u] = file[u]
    BY <2>1, CurrentKept
  <2>3. CASE op'.at = "done"
    <3>1. ~Inserting
      BY <2>1 DEF Inserting
    <3> QED BY <2>1, <2>2, <2>3, <3>1, ExactQuiet
  <2>4. CASE IsOpen(t) /\ op'.at = "scan" /\ op'.page = hdr[t].first
    <3>1. op'.page = Current(t).first
      BY <2>4 DEF Current
    <3> QED BY <2>1, <2>2, <2>4, <3>1, ScanBeginsExact
  <2> QED BY <2>1, <2>3, <2>4
<1>3. CASE UpdateRowsWithCallback(t, k) \/ DeleteRowsWithCallback(t, k)
  <2>1. /\ op.at = "start" /\ op'.at = "done" /\ op'.kind \in {"updateSQL", "deleteSQL"}
        /\ UNCHANGED <<file, hdr, acked, exact, stale>>
    BY <1>1, <1>3, CallbackStep DEF UpdateRowsWithCallback, DeleteRowsWithCallback
  <2>2. \A u \in Table : Current(u)' = Current(u) /\ file'[u] = file[u]
    BY <2>1, CurrentKept
  <2>3. ~Inserting
    BY <2>1 DEF Inserting
  <2> QED BY <2>1, <2>2, <2>3, ExactQuiet
<1> QED BY <1>2, <1>3

\* A scan is at a page of the file, or at the end.
LEMMA ScanSeen ==
    ASSUME TypeInv, LinkInv, NEW t \in Table, op.at = "scan", NEW n \in Nat, NEW c, Content(t, n, c)
    PROVE  op.page \in 0..n /\ (op.page # 0 => op.page \in 1..Len(file[t].pages))
<1>1. op.page \in Nat /\ op.page <= n
  BY OpInProgress DEF Content
<1>2. n <= Len(file[t].pages)
  BY DEF Content, LinkInv, LinkOK, Linked
<1>3. file[t].pages \in Seq(Page) /\ Len(file[t].pages) \in Nat
  BY DEF TypeInv, File
<1> QED BY <1>1, <1>2, <1>3

\* With a page read, a scan has seen its rows behind the others.
LEMMA ScanPageExact ==
    ASSUME OneTable, TypeInv, ChainInv, CoherentInv, LinkInv, ExactInv, ScanPage PROVE ExactInv'
<1> DEFINE p == op.page
<1>1. /\ op.at = "scan" /\ op.t \in Table /\ p # 0 /\ CanRead(op.t, p) /\ p \in Nat
      /\ op'.at = "scan" /\ op'.seen = op.seen \o ReadPage(op.t, p).rows /\ op'.page = ReadPage(op.t, p).right
      /\ UNCHANGED <<file, hdr, acked, exact, stale>>
  BY ScanPageStep
<1> SUFFICES ASSUME NEW t \in Table, exact[t] = TRUE PROVE ExactOK(t)'
  BY <1>1 DEF ExactInv, ExactOK
<1> DEFINE s == file[t].pages
<1>2. t = op.t
  BY <1>1 DEF OneTable
<1>3. Current(t)' = Current(t) /\ ~Inserting'
  BY <1>1, CurrentKept DEF Inserting
<1>4. PICK n \in Nat : \E c : Content(t, n, c)
  BY <1>1 DEF ExactInv, ExactOK
<1>5. PICK c : Content(t, n, c)
  BY <1>4
<1>6. /\ n = Current(t).last /\ stale[t] # "torn" /\ (n # 0 => s[n].right = 0)
      /\ Joined(c, n, s) /\ op.seen = c[p - 1] /\ p \in 1..n
  BY <1>1, <1>5, ScanSeen DEF Content
<1>7. op'.seen = op.seen \o s[p].rows /\ op'.page = s[p].right
  BY <1>1, <1>2, CoherentRead
<1>8. Linked(Current(t), s)
  BY <1>6 DEF LinkInv, LinkOK
<1>9. op'.seen = c[p]
  BY <1>6, <1>7 DEF Joined
<1>10. op'.page <= n /\ op'.seen = c[IF op'.page = 0 THEN n ELSE op'.page - 1]
  <2>1. CASE p = n
    <3>1. op'.page = 0
      BY <1>6, <1>7, <2>1
    <3> QED BY <1>9, <2>1, <3>1
  <2>2. CASE p # n
    <3>1. op'.page = p + 1
      BY <1>6, <1>7, <1>8, <2>2 DEF Linked
    <3> QED BY <1>6, <1>9, <2>2, <3>1
  <2> QED BY <2>1, <2>2
<1>11. Content(t, n, c)'
  BY <1>1, <1>3, <1>5, <1>10 DEF Content, Inserting
<1> QED BY <1>11 DEF ExactOK

\* The pages of a table can be read one by one to the end.
LEMMA ScanPageFailsExact ==
    ASSUME OneTable, TypeInv, ChainInv, CoherentInv, LinkInv, ExactInv, ScanPageFails PROVE ExactInv'
<1>1. /\ op.at = "scan" /\ op.t \in Table /\ op.page # 0 /\ ~CanRead(op.t, op.page) /\ op.page \in Nat
      /\ exact' = exact
  BY ScanPageFailsStep
<1> SUFFICES ASSUME NEW t \in Table, exact[t] = TRUE PROVE FALSE
  BY <1>1 DEF ExactInv, ExactOK
<1>2. t = op.t
  BY <1>1 DEF OneTable
<1>3. PICK n \in Nat : \E c : Content(t, n, c)
  BY DEF ExactInv, ExactOK
<1>4. op.page \in 1..Len(file[t].pages)
  BY <1>1, <1>3, ScanSeen
<1> QED BY <1>1, <1>2, <1>4, CoherentRead

\* At its end a scan has seen the rows of the table.
LEMMA ScanEndsExact ==
    ASSUME OneTable, TypeInv, LinkInv, ExactInv, ScanEnds PROVE ExactInv'
<1>1. /\ op.at = "scan" /\ op.t \in Table /\ op.page = 0
      /\ op'.kind = op.kind /\ op'.t = op.t
      /\ \/ /\ op'.at = "done" /\ op'.err = FALSE
            /\ op'.seen = IF op.kind = "get" THEN op.seen ELSE << >>
         \/ /\ op.kind # "get" /\ op'.at = "clear" /\ op'.todo = Outcome(Untagged(op.seen))
            /\ op'.key = op.key /\ op'.val = op.val
      /\ UNCHANGED <<file, hdr, acked, exact, stale>>
  BY ScanEndsStep
<1> SUFFICES ASSUME NEW t \in Table, exact[t] = TRUE PROVE ExactOK(t)'
  BY <1>1 DEF ExactInv, ExactOK
<1>2. Current(t)' = Current(t) /\ ~Inserting' /\ op'.at # "scan"
  BY <1>1, CurrentKept DEF Inserting
<1>3. PICK n \in Nat : \E c : Content(t, n, c)
  BY <1>1 DEF ExactInv, ExactOK
<1>4. PICK c : Content(t, n, c)
  BY <1>3
<1>5. Untagged(op.seen) = acked[t]
  BY <1>1, <1>4 DEF Content, Inserting
<1>6. CASE op'.at = "done"
  <2>1. op'.kind = "get" => op'.err = FALSE /\ Untagged(op'.seen) = acked[t]
    BY <1>1, <1>5, <1>6
  <2>2. Content(t, n, c)'
    BY <1>1, <1>2, <1>4, <1>6, <2>1 DEF Content, Inserting
  <2> QED BY <2>2 DEF ExactOK
<1>7. CASE /\ op'.at = "clear" /\ op'.todo = Outcome(Untagged(op.seen))
           /\ op'.key = op.key /\ op'.val = op.val
  <2>1. op'.todo = Due(t)'
    BY <1>1, <1>5, <1>7, OutcomeIs DEF Due
  <2>2. Content(t, n, c)'
    BY <1>1, <1>2, <1>4, <1>7, <2>1 DEF Content, Inserting
  <2> QED BY <2>2 DEF ExactOK
<1> QED BY <1>1, <1>6, <1>7

\* A cleared table holds nothing; what it must hold is what is to be inserted.
LEMMA ClearTableExact == ASSUME OneTable, TypeInv, ExactInv, ClearTable PROVE ExactInv'
<1>1. /\ op.at = "clear" /\ op.t \in Table /\ stale'[op.t] = "cleared" /\ op.kind \in {"update", "delete", "truncate"}
      /\ \/ /\ op.kind = "truncate" /\ op'.at = "done" /\ op'.kind = "truncate"
            /\ acked'[op.t] = << >> /\ exact'[op.t] = TRUE
         \/ /\ op.kind # "truncate" /\ op.todo = << >> /\ op'.at = "done" /\ op'.kind = op.kind
            /\ acked'[op.t] = Outcome(Promised(op.t)) /\ exact' = exact
         \/ /\ op.kind # "truncate" /\ op.todo # << >> /\ op'.at = "find" /\ op'.todo = op.todo
            /\ op'.kind = op.kind /\ op'.t = op.t /\ op'.key = op.key /\ op'.val = op.val
            /\ acked'[op.t] = Promised(op.t) /\ exact' = exact
  BY ClearTableStep
<1> SUFFICES ASSUME NEW t \in Table, exact'[t] = TRUE PROVE ExactOK(t)'
  BY DEF ExactInv, ExactOK
<1>2. t = op.t /\ Current(t)' = NewHeader
  BY ClearTableLink
<1> DEFINE c == [i \in {0} |-> << >>]
<1>3. c[0] = << >>
  OBVIOUS
<1>4. NewHeader.last = 0 /\ NewHeader.rows = 0 /\ Len(<< >>) = 0
  BY DEF NewHeader
<1> HIDE DEF c
<1>5. Joined(c, 0, file'[t].pages) /\ Untagged(c[0]) = << >> /\ Len(c[0]) = 0
  BY <1>3, <1>4, UntaggedNone DEF Joined
<1>6. op.kind # "truncate" => op.todo = Outcome(Promised(t))
  <2> SUFFICES ASSUME op.kind # "truncate" PROVE op.todo = Outcome(Promised(t))
    OBVIOUS
  <2>1. exact[t] = TRUE
    BY <1>1
  <2>2. PICK n \in Nat : \E d : Content(t, n, d)
    BY <2>1 DEF ExactInv, ExactOK
  <2>3. stale[t] # "torn" /\ op.todo = Due(t)
    BY <1>1, <2>2 DEF Content
  <2> QED BY <2>3, OutcomeIs DEF Promised, Due
<1>7. CASE op'.at = "done"
  <2>1. acked'[t] = << >>
    BY <1>1, <1>2, <1>6, <1>7
  <2>2. Content(t, 0, c)'
    BY <1>1, <1>2, <1>4, <1>5, <1>7, <2>1 DEF Content, Inserting
  <2> QED BY <2>2 DEF ExactOK
<1>8. CASE op'.at = "find"
  <2>1. /\ op.kind # "truncate" /\ op'.todo = op.todo /\ op'.kind = op.kind
        /\ op'.key = op.key /\ op'.val = op.val /\ acked'[t] = Promised(t)
    BY <1>1, <1>2, <1>8
  <2>2. Due(t)' = Outcome(Promised(t))
    BY <2>1, OutcomeIs DEF Due
  <2>3. << >> \o op'.todo = op'.todo
    <3> DEFINE R == [key : Nat, val : {0, 1}]
               todo == op.todo
    <3>1. todo \in Seq(R)
      BY <1>1, OpInProgress DEF Rows
    <3> HIDE DEF R, todo
    <3>2. << >> \o todo = todo
      BY <3>1, ConcatEmptySeq
    <3> QED BY <2>1, <3>2 DEF todo
  <2>4. Untagged(c[0]) \o op'.todo = Due(t)'
    BY <1>5, <1>6, <2>1, <2>2, <2>3
  <2>5. Content(t, 0, c)'
    BY <1>1, <1>2, <1>4, <1>5, <1>8, <2>4 DEF Content, Inserting
  <2> QED BY <2>5 DEF ExactOK
<1> QED BY <1>1, <1>7, <1>8

\* FindPage changes no row; if the page cannot be read, the operation fails.
LEMMA FindPageExact ==
    ASSUME OneTable, TypeInv, ExactInv, FindPage \/ FindPageFails PROVE ExactInv'
<1>1. CASE FindPage
  <2>1. /\ op.at = "find" /\ op'.at \in {"alloc", "row"} /\ op'.kind = op.kind /\ op'.todo = op.todo
        /\ op'.key = op.key /\ op'.val = op.val
        /\ UNCHANGED <<file, hdr, acked, exact, stale>>
    BY <1>1, FindPageStep
  <2>2. Inserting /\ Inserting'
    BY <2>1 DEF Inserting
  <2> SUFFICES ASSUME NEW t \in Table, exact[t] = TRUE PROVE ExactOK(t)'
    BY <2>1 DEF ExactInv, ExactOK
  <2>3. Current(t)' = Current(t) /\ Due(t)' = Due(t)
    BY <2>1, CurrentKept DEF Due
  <2>4. PICK n \in Nat : \E c : Content(t, n, c)
    BY DEF ExactInv, ExactOK
  <2>5. PICK c : Content(t, n, c)
    BY <2>4
  <2>6. Content(t, n, c)'
    BY <2>1, <2>2, <2>3, <2>5 DEF Content
  <2> QED BY <2>6 DEF ExactOK
<1>2. CASE FindPageFails
  <2>1. op.t \in Table /\ exact'[op.t] = FALSE
    BY <1>2, FindPageFailsStep
  <2> SUFFICES ASSUME NEW t \in Table, exact'[t] = TRUE PROVE FALSE
    BY DEF ExactInv, ExactOK
  <2>2. t = op.t
    BY <2>1 DEF OneTable
  <2> QED BY <2>1, <2>2
<1> QED BY <1>1, <1>2

\* A page is written behind the last one; it is the last one where there was none.
LEMMA AllocatePageExact ==
    ASSUME OneTable, StoreInv, TypeInv, LinkInv, ExactInv, AllocatePage PROVE ExactInv'
<1>1. /\ op.at = "alloc" /\ op.t \in Table /\ op'.at \in {"row", "link"} /\ op'.todo = op.todo
      /\ op'.kind = op.kind /\ op'.key = op.key /\ op'.val = op.val
      /\ UNCHANGED <<acked, exact, stale>>
  BY AllocatePageStep
<1>2. Inserting /\ Inserting'
  BY <1>1 DEF Inserting
<1> SUFFICES ASSUME NEW t \in Table, exact[t] = TRUE PROVE ExactOK(t)'
  BY <1>1 DEF ExactInv, ExactOK
<1>3. t = op.t
  BY <1>1 DEF OneTable
<1>4. PICK n \in Nat : \E c : Content(t, n, c)
  BY DEF ExactInv, ExactOK
<1>5. PICK c : Content(t, n, c)
  BY <1>4
<1> DEFINE s == file[t].pages
           r == file'[t].pages
<1>6. /\ n = Current(t).last /\ stale[t] # "torn" /\ (n # 0 => s[n].right = 0)
      /\ Joined(c, n, s) /\ Current(t).rows = Len(c[n]) /\ Untagged(c[n]) \o op.todo = Due(t)
  BY <1>2, <1>5 DEF Content
<1>7. /\ Current(t) = hdr[t] /\ Current(t)' = hdr'[t] /\ hdr'[t].rows = hdr[t].rows
      /\ hdr'[t].last = (IF hdr[t].last = 0 THEN 1 ELSE hdr[t].last)
      /\ r[hdr[t].last + 1] = NewPage(hdr[t].last + 1) /\ \A i \in 1..hdr[t].last : r[i] = s[i]
  BY <1>3, <1>6, AllocateLinked
<1>8. /\ Current(t)'.last = (IF n = 0 THEN 1 ELSE n) /\ Current(t)'.rows = Len(c[n])
      /\ r[n + 1] = NewPage(n + 1) /\ \A i \in 1..n : r[i] = s[i]
  BY <1>6, <1>7
<1>9. Untagged(c[n]) \o op'.todo = Due(t)'
  BY <1>1, <1>6 DEF Due
<1>10. CASE n # 0
  <2>1. Joined(c, n, r)
    BY <1>6, <1>8, JoinedSame
  <2>2. r[n].right = 0
    BY <1>6, <1>8, <1>10
  <2>3. Content(t, n, c)'
    BY <1>1, <1>2, <1>6, <1>8, <1>9, <1>10, <2>1, <2>2 DEF Content
  <2> QED BY <2>3 DEF ExactOK
<1>11. CASE n = 0
  <2>1. NewPage(1).rows = << >> /\ NewPage(1).right = 0
    BY DEF NewPage
  <2>2. r[n + 1].rows = << >> /\ r[1].right = 0 /\ \A i \in 1..n : r[i].rows = s[i].rows
    BY <1>8, <1>11, <2>1
  <2>3. \E d : Joined(d, n + 1, r) /\ d[n + 1] = c[n]
    BY <1>6, <2>2, JoinedMore
  <2>4. PICK d : Joined(d, 1, r) /\ d[1] = c[n]
    BY <1>11, <2>3
  <2>5. Content(t, 1, d)'
    BY <1>1, <1>2, <1>6, <1>8, <1>9, <1>11, <2>2, <2>4 DEF Content
  <2> QED BY <2>5 DEF ExactOK
<1> QED BY <1>10, <1>11

\* The page without rows becomes the last one.
LEMMA LinkPageExact ==
    ASSUME OneTable, NoFaults, StoreInv, TypeInv, ChainInv, CoherentInv, LinkInv, ExactInv,
           NEW ok \in BOOLEAN, LinkPage(ok)
    PROVE  ExactInv'
<1>1. /\ op.at = "link" /\ op.t \in Table /\ op'.at = "row" /\ op'.todo = op.todo
      /\ op'.kind = op.kind /\ op'.key = op.key /\ op'.val = op.val
      /\ UNCHANGED <<acked, exact, stale>>
  BY LinkPageStep
<1>2. Inserting /\ Inserting'
  BY <1>1 DEF Inserting
<1> SUFFICES ASSUME NEW t \in Table, exact[t] = TRUE PROVE ExactOK(t)'
  BY <1>1 DEF ExactInv, ExactOK
<1>3. t = op.t
  BY <1>1 DEF OneTable
<1>4. PICK n \in Nat : \E c : Content(t, n, c)
  BY DEF ExactInv, ExactOK
<1>5. PICK c : Content(t, n, c)
  BY <1>4
<1> DEFINE s == file[t].pages
           r == file'[t].pages
<1>6. /\ n = Current(t).last /\ stale[t] # "torn"
      /\ Joined(c, n, s) /\ Current(t).rows = Len(c[n]) /\ Untagged(c[n]) \o op.todo = Due(t)
  BY <1>2, <1>5 DEF Content
<1>7. /\ Current(t) = hdr[t] /\ Current(t)' = hdr'[t] /\ hdr'[t].rows = hdr[t].rows
      /\ hdr[t].last # 0 /\ hdr'[t].last = hdr[t].last + 1
      /\ hdr[t].last <= Len(s) /\ s \in Seq(Page)
      /\ r[hdr[t].last + 1] = NewPage(hdr[t].last + 1)
      /\ r[hdr[t].last] = [s[hdr[t].last] EXCEPT !.right = hdr[t].last + 1]
      /\ \A i \in 1..hdr[t].last : i # hdr[t].last => r[i] = s[i]
  BY <1>3, <1>6, LinkLinked
<1>8. /\ Current(t)'.last = n + 1 /\ Current(t)'.rows = Len(c[n]) /\ n \in 1..Len(s) /\ s[n] \in Page
      /\ r[n + 1] = NewPage(n + 1) /\ r[n] = [s[n] EXCEPT !.right = n + 1]
      /\ \A i \in 1..n : i # n => r[i] = s[i]
  BY <1>6, <1>7
<1>9. r[n].rows = s[n].rows
  BY <1>8 DEF Page
<1>10. NewPage(n + 1).rows = << >> /\ NewPage(n + 1).right = 0
  BY DEF NewPage
<1>11. Untagged(c[n]) \o op'.todo = Due(t)'
  BY <1>1, <1>6 DEF Due
<1> HIDE DEF s, r
<1>12. \A i \in 1..n : r[i].rows = s[i].rows
  BY <1>8, <1>9
<1>13. r[n + 1].rows = << >> /\ r[n + 1].right = 0
  BY <1>8, <1>10
<1>14. \E d : Joined(d, n + 1, r) /\ d[n + 1] = c[n]
  BY <1>6, <1>12, <1>13, JoinedMore
<1>15. PICK d : Joined(d, n + 1, r) /\ d[n + 1] = c[n]
  BY <1>14
<1>16. Content(t, n + 1, d)'
  BY <1>1, <1>2, <1>6, <1>8, <1>11, <1>13, <1>15 DEF Content, r
<1>17. n + 1 \in Nat
  OBVIOUS
<1> QED BY <1>16, <1>17 DEF ExactOK

\* The row that is written is the first of those to come.
LEMMA WriteRowExact ==
    ASSUME OneTable, StoreInv, TypeInv, CoherentInv, LinkInv, ExactInv, WriteRow PROVE ExactInv'
<1>1. /\ op.at = "row" /\ op.t \in Table
      /\ \/ /\ Len(op.todo) > 1 /\ op'.at = "find" /\ op'.todo = Tail(op.todo)
            /\ op'.kind = op.kind /\ op'.key = op.key /\ op'.val = op.val
            /\ acked' = acked
         \/ /\ Len(op.todo) = 1 /\ op'.at = "done" /\ op'.kind # "get"
            /\ acked'[op.t] = Outcome(acked[op.t])
      /\ UNCHANGED <<exact, stale>>
  BY WriteRowStep
<1>2. Inserting
  BY <1>1 DEF Inserting
<1> SUFFICES ASSUME NEW t \in Table, exact[t] = TRUE PROVE ExactOK(t)'
  BY <1>1 DEF ExactInv, ExactOK
<1>3. t = op.t
  BY <1>1 DEF OneTable
<1>4. PICK n \in Nat : \E c : Content(t, n, c)
  BY DEF ExactInv, ExactOK
<1>5. PICK c : Content(t, n, c)
  BY <1>4
<1> DEFINE s == file[t].pages
           r == file'[t].pages
           e == RowToWrite
<1>6. /\ n = Current(t).last /\ stale[t] # "torn" /\ (n # 0 => s[n].right = 0)
      /\ Joined(c, n, s) /\ Current(t).rows = Len(c[n]) /\ Untagged(c[n]) \o op.todo = Due(t)
  BY <1>2, <1>5 DEF Content
<1>7. /\ Current(t) = hdr[t] /\ Current(t)' = hdr'[t] /\ hdr'[t].rows = hdr[t].rows + 1
      /\ hdr[t].last # 0 /\ hdr'[t].last = hdr[t].last
      /\ s[hdr[t].last] = op.target /\ op.target \in Page
      /\ r[hdr[t].last].right = s[hdr[t].last].right
      /\ r[hdr[t].last].rows = Append(s[hdr[t].last].rows, e)
      /\ \A i \in 1..hdr[t].last : i # hdr[t].last => r[i] = s[i]
  BY <1>3, <1>6, WriteRowLinked
<1>8. /\ Current(t)'.last = n /\ Current(t)'.rows = Len(c[n]) + 1 /\ n \in Nat \ {0}
      /\ r[n].right = 0 /\ s[n] \in Page /\ r[n].rows = Append(s[n].rows, e)
      /\ \A i \in 1..n : i # n => r[i] = s[i]
  BY <1>6, <1>7
<1>9. e \in Tagged /\ s[n].rows \in Seq(Tagged)
  BY <1>1, <1>8, PageToWriteTyped DEF Page, Tagged
<1>10. Bare(e) = Head(op.todo) /\ op.todo \in Rows /\ op.todo # << >>
  BY <1>1, PageToWriteTyped DEF Bare, RowToWrite
<1> HIDE DEF s, r, e
<1>11. \A i \in 1..n : i # n => r[i].rows = s[i].rows
  BY <1>8
<1>12. RowAdded(s, r, n, e)
  BY <1>8, <1>9, <1>11 DEF RowAdded
<1>13. PICK d : Joined(d, n, r) /\ d[n] = Append(c[n], e)
  <2>1. n \in Nat \ {0} /\ e \in Tagged /\ Joined(c, n, s)
    BY <1>6, <1>8, <1>9
  <2> QED BY <1>12, <2>1, JoinedRow
<1> DEFINE x == c[n]
           todo == op.todo
           ux == Untagged(x)
<1>14. x \in Seq(Tagged)
  BY <1>6, JoinedTyped
<1>15. Untagged(d[n]) = Append(ux, Head(todo)) /\ Len(d[n]) = Len(c[n]) + 1
  <2> HIDE DEF x
  <2>1. Untagged(Append(x, e)) = Append(Untagged(x), Bare(e))
    BY <1>9, <1>14, UntaggedAppend
  <2>2. Len(Append(x, e)) = Len(x) + 1
    <3> HIDE DEF Tagged
    <3> QED BY <1>9, <1>14, AppendProperties
  <2> QED BY <1>10, <1>13, <2>1, <2>2 DEF x
<1>16. /\ Append(ux, Head(todo)) \o Tail(todo) = ux \o todo
       /\ Len(todo) = 1 => Append(ux, Head(todo)) = ux \o todo
  <2> DEFINE R == [key : Nat, val : {0, 1}]
  <2>1. ux \in Seq(R) /\ todo \in Seq(R) /\ todo # << >>
    BY <1>10, <1>14, UntaggedTyped DEF Rows
  <2> HIDE DEF R, ux, todo
  <2> QED BY <2>1, ShiftHead
<1>17. ux \o todo = Due(t)
  BY <1>6
<1> HIDE DEF x, ux, todo
<1>18. CASE Len(op.todo) > 1 /\ op'.at = "find"
  <2>1. Due(t)' = Due(t) /\ op'.todo = Tail(todo)
    BY <1>1, <1>18 DEF Due, todo
  <2>2. Untagged(d[n]) \o op'.todo = Due(t)'
    BY <1>15, <1>16, <1>17, <2>1
  <2>3. Inserting'
    BY <1>18 DEF Inserting
  <2>4. Content(t, n, d)'
    BY <1>1, <1>6, <1>8, <1>13, <1>15, <1>18, <2>2, <2>3 DEF Content, r
  <2> QED BY <2>4 DEF ExactOK
<1>19. CASE Len(op.todo) = 1 /\ op'.at = "done"
  <2>1. acked'[t] = Due(t) /\ op'.kind # "get"
    BY <1>1, <1>3, <1>19, OutcomeIs DEF Due
  <2>2. Untagged(d[n]) = acked'[t]
    BY <1>15, <1>16, <1>17, <1>19, <2>1 DEF todo
  <2>3. ~Inserting'
    BY <1>19 DEF Inserting
  <2>4. Content(t, n, d)'
    BY <1>1, <1>6, <1>8, <1>13, <1>15, <1>19, <2>1, <2>2, <2>3 DEF Content, r
  <2> QED BY <2>4 DEF ExactOK
<1> QED BY <1>1, <1>18, <1>19

\* The header that is written is the one in use.
LEMMA HeaderWrittenExact ==
    ASSUME OneTable, StoreInv, TypeInv, LinkInv, ExactInv, NEW t \in Table, FlushTable(t) \/ CloseTableFile(t)
    PROVE  ExactInv'
<1>1. /\ \/ op.at = "flush" /\ op'.at = "flush"
         \/ op.at = "start" /\ op' = op
      /\ file'[t].pages = file[t].pages
      /\ stale'[t] = (IF stale[t] = "cleared" THEN "no" ELSE stale[t])
      /\ UNCHANGED <<acked, exact>>
  BY HeaderWrittenStep
<1>2. Current(t)' = Current(t)
  BY HeaderWrittenLink
<1>3. ~Inserting /\ op'.at \in {"start", "flush"}
  BY <1>1 DEF Inserting
<1>4. \A u \in Table : /\ stale[u] # "torn" => stale'[u] # "torn"
                       /\ Current(u)' = Current(u) /\ file'[u].pages = file[u].pages
  <2> TAKE u \in Table
  <2>1. u = t
    BY DEF OneTable
  <2> QED BY <1>1, <1>2, <2>1
<1> QED BY <1>1, <1>3, <1>4, ExactQuiet

\* The steps that change no page change no row.
LEMMA QuietExact ==
    ASSUME OneTable, TypeInv, ExactInv,
           \/ FlushAll \/ Close \/ FlushEnds \/ CloseEnds \/ Checkpoint \/ Finish \/ Open
           \/ \E t \in Table : TruncateTable(t) \/ TruncateUnopened(t)
    PROVE  ExactInv'
<1>1. CASE FlushAll \/ Close
  <2>1. op.at = "start" /\ op'.at = "flush" /\ UNCHANGED <<file, hdr, acked, exact, stale>>
    BY <1>1, StartFlushStep DEF FlushAll, Close
  <2>2. ~Inserting
    BY <2>1 DEF Inserting
  <2> QED BY <2>1, <2>2, CurrentKept, ExactQuiet
<1>2. CASE FlushEnds \/ Finish \/ Checkpoint
  <2>1. /\ op.at \in {"flush", "done", "start"}
        /\ (op'.at = "done" /\ op'.kind = "flush") \/ op'.at = "start"
        /\ UNCHANGED <<file, hdr, acked, exact, stale>>
    BY <1>2, QuietSteps
  <2>2. ~Inserting
    BY <2>1 DEF Inserting
  <2> QED BY <2>1, <2>2, CurrentKept, ExactQuiet
<1>3. CASE CloseEnds \/ Open
  <2>1. /\ (op.at = "flush" /\ op'.at = "start") \/ op' = op
        /\ UNCHANGED <<file, hdr, acked, exact, stale>>
    BY <1>3, RestartStep
  <2>2. \A t \in Table : Current(t)' = Current(t)
    BY <2>1, CurrentKept
  <2>3. CASE op' = op
    <3> SUFFICES ASSUME NEW t \in Table, exact[t] = TRUE PROVE ExactOK(t)'
      BY <2>1 DEF ExactInv, ExactOK
    <3>1. PICK n \in Nat : \E c : Content(t, n, c)
      BY DEF ExactInv, ExactOK
    <3>2. PICK c : Content(t, n, c)
      BY <3>1
    <3>3. Content(t, n, c)'
      BY <2>1, <2>2, <2>3, <3>2 DEF Content, Due, Inserting
    <3> QED BY <3>3 DEF ExactOK
  <2>4. CASE op.at = "flush" /\ op'.at = "start"
    <3>1. ~Inserting
      BY <2>4 DEF Inserting
    <3> QED BY <2>1, <2>2, <2>4, <3>1, ExactQuiet
  <2> QED BY <2>1, <2>3, <2>4
<1>4. ASSUME NEW t \in Table, TruncateTable(t) PROVE ExactInv'
  <2>1. /\ op.at = "start" /\ op'.kind = "truncate" /\ op'.at = "clear"
        /\ UNCHANGED <<file, hdr, acked, exact, stale>>
    BY <1>4, TruncateTableStep
  <2> SUFFICES ASSUME NEW u \in Table, exact[u] = TRUE PROVE ExactOK(u)'
    BY <2>1 DEF ExactInv, ExactOK
  <2>2. Current(u)' = Current(u)
    BY <2>1, CurrentKept
  <2>3. ~Inserting /\ ~Inserting'
    BY <2>1 DEF Inserting
  <2>4. PICK n \in Nat : \E c : Content(u, n, c)
    BY DEF ExactInv, ExactOK
  <2>5. PICK c : Content(u, n, c)
    BY <2>4
  <2>6. Content(u, n, c)'
    BY <2>1, <2>2, <2>3, <2>5 DEF Content
  <2> QED BY <2>6 DEF ExactOK
<1>5. ASSUME NEW t \in Table, TruncateUnopened(t) PROVE ExactInv'
  <2>1. exact' = [exact EXCEPT ![t] = FALSE] /\ exact \in [Table -> BOOLEAN]
    BY <1>5, TruncateUnopenedStep DEF TypeInv
  <2>2. exact'[t] = FALSE
    BY <2>1
  <2> SUFFICES ASSUME NEW u \in Table, exact'[u] = TRUE PROVE FALSE
    BY DEF ExactInv, ExactOK
  <2>3. u = t
    BY DEF OneTable
  <2> QED BY <2>2, <2>3
<1> QED BY <1>1, <1>2, <1>3, <1>4, <1>5

\* One table holds exactly the rows it must hold, in their order, if no write fails, as long as
\* neither a crash nor a failed operation nor the truncation of its unopened file lost track of them.
THEOREM ExactInvariant == ASSUME OneTable, NoFaults PROVE Spec => []ExactInv
<1>1. Init => ExactInv
  <2> SUFFICES ASSUME Init, NEW t \in Table PROVE ExactOK(t)
    BY DEF ExactInv
  <2>1. /\ op = Idle /\ hdr[t] = NewHeader /\ acked[t] = << >> /\ stale[t] = "no"
    BY DEF Init
  <2>2. NewHeader # Closed /\ NewHeader.last = 0 /\ NewHeader.rows = 0 /\ Len(<< >>) = 0
    BY DEF NewHeader, Closed
  <2>3. Current(t) = NewHeader /\ op.at = "start" /\ ~Inserting
    BY <2>1, <2>2 DEF Current, IsOpen, Idle, Inserting
  <2> DEFINE c == [i \in {0} |-> << >>]
  <2>4. c[0] = << >>
    OBVIOUS
  <2> HIDE DEF c
  <2>5. Joined(c, 0, file[t].pages) /\ Untagged(c[0]) = << >> /\ Len(c[0]) = 0
    BY <2>2, <2>4, UntaggedNone DEF Joined
  <2>6. Content(t, 0, c)
    BY <2>1, <2>2, <2>3, <2>5 DEF Content
  <2> QED BY <2>6 DEF ExactOK
<1>2. StoreInv /\ TypeInv /\ ChainInv /\ CoherentInv /\ LinkInv /\ ExactInv /\ [Next]_vars => ExactInv'
  <2> SUFFICES ASSUME StoreInv, TypeInv, ChainInv, CoherentInv, LinkInv, ExactInv, [Next]_vars PROVE ExactInv'
    OBVIOUS
  <2>1. CASE FindPage \/ FindPageFails \/ AllocatePage \/ WriteRow
    BY <2>1, FindPageExact, AllocatePageExact, WriteRowExact
  <2>2. CASE \E ok \in BOOLEAN : LinkPage(ok)
    BY <2>2, LinkPageExact
  <2>3. CASE \E t \in Table : InsertRow(t) \/ InsertTooLarge(t) \/ GetRows(t) \/ GetTableFile(t)
    BY <2>3, InsertRowExact, OpenHandleExact
  <2>4. CASE \E t \in Table : FlushTable(t) \/ CloseTableFile(t)
    BY <2>4, HeaderWrittenExact
  <2>5. CASE ScanPage \/ ScanPageFails \/ ScanEnds \/ ClearTable
    BY <2>5, ScanPageExact, ScanPageFailsExact, ScanEndsExact, ClearTableExact
  <2>6. CASE \E t \in Table, k \in Keys :
                \/ UpdateRows(t, k) \/ DeleteRows(t, k)
                \/ UpdateRowsWithCallback(t, k) \/ DeleteRowsWithCallback(t, k)
    BY <2>6, RewriteExact
  <2>7. CASE Crash
    <3>1. \A t \in Table : exact'[t] = FALSE
      BY <2>7, CrashStep
    <3> QED BY <3>1 DEF ExactInv, ExactOK
  <2>8. CASE UNCHANGED vars
    <3>1. UNCHANGED <<file, hdr, op, acked, exact, stale>>
      BY <2>8 DEF vars
    <3> SUFFICES ASSUME NEW t \in Table, exact[t] = TRUE PROVE ExactOK(t)'
      BY <3>1 DEF ExactInv, ExactOK
    <3>2. PICK n \in Nat : \E c : Content(t, n, c)
      BY DEF ExactInv, ExactOK
    <3>3. PICK c : Content(t, n, c)
      BY <3>2
    <3>4. Content(t, n, c)'
      BY <3>1, <3>3 DEF Content, Due, Inserting, Current, IsOpen
    <3> QED BY <3>4 DEF ExactOK
  <2> QED BY <2>1, <2>2, <2>3, <2>4, <2>5, <2>6, <2>7, <2>8, FaultFreeNext, QuietExact, Zenon
<1> QED BY <1>1, <1>2, StoreInvariant, TypeInvariant, ChainInvariant, CoherentInvariant, LinkInvariant, PTL
        DEF Spec

\* GetRows of one table returns exactly the rows that were inserted and not deleted, with their last
\* values, in the order of insertion, after any inserts, updates, deletions, truncations, evictions
\* and clean restarts, if no write fails.
THEOREM AllRowsReturned == ASSUME OneTable, NoFaults PROVE Spec => []ReturnsAllRows
<1>1. TypeInv /\ KeptInv /\ ExactInv => ReturnsAllRows
  <2> SUFFICES ASSUME TypeInv, KeptInv, ExactInv, op.at = "done", op.kind = "get", exact[op.t]
               PROVE  ~op.err /\ Untagged(op.seen) = acked[op.t]
    BY DEF ReturnsAllRows, Running
  <2>1. op.t \in Table
    BY DEF KeptInv
  <2>2. exact[op.t] = TRUE
    BY <2>1, Zenon DEF TypeInv
  <2>3. PICK n \in Nat : \E c : Content(op.t, n, c)
    BY <2>1, <2>2 DEF ExactInv, ExactOK
  <2> QED BY <2>3 DEF Content
<1> QED BY <1>1, TypeInvariant, KeptInvariant, ExactInvariant, PTL

\* The header of one table counts its rows, and no two rows have the same id while no crash has taken
\* the counter back, through inserts, rewrites, truncations and clean restarts, if no write fails.
THEOREM RowsAreAccounted == ASSUME OneTable, NoFaults PROVE Spec => []RowsAccounted
<1>1. TypeInv /\ ExactInv => RowCountExact
  <2> SUFFICES ASSUME TypeInv, ExactInv, NEW t \in Table, op.at \in {"start", "done"}, IsOpen(t), exact[t]
               PROVE  hdr[t].rows = Len(acked[t])
    BY DEF RowCountExact
  <2>1. exact[t] = TRUE
    BY Zenon DEF TypeInv
  <2>2. PICK n \in Nat : \E c : Content(t, n, c)
    BY <2>1 DEF ExactInv, ExactOK
  <2>3. PICK c : Content(t, n, c)
    BY <2>2
  <2>4. Current(t) = hdr[t] /\ ~Inserting
    BY DEF Current, Inserting
  <2>5. hdr[t].rows = Len(c[n]) /\ Untagged(c[n]) = acked[t] /\ Joined(c, n, file[t].pages)
    BY <2>3, <2>4 DEF Content
  <2>6. c[n] \in Seq(Tagged)
    BY <2>5, JoinedTyped
  <2>7. Len(Untagged(c[n])) = Len(c[n])
    BY <2>6, UntaggedTyped
  <2> QED BY <2>5, <2>7
<1>2. RowCountExact /\ IdInv => RowsAccounted
  BY IdsAreUnique DEF RowsAccounted
<1> QED BY <1>1, <1>2, TypeInvariant, ExactInvariant, IdInvariant, PTL
=============================================================================
