---------------------------- MODULE SlottedPage ----------------------------
(***************************************************************************)
(* One data page of storage/page.go and the operations that TableFile      *)
(* performs on it.  Cell pointers (PointerBytes each) grow from the start  *)
(* of Content, cells grow from its end; a deleted cell has pointer 0.      *)
(*                                                                         *)
(* Offsets and sizes are uint16 in the code: arithmetic is modulo WordMod. *)
(* A row is its encoded size.  A byte of Content is the number of the cell *)
(* it was last written for, 0 when unused or part of a pointer.            *)
(***************************************************************************)
EXTENDS Integers, Sequences

CONSTANTS WordMod,      \* 2^16 in the code
          MaxContent,   \* MaxPageContentV2
          Reserve,      \* the room InsertRow leaves for headers, 100 bytes
          RowSizes,     \* the sizes of the rows that are inserted
          UpdateSizes   \* the sizes of the rows that replace another

PointerBytes == 2

ASSUME SizesAssumption ==
    /\ MaxContent \in Nat /\ WordMod \in Nat /\ Reserve \in Nat
    /\ PointerBytes <= Reserve
    /\ MaxContent + PointerBytes < WordMod
    /\ RowSizes \subseteq Nat \ {0}
    /\ UpdateSizes \subseteq Nat \ {0}

VARIABLES page,    \* the page: FreeSpace, the cell pointers, Fragmented, Content
          cells    \* history: where each cell was placed, and its row's size

pageVars == <<page, cells>>

Word == 0..(WordMod - 1)
Offsets == 0..(MaxContent - 1)

\* NewPageV2.
EmptyPage == [free |-> MaxContent, ptr |-> << >>, frag |-> 0,
              bytes |-> [b \in Offsets |-> 0]]

\* AvailableSpace: what is left between the pointers and the cells, less the
\* space of deleted cells.
AvailableSpace(p) ==
    LET gap == p.free - PointerBytes * Len(p.ptr)
    IN  IF gap < 0 \/ gap < p.frag THEN 0 ELSE gap - p.frag

\* Mutant of CanInsert: the room for the pointer is forgotten.
CanInsertNoPointer(p, rowSize) == AvailableSpace(p) >= rowSize % WordMod

\* CanInsert: the needed size is computed in 16 bits.
CanInsert(p, rowSize) ==
    AvailableSpace(p) >= ((rowSize % WordMod) + PointerBytes) % WordMod

\* Where InsertRowToPage puts the row: FreeSpace - uint16(rowSize).
CellOffset(p, rowSize) == (p.free - (rowSize % WordMod)) % WordMod

\* The bytes of the pointer of cell i.
PointerAt(i) == (PointerBytes * (i - 1))..(PointerBytes * i - 1)

\* InsertRowToPage after its CanInsert test: the row is copied, as far as
\* Content goes, then the pointer is added.  (A CellOffset above MaxContent
\* is a slice bounds panic in the code.)
InsertRowToPage(p, rowSize) ==
    LET off == CellOffset(p, rowSize)
        n == Len(p.ptr) + 1
    IN  [free |-> off, ptr |-> Append(p.ptr, off), frag |-> p.frag,
         bytes |-> [b \in Offsets |-> IF b \in PointerAt(n) THEN 0
                                      ELSE IF b >= off /\ b < off + rowSize THEN n
                                      ELSE p.bytes[b]]]

\* Mutant of CellEnd: the next pointer in place of the previous one.
CellEndNext(p, i) == IF i = Len(p.ptr) THEN MaxContent ELSE p.ptr[i + 1]

\* Where the data of cell i ends: at the previous cell, whose pointer may have
\* been zeroed.
CellEnd(p, i) == IF i = 1 THEN MaxContent ELSE p.ptr[i - 1]

\* GetRowFromPage and GetCellData return the data of cell i.
Readable(p, i) == p.ptr[i] # 0 /\ p.ptr[i] < CellEnd(p, i)

\* Mutant of DeleteRowFromPage: Fragmented is not updated.
DeleteKeepsFragmented(p, i) ==
    [free |-> p.free, ptr |-> [p.ptr EXCEPT ![i] = 0], frag |-> p.frag, bytes |-> p.bytes]

\* DeleteRowFromPage of a cell that GetCellData can return.
DeleteRowFromPage(p, i) ==
    [free |-> p.free, ptr |-> [p.ptr EXCEPT ![i] = 0],
     frag |-> (p.frag + (CellEnd(p, i) - p.ptr[i])) % WordMod, bytes |-> p.bytes]

\* The history after a row of the given size was added to page p.
Placed(p, rowSize) == Append(cells, [start |-> CellOffset(p, rowSize), size |-> rowSize])

----------------------------------------------------------------------------

PageInit == page = EmptyPage /\ cells = << >>

\* TableFile.InsertRow into this page; a row too large for a page is refused
\* before CanInsert is asked.
InsertRow(rowSize) ==
    /\ rowSize <= MaxContent - Reserve
    /\ CanInsert(page, rowSize)
    /\ page' = InsertRowToPage(page, rowSize)
    /\ cells' = Placed(page, rowSize)

\* TableFile.DeleteRow of the row in cell i.
DeleteRow(i) ==
    /\ Readable(page, i)
    /\ page' = DeleteRowFromPage(page, i)
    /\ UNCHANGED cells

\* TableFile.UpdateRow deletes the row and inserts its new version into the
\* same page if it fits (its size is not checked before CanInsert) ...
UpdateRowInPlace(i, rowSize) ==
    /\ Readable(page, i)
    /\ LET p == DeleteRowFromPage(page, i)
       IN  /\ CanInsert(p, rowSize)
           /\ CellOffset(p, rowSize) <= MaxContent
           /\ page' = InsertRowToPage(p, rowSize)
           /\ cells' = Placed(p, rowSize)

\* ... and otherwise into another page.
UpdateRowMoves(i, rowSize) ==
    /\ Readable(page, i)
    /\ ~CanInsert(DeleteRowFromPage(page, i), rowSize)
    /\ page' = DeleteRowFromPage(page, i)
    /\ UNCHANGED cells

PageNext ==
    \/ \E s \in RowSizes : InsertRow(s)
    \/ \E i \in 1..Len(page.ptr) : DeleteRow(i)
    \/ \E i \in 1..Len(page.ptr), s \in UpdateSizes : UpdateRowInPlace(i, s)
    \/ \E i \in 1..Len(page.ptr), s \in UpdateSizes : UpdateRowMoves(i, s)

PageSpec == PageInit /\ [][PageNext]_pageVars

----------------------------------------------------------------------------

Live(i) == page.ptr[i] # 0

PageTypeOK ==
    /\ page.free \in Word
    /\ page.ptr \in Seq(Word)
    /\ page.frag \in Word
    /\ page.bytes \in [Offsets -> Nat]
    /\ cells \in Seq([start : Word, size : Nat])
    /\ Len(cells) = Len(page.ptr)

\* The pointer array and the cells never overlap: the space computed in 16 bits
\* by AvailableSpace and CanInsert is really there.
PointersBelowCells == PointerBytes * Len(page.ptr) <= page.free /\ page.free <= MaxContent

\* "Pointers are in decreasing order: pointer[0] is largest": what the readers
\* rely on to find the end of a cell, for the pointers that are not deleted.
PointersDecrease ==
    \A i, j \in 1..Len(page.ptr) :
        (i < j /\ Live(i) /\ Live(j)) => page.ptr[j] < page.ptr[i]

\* Whatever was inserted and deleted before and after it, all the bytes of a row
\* that is not deleted are the bytes InsertRowToPage wrote for it.
LiveRowsIntact ==
    \A i \in 1..Len(page.ptr) :
        Live(i) => /\ page.ptr[i] = cells[i].start
                   /\ \A b \in cells[i].start..(cells[i].start + cells[i].size - 1) :
                          b \in Offsets /\ page.bytes[b] = i

\* A read that succeeds returns exactly the row's bytes: the end of the cell,
\* which is found from the neighbouring pointer, is the end of the row.
ReadsWholeRow ==
    \A i \in 1..Len(page.ptr) :
        Readable(page, i) => CellEnd(page, i) = cells[i].start + cells[i].size

\* As long as nothing was deleted, every row can be read.
ReadableWithoutDeletes ==
    (\A i \in 1..Len(page.ptr) : Live(i)) => \A i \in 1..Len(page.ptr) : Readable(page, i)

\* The page is laid out as its readers assume: pointers from the front, cells from the
\* back in decreasing order, and no overlap in 16-bit arithmetic.
PageSound == PageTypeOK /\ PointersBelowCells /\ PointersDecrease

\* Rows are kept and read back: no byte of a live row is overwritten, GetRowFromPage
\* returns whole rows or fails, and it fails only after a deletion.
RowsIntact == LiveRowsIntact /\ ReadsWholeRow /\ ReadableWithoutDeletes

\* The sizes of the cells of c whose pointer is 0, added up.
DeletedSpace(ptr, c) ==
    LET sum[i \in 0..Len(c)] ==
            IF i = 0 THEN 0 ELSE sum[i - 1] + (IF ptr[i] = 0 THEN c[i].size ELSE 0)
    IN  sum[Len(c)]

\* Fragmented is exactly the space of the deleted rows: it does not wrap, and no
\* space is counted twice although the end of a cell is found from a pointer that
\* another deletion may have zeroed.
FragmentedIsDeleted == page.frag = DeletedSpace(page.ptr, cells)
=============================================================================
