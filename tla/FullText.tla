------------------------------ MODULE FullText ------------------------------
(***************************************************************************)
(* Full-text indexes: fts.go, and the engine that keeps them in step with  *)
(* the rows of the tables (executor_dml.go, executor.go, storage.go).      *)
(*                                                                         *)
(* Statements hold e.mu, so each is one action; only CREATE INDEX, which   *)
(* saves its file last, is two, with a crash possible in between.          *)
(*                                                                         *)
(* A text is a sequence of the words the segmenter cuts it into, a word a  *)
(* sequence of characters, all lower case.  << >> is the empty string, and *)
(* Space a word that trimming removes.  Every table has one text column,   *)
(* of the same name in all tables, which statements may spell in two ways. *)
(* A table of format "v1" keeps its rows in s.rowData and takes row ids    *)
(* from s.nextID; one of format "v2" keeps them in its file, with ids of   *)
(* its own, where SQL UPDATE and DELETE do not look.  That rows survive a  *)
(* restart is the subject of Catalog.                                      *)
(***************************************************************************)
EXTENDS Integers, Sequences, FiniteSets, SequencesExt

CONSTANTS Table,         \* the tables
          Legacy,        \* the tables of format "v1"
          Text,          \* contents of rows, and queries
          Option,        \* the options of CREATE FULLTEXT INDEX
          IndexName,     \* the names given to indexes
          Level,         \* the levels a search may ask for, 0 for all
          MaxHits,       \* the limit evalMatchAgainst gives to Search
          MaxID,         \* bound on row ids
          MaxRestarts,   \* bound on restarts
          MaxStatements, \* bound on the statements that change something
          NoRow, NoIndex,  \* no row with an id, no index for a table
          NoFile, Torn     \* no file, a file that cannot be loaded

Space == <<" ">>
Spelling == {"declared", "other"}
Row == 1..MaxID

ASSUME TextAssumption == << >> \in Text /\ Legacy \subseteq Table

\* The configuration of an index without options, and of one that is restored
\* without its file.
DefaultFTSConfig == [levels |-> <<1>>, storePos |-> FALSE, minTermLen |-> 1,
                     customDict |-> {}, synonyms |-> {}]

\* parseFTSOptions: levels other than 1 to 3 are ignored, as is an empty list of
\* levels and a minimal length below 1.
parseFTSOptions(o) ==
    LET levels == SelectSeq(o.levels, LAMBDA n : n \in 1..3)
    IN  [DefaultFTSConfig EXCEPT
            !.levels = IF levels = << >> THEN @ ELSE levels,
            !.minTermLen = IF o.minTermLen >= 1 THEN o.minTermLen ELSE @,
            !.storePos = o.storePos,
            !.customDict = o.customDict, !.synonyms = o.synonyms]

Config == {DefaultFTSConfig} \cup {parseFTSOptions(o) : o \in Option}

VARIABLES tables,    \* the tables that exist
          rows,      \* the text of each row; NoRow for an id that is not in use
          format,    \* "v1" or "v2"
          nextID,    \* s.nextID, and the next row id of each table file
          idx,       \* e.fts.indexes: the index of each table, or NoIndex
          info,      \* s.ftsIndexes: index name by table and spelling, or "none"
          file,      \* the index files by name
          saving,    \* CREATE INDEX is about to save this table's file
          answer,    \* what the last MATCH returned, and what it was asked
          restarts, statements,
          lapsed,    \* history: tables whose index has missed a change
          savedFor   \* history: the table whose rows a file still describes

vars == <<tables, rows, format, nextID, idx, info, file, saving, answer, restarts, statements,
          lapsed, savedFor>>

----------------------------------------------------------------------------
(* Tokens.                                                                  *)

\* Tokenize: the words, without those that trimming leaves empty.
Tokenize(text) == {text[i] : i \in 1..Len(text)} \ {Space}

\* splitTerm: pairs of characters, the last one alone if their number is odd.
splitTerm(term) ==
    IF Len(term) < 2 THEN {}
    ELSE {SubSeq(term, i, IF i < Len(term) THEN i + 1 ELSE i) :
             i \in {j \in 1..Len(term) : j % 2 = 1}}

HasPart(text, part) ==
    LET s == FlattenSeq(text)
    IN  \E i \in 0..(Len(s) - Len(part)) : SubSeq(s, i + 1, i + Len(part)) = part

hasLevel(cfg, level) == level \in {cfg.levels[i] : i \in 1..Len(cfg.levels)}

\* TokenizeWithLevelsForIndex: the terms of a text with their levels.  Synonyms
\* are added to what is indexed and not to what is searched.
TokenizeWithLevels(text, cfg, forIndex) ==
    LET words == Tokenize(text) \cup {w \in cfg.customDict : HasPart(text, w)}
        syns == {s \in cfg.synonyms : s[1] \in words}
        long == {w \in words : Len(w) >= 2}
    IN  (IF hasLevel(cfg, 1)
           THEN {<<w, 1>> : w \in words} \cup
                (IF forIndex THEN {<<s[2], 1>> : s \in syns} ELSE {})
           ELSE {})
        \cup {<<p, 2>> : p \in {q \in UNION {splitTerm(w) : w \in long} :
                                   hasLevel(cfg, 2) /\ Len(q) >= cfg.minTermLen}}
        \cup {<<c, 3>> : c \in {<<d>> : d \in UNION {{w[i] : i \in 1..Len(w)} :
                                   w \in {v \in long : hasLevel(cfg, 3)}}}}

\* What IndexDocument and Search make of a text; levels count only when there
\* are several.
Tokens(text, cfg, forIndex) ==
    IF Len(cfg.levels) > 1 THEN TokenizeWithLevels(text, cfg, forIndex)
    ELSE {<<w, 1>> : w \in Tokenize(text)}

TermsOf(tokens) == {x[1] : x \in tokens}

Term == UNION {TermsOf(Tokens(text, cfg, TRUE) \cup TokenizeWithLevels(text, cfg, TRUE)) :
                  text \in Text, cfg \in Config}

----------------------------------------------------------------------------
(* InvertedIndex: the postings of each term, the terms of each document, the *)
(* levels at which a term was found, and the two counters.                   *)

TermCount(index) == Cardinality({w \in Term : index[w] # {}})

NewInvertedIndex(cfg, spelling) ==
    [config |-> cfg, spelling |-> spelling,
     index |-> [w \in Term |-> {}],
     documents |-> [r \in Row |-> {}], contents |-> [r \in Row |-> << >>],
     positions |-> [w \in Term |-> {}],
     docCount |-> 0, termCount |-> 0]

\* removeDocumentLocked.
removeDocument(x, r) ==
    LET index == [w \in Term |-> x.index[w] \ (IF w \in x.documents[r] THEN {r} ELSE {})]
    IN  IF x.documents[r] = {} THEN x
        ELSE [x EXCEPT !.index = index, !.documents[r] = {}, !.contents[r] = << >>,
                       !.positions = [w \in Term |-> IF w \in x.documents[r]
                                                     THEN {p \in @[w] : p[1] # r} ELSE @[w]],
                       !.docCount = @ - 1, !.termCount = TermCount(index)]

\* The second part of IndexDocument, for a row that is not in the index: a text without
\* tokens adds nothing.
addDocument(x, r, text) ==
    LET tokens == Tokens(text, x.config, TRUE)
        index == [w \in Term |-> x.index[w] \cup (IF w \in TermsOf(tokens) THEN {r} ELSE {})]
    IN  IF tokens = {} THEN x
        ELSE [x EXCEPT !.index = index, !.documents[r] = TermsOf(tokens), !.contents[r] = text,
                       !.positions = IF x.config.storePos
                                     THEN [w \in Term |-> @[w] \cup
                                              {<<r, k[2]>> : k \in {j \in tokens : j[1] = w}}]
                                     ELSE @,
                       !.docCount = @ + 1, !.termCount = TermCount(index)]

\* Mutant of IndexDocument: the old entries are not removed first.
IndexDocumentAgain(x, r, text) == addDocument(x, r, text)

\* IndexDocument and UpdateDocument: what was indexed for the row before is removed first.
IndexDocument(x, r, text) == addDocument(removeDocument(x, r), r, text)

Postings(x, w) == IF w \in Term THEN x.index[w] ELSE {}

\* Mutant of Search: rows that have one of the terms.
SearchAny(x, query) ==
    UNION {Postings(x, w) : w \in TermsOf(Tokens(query, x.config, FALSE))}

\* Search: the rows in the postings of all terms.
Search(x, query) ==
    LET terms == TermsOf(Tokens(query, x.config, FALSE))
    IN  {r \in Row : terms # {} /\ \A w \in terms : r \in Postings(x, w)}

\* Mutant of SearchWithLevel: a query without terms at the level is not answered at once.
SearchLevelAll(x, query, level) ==
    LET terms == {k[1] : k \in {j \in TokenizeWithLevels(query, x.config, FALSE) : j[2] = level}}
    IN  IF level = 0 THEN Search(x, query)
        ELSE {r \in Row : \A w \in terms : r \in Postings(x, w)}

\* SearchWithLevel: the rows where each term was found at the level, if positions
\* were stored for the term, and otherwise in its postings.
SearchWithLevel(x, query, level) ==
    LET terms == {k[1] : k \in {j \in TokenizeWithLevels(query, x.config, FALSE) : j[2] = level}}
        At(w) == IF w \in Term /\ x.positions[w] # {}
                 THEN {p[1] : p \in {q \in x.positions[w] : q[2] = level}}
                 ELSE Postings(x, w)
    IN  IF level = 0 THEN Search(x, query)
        ELSE {r \in Row : terms # {} /\ \A w \in terms : r \in At(w)}

----------------------------------------------------------------------------
(* The engine.                                                              *)

NoAnswer == [table |-> "none", used |-> {}, query |-> << >>, level |-> 0, hits |-> {}]

HasIndex(t) == idx[t] # NoIndex

Init ==
    /\ tables = Table
    /\ rows = [t \in Table |-> [r \in Row |-> NoRow]]
    /\ format = [t \in Table |-> IF t \in Legacy THEN "v1" ELSE "v2"]
    /\ nextID = [t \in Table \cup {"storage"} |-> 1]
    /\ idx = [t \in Table |-> NoIndex]
    /\ info = [t \in Table |-> [s \in Spelling |-> "none"]]
    /\ file = [n \in IndexName |-> NoFile]
    /\ saving = "none"
    /\ answer = NoAnswer
    /\ restarts = 0 /\ statements = 0
    /\ lapsed = {}
    /\ savedFor = [n \in IndexName |-> "none"]

\* e.mu is held by CREATE INDEX until its file is saved, and by SELECT until its answer
\* is returned.
Idle == saving = "none" /\ answer = NoAnswer

\* A statement that changes something starts.
Statement == Idle /\ statements < MaxStatements /\ statements' = statements + 1

\* The answer of a SELECT is returned.
Return ==
    /\ answer # NoAnswer
    /\ answer' = NoAnswer
    /\ UNCHANGED <<statements, tables, rows, format, nextID, idx, info, file, saving, restarts, lapsed, savedFor>>

\* The rows of t change: no file describes them any more.
RowsChange(t) ==
    /\ savedFor' = [n \in IndexName |-> IF savedFor[n] = t THEN "none" ELSE savedFor[n]]
    /\ UNCHANGED answer

\* Mutant of Reindexed: a row that has a document is not indexed again.
ReindexedNew(t, r, text) ==
    IF HasIndex(t) /\ text # << >> /\ idx[t].documents[r] = {}
    THEN [idx EXCEPT ![t] = IndexDocument(@, r, text)] ELSE idx

\* indexRowForFTS and updateCallback: an empty string is skipped.
Reindexed(t, r, text) ==
    IF HasIndex(t) /\ text # << >> THEN [idx EXCEPT ![t] = IndexDocument(@, r, text)] ELSE idx

\* The index of t misses a change if cond holds.
Misses(t, cond) == lapsed' = IF HasIndex(t) /\ cond THEN lapsed \cup {t} ELSE lapsed

\* Storage.InsertRow: the row gets the next id of the table file, or of the
\* storage, whose counter counts every row.
StoreRow(t, r, text) ==
    /\ r = IF format[t] = "v1" THEN nextID["storage"] ELSE nextID[t]
    /\ nextID["storage"] <= MaxID
    /\ nextID' = [nextID EXCEPT !["storage"] = @ + 1,
                                ![t] = IF format[t] = "v2" THEN @ + 1 ELSE @]
    /\ rows' = [rows EXCEPT ![t][r] = text]

\* executeInsert of one row.
executeInsert(t, text) ==
    /\ Statement /\ t \in tables
    /\ \E r \in Row : StoreRow(t, r, text) /\ idx' = Reindexed(t, r, text)
    /\ RowsChange(t)
    /\ UNCHANGED <<tables, format, info, file, saving, restarts, lapsed>>

\* InsertRowDirect, which the driver and the importers use: no index is told.
InsertRowDirect(t, text) ==
    /\ Statement /\ t \in tables
    /\ \E r \in Row : StoreRow(t, r, text)
    /\ Misses(t, TRUE)
    /\ RowsChange(t)
    /\ UNCHANGED <<tables, format, idx, info, file, saving, restarts>>

\* executeUpdate of one row of s.rowData: an index keeps the old text when the new
\* one is empty.
executeUpdate(t, r, text) ==
    /\ Statement /\ t \in tables /\ format[t] = "v1" /\ rows[t][r] # NoRow
    /\ rows' = [rows EXCEPT ![t][r] = text]
    /\ idx' = Reindexed(t, r, text)
    /\ Misses(t, text = << >> /\ idx[t].documents[r] # {})
    /\ RowsChange(t)
    /\ UNCHANGED <<tables, format, nextID, info, file, saving, restarts>>

\* executeDelete of one row of s.rowData.  Manager.DeleteDocument looks for the index
\* under the name the table declares for the column, and in no other spelling.
executeDelete(t, r) ==
    /\ Statement /\ t \in tables /\ format[t] = "v1" /\ rows[t][r] # NoRow
    /\ rows' = [rows EXCEPT ![t][r] = NoRow]
    /\ idx' = IF HasIndex(t) /\ idx[t].spelling = "declared"
              THEN [idx EXCEPT ![t] = removeDocument(@, r)] ELSE idx
    /\ Misses(t, idx[t].spelling # "declared" /\ idx[t].documents[r] # {})
    /\ RowsChange(t)
    /\ UNCHANGED <<tables, format, nextID, info, file, saving, restarts>>

\* executeDropTable: the index, its metadata and its file stay.
executeDropTable(t) ==
    /\ Statement /\ t \in tables
    /\ tables' = tables \ {t}
    /\ rows' = [rows EXCEPT ![t] = [r \in Row |-> NoRow]]
    /\ Misses(t, TRUE)
    /\ RowsChange(t)
    /\ UNCHANGED <<format, nextID, idx, info, file, saving, restarts>>

\* executeCreateTable: the new table is of format "v2".  (What becomes of the file of
\* a dropped "v2" table is the subject of Catalog.)
executeCreateTable(t) ==
    /\ Statement /\ t \notin tables /\ format[t] = "v1"
    /\ tables' = tables \cup {t}
    /\ format' = [format EXCEPT ![t] = "v2"]
    /\ UNCHANGED <<answer, rows, nextID, idx, info, file, saving, restarts, lapsed, savedFor>>

\* indexExistingRows, of a new index: each row is indexed once, so a term gets the rows
\* that have it.  Rows with an empty text are skipped, and without the table there is
\* nothing to index.
indexRows(x, texts) ==
    LET tokens(r) == IF texts[r] \in {NoRow, << >>} THEN {} ELSE Tokens(texts[r], x.config, TRUE)
        index == [w \in Term |-> {r \in Row : w \in TermsOf(tokens(r))}]
    IN  [x EXCEPT !.index = index,
                  !.documents = [r \in Row |-> TermsOf(tokens(r))],
                  !.contents = [r \in Row |-> IF tokens(r) = {} THEN << >> ELSE texts[r]],
                  !.positions = IF x.config.storePos
                                THEN [w \in Term |-> {p \in Row \X (1..3) :
                                                         <<w, p[2]>> \in tokens(p[1])}]
                                ELSE @,
                  !.docCount = Cardinality({r \in Row : tokens(r) # {}}),
                  !.termCount = TermCount(index)]

indexExistingRows(x, t) == IF t \in tables THEN indexRows(x, rows[t]) ELSE x

\* Storage.CreateFTSIndex: one entry per table and spelling, which keeps its first name.
CreateFTSIndex(t, s, n) ==
    info' = IF t \in tables /\ info[t][s] = "none" THEN [info EXCEPT ![t][s] = n] ELSE info

\* executeCreateIndex, up to the saving of the file.  If the manager has the index
\* under any spelling, only the metadata are written.
executeCreateIndex(t, s, n, cfg) ==
    /\ Statement
    /\ CreateFTSIndex(t, s, n)
    /\ IF HasIndex(t)
         THEN UNCHANGED <<idx, saving, lapsed>>
         ELSE /\ idx' = [idx EXCEPT ![t] = indexExistingRows(NewInvertedIndex(cfg, s), t)]
              /\ saving' = t
              /\ lapsed' = lapsed \ {t}
    /\ UNCHANGED <<answer, tables, rows, format, nextID, file, restarts, savedFor>>

\* saveFTSIndex: the file has the name in the metadata, and is not written if there
\* are none for this spelling.
saveFTSIndex ==
    LET t == saving
        n == info[t][idx[t].spelling]
    IN  /\ saving # "none"
        /\ saving' = "none"
        /\ IF n = "none"
             THEN UNCHANGED <<file, savedFor>>
             ELSE /\ file' = [file EXCEPT ![n] = idx[t]]
                  /\ savedFor' = [savedFor EXCEPT ![n] = t]
        /\ UNCHANGED <<statements, tables, rows, format, nextID, idx, info, answer, restarts, lapsed>>

\* executeDropIndex: the index in memory goes if the spelling is the one of its key (or
\* no column is named); its metadata and its file stay.
executeDropIndex(t, s) ==
    /\ Statement /\ HasIndex(t) /\ s = idx[t].spelling
    /\ idx' = [idx EXCEPT ![t] = NoIndex]
    /\ UNCHANGED <<answer, tables, rows, format, nextID, info, file, saving, restarts, lapsed, savedFor>>

\* restoreFTSIndexes for one entry of the metadata: the file is loaded if it can be,
\* whatever its age, with the configuration in it; otherwise the rows are indexed again,
\* with the default configuration.
restoreFTSIndex(t, s, f) ==
    IF f \in {NoFile, Torn} THEN indexExistingRows(NewInvertedIndex(DefaultFTSConfig, s), t)
    ELSE [f EXCEPT !.spelling = s]

\* The process stops, in the middle of saving a file too, and is started again.  Of two
\* entries for one column the first in the order of the map is restored.
Restart ==
    /\ restarts < MaxRestarts
    /\ restarts' = restarts + 1
    /\ \/ UNCHANGED file
       \/ /\ saving # "none"
          /\ LET n == info[saving][idx[saving].spelling]
             IN  n # "none" /\ file' = [file EXCEPT ![n] = Torn]
    /\ \E first \in [Table -> Spelling] :
          LET s(t) == IF info[t][first[t]] # "none" THEN first[t]
                      ELSE CHOOSE x \in Spelling : x # first[t]
              restored == {t \in Table : info[t][s(t)] # "none"}
              f(t) == file'[info[t][s(t)]]
              loaded == {t \in restored : f(t) \notin {NoFile, Torn}}
          IN  /\ idx' = [t \in Table |-> IF t \in restored THEN restoreFTSIndex(t, s(t), f(t))
                                         ELSE NoIndex]
              /\ lapsed' = {t \in loaded : savedFor[info[t][s(t)]] # t}
    /\ saving' = "none"
    /\ answer' = NoAnswer
    /\ UNCHANGED <<statements, tables, rows, format, nextID, info, savedFor>>

\* evalMatchAgainst for the rows of t.  The expression names no table, so any index on
\* a column of that name is searched, each row taking the first the map yields; the search
\* gives at most MaxHits rows, chosen again for each row.  Without an index the text is
\* searched for the query.
Match(t, query, level) ==
    LET used == {u \in Table : HasIndex(u)}
        M(u) == SearchWithLevel(idx[u], query, level)
    IN  /\ Idle /\ t \in tables
        /\ \E hits \in SUBSET Row :
             /\ IF used = {}
                  THEN hits = {r \in Row : rows[t][r] # NoRow /\ HasPart(rows[t][r], FlattenSeq(query))}
                  ELSE /\ \A r \in hits : \E u \in used : r \in M(u)
                       /\ \A r \in Row \ hits :
                             \E u \in used : r \notin M(u) \/ Cardinality(M(u)) > MaxHits
             /\ answer' = [table |-> t, used |-> used, query |-> query, level |-> level, hits |-> hits]
        /\ UNCHANGED <<statements, tables, rows, format, nextID, idx, info, file, saving, restarts, lapsed, savedFor>>

Next ==
    \/ \E t \in Table, text \in Text : executeInsert(t, text) \/ InsertRowDirect(t, text)
    \/ \E t \in Table, r \in Row, text \in Text : executeUpdate(t, r, text)
    \/ \E t \in Table, r \in Row : executeDelete(t, r)
    \/ \E t \in Table : executeDropTable(t) \/ executeCreateTable(t)
    \/ \E t \in Table, s \in Spelling, n \in IndexName, cfg \in Config : executeCreateIndex(t, s, n, cfg)
    \/ saveFTSIndex \/ Return
    \/ \E t \in Table, s \in Spelling : executeDropIndex(t, s)
    \/ Restart
    \/ \E t \in Table, query \in Text, level \in Level : Match(t, query, level)

Spec == Init /\ [][Next]_vars

----------------------------------------------------------------------------
(* Properties.                                                              *)

IndexType ==
    [config : Config, spelling : Spelling,
     index : [Term -> SUBSET Row], documents : [Row -> SUBSET Term],
     contents : [Row -> Text], positions : [Term -> SUBSET (Row \X (1..3))],
     docCount : Nat, termCount : Nat]

\* The values that stand for nothing differ from the things they are used beside, and
\* there are finitely many tables and terms.
ASSUME FullTextAssumption ==
    /\ MaxID \in Nat /\ MaxRestarts \in Nat /\ MaxStatements \in Nat
    /\ IsFiniteSet(Table) /\ IsFiniteSet(Term)
    /\ {"none", "storage"} \cap Table = {} /\ "none" \notin IndexName
    /\ NoRow \notin Text
    /\ NoIndex \notin IndexType /\ NoIndex \notin [Row -> SUBSET Term]
    /\ {NoFile, Torn} \cap IndexType = {}

\* What the variables hold.
TypeOK ==
    /\ tables \subseteq Table
    /\ rows \in [Table -> [Row -> Text \cup {NoRow}]]
    /\ format \in [Table -> {"v1", "v2"}]
    /\ nextID \in [Table \cup {"storage"} -> 1..(MaxID + 1)]
    /\ \A t \in Table : idx[t] \in IndexType \cup {NoIndex}
    /\ info \in [Table -> [Spelling -> IndexName \cup {"none"}]]
    /\ \A n \in IndexName : file[n] \in IndexType \cup {NoFile, Torn}
    /\ saving \in Table \cup {"none"} /\ (saving = "none" \/ HasIndex(saving))
    /\ answer.table \in Table \cup {"none"} /\ answer.hits \subseteq Row
    /\ restarts \in 0..MaxRestarts /\ statements \in 0..MaxStatements
    /\ lapsed \subseteq Table
    /\ savedFor \in [IndexName -> Table \cup {"none"}]

\* An index whose three maps tell the same story: a row is in the postings of exactly
\* the terms of its document, a position is one of a term of the document, and the
\* counters count.
Consistent(x) ==
    /\ \A w \in Term : x.index[w] = {r \in Row : w \in x.documents[r]}
    /\ \A w \in Term : \A p \in x.positions[w] : w \in x.documents[p[1]]
    /\ x.docCount = Cardinality({r \in Row : x.documents[r] # {}})

\* Every index in memory and in a file is consistent, after any sequence of inserts,
\* updates that index a row again, deletes and restarts (fts.go IndexDocument and
\* removeDocumentLocked).
IndexConsistent ==
    /\ \A t \in Table : HasIndex(t) => Consistent(idx[t])
    /\ \A n \in IndexName : file[n] \notin {NoFile, Torn} => Consistent(file[n])

\* The terms an index should have for a row; an empty text is never indexed.
Expected(t, r, cfg) ==
    IF rows[t][r] \in {NoRow, << >>} THEN {} ELSE TermsOf(Tokens(rows[t][r], cfg, TRUE))

\* Unless one of the known lapses happened, the documents of an index are the terms of
\* the rows of its table, also after a crash in the middle of CREATE INDEX and after
\* another table's index was saved under the same file name.
InStep ==
    \A t \in tables \ lapsed : HasIndex(t) =>
        \A r \in Row : idx[t].documents[r] = Expected(t, r, idx[t].config)

\* The rows MATCH returns are those whose text has the terms of the query, all of them
\* up to the limit, when the column has one index and it is in step.
MatchAnswers ==
    LET t == answer.table
        cfg == idx[t].config
        terms == TermsOf(Tokens(answer.query, cfg, FALSE))
        right == {r \in Row : terms # {} /\ terms \subseteq Expected(t, r, cfg)}
    IN  (t # "none" /\ answer.used = {t} /\ t \notin lapsed /\ answer.level = 0) =>
            /\ answer.hits \subseteq right
            /\ answer.hits = right \/ Cardinality(right) > MaxHits

\* The ranges Highlight marks in the text of a row: those of the terms of the query that
\* have a stored position in the row, each searched from the end of the one before.
Occurrences(text, term) ==
    LET s == FlattenSeq(text)
        at[i \in 0..Len(s)] ==      \* the first occurrence at or after position i
            IF i + Len(term) > Len(s) THEN {}
            ELSE IF SubSeq(s, i + 1, i + Len(term)) = term
                 THEN {<<i, i + Len(term)>>} \cup at[i + Len(term)]
            ELSE at[i + 1]
    IN  at[0]

\* The next range is added to the merged ones: it is appended, or extends the last of
\* them, which it overlaps or touches, or lies within it.
MergeRange(merged, r) ==
    LET n == Len(merged)
    IN  IF n = 0 THEN <<r>>
        ELSE IF r[1] > merged[n][2] THEN Append(merged, r)
        ELSE IF r[2] > merged[n][2] THEN [merged EXCEPT ![n] = <<@[1], r[2]>>]
        ELSE merged

\* The merge of ranges that are sorted by their start.
MergeRanges(ranges) ==
    LET merged[i \in 0..Len(ranges)] ==
            IF i = 0 THEN << >> ELSE MergeRange(merged[i - 1], ranges[i])
    IN  merged[Len(ranges)]

HighlightRanges(x, r, query) ==
    UNION {Occurrences(x.contents[r], w) :
              w \in {v \in TermsOf(Tokens(query, x.config, FALSE)) \cap Term :
                        \E p \in x.positions[v] : p[1] = r}}

\* sort.Slice by start; of ranges that start together the order does not matter.
SortRanges(S) ==
    LET Before(a) == {b \in S : b[1] < a[1] \/ (b[1] = a[1] /\ b[2] < a[2])}
    IN  [i \in 1..Cardinality(S) |-> CHOOSE a \in S : Cardinality(Before(a)) = i - 1]

Highlight(x, r, query) == MergeRanges(SortRanges(HighlightRanges(x, r, query)))

\* The characters in some of the ranges.
Covered(S) == UNION {m[1]..(m[2] - 1) : m \in S}

\* The marks of Highlight in the rows found do not overlap and cover the same characters
\* as the occurrences they come from, whatever their number and order.
HighlightMarks ==
    \A t \in answer.used : \A r \in answer.hits :
        LET ranges == HighlightRanges(idx[t], r, answer.query)
            marks == Highlight(idx[t], r, answer.query)
        IN  /\ \A i \in 1..(Len(marks) - 1) : marks[i][2] < marks[i + 1][1]
            /\ Covered({marks[i] : i \in 1..Len(marks)}) = Covered(ranges)

\* The indexes implement the abstract ones: documents are put and removed one at a time,
\* and the search of the postings finds the documents that have all terms.
Abstract == INSTANCE SearchIndex WITH
    None <- NoIndex,
    docs <- [t \in Table |-> IF HasIndex(t) THEN idx[t].documents ELSE NoIndex],
    answer <- IF Cardinality(answer.used) = 1
              THEN [table |-> CHOOSE t \in answer.used : TRUE, rows |-> answer.hits]
              ELSE [table |-> "none", rows |-> {}]

ImplementsSearchIndex == Abstract!Spec

\* Indexes in memory and in files are sound after any statements and restarts.
IndexesSound == TypeOK /\ IndexConsistent

\* MATCH finds the right rows, and Highlight marks in them what was searched for.
MatchSound == MatchAnswers /\ HighlightMarks
=============================================================================
