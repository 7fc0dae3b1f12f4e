--------------------------- MODULE FullTextProofs ---------------------------
(* Proofs for full-text indexes, for any tables, texts and options, any     *)
(* number of row ids, statements and restarts: indexes stay consistent and  *)
(* in step with the rows, MATCH finds the right rows, and the indexes       *)
(* implement the abstract SearchIndex.                                      *)
EXTENDS FullText, FiniteSetTheorems, WellFoundedInduction, TLAPS

\* The documents of the index x are the terms of these texts of rows.
Describes(x, texts) ==
    \A r \in Row : x.documents[r] = IF texts[r] \in {NoRow, << >>} THEN {}
                                     ELSE TermsOf(Tokens(texts[r], x.config, TRUE))

\* Indexes and files are functions of tables and names.
MapsOK ==
    /\ idx \in [Table -> IndexType \cup {NoIndex}]
    /\ file \in [IndexName -> IndexType \cup {NoFile, Torn}]

\* Row ids: those in use are below the counter the next one is taken from, and a
\* table that does not exist has no rows.
IdsInv ==
    /\ \A t \in Table : nextID[t] <= nextID["storage"]
    /\ \A t \in Table, r \in Row : rows[t][r] # NoRow =>
          t \in tables /\ r < nextID["storage"] /\ (format[t] = "v2" => r < nextID[t])

\* Indexes that missed nothing are in step with the rows, and so are the files that
\* still describe the rows of a table.
StepInv ==
    /\ \A t \in Table \ lapsed : HasIndex(t) => Describes(idx[t], rows[t])
    /\ \A n \in IndexName : savedFor[n] # "none" /\ file[n] \notin {NoFile, Torn}
                               => Describes(file[n], rows[savedFor[n]])
    /\ saving # "none" => saving \notin lapsed

\* A statement has returned its answer before another one starts.
AnswerInv == saving # "none" => answer = NoAnswer

\* The inductive invariant.
FullTextInv == TypeOK /\ MapsOK /\ IndexConsistent /\ IdsInv /\ StepInv /\ AnswerInv

----------------------------------------------------------------------------
(* Tokens.                                                                  *)

\* Every token that is indexed is a term with a level.
LEMMA TokensAreLeveled ==
    ASSUME NEW text, NEW cfg
    PROVE  \A k \in Tokens(text, cfg, TRUE) : \E w : \E l \in 1..3 : k = <<w, l>>
<1>1. \A k \in TokenizeWithLevels(text, cfg, TRUE) : \E w : \E l \in 1..3 : k = <<w, l>>
  <2> DEFINE words == Tokenize(text) \cup {w \in cfg.customDict : HasPart(text, w)}
             syns == {s \in cfg.synonyms : s[1] \in words}
             long == {w \in words : Len(w) >= 2}
             parts == {q \in UNION {splitTerm(w) : w \in long} :
                          hasLevel(cfg, 2) /\ Len(q) >= cfg.minTermLen}
             chars == {<<d>> : d \in UNION {{w[i] : i \in 1..Len(w)} :
                                   w \in {v \in long : hasLevel(cfg, 3)}}}
             first == IF hasLevel(cfg, 1)
                        THEN {<<w, 1>> : w \in words} \cup
                             (IF TRUE THEN {<<s[2], 1>> : s \in syns} ELSE {})
                        ELSE {}
  <2>1. TokenizeWithLevels(text, cfg, TRUE)
           = first \cup {<<p, 2>> : p \in parts} \cup {<<c, 3>> : c \in chars}
    BY Zenon DEF TokenizeWithLevels
  <2>2. \A k \in first : \E w : k = <<w, 1>>
    BY Zenon
  <2> HIDE DEF first, parts, chars
  <2>3. 1 \in 1..3 /\ 2 \in 1..3 /\ 3 \in 1..3
    OBVIOUS
  <2> QED BY <2>1, <2>2, <2>3, Zenon
<1>2. \A k \in Tokens(text, cfg, TRUE) : \E w : \E l \in 1..3 : k = <<w, l>>
  <2>1. 1 \in 1..3
    OBVIOUS
  <2>2. \A k \in {<<w, 1>> : w \in Tokenize(text)} : \E w : \E l \in 1..3 : k = <<w, l>>
    BY <2>1, Zenon
  <2> QED BY <1>1, <2>2, Zenon DEF Tokens
<1> QED BY <1>2

\* The terms of a text are terms, those that are indexed and those that are searched.
LEMMA IndexedTerms ==
    ASSUME NEW text \in Text, NEW cfg \in Config
    PROVE  /\ TermsOf(Tokens(text, cfg, TRUE)) \subseteq Term
           /\ TermsOf(TokenizeWithLevels(text, cfg, TRUE)) \subseteq Term
<1> DEFINE All(x, c) == TermsOf(Tokens(x, c, TRUE) \cup TokenizeWithLevels(x, c, TRUE))
           all == All(text, cfg)
<1>1. all \subseteq Term
  <2>1. Term = UNION {All(x, c) : x \in Text, c \in Config}
    BY DEF Term
  <2> HIDE DEF All
  <2> QED BY <2>1
<1>2. /\ TermsOf(Tokens(text, cfg, TRUE)) \subseteq all
      /\ TermsOf(TokenizeWithLevels(text, cfg, TRUE)) \subseteq all
  BY Zenon DEF TermsOf
<1> QED BY <1>1, <1>2

\* Synonyms are only indexed, so what is searched are terms as well.
LEMMA SearchedTerms ==
    ASSUME NEW text \in Text, NEW cfg \in Config
    PROVE  /\ TermsOf(Tokens(text, cfg, FALSE)) \subseteq Term
           /\ TermsOf(TokenizeWithLevels(text, cfg, FALSE)) \subseteq Term
<1>1. TokenizeWithLevels(text, cfg, FALSE) \subseteq TokenizeWithLevels(text, cfg, TRUE)
  <2> DEFINE words == Tokenize(text) \cup {w \in cfg.customDict : HasPart(text, w)}
             syns == {s \in cfg.synonyms : s[1] \in words}
             long == {w \in words : Len(w) >= 2}
             parts == {q \in UNION {splitTerm(w) : w \in long} :
                          hasLevel(cfg, 2) /\ Len(q) >= cfg.minTermLen}
             chars == {<<d>> : d \in UNION {{w[i] : i \in 1..Len(w)} :
                                   w \in {v \in long : hasLevel(cfg, 3)}}}
             First(b) == IF hasLevel(cfg, 1)
                           THEN {<<w, 1>> : w \in words} \cup
                                (IF b THEN {<<s[2], 1>> : s \in syns} ELSE {})
                           ELSE {}
  <2>1. TokenizeWithLevels(text, cfg, FALSE)
           = First(FALSE) \cup {<<p, 2>> : p \in parts} \cup {<<c, 3>> : c \in chars}
    BY Zenon DEF TokenizeWithLevels
  <2>2. TokenizeWithLevels(text, cfg, TRUE)
           = First(TRUE) \cup {<<p, 2>> : p \in parts} \cup {<<c, 3>> : c \in chars}
    BY Zenon DEF TokenizeWithLevels
  <2>3. First(FALSE) \subseteq First(TRUE)
    BY Zenon
  <2> HIDE DEF First, parts, chars
  <2> QED BY <2>1, <2>2, <2>3, Zenon
<1>2. Tokens(text, cfg, FALSE) \subseteq Tokens(text, cfg, TRUE)
  BY <1>1 DEF Tokens
<1>3. /\ TermsOf(Tokens(text, cfg, FALSE)) \subseteq TermsOf(Tokens(text, cfg, TRUE))
      /\ TermsOf(TokenizeWithLevels(text, cfg, FALSE))
            \subseteq TermsOf(TokenizeWithLevels(text, cfg, TRUE))
  BY <1>1, <1>2 DEF TermsOf
<1> QED BY <1>3, IndexedTerms

----------------------------------------------------------------------------
(* The operations of an index.                                              *)

\* Row ids are finitely many.
LEMMA RowsFinite == IsFiniteSet(Row) /\ \A S \in SUBSET Row : IsFiniteSet(S)
<1>1. IsFiniteSet(1..MaxID)
  BY FS_Interval, FullTextAssumption
<1> QED BY <1>1, FS_Subset DEF Row

\* termCount is a number.
LEMMA TermCountType ==
    ASSUME NEW index
    PROVE  TermCount(index) \in Nat
<1>1. IsFiniteSet({w \in Term : index[w] # {}})
  BY FS_Subset, FullTextAssumption
<1> QED BY <1>1, FS_CardinalityType DEF TermCount

\* An index is of its type when its fields are.
LEMMA FieldsOfIndex ==
    ASSUME NEW x \in IndexType
    PROVE  /\ x.config \in Config /\ x.spelling \in Spelling
           /\ x.index \in [Term -> SUBSET Row] /\ x.documents \in [Row -> SUBSET Term]
           /\ x.contents \in [Row -> Text] /\ x.positions \in [Term -> SUBSET (Row \X (1..3))]
           /\ x.docCount \in Nat /\ x.termCount \in Nat
  BY DEF IndexType

\* A new index is empty and consistent.
LEMMA NewIndexSound ==
    ASSUME NEW cfg \in Config, NEW s \in Spelling
    PROVE  /\ NewInvertedIndex(cfg, s) \in IndexType
           /\ Consistent(NewInvertedIndex(cfg, s))
           /\ NewInvertedIndex(cfg, s).documents = [r \in Row |-> {}]
           /\ NewInvertedIndex(cfg, s).config = cfg
<1> DEFINE x == NewInvertedIndex(cfg, s)
<1>1. /\ x.documents = [r \in Row |-> {}] /\ x.config = cfg /\ x.docCount = 0
      /\ x.index = [w \in Term |-> {}] /\ x.positions = [w \in Term |-> {}]
  BY DEF NewInvertedIndex
<1>2. x \in IndexType
  BY TextAssumption DEF NewInvertedIndex, IndexType
<1>3. {r \in Row : x.documents[r] # {}} = {}
  BY <1>1
<1>4. Consistent(x)
  BY <1>1, <1>3, FS_EmptySet DEF Consistent
<1> QED BY <1>1, <1>2, <1>4

\* removeDocumentLocked removes the document of the row and nothing else.
LEMMA RemoveSound ==
    ASSUME NEW x \in IndexType, Consistent(x), NEW r \in Row
    PROVE  /\ removeDocument(x, r) \in IndexType
           /\ Consistent(removeDocument(x, r))
           /\ removeDocument(x, r).documents = [x.documents EXCEPT ![r] = {}]
           /\ removeDocument(x, r).config = x.config
           /\ removeDocument(x, r).spelling = x.spelling
<1> DEFINE y == removeDocument(x, r)
           index == [w \in Term |-> x.index[w] \ (IF w \in x.documents[r] THEN {r} ELSE {})]
           positions == [w \in Term |-> IF w \in x.documents[r]
                                        THEN {p \in x.positions[w] : p[1] # r} ELSE x.positions[w]]
           docs(z) == {q \in Row : z.documents[q] # {}}
<1>1. CASE x.documents[r] = {}
  <2>1. y = x
    BY <1>1 DEF removeDocument
  <2>2. [x.documents EXCEPT ![r] = {}] = x.documents
    BY <1>1, FieldsOfIndex
  <2> QED BY <2>1, <2>2
<1>2. CASE x.documents[r] # {}
  <2>1. y = [x EXCEPT !.index = index, !.documents[r] = {}, !.contents[r] = << >>,
                      !.positions = positions, !.docCount = x.docCount - 1,
                      !.termCount = TermCount(index)]
    BY <1>2, Zenon DEF removeDocument
  <2>2. /\ y.config = x.config /\ y.spelling = x.spelling /\ y.index = index
        /\ y.documents = [x.documents EXCEPT ![r] = {}]
        /\ y.contents = [x.contents EXCEPT ![r] = << >>] /\ y.positions = positions
        /\ y.docCount = x.docCount - 1 /\ y.termCount = TermCount(index)
    BY <2>1 DEF IndexType
  <2>3. y = [config |-> y.config, spelling |-> y.spelling, index |-> y.index,
             documents |-> y.documents, contents |-> y.contents, positions |-> y.positions,
             docCount |-> y.docCount, termCount |-> y.termCount]
    BY <2>1 DEF IndexType
  <2>4. docs(y) = docs(x) \ {r} /\ r \in docs(x) /\ docs(x) \in SUBSET Row
    BY <2>2, <1>2, FieldsOfIndex
  <2>5. Cardinality(docs(y)) = Cardinality(docs(x)) - 1 /\ Cardinality(docs(y)) \in Nat
    <3>1. IsFiniteSet(docs(x)) /\ IsFiniteSet(docs(y))
      BY <2>4, RowsFinite
    <3> HIDE DEF docs
    <3> QED BY <3>1, <2>4, FS_RemoveElement, FS_CardinalityType
  <2>6. x.docCount = Cardinality(docs(x))
    BY DEF Consistent
  <2>7. y.docCount = Cardinality(docs(y)) /\ y.docCount \in Nat
    BY <2>2, <2>5, <2>6
  <2>8. y.index \in [Term -> SUBSET Row] /\ y.documents \in [Row -> SUBSET Term]
    BY <2>2, FieldsOfIndex
  <2>9. y.contents \in [Row -> Text] /\ y.positions \in [Term -> SUBSET (Row \X (1..3))]
    BY <2>2, FieldsOfIndex, TextAssumption
  <2>10. y.termCount \in Nat
    BY <2>2, TermCountType
  <2>11. \A w \in Term : y.index[w] = {q \in Row : w \in y.documents[q]}
    <3>1. \A w \in Term : x.index[w] = {q \in Row : w \in x.documents[q]}
      BY DEF Consistent
    <3> QED BY <2>2, <3>1, FieldsOfIndex
  <2>12. \A w \in Term : \A p \in y.positions[w] : w \in y.documents[p[1]]
    <3> SUFFICES ASSUME NEW w \in Term, NEW p \in y.positions[w]
                 PROVE  w \in y.documents[p[1]]
      OBVIOUS
    <3>1. p \in x.positions[w] /\ (w \in x.documents[r] => p[1] # r)
      BY <2>2
    <3>2. w \in x.documents[p[1]] /\ p[1] \in Row
      BY <3>1, FieldsOfIndex DEF Consistent
    <3> QED BY <3>1, <3>2, <2>2, FieldsOfIndex
  <2> HIDE DEF y, index, positions
  <2>13. y \in IndexType
    BY <2>2, <2>3, <2>7, <2>8, <2>9, <2>10, FieldsOfIndex DEF IndexType
  <2>14. Consistent(y)
    BY <2>7, <2>11, <2>12 DEF Consistent
  <2> QED BY <2>2, <2>13, <2>14 DEF y
<1> QED BY <1>1, <1>2

\* IndexDocument replaces the document of the row by the terms of the text.
LEMMA IndexSound ==
    ASSUME NEW x \in IndexType, Consistent(x), NEW r \in Row, NEW text \in Text
    PROVE  /\ IndexDocument(x, r, text) \in IndexType
           /\ Consistent(IndexDocument(x, r, text))
           /\ IndexDocument(x, r, text).documents
                 = [x.documents EXCEPT ![r] = TermsOf(Tokens(text, x.config, TRUE))]
           /\ IndexDocument(x, r, text).config = x.config
           /\ IndexDocument(x, r, text).spelling = x.spelling
<1> DEFINE z == IndexDocument(x, r, text)
           y == removeDocument(x, r)
           tokens == Tokens(text, x.config, TRUE)
           terms == TermsOf(tokens)
           index == [w \in Term |-> y.index[w] \cup (IF w \in terms THEN {r} ELSE {})]
           positions == IF x.config.storePos
                        THEN [w \in Term |-> y.positions[w] \cup
                                 {<<r, k[2]>> : k \in {j \in tokens : j[1] = w}}]
                        ELSE y.positions
           docs(v) == {q \in Row : v.documents[q] # {}}
<1>1. /\ y \in IndexType /\ Consistent(y) /\ y.documents = [x.documents EXCEPT ![r] = {}]
      /\ y.config = x.config /\ y.spelling = x.spelling
  BY RemoveSound
<1>2. terms \subseteq Term
  BY IndexedTerms, FieldsOfIndex
<1>3. \A k \in tokens : k[2] \in 1..3 /\ k[1] \in terms
  <2>1. \A k \in tokens : k[1] \in terms
    BY DEF TermsOf
  <2>2. \A k \in tokens : \E w : \E l \in 1..3 : k = <<w, l>>
    BY TokensAreLeveled
  <2> HIDE DEF tokens, terms
  <2> QED BY <2>1, <2>2
<1>4. CASE tokens = {}
  <2>1. z = y /\ terms = {}
    BY <1>1, <1>4, Zenon DEF IndexDocument, addDocument, TermsOf
  <2> QED BY <2>1, <1>1
<1>5. CASE tokens # {}
  <2>1. z = [y EXCEPT !.index = index, !.documents[r] = terms, !.contents[r] = text,
                      !.positions = positions, !.docCount = y.docCount + 1,
                      !.termCount = TermCount(index)]
    BY <1>1, <1>5 DEF IndexDocument, addDocument
  <2>2. terms # {}
    BY <1>5, <1>3
  <2> HIDE DEF y, z, tokens, terms
  <2>3. /\ z.config = x.config /\ z.spelling = x.spelling /\ z.index = index
        /\ z.documents = [y.documents EXCEPT ![r] = terms]
        /\ z.contents = [y.contents EXCEPT ![r] = text] /\ z.positions = positions
        /\ z.docCount = y.docCount + 1 /\ z.termCount = TermCount(index)
    BY <2>1, <1>1 DEF IndexType
  <2>4. z = [config |-> z.config, spelling |-> z.spelling, index |-> z.index,
             documents |-> z.documents, contents |-> z.contents, positions |-> z.positions,
             docCount |-> z.docCount, termCount |-> z.termCount]
    BY <2>1, <1>1 DEF IndexType
  <2>5. /\ y.index \in [Term -> SUBSET Row] /\ y.documents \in [Row -> SUBSET Term]
        /\ y.contents \in [Row -> Text] /\ y.positions \in [Term -> SUBSET (Row \X (1..3))]
        /\ y.docCount \in Nat /\ y.documents[r] = {}
        /\ x.documents \in [Row -> SUBSET Term] /\ x.config \in Config /\ x.spelling \in Spelling
    BY <1>1, FieldsOfIndex
  <2>6. z.documents = [x.documents EXCEPT ![r] = terms]
    BY <2>3, <2>5, <1>1
  <2>7. docs(z) = docs(y) \cup {r} /\ r \notin docs(y) /\ docs(y) \in SUBSET Row
    BY <2>3, <2>2, <2>5
  <2>8. Cardinality(docs(z)) = Cardinality(docs(y)) + 1
    <3>1. IsFiniteSet(docs(y))
      BY <2>7, RowsFinite
    <3> HIDE DEF docs
    <3> QED BY <3>1, <2>7, FS_AddElement
  <2>9. z.docCount = Cardinality(docs(z)) /\ z.docCount \in Nat
    BY <2>3, <2>5, <2>8, <1>1 DEF Consistent
  <2>10. z.index \in [Term -> SUBSET Row] /\ z.documents \in [Row -> SUBSET Term]
    BY <2>3, <2>5, <1>2
  <2>11. z.contents \in [Row -> Text]
    BY <2>3, <2>5
  <2>12. positions \in [Term -> SUBSET (Row \X (1..3))]
    BY <2>5, <1>3
  <2>13. z.termCount \in Nat
    BY <2>3, TermCountType
  <2>14. \A w \in Term : z.index[w] = {q \in Row : w \in z.documents[q]}
    <3>1. \A w \in Term : y.index[w] = {q \in Row : w \in y.documents[q]}
      BY <1>1 DEF Consistent
    <3> QED BY <2>3, <2>5, <3>1
  <2>15. \A w \in Term : \A p \in positions[w] : w \in z.documents[p[1]]
    <3> SUFFICES ASSUME NEW w \in Term, NEW p \in positions[w]
                 PROVE  w \in z.documents[p[1]]
      OBVIOUS
    <3>1. CASE p \in y.positions[w]
      <4>1. w \in y.documents[p[1]] /\ p[1] \in Row
        BY <3>1, <2>5, <1>1 DEF Consistent
      <4>2. p[1] # r
        BY <4>1, <2>5
      <4> QED BY <4>1, <4>2, <2>3, <2>5
    <3>2. CASE p \notin y.positions[w]
      <4>1. PICK k \in tokens : k[1] = w /\ p = <<r, k[2]>>
        BY <3>2
      <4>2. p[1] = r /\ w \in terms
        BY <4>1, <1>3
      <4> QED BY <4>2, <2>3, <2>5
    <3> QED BY <3>1, <3>2
  <2> HIDE DEF index, positions
  <2>16. z \in IndexType
    BY <2>3, <2>4, <2>5, <2>9, <2>10, <2>11, <2>12, <2>13 DEF IndexType
  <2>17. Consistent(z)
    BY <2>3, <2>9, <2>14, <2>15 DEF Consistent
  <2> QED BY <2>3, <2>6, <2>16, <2>17 DEF z, terms, tokens
<1> QED BY <1>4, <1>5

\* indexExistingRows puts every row with a text into a new index.
LEMMA RowsIndexed ==
    ASSUME NEW cfg \in Config, NEW s \in Spelling, NEW texts \in [Row -> Text \cup {NoRow}]
    PROVE  LET x == indexRows(NewInvertedIndex(cfg, s), texts)
           IN  /\ x \in IndexType /\ Consistent(x) /\ x.config = cfg
               /\ \A r \in Row : x.documents[r] = IF texts[r] \in {NoRow, << >>} THEN {}
                                                  ELSE TermsOf(Tokens(texts[r], cfg, TRUE))
<1> DEFINE new == NewInvertedIndex(cfg, s)
           x == indexRows(new, texts)
           tokens(r) == IF texts[r] \in {NoRow, << >>} THEN {} ELSE Tokens(texts[r], cfg, TRUE)
           index == [w \in Term |-> {r \in Row : w \in TermsOf(tokens(r))}]
           documents == [r \in Row |-> TermsOf(tokens(r))]
           contents == [r \in Row |-> IF tokens(r) = {} THEN << >> ELSE texts[r]]
           positions == IF cfg.storePos
                        THEN [w \in Term |-> {p \in Row \X (1..3) : <<w, p[2]>> \in tokens(p[1])}]
                        ELSE new.positions
           has == {r \in Row : tokens(r) # {}}
<1>1. new \in IndexType /\ Consistent(new) /\ new.config = cfg
  BY NewIndexSound
<1>2. x = [new EXCEPT !.index = index, !.documents = documents, !.contents = contents,
                      !.positions = positions, !.docCount = Cardinality(has),
                      !.termCount = TermCount(index)]
  BY <1>1 DEF indexRows
<1>3. \A r \in Row : TermsOf(tokens(r)) = IF texts[r] \in {NoRow, << >>} THEN {}
                                          ELSE TermsOf(Tokens(texts[r], cfg, TRUE))
  BY DEF TermsOf
<1>4. \A r \in Row : TermsOf(tokens(r)) \subseteq Term
  <2>1. \A r \in Row : texts[r] \notin {NoRow, << >>} => texts[r] \in Text
    OBVIOUS
  <2>2. \A text \in Text : TermsOf(Tokens(text, cfg, TRUE)) \subseteq Term
    BY IndexedTerms
  <2> HIDE DEF tokens
  <2> QED BY <1>3, <2>1, <2>2
<1>5. \A r \in Row : tokens(r) # {} => TermsOf(tokens(r)) # {} /\ texts[r] \in Text
  BY DEF TermsOf
<1>6. \A r \in Row : tokens(r) = {} => TermsOf(tokens(r)) = {}
  BY DEF TermsOf
<1>7. \A r, w, l : <<w, l>> \in tokens(r) => w \in TermsOf(tokens(r))
  <2> HIDE DEF tokens
  <2> SUFFICES ASSUME NEW r, NEW w, NEW l, <<w, l>> \in tokens(r)
               PROVE  w \in TermsOf(tokens(r))
    OBVIOUS
  <2>1. <<w, l>>[1] = w
    OBVIOUS
  <2> QED BY <2>1 DEF TermsOf
<1> HIDE DEF new, x, tokens
<1>8. /\ x.config = cfg /\ x.spelling = new.spelling /\ x.index = index
      /\ x.documents = documents /\ x.contents = contents /\ x.positions = positions
      /\ x.docCount = Cardinality(has) /\ x.termCount = TermCount(index)
  BY <1>1, <1>2 DEF IndexType
<1>9. x = [config |-> x.config, spelling |-> x.spelling, index |-> x.index,
           documents |-> x.documents, contents |-> x.contents, positions |-> x.positions,
           docCount |-> x.docCount, termCount |-> x.termCount]
  BY <1>1, <1>2 DEF IndexType
<1>10. Cardinality(has) \in Nat
  BY RowsFinite, FS_CardinalityType
<1>11. TermCount(index) \in Nat
  BY TermCountType
<1>12. /\ index \in [Term -> SUBSET Row] /\ documents \in [Row -> SUBSET Term]
       /\ contents \in [Row -> Text]
  BY <1>4, <1>5, TextAssumption
<1>13. new.positions \in [Term -> SUBSET (Row \X (1..3))] /\ new.spelling \in Spelling
  BY <1>1, FieldsOfIndex
<1>14. positions \in [Term -> SUBSET (Row \X (1..3))]
  BY <1>13
<1>15. \A w \in Term : index[w] = {r \in Row : w \in documents[r]}
  OBVIOUS
<1>16. \A w \in Term : \A p \in positions[w] : w \in documents[p[1]]
  <2> SUFFICES ASSUME NEW w \in Term, NEW p \in positions[w]
               PROVE  w \in documents[p[1]]
    OBVIOUS
  <2>1. CASE cfg.storePos
    <3>1. p \in Row \X (1..3) /\ <<w, p[2]>> \in tokens(p[1])
      BY <2>1
    <3>2. p[1] \in Row
      BY <3>1
    <3> QED BY <3>1, <3>2, <1>7
  <2>2. CASE ~cfg.storePos
    <3>1. p \in new.positions[w]
      BY <2>2
    <3>2. new.positions = [v \in Term |-> {}]
      BY DEF new, NewInvertedIndex
    <3> QED BY <3>1, <3>2
  <2> QED BY <2>1, <2>2
<1>17. has = {r \in Row : documents[r] # {}}
  BY <1>5, <1>6
<1> HIDE DEF index, documents, contents, positions, has
<1>18. x \in IndexType
  BY <1>8, <1>9, <1>10, <1>11, <1>12, <1>13, <1>14 DEF IndexType
<1>19. Consistent(x)
  BY <1>8, <1>15, <1>16, <1>17 DEF Consistent
<1>20. \A r \in Row : x.documents[r] = TermsOf(tokens(r))
  BY <1>8 DEF documents
<1> QED BY <1>3, <1>8, <1>18, <1>19, <1>20 DEF x, new

\* Search finds the rows whose documents have all terms of the query.
LEMMA SearchFinds ==
    ASSUME NEW x \in IndexType, Consistent(x), NEW query \in Text
    PROVE  LET terms == TermsOf(Tokens(query, x.config, FALSE))
           IN  Search(x, query) = {r \in Row : terms # {} /\ terms \subseteq x.documents[r]}
<1> DEFINE terms == TermsOf(Tokens(query, x.config, FALSE))
<1>1. terms \subseteq Term
  BY SearchedTerms, FieldsOfIndex
<1>2. \A w \in terms, r \in Row : r \in Postings(x, w) <=> w \in x.documents[r]
  BY <1>1 DEF Postings, Consistent
<1>3. Search(x, query) = {r \in Row : terms # {} /\ \A w \in terms : r \in Postings(x, w)}
  BY DEF Search
<1> HIDE DEF terms
<1> QED BY <1>2, <1>3 DEF terms

\* The terms of a query at one level.
LevelTerms(x, query, level) ==
    {k[1] : k \in {j \in TokenizeWithLevels(query, x.config, FALSE) : j[2] = level}}

\* SearchWithLevel finds only such rows: a position is one of a term of the document.
LEMMA SearchLevelFinds ==
    ASSUME NEW x \in IndexType, Consistent(x), NEW query \in Text, NEW level, level # 0
    PROVE  LET terms == LevelTerms(x, query, level)
           IN  /\ terms \subseteq Term
               /\ SearchWithLevel(x, query, level)
                     \subseteq {r \in Row : terms # {} /\ terms \subseteq x.documents[r]}
<1> DEFINE terms == LevelTerms(x, query, level)
           At(w) == IF w \in Term /\ x.positions[w] # {}
                    THEN {p[1] : p \in {q \in x.positions[w] : q[2] = level}}
                    ELSE Postings(x, w)
<1>1. terms \subseteq Term
  <2>1. terms \subseteq TermsOf(TokenizeWithLevels(query, x.config, FALSE))
    BY DEF TermsOf, LevelTerms
  <2> QED BY <2>1, SearchedTerms, FieldsOfIndex
<1>2. SearchWithLevel(x, query, level)
         = {r \in Row : terms # {} /\ \A w \in terms : r \in At(w)}
  BY DEF SearchWithLevel, LevelTerms
<1>3. \A w \in terms, r \in Row : r \in At(w) => w \in x.documents[r]
  <2> SUFFICES ASSUME NEW w \in terms, NEW r \in Row, r \in At(w)
               PROVE  w \in x.documents[r]
    OBVIOUS
  <2>1. CASE x.positions[w] # {}
    <3>1. PICK p \in x.positions[w] : r = p[1]
      BY <2>1, <1>1
    <3> QED BY <3>1, <1>1 DEF Consistent
  <2>2. CASE x.positions[w] = {}
    BY <2>2, <1>1 DEF Postings, Consistent
  <2> QED BY <2>1, <2>2
<1> HIDE DEF terms, At
<1>4. SearchWithLevel(x, query, level)
         \subseteq {r \in Row : terms # {} /\ terms \subseteq x.documents[r]}
  BY <1>2, <1>3
<1> QED BY <1>1, <1>4 DEF terms

----------------------------------------------------------------------------
(* Indexes and rows.                                                        *)

\* An index that describes the rows still does after a row is indexed again, ...
LEMMA DescribesIndexed ==
    ASSUME NEW x \in IndexType, Consistent(x), NEW texts \in [Row -> Text \cup {NoRow}],
           NEW r \in Row, NEW text \in Text, text # << >>, Describes(x, texts)
    PROVE  Describes(IndexDocument(x, r, text), [texts EXCEPT ![r] = text])
<1> DEFINE y == IndexDocument(x, r, text)
           new == [texts EXCEPT ![r] = text]
<1>1. /\ y.documents = [x.documents EXCEPT ![r] = TermsOf(Tokens(text, x.config, TRUE))]
      /\ y.config = x.config
  BY IndexSound
<1>2. x.documents \in [Row -> SUBSET Term]
  BY FieldsOfIndex
<1>3. text # NoRow
  BY FullTextAssumption
<1> HIDE DEF y
<1>4. ASSUME NEW q \in Row
      PROVE  y.documents[q] = IF new[q] \in {NoRow, << >>} THEN {}
                              ELSE TermsOf(Tokens(new[q], y.config, TRUE))
  <2>1. CASE q = r
    BY <2>1, <1>1, <1>2, <1>3
  <2>2. CASE q # r
    BY <2>2, <1>1, <1>2 DEF Describes
  <2> QED BY <2>1, <2>2
<1> QED BY <1>4 DEF Describes, y

\* ... after one is removed from both, ...
LEMMA DescribesRemoved ==
    ASSUME NEW x \in IndexType, Consistent(x), NEW texts \in [Row -> Text \cup {NoRow}],
           NEW r \in Row, Describes(x, texts)
    PROVE  Describes(removeDocument(x, r), [texts EXCEPT ![r] = NoRow])
<1> DEFINE y == removeDocument(x, r)
           new == [texts EXCEPT ![r] = NoRow]
<1>1. y.documents = [x.documents EXCEPT ![r] = {}] /\ y.config = x.config
  BY RemoveSound
<1>2. x.documents \in [Row -> SUBSET Term]
  BY FieldsOfIndex
<1> HIDE DEF y
<1>3. ASSUME NEW q \in Row
      PROVE  y.documents[q] = IF new[q] \in {NoRow, << >>} THEN {}
                              ELSE TermsOf(Tokens(new[q], y.config, TRUE))
  <2>1. CASE q = r
    BY <2>1, <1>1, <1>2
  <2>2. CASE q # r
    BY <2>2, <1>1, <1>2 DEF Describes
  <2> QED BY <2>1, <2>2
<1> QED BY <1>3 DEF Describes, y

\* ... and after a row without a document gets no text.
LEMMA DescribesSkipped ==
    ASSUME NEW x, NEW texts \in [Row -> Text \cup {NoRow}], NEW r \in Row,
           NEW text \in {NoRow, << >>}, Describes(x, texts), x.documents[r] = {}
    PROVE  Describes(x, [texts EXCEPT ![r] = text])
<1> DEFINE new == [texts EXCEPT ![r] = text]
<1>1. ASSUME NEW q \in Row
      PROVE  x.documents[q] = IF new[q] \in {NoRow, << >>} THEN {}
                              ELSE TermsOf(Tokens(new[q], x.config, TRUE))
  <2>1. CASE q = r
    BY <2>1
  <2>2. CASE q # r
    BY <2>2 DEF Describes
  <2> QED BY <2>1, <2>2
<1> QED BY <1>1 DEF Describes

\* The index that CREATE INDEX makes of the rows there are describes them.
LEMMA ExistingIndexed ==
    ASSUME FullTextInv, NEW t \in Table, NEW cfg \in Config, NEW s \in Spelling
    PROVE  LET x == indexExistingRows(NewInvertedIndex(cfg, s), t)
           IN  x \in IndexType /\ Consistent(x) /\ Describes(x, rows[t])
<1> DEFINE new == NewInvertedIndex(cfg, s)
           x == indexRows(new, rows[t])
<1>1. rows[t] \in [Row -> Text \cup {NoRow}]
  BY DEF FullTextInv, TypeOK
<1>2. CASE t \in tables
  <2>1. indexExistingRows(new, t) = x
    BY <1>2 DEF indexExistingRows
  <2>2. /\ x \in IndexType /\ Consistent(x) /\ x.config = cfg
        /\ \A r \in Row : x.documents[r] = IF rows[t][r] \in {NoRow, << >>} THEN {}
                                           ELSE TermsOf(Tokens(rows[t][r], cfg, TRUE))
    BY <1>1, RowsIndexed
  <2> HIDE DEF x
  <2>3. Describes(x, rows[t])
    BY <2>2 DEF Describes
  <2> QED BY <2>1, <2>2, <2>3
<1>3. CASE t \notin tables
  <2>1. indexExistingRows(new, t) = new
    BY <1>3 DEF indexExistingRows
  <2>2. new \in IndexType /\ Consistent(new) /\ new.documents = [r \in Row |-> {}]
    BY NewIndexSound
  <2>3. \A r \in Row : rows[t][r] = NoRow
    BY <1>3 DEF FullTextInv, IdsInv
  <2> HIDE DEF new
  <2>4. Describes(new, rows[t])
    BY <2>2, <2>3 DEF Describes
  <2> QED BY <2>1, <2>2, <2>4 DEF new
<1> QED BY <1>2, <1>3

\* What is restored from a file has the documents of the file; without the file the
\* rows are indexed again.
LEMMA RestoredSound ==
    ASSUME FullTextInv, NEW t \in Table, NEW s \in Spelling,
           NEW f \in IndexType \cup {NoFile, Torn}, f \notin {NoFile, Torn} => Consistent(f)
    PROVE  /\ restoreFTSIndex(t, s, f) \in IndexType
           /\ Consistent(restoreFTSIndex(t, s, f))
           /\ f \in {NoFile, Torn} => Describes(restoreFTSIndex(t, s, f), rows[t])
           /\ f \notin {NoFile, Torn} /\ Describes(f, rows[t])
                 => Describes(restoreFTSIndex(t, s, f), rows[t])
<1>1. CASE f \in {NoFile, Torn}
  <2>1. DefaultFTSConfig \in Config
    BY DEF Config
  <2>2. restoreFTSIndex(t, s, f) = indexExistingRows(NewInvertedIndex(DefaultFTSConfig, s), t)
    BY <1>1 DEF restoreFTSIndex
  <2> QED BY <1>1, <2>1, <2>2, ExistingIndexed
<1>2. CASE f \notin {NoFile, Torn}
  <2> DEFINE x == [f EXCEPT !.spelling = s]
  <2>1. restoreFTSIndex(t, s, f) = x
    BY <1>2 DEF restoreFTSIndex
  <2>2. f \in IndexType /\ Consistent(f)
    BY <1>2
  <2>3. x \in IndexType /\ x.index = f.index /\ x.documents = f.documents
        /\ x.positions = f.positions /\ x.docCount = f.docCount /\ x.config = f.config
    BY <2>2 DEF IndexType
  <2> HIDE DEF x
  <2>4. Consistent(x)
    BY <2>2, <2>3 DEF Consistent
  <2>5. Describes(f, rows[t]) => Describes(x, rows[t])
    BY <2>3 DEF Describes
  <2> QED BY <1>2, <2>1, <2>3, <2>4, <2>5
<1> QED BY <1>1, <1>2

----------------------------------------------------------------------------
(* The invariant.                                                           *)

\* The database starts without indexes.
LEMMA InitInv == Init => FullTextInv
<1> SUFFICES ASSUME Init PROVE FullTextInv
  OBVIOUS
<1>1. /\ tables = Table /\ rows = [t \in Table |-> [r \in Row |-> NoRow]]
      /\ format = [t \in Table |-> IF t \in Legacy THEN "v1" ELSE "v2"]
      /\ nextID = [t \in Table \cup {"storage"} |-> 1]
      /\ idx = [t \in Table |-> NoIndex]
      /\ info = [t \in Table |-> [s \in Spelling |-> "none"]]
      /\ file = [n \in IndexName |-> NoFile]
      /\ saving = "none" /\ answer = NoAnswer /\ restarts = 0 /\ statements = 0
      /\ lapsed = {} /\ savedFor = [n \in IndexName |-> "none"]
  BY DEF Init
<1>2. answer.table = "none" /\ answer.hits = {}
  BY <1>1 DEF NoAnswer
<1>3. 1 \in 1..(MaxID + 1) /\ 0 \in 0..MaxRestarts /\ 0 \in 0..MaxStatements
  BY FullTextAssumption
<1>4. TypeOK
  BY <1>1, <1>2, <1>3 DEF TypeOK
<1>5. MapsOK
  BY <1>1 DEF MapsOK
<1>6. IndexConsistent
  BY <1>1 DEF IndexConsistent, HasIndex
<1>7. IdsInv
  BY <1>1, FullTextAssumption DEF IdsInv
<1>8. StepInv
  BY <1>1 DEF StepInv, HasIndex
<1> QED BY <1>1, <1>4, <1>5, <1>6, <1>7, <1>8 DEF FullTextInv, AnswerInv

\* Statements on one row, and DROP TABLE, change one table: the index of that table
\* has missed the change or describes the new rows.
LEMMA OneTableChanges ==
    ASSUME FullTextInv, NEW t \in Table, saving = "none", saving' = "none",
           \A u \in Table \ {t} : rows'[u] = rows[u] /\ idx'[u] = idx[u],
           RowsChange(t), file' = file, lapsed \subseteq lapsed',
           t \notin lapsed' /\ idx'[t] # NoIndex => Describes(idx'[t], rows'[t])
    PROVE  StepInv' /\ savedFor' \in [IndexName -> Table \cup {"none"}]
<1>1. savedFor' = [n \in IndexName |-> IF savedFor[n] = t THEN "none" ELSE savedFor[n]]
  BY DEF RowsChange
<1>2. savedFor \in [IndexName -> Table \cup {"none"}]
  BY DEF FullTextInv, TypeOK
<1>3. savedFor' \in [IndexName -> Table \cup {"none"}]
  BY <1>1, <1>2
<1>4. ASSUME NEW u \in Table \ lapsed', idx'[u] # NoIndex
      PROVE  Describes(idx'[u], rows'[u])
  <2>1. CASE u = t
    BY <2>1, <1>4
  <2>2. CASE u # t
    <3>1. u \in Table \ lapsed /\ idx'[u] = idx[u] /\ rows'[u] = rows[u]
      BY <2>2, <1>4
    <3> QED BY <3>1, <1>4 DEF FullTextInv, StepInv, HasIndex
  <2> QED BY <2>1, <2>2
<1>5. ASSUME NEW n \in IndexName, savedFor'[n] # "none", file'[n] \notin {NoFile, Torn}
      PROVE  Describes(file'[n], rows'[savedFor'[n]])
  <2>1. savedFor'[n] = savedFor[n] /\ savedFor[n] \in Table \ {t}
    BY <1>5, <1>1, <1>2
  <2>2. rows'[savedFor[n]] = rows[savedFor[n]]
    BY <2>1
  <2> QED BY <2>1, <2>2, <1>5 DEF FullTextInv, StepInv
<1> QED BY <1>3, <1>4, <1>5 DEF StepInv, HasIndex

\* InsertRow takes an id that no row has.
LEMMA StoredRow ==
    ASSUME FullTextInv, NEW t \in Table, t \in tables, NEW r \in Row, NEW text \in Text,
           StoreRow(t, r, text), tables' = tables, format' = format
    PROVE  /\ rows[t][r] = NoRow
           /\ rows' \in [Table -> [Row -> Text \cup {NoRow}]]
           /\ rows'[t] = [rows[t] EXCEPT ![r] = text]
           /\ \A u \in Table \ {t} : rows'[u] = rows[u]
           /\ nextID' \in [Table \cup {"storage"} -> 1..(MaxID + 1)]
           /\ IdsInv'
<1>1. /\ rows \in [Table -> [Row -> Text \cup {NoRow}]]
      /\ format \in [Table -> {"v1", "v2"}]
      /\ nextID \in [Table \cup {"storage"} -> 1..(MaxID + 1)]
  BY DEF FullTextInv, TypeOK
<1>2. /\ r = IF format[t] = "v1" THEN nextID["storage"] ELSE nextID[t]
      /\ nextID["storage"] <= MaxID
      /\ nextID' = [nextID EXCEPT !["storage"] = @ + 1,
                                  ![t] = IF format[t] = "v2" THEN @ + 1 ELSE @]
      /\ rows' = [rows EXCEPT ![t][r] = text]
  BY DEF StoreRow
<1>3. /\ \A u \in Table : nextID[u] <= nextID["storage"]
      /\ \A u \in Table, q \in Row : rows[u][q] # NoRow =>
            u \in tables /\ q < nextID["storage"] /\ (format[u] = "v2" => q < nextID[u])
  BY DEF FullTextInv, IdsInv
<1>4. "storage" \notin Table /\ MaxID \in Nat
  BY FullTextAssumption
<1>5. nextID["storage"] \in 1..(MaxID + 1) /\ \A u \in Table : nextID[u] \in 1..(MaxID + 1)
  BY <1>1
<1>6. format[t] = "v1" \/ format[t] = "v2"
  BY <1>1
<1>7. rows[t][r] = NoRow
  <2>1. CASE format[t] = "v1"
    BY <2>1, <1>2, <1>3, <1>5
  <2>2. CASE format[t] = "v2"
    <3>1. r = nextID[t]
      BY <2>2, <1>2
    <3> QED BY <3>1, <2>2, <1>3, <1>5
  <2> QED BY <2>1, <2>2, <1>6
<1>8. /\ rows' \in [Table -> [Row -> Text \cup {NoRow}]]
      /\ rows'[t] = [rows[t] EXCEPT ![r] = text]
      /\ \A u \in Table \ {t} : rows'[u] = rows[u]
  BY <1>1, <1>2
<1>9. /\ nextID'["storage"] = nextID["storage"] + 1
      /\ nextID'[t] = IF format[t] = "v2" THEN nextID[t] + 1 ELSE nextID[t]
      /\ \A u \in Table \ {t} : nextID'[u] = nextID[u]
      /\ DOMAIN nextID' = Table \cup {"storage"}
  BY <1>1, <1>2, <1>4
<1>10. /\ nextID'["storage"] \in 1..(MaxID + 1)
       /\ \A u \in Table : nextID'[u] \in 1..(MaxID + 1) /\ nextID'[u] <= nextID'["storage"]
  <2>1. nextID'["storage"] \in 1..(MaxID + 1)
    BY <1>2, <1>4, <1>5, <1>9
  <2>2. nextID'[t] \in 1..(MaxID + 1) /\ nextID'[t] <= nextID'["storage"]
    BY <1>2, <1>3, <1>4, <1>5, <1>9
  <2>3. \A u \in Table \ {t} : nextID'[u] \in 1..(MaxID + 1) /\ nextID'[u] <= nextID'["storage"]
    BY <1>3, <1>4, <1>5, <1>9
  <2> QED BY <2>1, <2>2, <2>3
<1>11. nextID' \in [Table \cup {"storage"} -> 1..(MaxID + 1)]
  <2>1. nextID' = [u \in Table \cup {"storage"} |-> nextID'[u]]
    BY <1>1, <1>2
  <2> QED BY <2>1, <1>10
<1>12. ASSUME NEW u \in Table, NEW q \in Row, rows'[u][q] # NoRow
       PROVE  /\ u \in tables' /\ q < nextID'["storage"]
              /\ format'[u] = "v2" => q < nextID'[u]
  <2>1. CASE u = t /\ q = r
    <3>1. r <= nextID["storage"] /\ (format[t] = "v2" => r = nextID[t])
      BY <1>2, <1>3, <1>5
    <3>2. r < nextID'["storage"]
      BY <3>1, <1>2, <1>5, <1>9
    <3>3. format[t] = "v2" => r < nextID'[t]
      BY <3>1, <1>5, <1>9
    <3> QED BY <2>1, <3>2, <3>3
  <2>2. CASE u # t \/ q # r
    <3>1. rows'[u][q] = rows[u][q]
      BY <2>2, <1>1, <1>2
    <3>2. u \in tables /\ q < nextID["storage"] /\ (format[u] = "v2" => q < nextID[u])
      BY <3>1, <1>12, <1>3
    <3>3. nextID[u] <= nextID'[u]
      BY <1>5, <1>9
    <3>4. q \in Int /\ nextID[u] \in Int /\ nextID'[u] \in Int
      BY <1>5, <1>10 DEF Row
    <3> QED BY <3>2, <3>3, <3>4, <1>5, <1>9
  <2> QED BY <2>1, <2>2
<1> QED BY <1>7, <1>8, <1>10, <1>11, <1>12 DEF IdsInv

\* Indexing a row again changes the index of its table only.
LEMMA ReindexedSound ==
    ASSUME FullTextInv, NEW t \in Table, NEW r \in Row, NEW text \in Text
    PROVE  LET new == Reindexed(t, r, text)
           IN  /\ new \in [Table -> IndexType \cup {NoIndex}]
               /\ \A u \in Table : new[u] # NoIndex => Consistent(new[u])
               /\ \A u \in Table \ {t} : new[u] = idx[u]
               /\ new[t] = IF HasIndex(t) /\ text # << >> THEN IndexDocument(idx[t], r, text)
                           ELSE idx[t]
               /\ HasIndex(t) => new[t] # NoIndex
<1> DEFINE y == IndexDocument(idx[t], r, text)
<1>1. idx \in [Table -> IndexType \cup {NoIndex}]
  BY DEF FullTextInv, MapsOK
<1>2. \A u \in Table : idx[u] # NoIndex => idx[u] \in IndexType /\ Consistent(idx[u])
  BY <1>1 DEF FullTextInv, IndexConsistent, HasIndex
<1>3. CASE HasIndex(t) /\ text # << >>
  <2>1. y \in IndexType /\ Consistent(y)
    BY <1>2, <1>3, IndexSound DEF HasIndex
  <2>2. Reindexed(t, r, text) = [idx EXCEPT ![t] = y]
    BY <1>3 DEF Reindexed
  <2>3. y # NoIndex
    BY <2>1, FullTextAssumption
  <2> HIDE DEF y
  <2>4. /\ [idx EXCEPT ![t] = y] \in [Table -> IndexType \cup {NoIndex}]
        /\ [idx EXCEPT ![t] = y][t] = y
        /\ \A u \in Table \ {t} : [idx EXCEPT ![t] = y][u] = idx[u]
    BY <1>1, <2>1
  <2>5. \A u \in Table : [idx EXCEPT ![t] = y][u] # NoIndex => Consistent([idx EXCEPT ![t] = y][u])
    BY <2>1, <2>4, <1>2
  <2> QED BY <1>3, <2>2, <2>3, <2>4, <2>5 DEF y
<1>4. CASE ~(HasIndex(t) /\ text # << >>)
  <2>1. Reindexed(t, r, text) = idx
    BY <1>4 DEF Reindexed
  <2> QED BY <1>1, <1>2, <1>4, <2>1 DEF HasIndex
<1> QED BY <1>3, <1>4

\* A statement that changes the rows of one table keeps the invariant if it keeps the
\* row ids in order, the indexes sound and the index of the table in step or lapsed.
LEMMA RowStatement ==
    ASSUME FullTextInv, NEW t \in Table, Statement, RowsChange(t),
           rows' \in [Table -> [Row -> Text \cup {NoRow}]],
           nextID' \in [Table \cup {"storage"} -> 1..(MaxID + 1)], IdsInv',
           idx' \in [Table -> IndexType \cup {NoIndex}],
           \A u \in Table : idx'[u] # NoIndex => Consistent(idx'[u]),
           \A u \in Table \ {t} : rows'[u] = rows[u] /\ idx'[u] = idx[u],
           lapsed' \in {lapsed, lapsed \cup {t}}, tables' \subseteq Table,
           t \notin lapsed' /\ idx'[t] # NoIndex => Describes(idx'[t], rows'[t]),
           UNCHANGED <<format, info, file, saving, restarts>>
    PROVE  FullTextInv'
<1>1. saving = "none" /\ answer = NoAnswer /\ statements < MaxStatements
      /\ statements' = statements + 1 /\ answer' = answer
  BY DEF Statement, Idle, RowsChange
<1>2. StepInv' /\ savedFor' \in [IndexName -> Table \cup {"none"}]
  BY <1>1, OneTableChanges
<1>3. statements' \in 0..MaxStatements
  BY <1>1, FullTextAssumption DEF FullTextInv, TypeOK
<1>4. MapsOK'
  BY DEF FullTextInv, MapsOK
<1>5. TypeOK'
  BY <1>1, <1>2, <1>3, <1>4 DEF FullTextInv, TypeOK, MapsOK
<1>6. IndexConsistent'
  BY DEF FullTextInv, IndexConsistent, HasIndex
<1> QED BY <1>1, <1>2, <1>4, <1>5, <1>6 DEF FullTextInv, AnswerInv

\* INSERT indexes a row whose id was free.
LEMMA InsertKeeps ==
    ASSUME FullTextInv, NEW t \in Table, NEW text \in Text, executeInsert(t, text)
    PROVE  FullTextInv'
<1>1. Statement /\ t \in tables /\ RowsChange(t)
      /\ UNCHANGED <<tables, format, info, file, saving, restarts, lapsed>>
  BY DEF executeInsert
<1>2. PICK r \in Row : StoreRow(t, r, text) /\ idx' = Reindexed(t, r, text)
  BY DEF executeInsert
<1>3. /\ rows[t][r] = NoRow
      /\ rows' \in [Table -> [Row -> Text \cup {NoRow}]]
      /\ rows'[t] = [rows[t] EXCEPT ![r] = text]
      /\ \A u \in Table \ {t} : rows'[u] = rows[u]
      /\ nextID' \in [Table \cup {"storage"} -> 1..(MaxID + 1)]
      /\ IdsInv'
  BY <1>1, <1>2, StoredRow
<1>4. /\ idx' \in [Table -> IndexType \cup {NoIndex}]
      /\ \A u \in Table : idx'[u] # NoIndex => Consistent(idx'[u])
      /\ \A u \in Table \ {t} : idx'[u] = idx[u]
      /\ idx'[t] = IF HasIndex(t) /\ text # << >> THEN IndexDocument(idx[t], r, text) ELSE idx[t]
  BY <1>2, ReindexedSound
<1>5. ASSUME t \notin lapsed', idx'[t] # NoIndex
      PROVE  Describes(idx'[t], rows'[t])
  <2>1. HasIndex(t) /\ Describes(idx[t], rows[t])
    BY <1>1, <1>4, <1>5 DEF FullTextInv, StepInv, HasIndex
  <2>2. idx[t] \in IndexType /\ Consistent(idx[t]) /\ rows[t] \in [Row -> Text \cup {NoRow}]
    BY <2>1 DEF FullTextInv, MapsOK, TypeOK, IndexConsistent, HasIndex
  <2>3. CASE text # << >>
    BY <2>1, <2>2, <2>3, <1>3, <1>4, DescribesIndexed
  <2>4. CASE text = << >>
    <3>1. idx[t].documents[r] = {}
      BY <2>1, <1>3 DEF Describes
    <3>2. Describes(idx[t], [rows[t] EXCEPT ![r] = text])
      BY <3>1, <2>1, <2>2, <2>4, DescribesSkipped
    <3> QED BY <3>2, <2>4, <1>3, <1>4
  <2> QED BY <2>3, <2>4
<1>6. tables' \subseteq Table /\ lapsed' = lapsed
  BY <1>1 DEF FullTextInv, TypeOK
<1> QED BY <1>1, <1>3, <1>4, <1>5, <1>6, RowStatement

\* A direct insert makes the index of its table lapse.
LEMMA DirectInsertKeeps ==
    ASSUME FullTextInv, NEW t \in Table, NEW text \in Text, InsertRowDirect(t, text)
    PROVE  FullTextInv'
<1>1. Statement /\ t \in tables /\ RowsChange(t) /\ Misses(t, TRUE)
      /\ UNCHANGED <<tables, format, idx, info, file, saving, restarts>>
  BY DEF InsertRowDirect
<1>2. PICK r \in Row : StoreRow(t, r, text)
  BY DEF InsertRowDirect
<1>3. /\ rows' \in [Table -> [Row -> Text \cup {NoRow}]]
      /\ \A u \in Table \ {t} : rows'[u] = rows[u]
      /\ nextID' \in [Table \cup {"storage"} -> 1..(MaxID + 1)]
      /\ IdsInv'
  BY <1>1, <1>2, StoredRow
<1>4. lapsed' \in {lapsed, lapsed \cup {t}} /\ (idx'[t] # NoIndex => t \in lapsed')
  BY <1>1 DEF Misses, HasIndex
<1>5. /\ idx' \in [Table -> IndexType \cup {NoIndex}] /\ idx' = idx
      /\ \A u \in Table : idx'[u] # NoIndex => Consistent(idx'[u])
  BY <1>1 DEF FullTextInv, MapsOK, IndexConsistent, HasIndex
<1>6. tables' \subseteq Table
  BY <1>1 DEF FullTextInv, TypeOK
<1> QED BY <1>1, <1>3, <1>4, <1>5, <1>6, RowStatement

\* A row of a table that exists gets another text, or goes.
LEMMA RowReplaced ==
    ASSUME FullTextInv, NEW t \in tables, NEW r \in Row, rows[t][r] # NoRow,
           NEW text \in Text \cup {NoRow}, rows' = [rows EXCEPT ![t][r] = text],
           UNCHANGED <<tables, format, nextID>>
    PROVE  /\ rows' \in [Table -> [Row -> Text \cup {NoRow}]]
           /\ rows'[t] = [rows[t] EXCEPT ![r] = text]
           /\ \A u \in Table \ {t} : rows'[u] = rows[u]
           /\ IdsInv'
<1>1. rows \in [Table -> [Row -> Text \cup {NoRow}]] /\ t \in Table
  BY DEF FullTextInv, TypeOK
<1>2. /\ rows' \in [Table -> [Row -> Text \cup {NoRow}]]
      /\ rows'[t] = [rows[t] EXCEPT ![r] = text]
      /\ \A u \in Table \ {t} : rows'[u] = rows[u]
  BY <1>1
<1>3. \A u \in Table, q \in Row : rows'[u][q] # NoRow => rows[u][q] # NoRow
  BY <1>1
<1> QED BY <1>2, <1>3 DEF FullTextInv, IdsInv

\* UPDATE indexes the row again, or the index lapses.
LEMMA UpdateKeeps ==
    ASSUME FullTextInv, NEW t \in Table, NEW r \in Row, NEW text \in Text,
           executeUpdate(t, r, text)
    PROVE  FullTextInv'
<1>1. Statement /\ t \in tables /\ RowsChange(t) /\ rows[t][r] # NoRow
      /\ rows' = [rows EXCEPT ![t][r] = text] /\ idx' = Reindexed(t, r, text)
      /\ Misses(t, text = << >> /\ idx[t].documents[r] # {})
      /\ UNCHANGED <<tables, format, nextID, info, file, saving, restarts>>
  BY DEF executeUpdate
<1>2. /\ rows' \in [Table -> [Row -> Text \cup {NoRow}]]
      /\ rows'[t] = [rows[t] EXCEPT ![r] = text]
      /\ \A u \in Table \ {t} : rows'[u] = rows[u]
      /\ IdsInv'
  BY <1>1, RowReplaced
<1>3. /\ idx' \in [Table -> IndexType \cup {NoIndex}]
      /\ \A u \in Table : idx'[u] # NoIndex => Consistent(idx'[u])
      /\ \A u \in Table \ {t} : idx'[u] = idx[u]
      /\ idx'[t] = IF HasIndex(t) /\ text # << >> THEN IndexDocument(idx[t], r, text) ELSE idx[t]
  BY <1>1, ReindexedSound
<1>4. lapsed' \in {lapsed, lapsed \cup {t}}
  BY <1>1 DEF Misses
<1>5. ASSUME t \notin lapsed', idx'[t] # NoIndex
      PROVE  Describes(idx'[t], rows'[t])
  <2>1. HasIndex(t) /\ Describes(idx[t], rows[t])
    BY <1>4, <1>3, <1>5 DEF FullTextInv, StepInv, HasIndex
  <2>2. idx[t] \in IndexType /\ Consistent(idx[t]) /\ rows[t] \in [Row -> Text \cup {NoRow}]
    BY <2>1 DEF FullTextInv, MapsOK, TypeOK, IndexConsistent, HasIndex
  <2>3. CASE text # << >>
    BY <2>1, <2>2, <2>3, <1>2, <1>3, DescribesIndexed
  <2>4. CASE text = << >>
    <3>1. idx[t].documents[r] = {}
      BY <2>1, <2>4, <1>1, <1>5 DEF Misses
    <3>2. Describes(idx[t], [rows[t] EXCEPT ![r] = text])
      BY <3>1, <2>1, <2>2, <2>4, DescribesSkipped
    <3> QED BY <3>2, <2>4, <1>2, <1>3
  <2> QED BY <2>3, <2>4
<1>6. tables' \subseteq Table /\ nextID' \in [Table \cup {"storage"} -> 1..(MaxID + 1)]
  BY <1>1 DEF FullTextInv, TypeOK
<1> QED BY <1>1, <1>2, <1>3, <1>4, <1>5, <1>6, RowStatement

\* DELETE removes the document, or the index lapses.
LEMMA DeleteKeeps ==
    ASSUME FullTextInv, NEW t \in Table, NEW r \in Row, executeDelete(t, r)
    PROVE  FullTextInv'
<1> DEFINE y == removeDocument(idx[t], r)
           told == HasIndex(t) /\ idx[t].spelling = "declared"
<1>1. Statement /\ t \in tables /\ RowsChange(t) /\ rows[t][r] # NoRow
      /\ rows' = [rows EXCEPT ![t][r] = NoRow]
      /\ idx' = (IF told THEN [idx EXCEPT ![t] = y] ELSE idx)
      /\ Misses(t, idx[t].spelling # "declared" /\ idx[t].documents[r] # {})
      /\ UNCHANGED <<tables, format, nextID, info, file, saving, restarts>>
  BY Zenon DEF executeDelete
<1>2. /\ rows' \in [Table -> [Row -> Text \cup {NoRow}]]
      /\ rows'[t] = [rows[t] EXCEPT ![r] = NoRow]
      /\ \A u \in Table \ {t} : rows'[u] = rows[u]
      /\ IdsInv'
  BY <1>1, RowReplaced
<1>3. idx \in [Table -> IndexType \cup {NoIndex}]
  BY DEF FullTextInv, MapsOK
<1>4. \A u \in Table : idx[u] # NoIndex => idx[u] \in IndexType /\ Consistent(idx[u])
  BY <1>3 DEF FullTextInv, IndexConsistent, HasIndex
<1>5. HasIndex(t) => y \in IndexType /\ Consistent(y)
  BY <1>4, RemoveSound DEF HasIndex
<1> HIDE DEF y
<1>6. /\ idx' \in [Table -> IndexType \cup {NoIndex}]
      /\ \A u \in Table \ {t} : idx'[u] = idx[u]
      /\ idx'[t] = IF told THEN y ELSE idx[t]
  BY <1>1, <1>3, <1>5
<1>7. \A u \in Table : idx'[u] # NoIndex => Consistent(idx'[u])
  BY <1>4, <1>5, <1>6
<1>8. lapsed' \in {lapsed, lapsed \cup {t}}
  BY <1>1 DEF Misses
<1>9. ASSUME t \notin lapsed', idx'[t] # NoIndex
      PROVE  Describes(idx'[t], rows'[t])
  <2>1. HasIndex(t) /\ t \in Table \ lapsed
    BY <1>6, <1>8, <1>9 DEF HasIndex
  <2>2. Describes(idx[t], rows[t])
    BY <2>1 DEF FullTextInv, StepInv
  <2>3. idx[t] \in IndexType /\ Consistent(idx[t]) /\ rows[t] \in [Row -> Text \cup {NoRow}]
    BY <2>1, <1>4 DEF FullTextInv, TypeOK, HasIndex
  <2>4. CASE told
    BY <2>2, <2>3, <2>4, <1>2, <1>6, DescribesRemoved DEF y
  <2>5. CASE ~told
    <3>1. idx[t].documents[r] = {}
      BY <2>1, <2>5, <1>1, <1>9 DEF Misses
    <3>2. Describes(idx[t], [rows[t] EXCEPT ![r] = NoRow])
      BY <3>1, <2>2, <2>3, DescribesSkipped
    <3> QED BY <3>2, <2>5, <1>2, <1>6
  <2> QED BY <2>4, <2>5
<1>10. tables' \subseteq Table /\ nextID' \in [Table \cup {"storage"} -> 1..(MaxID + 1)]
  BY <1>1 DEF FullTextInv, TypeOK
<1> QED BY <1>1, <1>2, <1>6, <1>7, <1>8, <1>9, <1>10, RowStatement

\* DROP TABLE makes the index lapse.
LEMMA DropTableKeeps ==
    ASSUME FullTextInv, NEW t \in Table, executeDropTable(t)
    PROVE  FullTextInv'
<1>1. Statement /\ RowsChange(t) /\ tables' = tables \ {t}
      /\ rows' = [rows EXCEPT ![t] = [r \in Row |-> NoRow]] /\ Misses(t, TRUE)
      /\ UNCHANGED <<format, nextID, idx, info, file, saving, restarts>>
  BY DEF executeDropTable
<1>2. rows \in [Table -> [Row -> Text \cup {NoRow}]] /\ tables \subseteq Table
      /\ nextID \in [Table \cup {"storage"} -> 1..(MaxID + 1)]
  BY DEF FullTextInv, TypeOK
<1>3. /\ rows' \in [Table -> [Row -> Text \cup {NoRow}]]
      /\ \A u \in Table \ {t} : rows'[u] = rows[u]
      /\ \A r \in Row : rows'[t][r] = NoRow
  BY <1>1, <1>2
<1>4. IdsInv'
  <2>1. \A u \in Table, q \in Row : rows'[u][q] # NoRow => u # t /\ rows[u][q] # NoRow
    BY <1>3
  <2> QED BY <2>1, <1>1 DEF FullTextInv, IdsInv
<1>5. lapsed' \in {lapsed, lapsed \cup {t}} /\ (idx'[t] # NoIndex => t \in lapsed')
  BY <1>1 DEF Misses, HasIndex
<1>6. /\ idx' \in [Table -> IndexType \cup {NoIndex}] /\ idx' = idx
      /\ \A u \in Table : idx'[u] # NoIndex => Consistent(idx'[u])
  BY <1>1 DEF FullTextInv, MapsOK, IndexConsistent, HasIndex
<1>7. tables' \subseteq Table /\ nextID' \in [Table \cup {"storage"} -> 1..(MaxID + 1)]
  BY <1>1, <1>2
<1> QED BY <1>1, <1>3, <1>4, <1>5, <1>6, <1>7, RowStatement

\* CREATE TABLE starts without rows.
LEMMA CreateTableKeeps ==
    ASSUME FullTextInv, NEW t \in Table, executeCreateTable(t)
    PROVE  FullTextInv'
<1>1. Statement /\ t \notin tables /\ tables' = tables \cup {t}
      /\ format' = [format EXCEPT ![t] = "v2"]
      /\ UNCHANGED <<answer, rows, nextID, idx, info, file, saving, restarts, lapsed, savedFor>>
  BY DEF executeCreateTable
<1>2. statements' \in 0..MaxStatements
  BY <1>1, FullTextAssumption DEF FullTextInv, TypeOK, Statement
<1>3. TypeOK'
  BY <1>1, <1>2 DEF FullTextInv, TypeOK, HasIndex
<1>4. IdsInv'
  <2>1. \A q \in Row : rows[t][q] = NoRow
    BY <1>1 DEF FullTextInv, IdsInv
  <2>2. \A u \in Table \ {t} : format'[u] = format[u]
    BY <1>1 DEF FullTextInv, TypeOK
  <2> QED BY <1>1, <2>1, <2>2 DEF FullTextInv, IdsInv
<1>5. MapsOK' /\ IndexConsistent' /\ StepInv' /\ AnswerInv'
  BY <1>1 DEF FullTextInv, MapsOK, IndexConsistent, StepInv, AnswerInv, HasIndex
<1> QED BY <1>3, <1>4, <1>5 DEF FullTextInv

\* CREATE INDEX indexes the rows there are, and the index is in step again.
LEMMA CreateIndexKeeps ==
    ASSUME FullTextInv, NEW t \in Table, NEW s \in Spelling, NEW n \in IndexName,
           NEW cfg \in Config, executeCreateIndex(t, s, n, cfg)
    PROVE  FullTextInv'
<1> DEFINE x == indexExistingRows(NewInvertedIndex(cfg, s), t)
<1>1. Statement /\ CreateFTSIndex(t, s, n)
      /\ UNCHANGED <<answer, tables, rows, format, nextID, file, restarts, savedFor>>
  BY DEF executeCreateIndex
<1>2. answer = NoAnswer /\ saving = "none"
  BY <1>1 DEF Statement, Idle
<1>3. info' \in [Table -> [Spelling -> IndexName \cup {"none"}]]
  BY <1>1 DEF CreateFTSIndex, FullTextInv, TypeOK
<1>4. statements' \in 0..MaxStatements
  BY <1>1, FullTextAssumption DEF FullTextInv, TypeOK, Statement
<1>5. CASE HasIndex(t)
  <2>1. UNCHANGED <<idx, saving, lapsed>>
    BY <1>5 DEF executeCreateIndex
  <2>2. TypeOK'
    BY <1>1, <1>3, <1>4, <2>1 DEF FullTextInv, TypeOK, HasIndex
  <2>3. MapsOK' /\ IndexConsistent' /\ StepInv' /\ AnswerInv' /\ IdsInv'
    BY <1>1, <2>1 DEF FullTextInv, MapsOK, IndexConsistent, StepInv, AnswerInv, HasIndex, IdsInv
  <2> QED BY <2>2, <2>3 DEF FullTextInv
<1>6. CASE ~HasIndex(t)
  <2>1. idx' = [idx EXCEPT ![t] = x] /\ saving' = t /\ lapsed' = lapsed \ {t}
    BY <1>6 DEF executeCreateIndex
  <2>2. x \in IndexType /\ Consistent(x) /\ Describes(x, rows[t])
    BY ExistingIndexed
  <2> HIDE DEF x
  <2>3. idx \in [Table -> IndexType \cup {NoIndex}]
    BY DEF FullTextInv, MapsOK
  <2>4. /\ idx' \in [Table -> IndexType \cup {NoIndex}] /\ idx'[t] = x
        /\ \A u \in Table \ {t} : idx'[u] = idx[u]
    BY <2>1, <2>2, <2>3
  <2>5. x # NoIndex
    BY <2>2, FullTextAssumption
  <2>6. MapsOK'
    BY <1>1, <2>4 DEF FullTextInv, MapsOK
  <2>7. TypeOK'
    BY <1>1, <1>3, <1>4, <2>1, <2>4, <2>5, <2>6 DEF FullTextInv, TypeOK, MapsOK, HasIndex
  <2>8. IndexConsistent'
    BY <1>1, <2>2, <2>4 DEF FullTextInv, IndexConsistent, HasIndex
  <2>9. StepInv'
    <3>1. \A u \in Table \ lapsed' : idx'[u] # NoIndex => Describes(idx'[u], rows'[u])
      BY <1>1, <2>1, <2>2, <2>4 DEF FullTextInv, StepInv, HasIndex
    <3> QED BY <1>1, <2>1, <3>1 DEF FullTextInv, StepInv, HasIndex
  <2>10. IdsInv' /\ AnswerInv'
    BY <1>1, <1>2 DEF FullTextInv, IdsInv, AnswerInv
  <2> QED BY <2>6, <2>7, <2>8, <2>9, <2>10 DEF FullTextInv
<1> QED BY <1>5, <1>6

\* The file is written while nothing else can happen, so it describes the rows.
LEMMA SaveKeeps ==
    ASSUME FullTextInv, saveFTSIndex
    PROVE  FullTextInv'
<1> DEFINE t == saving
           n == info[t][idx[t].spelling]
<1>1. /\ saving # "none" /\ saving' = "none"
      /\ IF n = "none" THEN UNCHANGED <<file, savedFor>>
         ELSE /\ file' = [file EXCEPT ![n] = idx[t]]
              /\ savedFor' = [savedFor EXCEPT ![n] = t]
      /\ UNCHANGED <<statements, tables, rows, format, nextID, idx, info, answer, restarts, lapsed>>
  BY Zenon DEF saveFTSIndex
<1>2. t \in Table /\ HasIndex(t)
  BY <1>1 DEF FullTextInv, TypeOK
<1>3. idx[t] \in IndexType /\ Consistent(idx[t])
  BY <1>2 DEF FullTextInv, MapsOK, IndexConsistent, HasIndex
<1>4. Describes(idx[t], rows[t])
  BY <1>1, <1>2 DEF FullTextInv, StepInv
<1>5. n \in IndexName \cup {"none"}
  BY <1>2, <1>3, FieldsOfIndex DEF FullTextInv, TypeOK
<1> HIDE DEF n
<1>6. /\ file \in [IndexName -> IndexType \cup {NoFile, Torn}]
      /\ savedFor \in [IndexName -> Table \cup {"none"}]
  BY DEF FullTextInv, MapsOK, TypeOK
<1>7. /\ file' \in [IndexName -> IndexType \cup {NoFile, Torn}]
      /\ savedFor' \in [IndexName -> Table \cup {"none"}]
      /\ \A m \in IndexName : \/ file'[m] = file[m] /\ savedFor'[m] = savedFor[m]
                              \/ file'[m] = idx[t] /\ savedFor'[m] = t
  BY <1>1, <1>2, <1>3, <1>5, <1>6
<1>8. TypeOK' /\ MapsOK'
  BY <1>1, <1>7 DEF FullTextInv, TypeOK, MapsOK, HasIndex
<1>9. IndexConsistent'
  BY <1>1, <1>3, <1>7 DEF FullTextInv, IndexConsistent, HasIndex
<1>10. StepInv'
  <2>1. \A m \in IndexName : savedFor'[m] # "none" /\ file'[m] \notin {NoFile, Torn}
                                => Describes(file'[m], rows[savedFor'[m]])
    BY <1>4, <1>7 DEF FullTextInv, StepInv
  <2> QED BY <1>1, <2>1 DEF FullTextInv, StepInv, HasIndex
<1>11. IdsInv' /\ AnswerInv'
  BY <1>1 DEF FullTextInv, IdsInv, AnswerInv
<1> QED BY <1>8, <1>9, <1>10, <1>11 DEF FullTextInv

\* DROP INDEX forgets the index in memory.
LEMMA DropIndexKeeps ==
    ASSUME FullTextInv, NEW t \in Table, NEW s \in Spelling, executeDropIndex(t, s)
    PROVE  FullTextInv'
<1>1. Statement /\ idx' = [idx EXCEPT ![t] = NoIndex]
      /\ UNCHANGED <<answer, tables, rows, format, nextID, info, file, saving, restarts, lapsed,
                     savedFor>>
  BY DEF executeDropIndex
<1>2. idx \in [Table -> IndexType \cup {NoIndex}]
  BY DEF FullTextInv, MapsOK
<1>3. /\ idx' \in [Table -> IndexType \cup {NoIndex}] /\ idx'[t] = NoIndex
      /\ \A u \in Table \ {t} : idx'[u] = idx[u]
  BY <1>1, <1>2
<1>4. statements' \in 0..MaxStatements /\ saving = "none"
  BY <1>1, FullTextAssumption DEF FullTextInv, TypeOK, Statement, Idle
<1>5. MapsOK'
  BY <1>1, <1>3 DEF FullTextInv, MapsOK
<1>6. TypeOK'
  BY <1>1, <1>4, <1>5 DEF FullTextInv, TypeOK, MapsOK
<1>7. IndexConsistent'
  BY <1>1, <1>3 DEF FullTextInv, IndexConsistent, HasIndex
<1>8. StepInv'
  BY <1>1, <1>3 DEF FullTextInv, StepInv, HasIndex
<1>9. IdsInv' /\ AnswerInv'
  BY <1>1, <1>4 DEF FullTextInv, IdsInv, AnswerInv
<1> QED BY <1>5, <1>6, <1>7, <1>8, <1>9 DEF FullTextInv

\* A restart restores from a file that still describes the rows, or the index has lapsed, or
\* the rows are indexed again.
LEMMA RestartKeeps ==
    ASSUME FullTextInv, Restart
    PROVE  FullTextInv'
<1>1. /\ restarts < MaxRestarts /\ restarts' = restarts + 1
      /\ saving' = "none" /\ answer' = NoAnswer
      /\ UNCHANGED <<statements, tables, rows, format, nextID, info, savedFor>>
  BY Zenon DEF Restart
<1>2. file \in [IndexName -> IndexType \cup {NoFile, Torn}]
  BY DEF FullTextInv, MapsOK
<1>3. /\ file' \in [IndexName -> IndexType \cup {NoFile, Torn}]
      /\ \A n \in IndexName : file'[n] \in {file[n], Torn}
  <2>1. \/ file' = file
        \/ \E n : file' = [file EXCEPT ![n] = Torn]
    BY Zenon DEF Restart
  <2> QED BY <2>1, <1>2
<1>4. PICK first \in [Table -> Spelling] :
         LET s(t) == IF info[t][first[t]] # "none" THEN first[t]
                     ELSE CHOOSE x \in Spelling : x # first[t]
             restored == {t \in Table : info[t][s(t)] # "none"}
             f(t) == file'[info[t][s(t)]]
             loaded == {t \in restored : f(t) \notin {NoFile, Torn}}
         IN  /\ idx' = [t \in Table |-> IF t \in restored THEN restoreFTSIndex(t, s(t), f(t))
                                        ELSE NoIndex]
             /\ lapsed' = {t \in loaded : savedFor[info[t][s(t)]] # t}
  BY Zenon DEF Restart
<1> DEFINE s(t) == IF info[t][first[t]] # "none" THEN first[t]
                   ELSE CHOOSE x \in Spelling : x # first[t]
           restored == {t \in Table : info[t][s(t)] # "none"}
           f(t) == file'[info[t][s(t)]]
           loaded == {t \in restored : f(t) \notin {NoFile, Torn}}
<1>5. /\ idx' = [t \in Table |-> IF t \in restored THEN restoreFTSIndex(t, s(t), f(t))
                                 ELSE NoIndex]
      /\ lapsed' = {t \in loaded : savedFor[info[t][s(t)]] # t}
  BY <1>4
<1>6. \A t \in Table : s(t) \in Spelling
  BY DEF Spelling
<1> HIDE DEF s
<1>7. \A t \in restored : info[t][s(t)] \in IndexName /\ t \in Table
  BY <1>6 DEF FullTextInv, TypeOK
<1>8. \A t \in restored : f(t) \in IndexType \cup {NoFile, Torn}
  BY <1>3, <1>7
<1>9. \A n \in IndexName : file'[n] \notin {NoFile, Torn} => file'[n] = file[n]
  BY <1>3
<1>10. \A n \in IndexName : file'[n] \notin {NoFile, Torn} => Consistent(file'[n])
  BY <1>9 DEF FullTextInv, IndexConsistent
<1>11. \A t \in restored : /\ restoreFTSIndex(t, s(t), f(t)) \in IndexType
                           /\ Consistent(restoreFTSIndex(t, s(t), f(t)))
                           /\ f(t) \in {NoFile, Torn} => Describes(restoreFTSIndex(t, s(t), f(t)), rows[t])
                           /\ f(t) \notin {NoFile, Torn} /\ Describes(f(t), rows[t])
                                 => Describes(restoreFTSIndex(t, s(t), f(t)), rows[t])
  <2> SUFFICES ASSUME NEW t \in restored
               PROVE  /\ restoreFTSIndex(t, s(t), f(t)) \in IndexType
                      /\ Consistent(restoreFTSIndex(t, s(t), f(t)))
                      /\ f(t) \in {NoFile, Torn} => Describes(restoreFTSIndex(t, s(t), f(t)), rows[t])
                      /\ f(t) \notin {NoFile, Torn} /\ Describes(f(t), rows[t])
                            => Describes(restoreFTSIndex(t, s(t), f(t)), rows[t])
    BY Zenon
  <2>1. f(t) \in IndexType \cup {NoFile, Torn} /\ (f(t) \notin {NoFile, Torn} => Consistent(f(t)))
    BY <1>7, <1>8, <1>10
  <2>2. t \in Table /\ s(t) \in Spelling
    BY <1>6, <1>7
  <2> HIDE DEF f
  <2> QED BY <2>1, <2>2, RestoredSound
<1>12. idx' \in [Table -> IndexType \cup {NoIndex}]
  BY <1>5, <1>11
<1>13. MapsOK'
  BY <1>3, <1>12 DEF MapsOK
<1>14. lapsed' \subseteq Table
  BY <1>5
<1>15. TypeOK'
  <2>1. answer'.table = "none" /\ answer'.hits = {}
    BY <1>1 DEF NoAnswer
  <2>2. restarts' \in 0..MaxRestarts
    BY <1>1, FullTextAssumption DEF FullTextInv, TypeOK
  <2> QED BY <1>1, <1>13, <1>14, <2>1, <2>2 DEF FullTextInv, TypeOK, MapsOK
<1>16. IndexConsistent'
  BY <1>5, <1>10, <1>11 DEF IndexConsistent, HasIndex
<1>17. ASSUME NEW t \in Table \ lapsed', idx'[t] # NoIndex
       PROVE  Describes(idx'[t], rows[t])
  <2>1. t \in restored /\ idx'[t] = restoreFTSIndex(t, s(t), f(t))
    BY <1>5, <1>17
  <2>2. CASE f(t) \in {NoFile, Torn}
    BY <2>1, <2>2, <1>11
  <2>3. CASE f(t) \notin {NoFile, Torn}
    <3>1. savedFor[info[t][s(t)]] = t
      BY <2>1, <2>3, <1>5, <1>17
    <3>2. info[t][s(t)] \in IndexName /\ f(t) = file[info[t][s(t)]] /\ t # "none"
      BY <2>1, <2>3, <1>7, <1>9, FullTextAssumption
    <3>3. Describes(f(t), rows[t])
      BY <2>3, <3>1, <3>2 DEF FullTextInv, StepInv
    <3> QED BY <2>1, <2>3, <3>3, <1>11
  <2> QED BY <2>2, <2>3
<1>18. StepInv'
  <2>1. \A n \in IndexName : savedFor[n] # "none" /\ file'[n] \notin {NoFile, Torn}
                                => Describes(file'[n], rows[savedFor[n]])
    BY <1>9 DEF FullTextInv, StepInv
  <2> QED BY <1>1, <1>17, <2>1 DEF StepInv, HasIndex
<1>19. IdsInv' /\ AnswerInv'
  BY <1>1 DEF FullTextInv, IdsInv, AnswerInv
<1> QED BY <1>13, <1>15, <1>16, <1>18, <1>19 DEF FullTextInv

\* MATCH and the return of its answer change nothing else.
LEMMA AnswerKeeps ==
    ASSUME FullTextInv,
           \/ Return
           \/ \E t \in Table, query \in Text, level \in Level : Match(t, query, level)
           \/ UNCHANGED vars
    PROVE  FullTextInv'
<1>1. /\ UNCHANGED <<statements, tables, rows, format, nextID, idx, info, file, saving, restarts,
                     lapsed, savedFor>>
      /\ answer'.table \in Table \cup {"none"} /\ answer'.hits \subseteq Row
      /\ saving # "none" => answer' = NoAnswer
  <2>1. CASE Return
    BY <2>1 DEF Return, NoAnswer
  <2>2. CASE UNCHANGED vars
    BY <2>2 DEF vars, FullTextInv, TypeOK, AnswerInv
  <2>3. ASSUME NEW t \in Table, NEW query \in Text, NEW level \in Level, Match(t, query, level)
        PROVE  /\ UNCHANGED <<statements, tables, rows, format, nextID, idx, info, file, saving,
                              restarts, lapsed, savedFor>>
               /\ answer'.table \in Table \cup {"none"} /\ answer'.hits \subseteq Row
               /\ saving = "none"
    <3>1. PICK hits \in SUBSET Row : answer' = [table |-> t, used |-> {u \in Table : HasIndex(u)},
                                                query |-> query, level |-> level, hits |-> hits]
      BY <2>3, Zenon DEF Match
    <3>2. answer'.table = t /\ answer'.hits = hits
      BY <3>1
    <3>3. UNCHANGED <<statements, tables, rows, format, nextID, idx, info, file, saving,
                      restarts, lapsed, savedFor>> /\ saving = "none"
      BY <2>3, Zenon DEF Match, Idle
    <3> QED BY <3>2, <3>3
  <2> QED BY <2>1, <2>2, <2>3
<1>2. TypeOK' /\ MapsOK'
  BY <1>1 DEF FullTextInv, TypeOK, MapsOK, HasIndex
<1>3. IndexConsistent' /\ StepInv' /\ IdsInv' /\ AnswerInv'
  BY <1>1 DEF FullTextInv, IndexConsistent, StepInv, IdsInv, AnswerInv, HasIndex
<1> QED BY <1>2, <1>3 DEF FullTextInv

\* Every step keeps the invariant.
LEMMA NextInv ==
    ASSUME FullTextInv, [Next]_vars
    PROVE  FullTextInv'
<1>1. ASSUME NEW t \in Table, NEW text \in Text, executeInsert(t, text)
      PROVE  FullTextInv'
  BY <1>1, InsertKeeps
<1>2. ASSUME NEW t \in Table, NEW text \in Text, InsertRowDirect(t, text)
      PROVE  FullTextInv'
  BY <1>2, DirectInsertKeeps
<1>3. ASSUME NEW t \in Table, NEW r \in Row, NEW text \in Text, executeUpdate(t, r, text)
      PROVE  FullTextInv'
  BY <1>3, UpdateKeeps
<1>4. ASSUME NEW t \in Table, NEW r \in Row, executeDelete(t, r)
      PROVE  FullTextInv'
  BY <1>4, DeleteKeeps
<1>5. ASSUME NEW t \in Table, executeDropTable(t)
      PROVE  FullTextInv'
  BY <1>5, DropTableKeeps
<1>6. ASSUME NEW t \in Table, executeCreateTable(t)
      PROVE  FullTextInv'
  BY <1>6, CreateTableKeeps
<1>7. ASSUME NEW t \in Table, NEW s \in Spelling, NEW n \in IndexName, NEW cfg \in Config,
             executeCreateIndex(t, s, n, cfg)
      PROVE  FullTextInv'
  BY <1>7, CreateIndexKeeps
<1>8. ASSUME NEW t \in Table, NEW s \in Spelling, executeDropIndex(t, s)
      PROVE  FullTextInv'
  BY <1>8, DropIndexKeeps
<1>9. CASE saveFTSIndex
  BY <1>9, SaveKeeps
<1>10. CASE Restart
  BY <1>10, RestartKeeps
<1>11. CASE \/ Return
            \/ \E t \in Table, query \in Text, level \in Level : Match(t, query, level)
            \/ UNCHANGED vars
  BY <1>11, AnswerKeeps
<1> QED BY <1>1, <1>2, <1>3, <1>4, <1>5, <1>6, <1>7, <1>8, <1>9, <1>10, <1>11, Zenon DEF Next

----------------------------------------------------------------------------
(* The theorems.                                                            *)

\* The inductive invariant holds in every state.
THEOREM Invariant == Spec => []FullTextInv
<1>1. FullTextInv /\ [Next]_vars => FullTextInv'
  BY NextInv
<1> QED BY InitInv, <1>1, PTL DEF Spec

\* Every index in memory and in a file is of its type and consistent: postings, documents
\* and positions tell the same story and the counter counts, after any sequence of
\* statements, crashes and restarts (fts.go IndexDocument, removeDocumentLocked).
THEOREM IndexesAreSound == Spec => []IndexesSound
<1>1. FullTextInv => IndexesSound
  BY DEF FullTextInv, IndexesSound
<1> QED BY <1>1, Invariant, PTL

\* An index that has missed no change has the terms of the rows of its table, whatever
\* file it was restored from (executor_dml.go indexRowForFTS, storage.go callbacks,
\* restoreFTSIndexes).
THEOREM IndexesInStep == Spec => []InStep
<1>1. ASSUME FullTextInv PROVE InStep
  <2>1. \A t \in tables \ lapsed : HasIndex(t) => Describes(idx[t], rows[t])
    BY <1>1 DEF FullTextInv, StepInv, TypeOK
  <2> QED BY <2>1 DEF InStep, Describes, Expected
<1> QED BY <1>1, Invariant, PTL

\* What MATCH returns is right at the moment it is computed.
LEMMA MatchIsRight ==
    ASSUME FullTextInv, NEW t \in Table, NEW query \in Text, NEW level \in Level,
           Match(t, query, level)
    PROVE  MatchAnswers'
<1> DEFINE used == {u \in Table : HasIndex(u)}
           M(u) == SearchWithLevel(idx[u], query, level)
<1>1. PICK hits \in SUBSET Row :
         /\ used # {} => /\ \A r \in hits : \E u \in used : r \in M(u)
                         /\ \A r \in Row \ hits :
                               \E u \in used : r \notin M(u) \/ Cardinality(M(u)) > MaxHits
         /\ answer' = [table |-> t, used |-> used, query |-> query, level |-> level, hits |-> hits]
  BY Zenon DEF Match
<1>2. /\ answer'.table = t /\ answer'.used = used /\ answer'.query = query
      /\ answer'.level = level /\ answer'.hits = hits
  BY <1>1
<1>3. idx' = idx /\ lapsed' = lapsed /\ rows' = rows
  BY Zenon DEF Match
<1> DEFINE cfg == idx[t].config
           terms == TermsOf(Tokens(query, cfg, FALSE))
           right == {r \in Row : terms # {} /\ terms \subseteq Expected(t, r, cfg)}
<1> SUFFICES ASSUME used = {t}, t \notin lapsed, level = 0
             PROVE  hits \subseteq right /\ (hits = right \/ Cardinality(right) > MaxHits)
  BY <1>2, <1>3 DEF MatchAnswers, Expected
<1>4. HasIndex(t)
  OBVIOUS
<1>5. idx[t] \in IndexType /\ Consistent(idx[t]) /\ Describes(idx[t], rows[t])
  BY <1>4 DEF FullTextInv, MapsOK, IndexConsistent, StepInv, HasIndex
<1>6. \A r \in Row : idx[t].documents[r] = Expected(t, r, cfg)
  BY <1>5 DEF Describes, Expected
<1>7. M(t) = Search(idx[t], query)
  BY DEF SearchWithLevel
<1>8. Search(idx[t], query) = {r \in Row : terms # {} /\ terms \subseteq idx[t].documents[r]}
  BY <1>5, SearchFinds
<1> HIDE DEF cfg, terms, M
<1>9. M(t) = right
  BY <1>6, <1>7, <1>8
<1>10. right \subseteq Row
  OBVIOUS
<1> HIDE DEF right, used
<1>11. /\ \A r \in hits : r \in right
       /\ \A r \in Row \ hits : r \notin right \/ Cardinality(right) > MaxHits
  BY <1>1, <1>9
<1> QED BY <1>10, <1>11

\* No other step leaves an answer, and none but those of MATCH and Return are taken
\* while there is one.
LEMMA AnswersAreReturned ==
    ASSUME FullTextInv, Next
    PROVE  \/ \E t \in Table, query \in Text, level \in Level : Match(t, query, level)
           \/ answer' = NoAnswer
<1>1. ASSUME NEW t \in Table, NEW text \in Text, executeInsert(t, text) \/ InsertRowDirect(t, text)
      PROVE  answer' = NoAnswer
  BY <1>1 DEF executeInsert, InsertRowDirect, Statement, Idle, RowsChange
<1>2. ASSUME NEW t \in Table, NEW r \in Row, NEW text \in Text, executeUpdate(t, r, text)
      PROVE  answer' = NoAnswer
  BY <1>2, Zenon DEF executeUpdate, Statement, Idle, RowsChange
<1>3. ASSUME NEW t \in Table, NEW r \in Row, executeDelete(t, r)
      PROVE  answer' = NoAnswer
  BY <1>3, Zenon DEF executeDelete, Statement, Idle, RowsChange
<1>4. ASSUME NEW t \in Table, executeDropTable(t) \/ executeCreateTable(t)
      PROVE  answer' = NoAnswer
  BY <1>4 DEF executeDropTable, executeCreateTable, Statement, Idle, RowsChange
<1>5. ASSUME NEW t \in Table, NEW s \in Spelling, NEW n \in IndexName, NEW cfg \in Config,
             executeCreateIndex(t, s, n, cfg)
      PROVE  answer' = NoAnswer
  BY <1>5 DEF executeCreateIndex, Statement, Idle
<1>6. ASSUME NEW t \in Table, NEW s \in Spelling, executeDropIndex(t, s)
      PROVE  answer' = NoAnswer
  BY <1>6 DEF executeDropIndex, Statement, Idle
<1>7. CASE saveFTSIndex
  BY <1>7 DEF saveFTSIndex, FullTextInv, AnswerInv
<1>8. CASE Restart \/ Return
  BY <1>8, Zenon DEF Restart, Return
<1> QED BY <1>1, <1>2, <1>3, <1>4, <1>5, <1>6, <1>7, <1>8, Zenon DEF Next

\* When a column has one index, and that has missed no change, the rows MATCH returns are
\* those whose text has all terms of the query, up to the limit (evalMatchAgainst, Search).
THEOREM MatchFindsRight == Spec => []MatchAnswers
<1>1. Init => MatchAnswers
  BY DEF Init, NoAnswer, MatchAnswers
<1>2. ASSUME FullTextInv, MatchAnswers, [Next]_vars
      PROVE  MatchAnswers'
  <2>1. CASE UNCHANGED vars
    BY <2>1, <1>2 DEF vars, MatchAnswers, Expected
  <2>2. CASE answer' = NoAnswer
    BY <2>2 DEF NoAnswer, MatchAnswers
  <2>3. CASE \E t \in Table, query \in Text, level \in Level : Match(t, query, level)
    BY <2>3, <1>2, MatchIsRight
  <2> QED BY <2>1, <2>2, <2>3, <1>2, AnswersAreReturned
<1> QED BY <1>1, <1>2, Invariant, PTL DEF Spec

----------------------------------------------------------------------------
(* Highlight.                                                               *)

\* Induction over the numbers, for a set of them.
LEMMA NatSetInduction ==
    ASSUME NEW T, 0 \in T, \A n \in Nat : n \in T => n + 1 \in T
    PROVE  \A n \in Nat : n \in T
<1> SUFFICES ASSUME Nat \ T # {} PROVE FALSE
  OBVIOUS
<1> DEFINE R == {ss \in Nat \X Nat : ss[1] < ss[2]}
<1>1. IsWellFoundedOn(R, Nat)
  BY NatLessThanWellFounded, Zenon DEF OpToRel
<1> HIDE DEF R
<1>2. PICK x \in Nat \ T : \A y \in Nat \ T : <<y, x>> \notin R
  BY <1>1, WFMin
<1>3. x # 0 /\ x - 1 \in Nat
  BY <1>2
<1>4. x - 1 \notin T
  BY <1>2, <1>3
<1>5. <<x - 1, x>> \in R
  BY <1>2, <1>3 DEF R
<1> QED BY <1>2, <1>3, <1>4, <1>5

\* A range of characters that is not empty.
MarkRange == {m \in Nat \X Nat : m[1] < m[2]}

\* Marks that follow one another and do not touch.
Separate(m) == \A i \in 1..(Len(m) - 1) : m[i][2] < m[i + 1][1]

\* The characters in the first n ranges of a sequence.
Marked(m, n) == {x \in Nat : \E i \in 1..n : m[i][1] <= x /\ x < m[i][2]}

\* The fields of a range.
LEMMA RangeFields ==
    ASSUME NEW r \in MarkRange
    PROVE  r[1] \in Nat /\ r[2] \in Nat /\ r[1] < r[2] /\ r = <<r[1], r[2]>>
  BY DEF MarkRange

\* What Covered says of the ranges of a sequence.
LEMMA CoveredMarked ==
    ASSUME NEW m \in Seq(MarkRange)
    PROVE  Covered({m[i] : i \in 1..Len(m)}) = Marked(m, Len(m))
<1> DEFINE S == {m[i] : i \in 1..Len(m)}
<1>1. \A i \in 1..Len(m) : m[i][1] \in Nat /\ m[i][2] \in Nat
  <2>1. \A i \in 1..Len(m) : m[i] \in MarkRange
    OBVIOUS
  <2> QED BY <2>1, RangeFields
<1>2. ASSUME NEW x PROVE x \in Covered(S) <=> \E i \in 1..Len(m) : x \in m[i][1]..(m[i][2] - 1)
  BY DEF Covered
<1>3. ASSUME NEW x, NEW i \in 1..Len(m)
      PROVE  x \in m[i][1]..(m[i][2] - 1) <=> x \in Nat /\ m[i][1] <= x /\ x < m[i][2]
  BY <1>1
<1> HIDE DEF S
<1>4. ASSUME NEW x PROVE x \in Covered(S) <=> x \in Marked(m, Len(m))
  BY <1>2, <1>3 DEF Marked
<1> QED BY <1>4 DEF S

\* One step of the merge: the marks stay apart, and the range is covered besides what was.
LEMMA MergeStep ==
    ASSUME NEW m \in Seq(MarkRange), Separate(m), NEW r \in MarkRange,
           Len(m) # 0 => m[Len(m)][1] <= r[1]
    PROVE  LET q == MergeRange(m, r)
           IN  /\ q \in Seq(MarkRange) /\ Separate(q) /\ Len(q) # 0 /\ q[Len(q)][1] <= r[1]
               /\ Marked(q, Len(q)) = Marked(m, Len(m)) \cup {x \in Nat : r[1] <= x /\ x < r[2]}
<1> DEFINE n == Len(m)
           q == MergeRange(m, r)
           new == {x \in Nat : r[1] <= x /\ x < r[2]}
<1>1. n \in Nat /\ r[1] \in Nat /\ r[2] \in Nat /\ r[1] < r[2]
  BY RangeFields
<1>2. \A i \in 1..n : m[i] \in MarkRange /\ m[i][1] \in Nat /\ m[i][2] \in Nat /\ m[i][1] < m[i][2]
  <2>1. \A i \in 1..n : m[i] \in MarkRange
    OBVIOUS
  <2> QED BY <2>1, RangeFields
<1>3. CASE n = 0
  <2>1. q = <<r>>
    BY <1>3 DEF MergeRange
  <2>2. q \in Seq(MarkRange) /\ Len(q) = 1 /\ q[1] = r
    BY <2>1
  <2> HIDE DEF q
  <2>3. Marked(m, n) = {} /\ Marked(q, 1) = new
    BY <1>3, <2>2 DEF Marked
  <2>4. Separate(q)
    BY <2>2 DEF Separate
  <2> QED BY <1>1, <2>2, <2>3, <2>4 DEF q
<1>4. CASE n # 0 /\ r[1] > m[n][2]
  <2>1. q = Append(m, r)
    BY <1>4 DEF MergeRange
  <2>2. q \in Seq(MarkRange) /\ Len(q) = n + 1 /\ q[n + 1] = r /\ \A i \in 1..n : q[i] = m[i]
    BY <2>1
  <2> HIDE DEF q
  <2>3. Separate(q)
    <3> SUFFICES ASSUME NEW i \in 1..n PROVE q[i][2] < q[i + 1][1]
      BY <1>1, <2>2 DEF Separate
    <3>1. CASE i = n
      BY <1>4, <2>2, <3>1
    <3>2. CASE i # n
      <4>1. i \in 1..(n - 1) /\ i + 1 \in 1..n
        BY <1>1, <3>2
      <4> QED BY <2>2, <4>1 DEF Separate
    <3> QED BY <3>1, <3>2
  <2>4. ASSUME NEW x \in Nat
        PROVE  x \in Marked(q, n + 1) <=> x \in Marked(m, n) \/ (r[1] <= x /\ x < r[2])
    <3>1. \A i \in 1..(n + 1) : i \in 1..n \/ i = n + 1
      BY <1>1
    <3>2. \A i \in 1..n : i \in 1..(n + 1)
      BY <1>1
    <3>3. n + 1 \in 1..(n + 1)
      BY <1>1
    <3> QED BY <2>2, <3>1, <3>2, <3>3 DEF Marked
  <2>5. Marked(q, n + 1) = Marked(m, n) \cup new
    BY <2>4 DEF Marked
  <2> QED BY <1>1, <2>2, <2>3, <2>5 DEF q
<1>5. CASE n # 0 /\ ~(r[1] > m[n][2]) /\ r[2] > m[n][2]
  <2> DEFINE e == <<m[n][1], r[2]>>
  <2>1. q = [m EXCEPT ![n] = e]
    BY <1>5 DEF MergeRange
  <2>2. n \in 1..n /\ m[n][1] <= r[1]
    BY <1>1, <1>5
  <2>3. e \in MarkRange /\ e[1] = m[n][1] /\ e[2] = r[2]
    BY <1>1, <1>2, <2>2 DEF MarkRange
  <2>4. q \in Seq(MarkRange) /\ Len(q) = n /\ q[n] = e /\ \A i \in 1..n : i # n => q[i] = m[i]
    BY <2>1, <2>2, <2>3
  <2> HIDE DEF q, e
  <2>5. Separate(q)
    <3> SUFFICES ASSUME NEW i \in 1..(n - 1) PROVE q[i][2] < q[i + 1][1]
      BY <2>4 DEF Separate
    <3>1. i \in 1..n /\ i # n /\ i + 1 \in 1..n /\ m[i][2] < m[i + 1][1]
      BY <1>1 DEF Separate
    <3>2. q[i + 1][1] = m[i + 1][1]
      BY <2>3, <2>4, <3>1
    <3> QED BY <2>4, <3>1, <3>2
  <2>6. ASSUME NEW x \in Nat
        PROVE  x \in Marked(q, n) <=> x \in Marked(m, n) \/ (r[1] <= x /\ x < r[2])
    <3>1. (e[1] <= x /\ x < e[2]) <=> (m[n][1] <= x /\ x < m[n][2]) \/ (r[1] <= x /\ x < r[2])
      BY <1>1, <1>2, <1>5, <2>2, <2>3
    <3>2. x \in Marked(q, n) <=> (e[1] <= x /\ x < e[2]) \/ \E i \in 1..n : i # n /\ m[i][1] <= x /\ x < m[i][2]
      BY <2>2, <2>4 DEF Marked
    <3>3. x \in Marked(m, n) <=> (m[n][1] <= x /\ x < m[n][2]) \/ \E i \in 1..n : i # n /\ m[i][1] <= x /\ x < m[i][2]
      BY <2>2 DEF Marked
    <3> QED BY <3>1, <3>2, <3>3
  <2>7. Marked(q, n) = Marked(m, n) \cup new
    BY <2>6 DEF Marked
  <2> QED BY <1>5, <2>2, <2>3, <2>4, <2>5, <2>7 DEF q
<1>6. CASE n # 0 /\ ~(r[1] > m[n][2]) /\ ~(r[2] > m[n][2])
  <2>1. q = m
    BY <1>6 DEF MergeRange
  <2>2. n \in 1..n /\ m[n][1] <= r[1]
    BY <1>1, <1>6
  <2>3. \A x \in Nat : r[1] <= x /\ x < r[2] => m[n][1] <= x /\ x < m[n][2]
    BY <1>1, <1>2, <1>6, <2>2
  <2>4. new \subseteq Marked(m, n)
    BY <2>2, <2>3 DEF Marked
  <2> HIDE DEF q, new
  <2> QED BY <1>6, <2>1, <2>2, <2>4 DEF q, new
<1> QED BY <1>3, <1>4, <1>5, <1>6

\* The function that MergeRanges takes its result from: the marks after i ranges.
IsMerged(g, n, s) == g = [i \in 0..n |-> IF i = 0 THEN << >> ELSE MergeRange(g[i - 1], s[i])]

\* There is such a function for every number of ranges.
LEMMA MergedExists ==
    ASSUME NEW s
    PROVE  \A n \in Nat : \E g : IsMerged(g, n, s)
<1> DEFINE T == {n \in Nat : \E g : IsMerged(g, n, s)}
<1>1. 0 \in T
  <2> DEFINE g == [i \in 0..0 |-> << >>]
  <2>1. IsMerged(g, 0, s)
    BY DEF IsMerged
  <2> QED BY <2>1
<1>2. ASSUME NEW n \in Nat, n \in T PROVE n + 1 \in T
  <2>1. PICK g : IsMerged(g, n, s)
    BY <1>2
  <2> DEFINE w(f, i) == IF i = 0 THEN << >> ELSE MergeRange(f[i - 1], s[i])
             v == MergeRange(g[n], s[n + 1])
             h == [i \in 0..(n + 1) |-> IF i = n + 1 THEN v ELSE g[i]]
  <2>2. \A i \in 0..n : g[i] = w(g, i)
    BY <2>1 DEF IsMerged
  <2> HIDE DEF v
  <2>3. h[n + 1] = v /\ \A i \in 0..n : h[i] = g[i]
    OBVIOUS
  <2>4. h = [i \in 0..(n + 1) |-> h[i]]
    OBVIOUS
  <2> HIDE DEF h
  <2>5. ASSUME NEW i \in 0..(n + 1) PROVE h[i] = w(h, i)
    <3>1. CASE i = n + 1
      <4>1. i # 0 /\ i - 1 = n /\ h[n] = g[n]
        BY <2>3, <3>1
      <4> QED BY <2>3, <3>1, <4>1 DEF v
    <3>2. CASE i # n + 1 /\ i # 0
      <4>1. i \in 0..n /\ i - 1 \in 0..n
        BY <3>2
      <4> QED BY <2>2, <2>3, <3>2, <4>1
    <3>3. CASE i = 0
      BY <2>2, <2>3, <3>3
    <3> QED BY <3>1, <3>2, <3>3
  <2> HIDE DEF w
  <2>6. h = [i \in 0..(n + 1) |-> w(h, i)]
    BY <2>4, <2>5
  <2>7. IsMerged(h, n + 1, s)
    BY <2>6 DEF IsMerged, w
  <2> QED BY <2>7
<1> HIDE DEF T
<1>3. \A n \in Nat : n \in T
  BY <1>1, <1>2, NatSetInduction
<1> QED BY <1>3 DEF T

\* Merging sorted ranges gives marks that are apart and cover what the ranges cover.
LEMMA MergeIsRight ==
    ASSUME NEW s \in Seq(MarkRange), \A i, j \in 1..Len(s) : i < j => s[i][1] <= s[j][1]
    PROVE  /\ MergeRanges(s) \in Seq(MarkRange) /\ Separate(MergeRanges(s))
           /\ Marked(MergeRanges(s), Len(MergeRanges(s))) = Marked(s, Len(s))
<1> DEFINE n == Len(s)
           g == CHOOSE h : IsMerged(h, n, s)
           P(i) == /\ g[i] \in Seq(MarkRange) /\ Separate(g[i])
                   /\ Len(g[i]) # 0 => i # 0 /\ g[i][Len(g[i])][1] <= s[i][1]
                   /\ Marked(g[i], Len(g[i])) = Marked(s, i)
           T == {i \in Nat : i <= n => P(i)}
<1>1. n \in Nat
  OBVIOUS
<1>2. MergeRanges(s) = g[n]
  BY Zenon DEF MergeRanges, IsMerged
<1>3. IsMerged(g, n, s)
  BY <1>1, MergedExists
<1>4. \A i \in 1..n : s[i] \in MarkRange
  OBVIOUS
<1> HIDE DEF g, n
<1>5. \A i \in 0..n : g[i] = IF i = 0 THEN << >> ELSE MergeRange(g[i - 1], s[i])
  BY <1>3 DEF IsMerged
<1>6. 0 \in T
  <2> DEFINE none == << >>
  <2>1. g[0] = none
    <3>1. 0 \in 0..n
      BY <1>1
    <3> QED BY <1>5, <3>1, Zenon
  <2>2. none \in Seq(MarkRange) /\ Len(none) = 0
    OBVIOUS
  <2> HIDE DEF none
  <2>3. Separate(none) /\ Marked(none, 0) = {} /\ Marked(s, 0) = {}
    BY <2>2 DEF Separate, Marked
  <2> QED BY <2>1, <2>2, <2>3
<1>7. ASSUME NEW i \in Nat, i \in T PROVE i + 1 \in T
  <2> SUFFICES ASSUME i + 1 <= n PROVE P(i + 1)
    <3> HIDE DEF P
    <3> QED OBVIOUS
  <2>1. P(i) /\ i + 1 \in 0..n /\ i + 1 # 0 /\ (i + 1) - 1 = i /\ i + 1 \in 1..n
    BY <1>1, <1>7
  <2> DEFINE m == g[i]
             r == s[i + 1]
             q == MergeRange(m, r)
  <2>2. g[i + 1] = q
    BY <1>5, <2>1
  <2>3. r \in MarkRange /\ r[1] \in Nat
    BY <1>4, <2>1, RangeFields
  <2>4. m \in Seq(MarkRange) /\ Separate(m) /\ Marked(m, Len(m)) = Marked(s, i)
    BY <2>1
  <2>5. Len(m) # 0 => m[Len(m)][1] <= r[1]
    <3> SUFFICES ASSUME Len(m) # 0 PROVE m[Len(m)][1] <= r[1]
      OBVIOUS
    <3>1. i \in 1..n /\ i < i + 1 /\ m[Len(m)][1] <= s[i][1]
      BY <1>1, <2>1
    <3>2. s[i][1] <= s[i + 1][1]
      BY <2>1, <3>1 DEF n
    <3>3. s[i] \in MarkRange /\ s[i][1] \in Nat
      BY <1>4, <3>1, RangeFields
    <3>4. Len(m) \in 1..Len(m) /\ m[Len(m)] \in MarkRange
      BY <2>4
    <3>5. m[Len(m)][1] \in Nat
      BY <3>4, RangeFields
    <3> HIDE DEF m
    <3> QED BY <2>3, <3>1, <3>2, <3>3, <3>5
  <2> HIDE DEF m, r
  <2>6. /\ q \in Seq(MarkRange) /\ Separate(q) /\ Len(q) # 0 /\ q[Len(q)][1] <= r[1]
        /\ Marked(q, Len(q)) = Marked(m, Len(m)) \cup {x \in Nat : r[1] <= x /\ x < r[2]}
    BY <2>3, <2>4, <2>5, MergeStep
  <2> HIDE DEF q
  <2>7. Marked(s, i + 1) = Marked(s, i) \cup {x \in Nat : r[1] <= x /\ x < r[2]}
    <3>1. \A j : j \in 1..(i + 1) <=> j \in 1..i \/ j = i + 1
      OBVIOUS
    <3> QED BY <3>1 DEF Marked, r
  <2>8. Marked(q, Len(q)) = Marked(s, i + 1)
    BY <2>4, <2>6, <2>7
  <2> QED BY <2>1, <2>2, <2>6, <2>8 DEF r
<1> HIDE DEF T
<1>8. n \in T
  BY <1>1, <1>6, <1>7, NatSetInduction
<1>9. P(n)
  BY <1>1, <1>8 DEF T
<1> QED BY <1>2, <1>9 DEF n

\* a starts before b, or together with it and ends before it.
Precedes(a, b) == a[1] < b[1] \/ (a[1] = b[1] /\ a[2] < b[2])

\* The ranges of S that come before a.
BeforeIn(S, a) == {b \in S : Precedes(b, a)}

\* The earlier of two ranges has fewer ranges before it, and all have fewer than there are.
LEMMA RankGrows ==
    ASSUME NEW S \in SUBSET MarkRange, IsFiniteSet(S), NEW a \in S
    PROVE  /\ Cardinality(BeforeIn(S, a)) \in 0..(Cardinality(S) - 1)
           /\ \A b \in S : Precedes(a, b) => Cardinality(BeforeIn(S, a)) < Cardinality(BeforeIn(S, b))
<1>1. \A b \in S : b[1] \in Nat /\ b[2] \in Nat
  BY RangeFields
<1>2. ASSUME NEW U \in SUBSET S, BeforeIn(S, a) \subseteq U, a \in U
      PROVE  Cardinality(BeforeIn(S, a)) < Cardinality(U) /\ Cardinality(BeforeIn(S, a)) \in Nat
             /\ Cardinality(U) \in Nat
  <2>1. IsFiniteSet(U)
    BY FS_Subset
  <2>2. a \notin BeforeIn(S, a)
    BY <1>1 DEF BeforeIn, Precedes
  <2>3. BeforeIn(S, a) \in SUBSET U /\ BeforeIn(S, a) # U
    BY <1>2, <2>2
  <2>4. /\ IsFiniteSet(BeforeIn(S, a)) /\ Cardinality(BeforeIn(S, a)) <= Cardinality(U)
        /\ Cardinality(U) # Cardinality(BeforeIn(S, a))
    BY <2>1, <2>3, FS_Subset
  <2>5. Cardinality(U) \in Nat /\ Cardinality(BeforeIn(S, a)) \in Nat
    BY <2>1, <2>4, FS_CardinalityType
  <2> QED BY <2>4, <2>5
<1>3. BeforeIn(S, a) \subseteq S
  BY DEF BeforeIn
<1>4. Cardinality(BeforeIn(S, a)) \in 0..(Cardinality(S) - 1)
  <2>1. Cardinality(BeforeIn(S, a)) < Cardinality(S) /\ Cardinality(BeforeIn(S, a)) \in Nat
        /\ Cardinality(S) \in Nat
    BY <1>2, <1>3
  <2> QED BY <2>1
<1>5. ASSUME NEW b \in S, Precedes(a, b)
      PROVE  Cardinality(BeforeIn(S, a)) < Cardinality(BeforeIn(S, b))
  <2>1. a \in BeforeIn(S, b) /\ BeforeIn(S, b) \in SUBSET S
    BY <1>5 DEF BeforeIn
  <2>2. BeforeIn(S, a) \subseteq BeforeIn(S, b)
    BY <1>1, <1>5 DEF BeforeIn, Precedes
  <2> QED BY <1>2, <2>1, <2>2
<1> QED BY <1>4, <1>5

\* SortRanges lists the ranges of a finite set in the order of their starts, and no other.
LEMMA SortIsRight ==
    ASSUME NEW S \in SUBSET MarkRange, IsFiniteSet(S)
    PROVE  LET s == SortRanges(S)
           IN  /\ s \in Seq(MarkRange)
               /\ {s[i] : i \in 1..Len(s)} = S
               /\ \A i, j \in 1..Len(s) : i < j => s[i][1] <= s[j][1]
<1> DEFINE n == Cardinality(S)
           rank == [a \in S |-> Cardinality(BeforeIn(S, a))]
           s == SortRanges(S)
           D == 0..(n - 1)
<1>1. n \in Nat
  BY FS_CardinalityType
<1>2. \A a \in S : a[1] \in Nat /\ a[2] \in Nat /\ a = <<a[1], a[2]>>
  BY RangeFields
<1>3. \A a \in S : rank[a] \in D /\ \A b \in S : Precedes(a, b) => rank[a] < rank[b]
  BY RankGrows
<1>4. s = [i \in 1..n |-> CHOOSE a \in S : Cardinality(BeforeIn(S, a)) = i - 1]
  BY Zenon DEF SortRanges, BeforeIn, Precedes
<1>5. \A a \in S : rank[a] = Cardinality(BeforeIn(S, a))
  OBVIOUS
<1>6. rank \in [S -> D]
  BY <1>3
<1> HIDE DEF rank, s, n
<1>7. ASSUME NEW a \in S, NEW b \in S, rank[a] = rank[b] PROVE a = b
  <2>1. ~Precedes(a, b) /\ ~Precedes(b, a)
    <3>1. rank[a] \in Int /\ rank[b] \in Int
      BY <1>3
    <3> QED BY <1>3, <1>7, <3>1
  <2>2. a[1] = b[1] /\ a[2] = b[2]
    BY <1>2, <2>1 DEF Precedes
  <2>3. a = <<a[1], a[2]>> /\ b = <<b[1], b[2]>>
    BY <1>2
  <2> QED BY <2>2, <2>3, Zenon
<1>8. IsFiniteSet(D) /\ Cardinality(D) = n
  <2>1. IsFiniteSet(D) /\ Cardinality(D) = IF 0 > n - 1 THEN 0 ELSE (n - 1) - 0 + 1
    BY <1>1, FS_Interval
  <2> QED BY <1>1, <2>1
<1>9. rank \in Surjection(S, D)
  <2>1. rank \in Injection(S, D)
    BY <1>6, <1>7, Zenon DEF Injection, IsInjective
  <2> QED BY <1>8, <2>1, FS_Injection DEF n
<1>10. \A k \in D : \E a \in S : rank[a] = k
  BY <1>9, Zenon DEF Surjection
<1>11. ASSUME NEW i \in 1..n PROVE s[i] \in S /\ rank[s[i]] = i - 1
  <2>1. i - 1 \in D
    BY <1>1
  <2>2. PICK a \in S : Cardinality(BeforeIn(S, a)) = i - 1
    BY <1>5, <1>10, <2>1
  <2>3. s[i] \in S /\ Cardinality(BeforeIn(S, s[i])) = i - 1
    BY <1>4, <2>2
  <2> QED BY <1>5, <2>3
<1>12. s \in Seq(MarkRange) /\ Len(s) = n
  <2>1. s \in [1..n -> MarkRange]
    <3>1. \A i \in 1..n : s[i] \in MarkRange
      BY <1>11
    <3>2. DOMAIN s = 1..n /\ s = [i \in 1..n |-> s[i]]
      BY <1>4
    <3> QED BY <3>1, <3>2, Zenon
  <2> QED BY <1>1, <2>1
<1>13. ASSUME NEW a \in S PROVE \E i \in 1..n : s[i] = a
  <2> DEFINE i == rank[a] + 1
  <2>1. i \in 1..n /\ i - 1 = rank[a]
    BY <1>1, <1>3
  <2> HIDE DEF i
  <2>2. s[i] \in S /\ rank[s[i]] = rank[a]
    BY <1>11, <2>1
  <2>3. s[i] = a
    BY <1>7, <2>2
  <2> QED BY <2>1, <2>3
<1>14. {s[i] : i \in 1..n} = S
  BY <1>11, <1>13
<1>15. ASSUME NEW i \in 1..n, NEW j \in 1..n, i < j PROVE s[i][1] <= s[j][1]
  <2>1. s[i] \in S /\ s[j] \in S /\ rank[s[i]] = i - 1 /\ rank[s[j]] = j - 1
    BY <1>11
  <2>2. ~Precedes(s[j], s[i])
    <3>1. Precedes(s[j], s[i]) => rank[s[j]] < rank[s[i]]
      BY <1>3, <2>1
    <3> QED BY <1>1, <1>15, <2>1, <3>1
  <2>3. s[i][1] \in Nat /\ s[j][1] \in Nat
    BY <1>2, <2>1
  <2> QED BY <2>2, <2>3 DEF Precedes
<1> QED BY <1>12, <1>14, <1>15 DEF s

\* The text of a row as one sequence of characters: what FlattenSeq takes its result from.
IsFlat(g, n, text) == g = [i \in 1..n |-> IF i = 1 THEN text[i] ELSE g[i - 1] \o text[i]]

\* There is such a function for every number of words.
LEMMA FlatExists ==
    ASSUME NEW text
    PROVE  \A n \in Nat : \E g : IsFlat(g, n, text)
<1> DEFINE T == {n \in Nat : \E g : IsFlat(g, n, text)}
<1>1. 0 \in T
  <2> DEFINE g == [i \in 1..0 |-> << >>]
  <2>1. IsFlat(g, 0, text)
    BY DEF IsFlat
  <2> QED BY <2>1
<1>2. ASSUME NEW n \in Nat, n \in T PROVE n + 1 \in T
  <2>1. PICK g : IsFlat(g, n, text)
    BY <1>2
  <2> DEFINE w(f, i) == IF i = 1 THEN text[i] ELSE f[i - 1] \o text[i]
             v == w(g, n + 1)
             h == [i \in 1..(n + 1) |-> IF i = n + 1 THEN v ELSE g[i]]
  <2>2. \A i \in 1..n : g[i] = w(g, i)
    BY <2>1 DEF IsFlat
  <2> HIDE DEF v
  <2>3. h[n + 1] = v /\ \A i \in 1..n : h[i] = g[i]
    OBVIOUS
  <2>4. h = [i \in 1..(n + 1) |-> h[i]]
    OBVIOUS
  <2> HIDE DEF h
  <2>5. ASSUME NEW i \in 1..(n + 1) PROVE h[i] = w(h, i)
    <3>1. CASE i = 1 /\ n = 0
      BY <2>3, <3>1 DEF v
    <3>2. CASE i = n + 1 /\ n # 0
      <4>1. i # 1 /\ i - 1 = n /\ n \in 1..n /\ h[n] = g[n]
        BY <2>3, <3>2
      <4> QED BY <2>3, <3>2, <4>1 DEF v
    <3>3. CASE i # n + 1 /\ i # 1
      <4>1. i \in 1..n /\ i - 1 \in 1..n
        BY <3>3
      <4> QED BY <2>2, <2>3, <3>3, <4>1
    <3>4. CASE i = 1 /\ n # 0
      <4>1. i \in 1..n
        BY <3>4
      <4> QED BY <2>2, <2>3, <3>4, <4>1
    <3> QED BY <3>1, <3>2, <3>3, <3>4
  <2> HIDE DEF w
  <2>6. h = [i \in 1..(n + 1) |-> w(h, i)]
    BY <2>4, <2>5
  <2>7. IsFlat(h, n + 1, text)
    BY <2>6 DEF IsFlat, w
  <2> QED BY <2>7
<1> HIDE DEF T
<1>3. \A n \in Nat : n \in T
  BY <1>1, <1>2, NatSetInduction
<1> QED BY <1>3 DEF T

\* The characters of a text form a sequence.
LEMMA FlattenIsSeq ==
    ASSUME NEW Char, NEW text \in Seq(Seq(Char))
    PROVE  Len(FlattenSeq(text)) \in Nat
<1> DEFINE n == Len(text)
           g == CHOOSE h : IsFlat(h, n, text)
           T == {i \in Nat : i + 1 <= n => g[i + 1] \in Seq(Char)}
<1>1. n \in Nat /\ \A i \in 1..n : text[i] \in Seq(Char)
  OBVIOUS
<1>2. CASE n = 0
  <2>1. FlattenSeq(text) = text
    BY <1>2 DEF FlattenSeq
  <2> QED BY <1>1, <2>1
<1>3. CASE n # 0
  <2>1. FlattenSeq(text) = g[n]
    BY <1>3, Zenon DEF FlattenSeq, IsFlat
  <2>2. IsFlat(g, n, text)
    BY <1>1, FlatExists
  <2> HIDE DEF g, n
  <2>3. \A i \in 1..n : g[i] = IF i = 1 THEN text[i] ELSE g[i - 1] \o text[i]
    BY <2>2 DEF IsFlat
  <2>4. 0 \in T
    <3>1. 1 \in 1..n
      BY <1>1, <1>3
    <3> QED BY <1>1, <2>3, <3>1
  <2>5. ASSUME NEW i \in Nat, i \in T PROVE i + 1 \in T
    <3> SUFFICES ASSUME (i + 1) + 1 <= n PROVE g[(i + 1) + 1] \in Seq(Char)
      OBVIOUS
    <3> DEFINE j == (i + 1) + 1
    <3>1. j \in 1..n /\ j # 1 /\ j - 1 = i + 1 /\ i + 1 <= n
      BY <1>1
    <3>2. g[i + 1] \in Seq(Char) /\ text[j] \in Seq(Char)
      BY <1>1, <2>5, <3>1
    <3>3. g[j] = g[i + 1] \o text[j]
      BY <2>3, <3>1
    <3> HIDE DEF j
    <3>4. g[j] \in Seq(Char)
      BY <3>2, <3>3
    <3> QED BY <3>4 DEF j
  <2> HIDE DEF T
  <2>6. n - 1 \in Nat /\ n - 1 \in T
    <3>1. \A i \in Nat : i \in T
      BY <2>4, <2>5, NatSetInduction
    <3>2. n - 1 \in Nat
      BY <1>1, <1>3
    <3> QED BY <3>1, <3>2
  <2>7. g[n] \in Seq(Char)
    <3>1. (n - 1) + 1 = n
      BY <1>1
    <3> QED BY <1>1, <2>6, <3>1 DEF T
  <2> QED BY <2>1, <2>7
<1> QED BY <1>2, <1>3

\* The next occurrences of a term from position i on, given those from later positions.
NextAt(g, s, term, i) ==
    IF i + Len(term) > Len(s) THEN {}
    ELSE IF SubSeq(s, i + 1, i + Len(term)) = term
         THEN {<<i, i + Len(term)>>} \cup g[i + Len(term)]
    ELSE g[i + 1]

\* The function that Occurrences takes its result from, on the positions from lo on.
IsAt(g, lo, s, term) == g = [i \in lo..Len(s) |-> NextAt(g, s, term, i)]

\* There is such a function if the term is not empty, because the search goes forward.
LEMMA AtExists ==
    ASSUME NEW s, NEW term, Len(s) \in Nat, Len(term) \in Nat \ {0}
    PROVE  \E g : IsAt(g, 0, s, term)
<1> DEFINE m == Len(s)
           k == Len(term)
           T == {d \in Nat : d <= m => \E g : IsAt(g, m - d, s, term)}
<1>0. m \in Nat /\ k \in Nat /\ k # 0
  OBVIOUS
<1>1. 0 \in T
  <2> DEFINE g == [i \in m..m |-> {}]
  <2>1. ASSUME NEW i \in m..m PROVE NextAt(g, s, term, i) = {}
    BY <1>0 DEF NextAt
  <2>2. g = [i \in m..m |-> NextAt(g, s, term, i)]
    BY <2>1
  <2>3. IsAt(g, m, s, term)
    <3> HIDE DEF g
    <3> QED BY <2>2 DEF IsAt
  <2>4. m - 0 = m
    BY <1>0
  <2> HIDE DEF g
  <2> QED BY <2>3, <2>4
<1>2. ASSUME NEW d \in Nat, d \in T PROVE d + 1 \in T
  <2> SUFFICES ASSUME d + 1 <= m PROVE \E h : IsAt(h, m - (d + 1), s, term)
    OBVIOUS
  <2> DEFINE lo == m - d
             i0 == m - (d + 1)
  <2>0. lo \in Nat /\ i0 \in Nat /\ lo = i0 + 1 /\ lo <= m
    BY <1>0
  <2>1. PICK g : IsAt(g, lo, s, term)
    BY <1>0, <1>2
  <2> HIDE DEF lo, i0, m, k
  <2> DEFINE v == NextAt(g, s, term, i0)
             h == [i \in i0..m |-> IF i = i0 THEN v ELSE g[i]]
  <2>2. \A i \in lo..m : g[i] = NextAt(g, s, term, i)
    BY <2>1 DEF IsAt, m
  <2> HIDE DEF v
  <2>3. h[i0] = v /\ \A i \in lo..m : h[i] = g[i]
    BY <1>0, <2>0
  <2>4. h = [i \in i0..m |-> h[i]]
    OBVIOUS
  <2> HIDE DEF h
  <2>5. ASSUME NEW i \in i0..m PROVE NextAt(h, s, term, i) = NextAt(g, s, term, i)
    <3>1. CASE i + k > m
      BY <3>1 DEF NextAt, k, m
    <3>2. CASE ~(i + k > m)
      <4>1. i + k \in lo..m /\ i + 1 \in lo..m
        BY <1>0, <2>0, <3>2
      <4>2. h[i + k] = g[i + k] /\ h[i + 1] = g[i + 1]
        BY <2>3, <4>1
      <4> QED BY <4>2 DEF NextAt, k
    <3> QED BY <3>1, <3>2
  <2>6. ASSUME NEW i \in i0..m PROVE h[i] = NextAt(h, s, term, i)
    <3>1. CASE i = i0
      BY <2>3, <2>5, <3>1 DEF v
    <3>2. CASE i # i0
      <4>1. i \in lo..m
        BY <1>0, <2>0, <3>2
      <4> QED BY <2>2, <2>3, <2>5, <4>1
    <3> QED BY <3>1, <3>2
  <2>7. h = [i \in i0..m |-> NextAt(h, s, term, i)]
    BY <2>4, <2>6
  <2>8. IsAt(h, i0, s, term)
    BY <2>7 DEF IsAt, m
  <2> QED BY <2>8 DEF i0
<1> HIDE DEF T
<1>3. m \in T
  BY <1>0, <1>1, <1>2, NatSetInduction
<1>4. m - m = 0 /\ m <= m
  BY <1>0
<1> QED BY <1>3, <1>4 DEF T

\* Ranges within a text of m characters.
Within(m) == {p \in MarkRange : p[2] <= m}

\* The occurrences of a term are ranges within the text.
LEMMA OccurrencesWithin ==
    ASSUME NEW text, NEW term, Len(FlattenSeq(text)) \in Nat, Len(term) \in Nat \ {0}
    PROVE  Occurrences(text, term) \subseteq Within(Len(FlattenSeq(text)))
<1> DEFINE s == FlattenSeq(text)
           m == Len(s)
           k == Len(term)
           g == CHOOSE h : IsAt(h, 0, s, term)
           T == {d \in Nat : d <= m => \A e \in 0..d : g[m - e] \subseteq Within(m)}
<1>0. m \in Nat /\ k \in Nat /\ k # 0
  OBVIOUS
<1>1. Occurrences(text, term) = g[0]
  BY Zenon DEF Occurrences, IsAt, NextAt
<1>2. IsAt(g, 0, s, term)
  BY AtExists
<1> HIDE DEF g, s
<1>3. \A i \in 0..m : g[i] = NextAt(g, s, term, i)
  BY <1>2 DEF IsAt
<1> HIDE DEF m, k
<1>4. 0 \in T
  <2>1. g[m] = {}
    <3>1. m \in 0..m /\ m + k > m
      BY <1>0
    <3>2. g[m] = NextAt(g, s, term, m)
      BY <1>3, <3>1
    <3> QED BY <3>1, <3>2 DEF NextAt, m, k
  <2>2. \A e \in 0..0 : m - e = m
    BY <1>0
  <2> QED BY <2>1, <2>2
<1>5. ASSUME NEW d \in Nat, d \in T PROVE d + 1 \in T
  <2> SUFFICES ASSUME d + 1 <= m, NEW e \in 0..(d + 1) PROVE g[m - e] \subseteq Within(m)
    OBVIOUS
  <2>1. d <= m /\ \A f \in 0..d : g[m - f] \subseteq Within(m)
    BY <1>0, <1>5
  <2>2. CASE e \in 0..d
    BY <2>1, <2>2
  <2>3. CASE e = d + 1
    <3> DEFINE i == m - e
    <3>1. i \in 0..m /\ i \in Nat
      BY <1>0, <2>3
    <3>2. g[i] = NextAt(g, s, term, i)
      BY <1>3, <3>1
    <3>3. CASE i + k > m
      BY <3>2, <3>3 DEF NextAt, k, m
    <3>4. CASE ~(i + k > m)
      <4>1. /\ (d + 1) - k \in 0..d /\ i + k = m - ((d + 1) - k)
            /\ d \in 0..d /\ i + 1 = m - d
        BY <1>0, <2>3, <3>1, <3>4
      <4>2. g[i + k] \subseteq Within(m) /\ g[i + 1] \subseteq Within(m)
        BY <2>1, <4>1
      <4>3. <<i, i + k>> \in Within(m)
        BY <1>0, <3>1, <3>4 DEF Within, MarkRange
      <4>4. g[i] = g[i + 1] \/ g[i] = {<<i, i + k>>} \cup g[i + k]
        BY <3>2, <3>4 DEF NextAt, k, m
      <4> HIDE DEF i
      <4> QED BY <4>2, <4>3, <4>4 DEF i
    <3> QED BY <3>3, <3>4
  <2> QED BY <2>2, <2>3
<1> HIDE DEF T
<1>6. m \in T
  BY <1>0, <1>4, <1>5, NatSetInduction
<1>7. m \in 0..m /\ m - m = 0 /\ m <= m
  BY <1>0
<1>8. g[0] \subseteq Within(m)
  BY <1>6, <1>7 DEF T
<1> QED BY <1>1, <1>8 DEF m, s

\* Every word of a text and of a dictionary has characters.  (With an empty word in a
\* dictionary the search of Highlight for it does not advance.)
WordsNotEmpty ==
    \E Char : /\ Text \subseteq Seq(Seq(Char) \ {<< >>})
              /\ \A o \in Option : o.customDict \subseteq Seq(Char) \ {<< >>}

\* The terms of a query are not empty then.
LEMMA TermsNotEmpty ==
    ASSUME NEW Char, Text \subseteq Seq(Seq(Char) \ {<< >>}),
           \A o \in Option : o.customDict \subseteq Seq(Char) \ {<< >>},
           NEW query \in Text, NEW cfg \in Config, NEW w \in TermsOf(Tokens(query, cfg, FALSE))
    PROVE  Len(w) \in Nat \ {0}
<1> DEFINE Word == Seq(Char) \ {<< >>}
           words == Tokenize(query) \cup {v \in cfg.customDict : HasPart(query, v)}
           long == {v \in words : Len(v) >= 2}
<1>1. query \in Seq(Word)
  OBVIOUS
<1>2. Tokenize(query) \subseteq Word
  BY <1>1 DEF Tokenize
<1>3. cfg.customDict \subseteq Word
  <2>1. CASE cfg = DefaultFTSConfig
    BY <2>1 DEF DefaultFTSConfig
  <2>2. ASSUME NEW o \in Option, cfg = parseFTSOptions(o) PROVE cfg.customDict \subseteq Word
    <3>1. cfg.customDict = o.customDict
      BY <2>2 DEF parseFTSOptions, DefaultFTSConfig
    <3> QED BY <3>1
  <2> QED BY <2>1, <2>2 DEF Config
<1>4. \A v \in Word : Len(v) \in Nat \ {0}
  OBVIOUS
<1> HIDE DEF Word
<1>5. words \subseteq Word
  BY <1>2, <1>3
<1>6. ASSUME NEW v \in Word, NEW q \in splitTerm(v) PROVE Len(q) \in Nat \ {0}
  <2>1. v \in Seq(Char) /\ Len(v) \in Nat
    BY DEF Word
  <2>2. PICK i \in 1..Len(v) : q = SubSeq(v, i, IF i < Len(v) THEN i + 1 ELSE i)
    BY <1>6 DEF splitTerm
  <2> DEFINE j == IF i < Len(v) THEN i + 1 ELSE i
  <2>3. i \in Nat /\ j \in Nat /\ 1 <= i /\ i <= j /\ j <= Len(v)
    BY <2>1
  <2> HIDE DEF j
  <2>4. Len(SubSeq(v, i, j)) = (j - i) + 1
    BY <2>1, <2>3
  <2> QED BY <2>2, <2>3, <2>4 DEF j
<1>7. ASSUME NEW k \in TokenizeWithLevels(query, cfg, FALSE) PROVE Len(k[1]) \in Nat \ {0}
  <2>1. \/ \E v \in words : k = <<v, 1>>
        \/ \E v \in long : \E p \in splitTerm(v) : k = <<p, 2>>
        \/ \E d : k = <<<<d>>, 3>>
    BY <1>7 DEF TokenizeWithLevels
  <2> HIDE DEF words, long
  <2>2. CASE \E v \in words : k = <<v, 1>>
    BY <1>4, <1>5, <2>2
  <2>3. CASE \E v \in long : \E p \in splitTerm(v) : k = <<p, 2>>
    <3>1. long \subseteq words
      BY DEF long
    <3> QED BY <1>5, <1>6, <2>3, <3>1
  <2>4. CASE \E d : k = <<<<d>>, 3>>
    BY <2>4
  <2> QED BY <2>1, <2>2, <2>3, <2>4
<1>8. ASSUME NEW k \in Tokens(query, cfg, FALSE) PROVE Len(k[1]) \in Nat \ {0}
  <2>1. CASE Len(cfg.levels) > 1
    <3>1. k \in TokenizeWithLevels(query, cfg, FALSE)
      BY <1>8, <2>1, Zenon DEF Tokens
    <3> QED BY <1>7, <3>1
  <2>2. CASE ~(Len(cfg.levels) > 1)
    <3>1. \E v \in Tokenize(query) : k = <<v, 1>>
      BY <1>8, <2>2, Zenon DEF Tokens
    <3> QED BY <1>2, <1>4, <3>1
  <2> QED BY <2>1, <2>2
<1>9. PICK k \in Tokens(query, cfg, FALSE) : w = k[1]
  BY Zenon DEF TermsOf
<1> QED BY <1>8, <1>9

\* What Highlight marks in the text of one row: for every query and index, the marks are
\* apart and cover the occurrences.
LEMMA HighlightIsRight ==
    ASSUME WordsNotEmpty, NEW x \in IndexType, NEW r \in Row, NEW query \in Text
    PROVE  LET ranges == HighlightRanges(x, r, query)
               marks == Highlight(x, r, query)
           IN  /\ \A i \in 1..(Len(marks) - 1) : marks[i][2] < marks[i + 1][1]
               /\ Covered({marks[i] : i \in 1..Len(marks)}) = Covered(ranges)
<1>1. PICK Char : /\ Text \subseteq Seq(Seq(Char) \ {<< >>})
                  /\ \A o \in Option : o.customDict \subseteq Seq(Char) \ {<< >>}
  BY DEF WordsNotEmpty
<1> DEFINE text == x.contents[r]
           m == Len(FlattenSeq(text))
           S == HighlightRanges(x, r, query)
           s == SortRanges(S)
           q == MergeRanges(s)
<1>2. text \in Text /\ x.config \in Config
  BY DEF IndexType
<1>3. m \in Nat
  <2>1. text \in Seq(Seq(Char) \ {<< >>})
    BY <1>1, <1>2
  <2>2. text \in Seq(Seq(Char))
    <3> HIDE DEF text
    <3>1. \A i \in 1..Len(text) : text[i] \in Seq(Char) \ {<< >>}
      BY <2>1
    <3>2. \A i \in 1..Len(text) : text[i] \in Seq(Char)
      BY <3>1
    <3> QED BY <2>1, <3>2
  <2> QED BY <2>2, FlattenIsSeq
<1> HIDE DEF m
<1>4. S \subseteq Within(m)
  <2>1. ASSUME NEW p \in S PROVE p \in Within(m)
    <3>1. PICK w \in TermsOf(Tokens(query, x.config, FALSE)) : p \in Occurrences(text, w)
      BY <2>1, Zenon DEF HighlightRanges
    <3>2. Len(w) \in Nat \ {0}
      BY <1>1, <1>2, TermsNotEmpty
    <3>3. Occurrences(text, w) \subseteq Within(m)
      BY <1>3, <3>2, OccurrencesWithin DEF m
    <3> QED BY <3>1, <3>3
  <2> QED BY <2>1
<1> HIDE DEF S
<1>5. S \in SUBSET MarkRange /\ IsFiniteSet(S)
  <2>1. S \subseteq MarkRange
    BY <1>4 DEF Within
  <2>2. \A p \in Within(m) : p \in (0..m) \X (0..m)
    BY <1>3 DEF Within, MarkRange
  <2>3. IsFiniteSet(0..m)
    BY <1>3, FS_Interval
  <2>4. IsFiniteSet((0..m) \X (0..m))
    BY <2>3, FS_Product
  <2> QED BY <1>4, <2>1, <2>2, <2>4, FS_Subset
<1>6. /\ s \in Seq(MarkRange) /\ {s[i] : i \in 1..Len(s)} = S
      /\ \A i, j \in 1..Len(s) : i < j => s[i][1] <= s[j][1]
  BY <1>5, SortIsRight
<1> HIDE DEF s
<1>7. q \in Seq(MarkRange) /\ Separate(q) /\ Marked(q, Len(q)) = Marked(s, Len(s))
  BY <1>6, MergeIsRight
<1> HIDE DEF q
<1>8. Covered({q[i] : i \in 1..Len(q)}) = Covered({s[i] : i \in 1..Len(s)})
  BY <1>6, <1>7, CoveredMarked
<1>9. Highlight(x, r, query) = q
  BY DEF Highlight, q, s, S
<1> QED BY <1>6, <1>7, <1>8, <1>9 DEF Separate, S

\* An answer was computed from the indexes that there are, for a query of the client.
AskedInv == answer.query \in Text /\ answer.used \subseteq {t \in Table : HasIndex(t)}

\* Highlight marks in the rows that MATCH found, in each index, exactly the characters of the
\* occurrences of the terms, with marks that do not overlap, and MATCH finds the right rows,
\* if no dictionary has an empty word.
THEOREM MatchIsSound == ASSUME WordsNotEmpty PROVE Spec => []MatchSound
<1>1. Init => AskedInv
  BY TextAssumption DEF Init, NoAnswer, AskedInv
<1>2. ASSUME FullTextInv, AskedInv, [Next]_vars PROVE AskedInv'
  <2>1. CASE UNCHANGED vars
    BY <2>1, <1>2 DEF vars, AskedInv, HasIndex
  <2>2. CASE answer' = NoAnswer
    BY <2>2, TextAssumption DEF NoAnswer, AskedInv
  <2>3. ASSUME NEW t \in Table, NEW query \in Text, NEW level \in Level, Match(t, query, level)
        PROVE  AskedInv'
    <3> DEFINE used == {u \in Table : HasIndex(u)}
    <3>1. PICK hits \in SUBSET Row :
             answer' = [table |-> t, used |-> used, query |-> query, level |-> level, hits |-> hits]
      BY <2>3, Zenon DEF Match
    <3>2. idx' = idx
      BY <2>3, Zenon DEF Match
    <3> QED BY <3>1, <3>2 DEF AskedInv, HasIndex
  <2> QED BY <2>1, <2>2, <2>3, <1>2, AnswersAreReturned
<1>3. ASSUME FullTextInv, AskedInv PROVE HighlightMarks
  <2> SUFFICES ASSUME NEW t \in answer.used, NEW r \in answer.hits
               PROVE  LET ranges == HighlightRanges(idx[t], r, answer.query)
                          marks == Highlight(idx[t], r, answer.query)
                      IN  /\ \A i \in 1..(Len(marks) - 1) : marks[i][2] < marks[i + 1][1]
                          /\ Covered({marks[i] : i \in 1..Len(marks)}) = Covered(ranges)
    BY Zenon DEF HighlightMarks
  <2>1. idx[t] \in IndexType /\ r \in Row /\ answer.query \in Text
    BY <1>3 DEF FullTextInv, TypeOK, AskedInv, HasIndex
  <2> QED BY <2>1, HighlightIsRight
<1>4. Spec => []AskedInv
  BY <1>1, <1>2, Invariant, PTL DEF Spec
<1>5. Spec => []HighlightMarks
  BY <1>3, <1>4, Invariant, PTL
<1> QED BY <1>5, MatchFindsRight, PTL DEF MatchSound

----------------------------------------------------------------------------
(* The refinement of SearchIndex.                                           *)

\* What the refinement mapping of Abstract substitutes.
docsOf == [t \in Table |-> IF HasIndex(t) THEN idx[t].documents ELSE NoIndex]
answerOf == IF Cardinality(answer.used) = 1
            THEN [table |-> CHOOSE t \in answer.used : TRUE, rows |-> answer.hits]
            ELSE [table |-> "none", rows |-> {}]

\* The documents are functions from rows to sets of terms, where there is an index.
DocsTyped ==
    /\ docsOf \in [Table -> [Row -> SUBSET Term] \cup {NoIndex}]
    /\ \A t \in Table : HasIndex(t) => docsOf[t] = idx[t].documents
                                       /\ idx[t].documents \in [Row -> SUBSET Term]
    /\ \A t \in Table : docsOf[t] # NoIndex <=> HasIndex(t)

\* The documents that the mapping gives are those of the indexes.
LEMMA DocsType == FullTextInv => DocsTyped
<1> SUFFICES ASSUME FullTextInv PROVE DocsTyped
  OBVIOUS
<1>1. \A t \in Table : HasIndex(t) => idx[t].documents \in [Row -> SUBSET Term]
  BY FieldsOfIndex DEF FullTextInv, MapsOK, HasIndex
<1> QED BY <1>1, FullTextAssumption DEF docsOf, DocsTyped

\* Between statements the abstract specification has no answer, ...
LEMMA NoAnswerIsNoSearch ==
    ASSUME answer = NoAnswer
    PROVE  answerOf = Abstract!NoSearch
<1>1. answer.used = {}
  BY DEF NoAnswer
<1>2. Cardinality(answer.used) # 1
  BY <1>1, FS_EmptySet
<1> QED BY <1>2 DEF answerOf, Abstract!NoSearch

\* ... before a step and after it.
LEMMA NoAnswerNext ==
    ASSUME answer' = NoAnswer
    PROVE  answerOf' = Abstract!NoSearch
<1>1. answer'.used = {}
  BY DEF NoAnswer
<1>2. Cardinality(answer'.used) # 1
  BY <1>1, FS_EmptySet
<1> QED BY <1>2 DEF answerOf, Abstract!NoSearch

\* Steps that leave the documents alone.
LEMMA SameDocs ==
    ASSUME idx' = idx
    PROVE  docsOf' = docsOf
  BY DEF docsOf, HasIndex

\* A statement that changes the document of one row is a Put.
LEMMA PutStep ==
    ASSUME FullTextInv, FullTextInv', NEW t \in Table, NEW r \in Row, HasIndex(t),
           idx'[t] # NoIndex, \A u \in Table \ {t} : idx'[u] = idx[u],
           NEW D, idx'[t].documents = [idx[t].documents EXCEPT ![r] = D],
           answer' = NoAnswer, restarts' = restarts
    PROVE  Abstract!Put(t, r)
<1>1. docsOf \in [Table -> [Row -> SUBSET Term] \cup {NoIndex}] /\ docsOf[t] = idx[t].documents
      /\ idx[t].documents \in [Row -> SUBSET Term] /\ docsOf[t] # NoIndex
  BY DocsType DEF DocsTyped
<1>2. /\ docsOf' \in [Table -> [Row -> SUBSET Term] \cup {NoIndex}]
      /\ docsOf'[t] = idx'[t].documents /\ idx'[t].documents \in [Row -> SUBSET Term]
      /\ docsOf'[t] # NoIndex
  <2>1. DocsTyped'
    BY DocsType, PTL
  <2> QED BY <2>1 DEF DocsTyped, HasIndex
<1>3. \A u \in Table \ {t} : docsOf'[u] = docsOf[u]
  BY DEF docsOf, HasIndex
<1>4. docsOf'[t] = [docsOf[t] EXCEPT ![r] = docsOf'[t][r]] /\ docsOf'[t][r] \subseteq Term
  BY <1>1, <1>2
<1>5. docsOf' = [docsOf EXCEPT ![t][r] = docsOf'[t][r]]
  <2> DEFINE e == docsOf'[t][r]
  <2>1. docsOf'[t] = [docsOf[t] EXCEPT ![r] = e]
    BY <1>4
  <2> HIDE DEF e
  <2>2. [docsOf EXCEPT ![t][r] = e] = [docsOf EXCEPT ![t] = [docsOf[t] EXCEPT ![r] = e]]
    OBVIOUS
  <2>3. docsOf' = [docsOf EXCEPT ![t] = docsOf'[t]]
    BY <1>1, <1>2, <1>3
  <2> QED BY <2>1, <2>2, <2>3 DEF e
<1>6. answerOf' = Abstract!NoSearch
  BY NoAnswerNext
<1> QED BY <1>1, <1>2, <1>4, <1>5, <1>6 DEF Abstract!Put, docsOf, answerOf

\* The instance of FiniteSets in the abstract specification is the one used here.
LEMMA SameCardinality == \A S : Abstract!Cardinality(S) = Cardinality(S)
  BY Zenon DEF Abstract!Cardinality, Cardinality

\* MATCH on a column with one index is a search for all terms, or for those of a level;
\* with no index, or several, the abstract specification says nothing.
LEMMA MatchStep ==
    ASSUME FullTextInv, NEW t \in Table, NEW query \in Text, NEW level \in Level,
           Match(t, query, level)
    PROVE  Abstract!Next
<1> DEFINE used == {u \in Table : HasIndex(u)}
           M(u) == SearchWithLevel(idx[u], query, level)
<1>1. PICK hits \in SUBSET Row :
         /\ used # {} => /\ \A r \in hits : \E u \in used : r \in M(u)
                         /\ \A r \in Row \ hits :
                               \E u \in used : r \notin M(u) \/ Cardinality(M(u)) > MaxHits
         /\ answer' = [table |-> t, used |-> used, query |-> query, level |-> level, hits |-> hits]
  BY Zenon DEF Match
<1>2. answer'.used = used /\ answer'.hits = hits
  BY <1>1
<1>3. idx' = idx /\ restarts' = restarts
  BY Zenon DEF Match
<1>4. docsOf' = docsOf
  BY <1>3, SameDocs
<1>5. IsFiniteSet(used)
  BY FS_Subset, FullTextAssumption
<1>6. CASE Cardinality(used) # 1
  <2>1. answerOf' = Abstract!NoSearch
    BY <1>2, <1>6 DEF answerOf, Abstract!NoSearch
  <2>2. Abstract!Forget
    BY <2>1, <1>3, <1>4 DEF Abstract!Forget, docsOf, answerOf
  <2> QED BY <2>2 DEF Abstract!Next
<1>7. CASE Cardinality(used) = 1
  <2>1. PICK u : used = {u}
    BY <1>5, <1>7, FS_Singleton
  <2>2. u \in Table /\ HasIndex(u)
    BY <2>1
  <2>3. answerOf'.table = u /\ answerOf'.rows = hits
    <3>1. answerOf' = [table |-> CHOOSE v \in used : TRUE, rows |-> hits]
      BY <1>2, <1>7 DEF answerOf
    <3>2. (CHOOSE v \in used : TRUE) = u
      BY <2>1
    <3> QED BY <3>1, <3>2
  <2>4. idx[u] \in IndexType /\ Consistent(idx[u])
    BY <2>2 DEF FullTextInv, MapsOK, IndexConsistent, HasIndex
  <2>5. docsOf[u] # NoIndex /\ docsOf[u] = idx[u].documents
    BY <2>2, DocsType DEF DocsTyped
  <2>6. /\ \A r \in hits : r \in M(u)
        /\ \A r \in Row \ hits : r \notin M(u) \/ Cardinality(M(u)) > MaxHits
    <3> HIDE DEF used, M
    <3> QED BY <1>1, <2>1
  <2>7. CASE level = 0
    <3> DEFINE terms == TermsOf(Tokens(query, idx[u].config, FALSE))
               match == {r \in Row : terms # {} /\ terms \subseteq docsOf[u][r]}
    <3>1. M(u) = Search(idx[u], query)
      BY <2>7 DEF SearchWithLevel
    <3>2. M(u) = match
      BY <2>4, <2>5, <3>1, SearchFinds
    <3>3. terms \in SUBSET Term
      BY <2>4, SearchedTerms, FieldsOfIndex
    <3> HIDE DEF terms, M
    <3>4. match = Abstract!Matching(u, terms) /\ match \subseteq Row
      BY DEF Abstract!Matching, docsOf
    <3> HIDE DEF match
    <3>5. hits \subseteq match /\ (hits = match \/ Cardinality(match) > MaxHits)
      BY <2>6, <3>2, <3>4
    <3>6. Abstract!Search(u, terms)
      BY <1>3, <1>4, <2>3, <2>5, <3>4, <3>5, SameCardinality DEF Abstract!Search, docsOf, answerOf
    <3> QED BY <2>2, <3>3, <3>6 DEF Abstract!Next
  <2>8. CASE level # 0
    <3> DEFINE terms == LevelTerms(idx[u], query, level)
               match == {r \in Row : terms # {} /\ terms \subseteq docsOf[u][r]}
    <3>1. terms \in SUBSET Term /\ M(u) \subseteq match
      BY <2>4, <2>5, <2>8, SearchLevelFinds
    <3> HIDE DEF terms, M
    <3>2. match = Abstract!Matching(u, terms)
      BY DEF Abstract!Matching, docsOf
    <3> HIDE DEF match
    <3>3. hits \subseteq match
      BY <2>6, <3>1
    <3>4. Abstract!SearchLevel(u, terms)
      BY <1>3, <1>4, <2>3, <2>5, <3>2, <3>3 DEF Abstract!SearchLevel, docsOf, answerOf
    <3> QED BY <2>2, <3>1, <3>4 DEF Abstract!Next
  <2> QED BY <2>7, <2>8
<1> QED BY <1>6, <1>7

\* The statements that change an index at all.
LEMMA PutOrSame ==
    ASSUME FullTextInv, FullTextInv', NEW t \in Table, NEW r \in Row, NEW text \in Text,
           answer = NoAnswer, answer' = NoAnswer, restarts' = restarts,
           idx' = Reindexed(t, r, text)
    PROVE  Abstract!Next \/ UNCHANGED <<docsOf, answerOf, restarts>>
<1>1. /\ \A u \in Table \ {t} : idx'[u] = idx[u]
      /\ idx'[t] = IF HasIndex(t) /\ text # << >> THEN IndexDocument(idx[t], r, text) ELSE idx[t]
      /\ HasIndex(t) => idx'[t] # NoIndex
  BY ReindexedSound
<1>2. CASE HasIndex(t) /\ text # << >>
  <2>1. idx[t] \in IndexType /\ Consistent(idx[t])
    BY <1>2 DEF FullTextInv, MapsOK, IndexConsistent, HasIndex
  <2>2. idx'[t].documents
           = [idx[t].documents EXCEPT ![r] = TermsOf(Tokens(text, idx[t].config, TRUE))]
    <3>1. IndexDocument(idx[t], r, text).documents
             = [idx[t].documents EXCEPT ![r] = TermsOf(Tokens(text, idx[t].config, TRUE))]
      BY <2>1, IndexSound
    <3>2. idx'[t] = IndexDocument(idx[t], r, text)
      BY <1>1, <1>2
    <3> QED BY <3>1, <3>2, Zenon
  <2>3. Abstract!Put(t, r)
    BY <1>1, <1>2, <2>2, PutStep
  <2> QED BY <2>3 DEF Abstract!Next
<1>3. CASE ~(HasIndex(t) /\ text # << >>)
  <2>1. idx' = idx
    BY <1>3 DEF Reindexed
  <2> QED BY <2>1, SameDocs, NoAnswerIsNoSearch, NoAnswerNext
<1> QED BY <1>2, <1>3

\* DELETE puts an empty document.
LEMMA DeleteStep ==
    ASSUME FullTextInv, FullTextInv', NEW t \in Table, NEW r \in Row, executeDelete(t, r)
    PROVE  Abstract!Next \/ UNCHANGED <<docsOf, answerOf, restarts>>
<1> DEFINE y == removeDocument(idx[t], r)
           told == HasIndex(t) /\ idx[t].spelling = "declared"
<1>1. answer = NoAnswer /\ answer' = NoAnswer /\ restarts' = restarts
      /\ idx' = (IF told THEN [idx EXCEPT ![t] = y] ELSE idx)
  BY Zenon DEF executeDelete, Statement, Idle, RowsChange
<1>2. CASE told
  <2>1. idx[t] \in IndexType /\ Consistent(idx[t]) /\ idx \in [Table -> IndexType \cup {NoIndex}]
    BY <1>2 DEF FullTextInv, MapsOK, IndexConsistent, HasIndex
  <2>2. y.documents = [idx[t].documents EXCEPT ![r] = {}] /\ y \in IndexType
    BY <2>1, RemoveSound
  <2> HIDE DEF y
  <2>3. idx'[t] = y /\ \A u \in Table \ {t} : idx'[u] = idx[u]
    BY <1>1, <1>2, <2>1
  <2>4. idx'[t] # NoIndex
    BY <2>2, <2>3, FullTextAssumption
  <2>5. Abstract!Put(t, r)
    BY <1>1, <1>2, <2>2, <2>3, <2>4, PutStep
  <2> QED BY <2>5 DEF Abstract!Next
<1>3. CASE ~told
  BY <1>1, <1>3, SameDocs, NoAnswerIsNoSearch, NoAnswerNext
<1> QED BY <1>2, <1>3

\* CREATE INDEX creates one unless there is one.
LEMMA CreateIndexStep ==
    ASSUME FullTextInv, FullTextInv', NEW t \in Table, NEW s \in Spelling, NEW n \in IndexName,
           NEW cfg \in Config, executeCreateIndex(t, s, n, cfg)
    PROVE  Abstract!Next \/ UNCHANGED <<docsOf, answerOf, restarts>>
<1>1. answer = NoAnswer /\ answer' = NoAnswer /\ restarts' = restarts
  BY DEF executeCreateIndex, Statement, Idle
<1>2. CASE HasIndex(t)
  <2>1. idx' = idx
    BY <1>2 DEF executeCreateIndex
  <2> QED BY <1>1, <2>1, SameDocs, NoAnswerIsNoSearch, NoAnswerNext
<1>3. CASE ~HasIndex(t)
  <2> DEFINE x == indexExistingRows(NewInvertedIndex(cfg, s), t)
  <2>1. idx' = [idx EXCEPT ![t] = x]
    BY <1>3 DEF executeCreateIndex
  <2>2. x \in IndexType
    BY ExistingIndexed
  <2> HIDE DEF x
  <2>3. idx \in [Table -> IndexType \cup {NoIndex}] /\ x # NoIndex
    BY <2>2, FullTextAssumption DEF FullTextInv, MapsOK
  <2>4. idx'[t] = x /\ \A u \in Table \ {t} : idx'[u] = idx[u]
    BY <2>1, <2>3
  <2>5. docsOf \in [Table -> [Row -> SUBSET Term] \cup {NoIndex}] /\ docsOf[t] = NoIndex
    BY <1>3, DocsType DEF DocsTyped
  <2>6. DocsTyped'
    BY DocsType, PTL
  <2>7. /\ docsOf' \in [Table -> [Row -> SUBSET Term] \cup {NoIndex}]
        /\ docsOf'[t] \in [Row -> SUBSET Term]
    BY <2>3, <2>4, <2>6 DEF DocsTyped, HasIndex
  <2>8. \A u \in Table \ {t} : docsOf'[u] = docsOf[u]
    BY <2>4 DEF docsOf, HasIndex
  <2>9. docsOf' = [docsOf EXCEPT ![t] = docsOf'[t]]
    BY <2>5, <2>7, <2>8
  <2>10. Abstract!Create(t)
    BY <1>1, <2>5, <2>7, <2>9, NoAnswerNext DEF Abstract!Create, docsOf, answerOf
  <2> QED BY <2>10 DEF Abstract!Next
<1> QED BY <1>2, <1>3

\* DROP INDEX drops it.
LEMMA DropIndexStep ==
    ASSUME FullTextInv, FullTextInv', NEW t \in Table, NEW s \in Spelling, executeDropIndex(t, s)
    PROVE  Abstract!Next
<1>1. answer' = NoAnswer /\ restarts' = restarts /\ HasIndex(t)
      /\ idx' = [idx EXCEPT ![t] = NoIndex]
  BY DEF executeDropIndex, Statement, Idle
<1>2. idx \in [Table -> IndexType \cup {NoIndex}]
  BY DEF FullTextInv, MapsOK
<1>3. idx'[t] = NoIndex /\ \A u \in Table \ {t} : idx'[u] = idx[u]
  BY <1>1, <1>2
<1>4. docsOf' = [docsOf EXCEPT ![t] = NoIndex] /\ docsOf[t] # NoIndex
  <2>1. docsOf \in [Table -> [Row -> SUBSET Term] \cup {NoIndex}] /\ docsOf[t] # NoIndex
    BY <1>1, DocsType DEF DocsTyped
  <2>2. docsOf'[t] = NoIndex /\ \A u \in Table \ {t} : docsOf'[u] = docsOf[u]
    BY <1>3 DEF docsOf, HasIndex
  <2>3. docsOf' \in [Table -> [Row -> SUBSET Term] \cup {NoIndex}]
    <3>1. DocsTyped'
      BY DocsType, PTL
    <3> QED BY <3>1 DEF DocsTyped
  <2> QED BY <2>1, <2>2, <2>3
<1>5. Abstract!Drop(t)
  BY <1>1, <1>4, NoAnswerNext DEF Abstract!Drop, docsOf, answerOf
<1> QED BY <1>5 DEF Abstract!Next

\* A restart restores indexes of the right kind.
LEMMA RestartStep ==
    ASSUME FullTextInv, FullTextInv', Restart
    PROVE  Abstract!Next
<1>1. restarts < MaxRestarts /\ restarts' = restarts + 1 /\ answer' = NoAnswer
  BY Zenon DEF Restart
<1>2. \A t \in Table : docsOf'[t] \in [Row -> SUBSET Term] \cup {NoIndex}
  <2>1. DocsTyped'
    BY DocsType, PTL
  <2> QED BY <2>1 DEF DocsTyped
<1>3. Abstract!Restart
  BY <1>1, <1>2, NoAnswerNext DEF Abstract!Restart, docsOf, answerOf
<1> QED BY <1>3 DEF Abstract!Next

\* Every step is one of the abstract specification or changes nothing it sees.
LEMMA StepSimulation ==
    ASSUME FullTextInv, FullTextInv', [Next]_vars
    PROVE  [Abstract!Next]_<<docsOf, answerOf, restarts>>
<1> DEFINE Goal == Abstract!Next \/ UNCHANGED <<docsOf, answerOf, restarts>>
<1>1. ASSUME NEW t \in Table, NEW text \in Text, executeInsert(t, text)
      PROVE  Goal
  <2>1. answer = NoAnswer /\ answer' = NoAnswer /\ restarts' = restarts
    BY <1>1 DEF executeInsert, Statement, Idle, RowsChange
  <2>2. PICK r \in Row : idx' = Reindexed(t, r, text)
    BY <1>1 DEF executeInsert
  <2> QED BY <2>1, <2>2, PutOrSame
<1>2. ASSUME NEW t \in Table, NEW r \in Row, NEW text \in Text, executeUpdate(t, r, text)
      PROVE  Goal
  <2>1. answer = NoAnswer /\ answer' = NoAnswer /\ restarts' = restarts
        /\ idx' = Reindexed(t, r, text)
    BY <1>2 DEF executeUpdate, Statement, Idle, RowsChange
  <2> QED BY <2>1, PutOrSame
<1>3. ASSUME NEW t \in Table, NEW r \in Row, executeDelete(t, r)
      PROVE  Goal
  BY <1>3, DeleteStep
<1>4. ASSUME NEW t \in Table, NEW s \in Spelling, NEW n \in IndexName, NEW cfg \in Config,
             executeCreateIndex(t, s, n, cfg)
      PROVE  Goal
  BY <1>4, CreateIndexStep
<1>5. ASSUME NEW t \in Table, NEW s \in Spelling, executeDropIndex(t, s)
      PROVE  Goal
  BY <1>5, DropIndexStep
<1>6. CASE Restart
  BY <1>6, RestartStep
<1>7. ASSUME NEW t \in Table, NEW query \in Text, NEW level \in Level, Match(t, query, level)
      PROVE  Goal
  BY <1>7, MatchStep
<1>8. CASE Return
  <2>1. answerOf' = Abstract!NoSearch
    BY <1>8, NoAnswerNext DEF Return
  <2>2. docsOf' = docsOf /\ restarts' = restarts
    BY <1>8, SameDocs DEF Return
  <2>3. Abstract!Forget
    BY <2>1, <2>2 DEF Abstract!Forget, docsOf, answerOf
  <2> QED BY <2>3 DEF Abstract!Next
<1>9. ASSUME idx' = idx, answer' = answer, restarts' = restarts
      PROVE  Goal
  BY <1>9, SameDocs DEF answerOf
<1>10. ASSUME NEW t \in Table, NEW text \in Text, InsertRowDirect(t, text)
       PROVE  Goal
  BY <1>9, <1>10 DEF InsertRowDirect, RowsChange
<1>11. ASSUME NEW t \in Table, executeDropTable(t) \/ executeCreateTable(t)
       PROVE  Goal
  BY <1>9, <1>11 DEF executeDropTable, executeCreateTable, RowsChange
<1>12. CASE saveFTSIndex \/ UNCHANGED vars
  BY <1>9, <1>12 DEF saveFTSIndex, vars
<1> QED BY <1>1, <1>2, <1>3, <1>4, <1>5, <1>6, <1>7, <1>8, <1>10, <1>11, <1>12, Zenon DEF Next

\* The indexes implement the abstract ones: documents are put and removed one at a time,
\* a search finds the documents that have all terms, up to the limit, and a search at a
\* level finds no others (fts.go, executor_dml.go, evalMatchAgainst).
THEOREM ImplementsAbstract == Spec => ImplementsSearchIndex
<1>1. Init => Abstract!Init
  <2> SUFFICES ASSUME Init PROVE Abstract!Init
    OBVIOUS
  <2>1. idx = [t \in Table |-> NoIndex] /\ answer = NoAnswer /\ restarts = 0
    BY DEF Init
  <2>2. docsOf = [t \in Table |-> NoIndex]
    BY <2>1 DEF docsOf, HasIndex
  <2> QED BY <2>1, <2>2, NoAnswerIsNoSearch DEF Abstract!Init, docsOf, answerOf
<1>2. FullTextInv /\ FullTextInv' /\ [Next]_vars
         => [Abstract!Next]_<<docsOf, answerOf, restarts>>
  BY StepSimulation
<1> QED BY <1>1, <1>2, Invariant, PTL DEF Spec, ImplementsSearchIndex, Abstract!Spec, docsOf, answerOf

=============================================================================
