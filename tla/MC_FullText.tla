---------------------------- MODULE MC_FullText ----------------------------
EXTENDS FullText

\* Texts: the empty one, one word, and that word with another that overlaps it.
const_Text == {<< >>, <<<<"a", "b">>>>, <<<<"a", "b">>, Space, <<"b", "c", "a">>>>}

\* One index with two levels (9 is no level) and positions, a word of the dictionary
\* and a synonym.
const_Option == {[levels |-> <<1, 9, 2>>, minTermLen |-> 0, storePos |-> TRUE,
                  customDict |-> {<<"c", "a">>}, synonyms |-> {<<<<"a", "b">>, <<"x">>>>}]}
\* indexRows is what indexing the rows one after the other makes of a new index, for
\* every content of the rows.
ASSUME RowByRow ==
    \A cfg \in Config : \A texts \in [Row -> Text \cup {NoRow}] :
        LET Add(x, r) == IF texts[r] \in {NoRow, << >>} THEN x
                         ELSE IndexDocument(x, r, texts[r])
            new == NewInvertedIndex(cfg, "declared")
        IN  indexRows(new, texts) = FoldLeft(Add, new, [r \in Row |-> r])
=============================================================================
