------------------------------ MODULE MC_Query ------------------------------
(* A small instance of Query: a table t (a VARCHAR, b INT, id SEQ).         *)
EXTENDS Query

Str(s) == NewLiteralExpr(NewStringValue(s))
Int_(n) == NewLiteralExpr(NewIntValue(n))
Null == NewLiteralExpr(NewNullValue)
Bin(l, op, r) == NewBinaryExpr(l, op, r)
A == NewColumnExpr("a")
B == NewColumnExpr("b")

\* "9", "10" (numerals whose order as strings is another one), "xy", "x" and NULL.
Nine == <<57>>
Ten == <<49, 48>>
XY == <<120, 121>>
X == <<120>>

MCColumnNames == <<"a", "b", "id">>

MCRows == {<<NewNullValue, NewIntValue(2)>>, <<NewStringValue(Nine), NewIntValue(1)>>,
           <<NewStringValue(Ten), NewIntValue(2)>>, <<NewStringValue(XY), NewNullValue>>,
           <<NewStringValue(X), NewIntValue(2)>>}

Minus(l, r) == Bin(l, "-", r)

\* Conditions: every operator, and the nestings that need parentheses or must not.
Conditions ==
    {Bin(B, "=", Int_(2)), Bin(A, "<>", Str(Nine)), Bin(B, "<", Int_(2)), Bin(A, ">=", Str(Ten)),
     B, NewUnaryExpr("NOT", B), Bin(A, "=", Null),
     NewInExpr(A, <<Str(X), Null>>), NewBetweenExpr(B, Int_(1), Bin(Int_(1), "+", Int_(1))),
     Bin(Bin(NewUnaryExpr("NOT", Bin(B, "=", Int_(1))), "AND", NewBetweenExpr(A, Str(Ten), Str(X))),
         "OR", Bin(B, ">", Int_(1))),
     Bin(Bin(B, "=", Int_(1)), "AND", Bin(Bin(A, "<=", Str(X)), "OR", Bin(A, "=", Str(XY)))),
     NewUnaryExpr("NOT", Bin(Bin(A, "!=", Str(X)), "AND", Bin(B, "=", Int_(2)))),
     Bin(Minus(Minus(Int_(5), B), Int_(2)), "=", Minus(Int_(5), Minus(B, Int_(0)))),
     Bin(Bin(NewUnaryExpr("-", B), "+", Bin(Int_(5), "/", Int_(2))), ">", Int_(0)),
     Bin(Bin(A, "||", Str(X)), "=", Str(X \o X)),
     Bin(NewFunctionExpr("IF", <<B, NewFunctionExpr("ISNULL", <<A>>), Int_(1)>>), "=", Int_(1)),
     Bin(NewCaseExpr(NoExpr, <<<<Bin(B, "=", Int_(1)), A>>, <<Bin(A, "LIKE", Str(<<37>>)), Str(XY)>>>>,
                     Null), "=", Str(XY)),
     NewFunctionExpr("IS_NOT_NULL", <<NewFunctionExpr("NULLIF", <<A, Str(X)>>)>>),
     Bin(NewFunctionExpr("COALESCE", <<A, B>>), "<", Int_(10)),
     NewLiteralExpr(BoolLiteral(TRUE)), Bin(A, "IS NOT", Null), Bin(B, "%", Int_(2))}

\* LIKE 'x%', '_', '%y', 'x%y', '%0_', '' and '%%'.
Likes == {Bin(A, "LIKE", Str(p)) : p \in {<<120, 37>>, <<95>>, <<37, 121>>, <<120, 37, 121>>,
                                          <<37, 48, 95>>, << >>, <<37, 37>>}}

All == [EmptySelect EXCEPT !.from = TRUE, !.cols = <<SelectAll>>]

Orders == {<<<<A, "ASC">>>>, <<<<B, "DESC">>, <<A, "ASC">>>>, <<<<B, "ASC">>, <<NewColumnExpr("id"), "DESC">>>>,
           <<<<NewFunctionExpr("COALESCE", <<B, Int_(0)>>), "DESC">>>>}

Filtered == {[All EXCEPT !.where = c] : c \in Conditions \cup Likes}

Sorted == {[All EXCEPT !.order = o, !.where = c, !.limit = l[1], !.offset = l[2]] :
              o \in Orders, c \in {NoExpr, Bin(B, "=", Int_(2))},
              l \in {<<NoExpr, NoExpr>>, <<Int_(2), NoExpr>>, <<Int_(2), Int_(1)>>,
                     <<NoExpr, Int_(2)>>}}

Fn(f, e) == NewFunctionExpr(f, <<e>>)
Count == Fn("COUNT", NewStarExpr)

Aggregated ==
    {[All EXCEPT !.cols = c, !.where = w] :
        c \in {<<Count, Fn("COUNT", A), Fn("SUM", B), Fn("MAX", B)>>,
               <<Fn("AVG", B), Fn("MIN", A), Fn("SUM", A),
                 Fn("COUNT", NewUnaryExpr("DISTINCT", A))>>},
        w \in {NoExpr, Bin(B, "=", Int_(2))}}
    \cup
    {[All EXCEPT !.cols = c, !.group = g, !.order = o] :
        c \in {<<A, B, Count, Fn("SUM", B), Fn("MAX", B)>>}, g \in {<<"b">>, <<"b", "a">>},
        o \in {<< >>, <<<<B, "ASC">>>>}}
    \cup {[All EXCEPT !.group = <<"b">>, !.having = Bin(B, "=", Int_(2))]}

Distinguished ==
    {[All EXCEPT !.cols = c, !.distinct = TRUE] : c \in {<<A>>, <<B>>, <<B, Bin(A, "||", Str(X))>>}}

United == {[All EXCEPT !.cols = <<B>>, !.union = <<[All EXCEPT !.cols = <<A>>, !.where = B]>>],
           [All EXCEPT !.cols = <<B>>,
               !.union = <<[All EXCEPT !.cols = <<B>>, !.limit = Int_(1),
                               !.union = <<[EmptySelect EXCEPT !.cols = <<Int_(7), Null>>]>>]>>]}

MCStatements == Filtered \cup Sorted \cup Aggregated \cup Distinguished \cup United
                \cup {[EmptySelect EXCEPT !.cols = <<Bin(Int_(1), "+", Int_(1)), A>>]}

----------------------------------------------------------------------------
(* Commands: the text as a client writes it, and what it means by it.       *)

Signs_ == [s \in {"(", ")", ",", ".", "=", ";"} |->
              CASE s = "(" -> LParen [] s = ")" -> RParen [] s = "," -> Comma [] s = "." -> Dot
                [] s = "=" -> Operator("=") [] s = ";" -> Semicolon]
Lex(words) == [i \in 1..Len(words) |-> IF words[i] \in DOMAIN Signs_ THEN Signs_[words[i]]
                                        ELSE Word(words[i])]
Listed(S) == FoldSet(LAMBDA x, s : Append(s, x), << >>, S)

Cmd(text, meaning) == [text |-> text, meaning |-> meaning]
Meaning(type, name) == [EmptyStatement EXCEPT !.type = type, !.table = name]

\* UPDATE and DELETE with every condition; INSERT of rows of expressions.
Dml ==
    FlattenSeq([i \in 1..Len(Listed(Conditions)) |->
        LET c == Listed(Conditions)[i]
            where == Lex(<<"WHERE">>) \o TextOfExpr(c, 1)
        IN  <<Cmd(Lex(<<"UPDATE", "t", "SET", "a", "=", "b", ",", "b", "=">>) \o TextOfExpr(c, 1)
                      \o where \o <<Keyword("LIMIT"), Number(1)>>,
                  [Meaning("update", "t") EXCEPT !.updates = ("a" :> B) @@ ("b" :> c),
                                                 !.where = c, !.limit = Int_(1)]),
              Cmd(Lex(<<"DELETE", "FROM", "d", ".", "t">>) \o where,
                  [Meaning("delete", "t") EXCEPT !.where = c]),
              Cmd(Lex(<<"INSERT", "INTO", "u", "(", "a", ",", "b", ")", "VALUES", "(">>)
                      \o TextOfExpr(c, 1) \o Lex(<<",", "a", ")", ",", "(", "b", ",">>)
                      \o TextOfExpr(c, 1) \o <<RParen>>,
                  [Meaning("insert", "u") EXCEPT !.columns = <<"a", "b">>,
                                                 !.values = <<<<c, A>>, <<B, c>>>>])>>])
    \o <<Cmd(Lex(<<"INSERT", "INTO", "u">>) \o TextOf(All),
             [Meaning("insert", "u") EXCEPT !.select = All]),
         Cmd(Lex(<<"INSERT", "INTO", "u", "DEFAULT", "VALUES">>), Meaning("insert", "u")),
         Cmd(Lex(<<"UPDATE", "t", "SET", "a", "=", "a", ",", "a", "=", "b">>),
             [Meaning("update", "t") EXCEPT !.updates = "a" :> B])>>

\* The attributes of a column, each with the field it sets.
Attributes ==
    <<<<Lex(<<"PRIMARY", "KEY">>), "primaryKey", TRUE>>, <<Lex(<<"UNIQUE">>), "unique", TRUE>>,
      <<Lex(<<"DEFAULT">>) \o TextOfExpr(Minus(Int_(1), A), 1), "default", Minus(Int_(1), A)>>,
      <<Lex(<<"AUTO_INCREMENT">>), "autoInc", TRUE>>, <<Lex(<<"NOT", "NULL">>), "nullable", FALSE>>,
      <<Lex(<<"REFERENCES", "u">>), "references", "u">>>>

\* Up to two attributes in either order.
AttributeOrders == {o \in UNION {[1..n -> 1..6] : n \in 0..2} :
               \A i, j \in DOMAIN o : i # j => o[i] # o[j]}

ColumnOf(o) ==
    LET col == FoldLeft(LAMBDA c, i : [c EXCEPT ![Attributes[i][2]] = Attributes[i][3]],
                        [NewColumnDef EXCEPT !.name = "c", !.type = "DECIMAL", !.length = 9,
                                             !.scale = 2], o)
    IN  [col EXCEPT !.nullable = @ /\ ~col.primaryKey]

ColumnText(o) ==
    Lex(<<"c", "DECIMAL", "(">>) \o <<Number(9), Comma, Number(2), RParen>>
    \o FlattenSeq([i \in 1..Len(o) |-> Attributes[o[i]][1]])

Constraints ==
    <<[text |-> Lex(<<"PRIMARY", "KEY", "(", "a", ",", "b", ")">>),
       meaning |-> [NewConstraint EXCEPT !.type = "PRIMARY KEY", !.columns = <<"a", "b">>]],
      [text |-> Lex(<<"CONSTRAINT", "k", "FOREIGN", "KEY", "(", "a", ")", "REFERENCES", "d", ".",
                      "u", "(", "b", ")">>),
       meaning |-> [NewConstraint EXCEPT !.name = "k", !.type = "FOREIGN KEY", !.columns = <<"a">>,
                                         !.refTable = "u", !.refColumns = <<"b">>]],
      [text |-> Lex(<<"UNIQUE", "(", "a", ")">>),
       meaning |-> [NewConstraint EXCEPT !.type = "UNIQUE", !.columns = <<"a">>]],
      [text |-> Lex(<<"CHECK", "(">>) \o TextOfExpr(Bin(A, "<", B), 1) \o <<RParen>>,
       meaning |-> [NewConstraint EXCEPT !.type = "CHECK", !.expr = Bin(A, "<", B)]]>>

Tables ==
    LET orders == Listed(AttributeOrders)
        id == [NewColumnDef EXCEPT !.name = "id", !.type = "SEQ"]
    IN  [i \in 1..Len(orders) |->
            Cmd(Lex(<<"CREATE", "TABLE", "u", "(", "id", "SEQ", ",">>) \o ColumnText(orders[i])
                    \o <<RParen>>,
                [Meaning("create table", "u") EXCEPT !.columnDefs = <<id, ColumnOf(orders[i])>>])]
        \o [i \in 1..Len(Constraints) |->
               Cmd(Lex(<<"CREATE", "TABLE", "IF", "NOT", "EXISTS", "u", "(", "id", "SEQ", ",">>)
                       \o Constraints[i].text \o <<Comma>> \o ColumnText(<<5>>) \o <<RParen>>,
                   [Meaning("create table", "u") EXCEPT
                       !.ifNotExists = TRUE, !.columnDefs = <<id, ColumnOf(<<5>>)>>,
                       !.constraints = <<Constraints[i].meaning>>])]

Action(type) == [NewAlterAction EXCEPT !.type = type]
Levels == [s \in {"LEVELS"} |-> NewStringValue(Nine)]

Schema ==
    <<Cmd(Lex(<<"CREATE", "UNIQUE", "INDEX", "i", "ON", "u", "(", "a", ",", "b", ")", "USING", "FTS">>),
          [Meaning("create index", "u") EXCEPT !.indexUnique = TRUE, !.indexName = "i",
              !.indexCols = <<"a", "b">>, !.indexFullText = TRUE]),
      Cmd(Lex(<<"CREATE", "FULLTEXT", "INDEX", "ON", "u", "(", "a", ")", "WITH", "(", "LEVELS", "=">>)
              \o <<Text(Nine), Comma>> \o Lex(<<"CHINESE", "=">>) \o <<Number(1), RParen>>,
          [Meaning("create index", "u") EXCEPT !.indexCols = <<"a">>, !.indexFullText = TRUE,
              !.options = ("CHINESE" :> 1) @@ Levels]),
      Cmd(Lex(<<"CREATE", "FULLTEXT", "INDEX", "i", "ON", "u", "(", "a", ")", "WITH", "LEVELS", "=">>)
              \o <<Text(Nine)>>,
          [Meaning("create index", "u") EXCEPT !.indexName = "i", !.indexCols = <<"a">>,
              !.indexFullText = TRUE, !.options = Levels]),
      Cmd(Lex(<<"CREATE", "SCHEMA", "IF", "NOT", "EXISTS", "d">>),
          [Meaning("create database", "d") EXCEPT !.ifNotExists = TRUE]),
      Cmd(Lex(<<"DROP", "TABLE", "IF", "EXISTS", "d", ".", "u">>),
          [Meaning("drop table", "u") EXCEPT !.ifExists = TRUE]),
      Cmd(Lex(<<"DROP", "INDEX", "i", "ON", "u">>),
          [Meaning("drop index", "u") EXCEPT !.indexName = "i"]),
      Cmd(Lex(<<"DROP", "DATABASE", "IF", "EXISTS", "d">>),
          [Meaning("drop database", "d") EXCEPT !.ifExists = TRUE]),
      Cmd(Lex(<<"ALTER", "TABLE", "u", "DROP", "a", ",", "ALTER">>) \o ColumnText(<<5, 2>>),
          [Meaning("alter table", "u") EXCEPT
              !.actions = <<[Action("DROP") EXCEPT !.column = "a"],
                            [Action("MODIFY") EXCEPT !.columnDef = <<ColumnOf(<<5, 2>>)>>]>>])>>

\* Of these the parser makes something else.
Misread ==
    LET texts == <<<<"ADD", "COLUMN", "a", "INT">>, <<"ADD", "a", "INT">>, <<"DROP", "COLUMN", "a">>,
                   <<"MODIFY", "a", "INT">>, <<"RENAME", "TO", "v">>, <<"ALTER", "COLUMN", "a", "INT">>,
                   <<"RENAME", "COLUMN", "a", "TO", "b">>, <<"ADD", "PRIMARY", "KEY", "(", "a", ")">>>>
    IN  [i \in 1..Len(texts) |-> Cmd(Lex(<<"ALTER", "TABLE", "u">> \o texts[i]),
                                     Meaning("alter table", "u"))]
        \o <<Cmd(Lex(<<"BACKUP", "TO">>) \o <<Text(X)>>, Meaning("backup", ""))>>

Show(words, show, target) ==
    Cmd(Lex(<<"SHOW">> \o words), [Meaning("show", "") EXCEPT !.show = show, !.target = target])

Session ==
    <<Show(<<"GLOBAL", "FULL", "TABLES">>, "FULL TABLES", ""),
      Show(<<"FULL", "COLUMNS", "FROM", "u">>, "FULL COLUMNS", "u"), Show(<<"TABLES">>, "TABLES", ""),
      Show(<<"CREATE", "TABLE", "d", ".", "u">>, "CREATE", "u"), Show(<<"KEYS", "FROM", "u">>, "INDEX", "u"),
      Show(<<"OPEN", "TABLES", "FROM", "d", "WHERE", "a">>, "OPEN TABLES", ""),
      Show(<<"FUNCTION", "STATUS", "WHERE", "a", "=", "b">>, "FUNCTION STATUS", ""),
      Show(<<"TRIGGERS", "IN", "d", "LIKE", "a">>, "TRIGGERS", "d"),
      Show(<<"ENGINE">>, "ENGINES", ""), Show(<<"TABLE", "STATUS", "FROM", "d">>, "TABLE STATUS", "d"),
      Cmd(Lex(<<"SHOW", "TABLE", "STATUS", "LIKE">>) \o <<Text(X)>>,
          [Meaning("show", "") EXCEPT !.show = "TABLE STATUS", !.pattern = NewStringValue(X)]),
      Cmd(Lex(<<"SET", "LOG", "LEVEL", "=">>) \o <<Text(X)>>,
          [Meaning("set", "") EXCEPT !.setVar = "LOG_LEVEL", !.setValue = Str(X)]),
      Cmd(Lex(<<"SET", "USER">>) \o TextOfExpr(NewUnaryExpr("-", B), 1),
          [Meaning("set", "") EXCEPT !.setVar = "USER", !.setValue = NewUnaryExpr("-", B)]),
      Cmd(Lex(<<"USE", "d">>), Meaning("use", "d")), Cmd(Lex(<<"DESC", "d", ".", "u">>), Meaning("describe", "u")),
      Cmd(Lex(<<"BACKUP">>) \o <<Text(X)>>,
          [Meaning("backup", "") EXCEPT !.path = NewStringValue(X)]),
      Cmd(Lex(<<"RESTORE", "FROM">>) \o <<Text(X)>>,
          [Meaning("restore", "") EXCEPT !.path = NewStringValue(X)]),
      Cmd(Lex(<<"BEGIN", "TRANSACTION">>), Meaning("begin", "")),
      Cmd(Lex(<<"START", "TRANSACTION">>), Meaning("begin", "")),
      Cmd(Lex(<<"COMMIT">>), Meaning("commit", "")), Cmd(Lex(<<"ROLLBACK">>), Meaning("rollback", ""))>>

MCCommands == Dml \o Tables \o Schema \o Misread \o Session
=============================================================================
